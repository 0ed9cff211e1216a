--------------------------- MODULE ScheduleProofs ---------------------------
(***************************************************************************)
(* Theorems about ScheduleService, for any number of schedules, any        *)
(* expressions and any length of the run.                                  *)
(*                                                                         *)
(* The argument: a run is enqueued no earlier than the occurrence it       *)
(* stands for, and the planner then moves the schedule beyond the present. *)
(* Every other way in which a schedule becomes active plans it beyond the  *)
(* present too, so the next run of an active schedule is always later than *)
(* the moment of every earlier one.                                        *)
(***************************************************************************)
EXTENDS ScheduleService, TLAPS

(* Runs are not enqueued before their occurrence, nor in the future. *)
RunsInPast ==
  \A r \in runs : r.for <= r.enqueued /\ r.enqueued <= clock

IInv ==
  /\ TypeOK
  /\ ActiveIsPlanned
  /\ RunsInPast
  /\ NextIsNew
  /\ OneCatchUp

LEMMA TimeIsInt == Time \subseteq Int /\ None \in Int /\ None \notin Time
  BY SizesAssumption DEF Time, None

LEMMA RunFields ==
  ASSUME TypeOK, NEW r \in runs
  PROVE  /\ r.schedule \in Schedules /\ r.for \in Time /\ r.enqueued \in Time
         /\ r.for \in Int /\ r.enqueued \in Int
<1>1. r \in [schedule : Schedules, for : Time, enqueued : Time]
  BY DEF TypeOK
<1> QED BY <1>1, TimeIsInt

(* A plan that an administrator makes lies in the future. *)
LEMMA PlanKeeps ==
  ASSUME IInv, NEW s \in Schedules, NEW e \in SUBSET Time, Plan(s, e),
         UNCHANGED <<clock, runs>>
  PROVE  /\ status' \in [Schedules -> Statuses]
         /\ expr' \in [Schedules -> SUBSET Time]
         /\ next' \in [Schedules -> Time \cup {None}]
         /\ ActiveIsPlanned' /\ RunsInPast' /\ NextIsNew' /\ OneCatchUp'
<1>1. PICK n \in e : /\ IsNextRun(e, clock, n)
                     /\ next' = [next EXCEPT ![s] = n]
                     /\ expr' = [expr EXCEPT ![s] = e]
                     /\ status' = [status EXCEPT ![s] = "active"]
  BY DEF Plan
<1>2. n > clock /\ n \in Time
  BY <1>1, TimeIsInt DEF IsNextRun, IInv, TypeOK
<1>3. status' \in [Schedules -> Statuses]
  BY <1>1 DEF IInv, TypeOK, Statuses
<1>4. expr' \in [Schedules -> SUBSET Time] /\ next' \in [Schedules -> Time \cup {None}]
  BY <1>1, <1>2 DEF IInv, TypeOK
<1>5. ActiveIsPlanned'
  BY <1>1 DEF IInv, TypeOK, ActiveIsPlanned
<1>6. RunsInPast' /\ OneCatchUp'
  BY DEF IInv, RunsInPast, OneCatchUp
<1>7. NextIsNew'
  <2> SUFFICES ASSUME NEW r \in runs, status'[r.schedule] = "active"
               PROVE  next'[r.schedule] > r.enqueued /\ r.enqueued >= r.for
    BY DEF NextIsNew
  <2>1. r.schedule \in Schedules /\ r.for \in Int /\ r.enqueued \in Int
    BY RunFields DEF IInv
  <2>2. r.for <= r.enqueued /\ r.enqueued <= clock /\ clock \in Int /\ n \in Int
    BY <1>2, TimeIsInt DEF IInv, RunsInPast, TypeOK
  <2>3. CASE r.schedule = s
    <3>1. next'[s] = n
      BY <1>1 DEF IInv, TypeOK
    <3> QED BY <1>2, <2>1, <2>2, <2>3, <3>1
  <2>4. CASE r.schedule # s
    <3>1. status'[r.schedule] = status[r.schedule] /\ next'[r.schedule] = next[r.schedule]
      BY <1>1, <2>1, <2>4 DEF IInv, TypeOK
    <3> QED BY <3>1 DEF IInv, NextIsNew
  <2> QED BY <2>3, <2>4
<1> QED BY <1>3, <1>4, <1>5, <1>6, <1>7

(* Where the planner moves a schedule on, it is beyond the present or it   *)
(* is completed.                                                           *)
LEMMA AdvanceKeeps ==
  ASSUME IInv, NEW s \in Schedules, Due(s), Advance(s), UNCHANGED expr
  PROVE  /\ status' \in [Schedules -> Statuses]
         /\ next' \in [Schedules -> Time \cup {None}]
         /\ ActiveIsPlanned'
         /\ status'[s] = "active" => next'[s] > clock
         /\ \A r \in runs : status'[r.schedule] = "active" =>
              next'[r.schedule] > r.enqueued /\ r.enqueued >= r.for
<1>1. PICK n \in expr[s] \cup {None} :
        /\ IsNextRun(expr[s], clock, n)
        /\ next' = [next EXCEPT ![s] = n]
        /\ status' = [status EXCEPT ![s] = IF n = None THEN "completed" ELSE @]
  BY DEF Advance
<1>2. n # None => n > clock /\ n \in expr[s]
  BY <1>1, TimeIsInt DEF IsNextRun
<1>3. n \in Time \cup {None}
  BY <1>1 DEF IInv, TypeOK
<1>4. status' \in [Schedules -> Statuses]
  BY <1>1 DEF IInv, TypeOK, Statuses
<1>5. next' \in [Schedules -> Time \cup {None}]
  BY <1>1, <1>3 DEF IInv, TypeOK
<1>6. \A t \in Schedules \ {s} : status'[t] = status[t] /\ next'[t] = next[t]
  BY <1>1 DEF IInv, TypeOK
<1>7. status'[s] = "active" => n # None
  BY <1>1 DEF IInv, TypeOK
<1>8. next'[s] = n
  BY <1>1 DEF IInv, TypeOK
<1>9. ActiveIsPlanned'
  BY <1>2, <1>6, <1>7, <1>8 DEF IInv, ActiveIsPlanned
<1>10. ASSUME NEW r \in runs, status'[r.schedule] = "active"
       PROVE  next'[r.schedule] > r.enqueued /\ r.enqueued >= r.for
  <2>1. r.schedule \in Schedules /\ r.for \in Int /\ r.enqueued \in Int
    BY RunFields DEF IInv
  <2>2. r.for <= r.enqueued /\ r.enqueued <= clock /\ clock \in Int /\ n \in Int
    BY <1>3, TimeIsInt DEF IInv, RunsInPast, TypeOK
  <2>3. CASE r.schedule = s
    BY <1>2, <1>7, <1>8, <1>10, <2>1, <2>2, <2>3
  <2>4. CASE r.schedule # s
    BY <1>6, <1>10, <2>1, <2>4 DEF IInv, NextIsNew
  <2> QED BY <2>3, <2>4
<1> QED BY <1>2, <1>4, <1>5, <1>7, <1>8, <1>9, <1>10

(* enqueue never meets UNIQUE(schedule_id, scheduled_for). *)
LEMMA OccurrenceIsNew ==
  ASSUME IInv, NEW s \in Schedules, Due(s), NEW u \in ScheduledOccurrence(s)
  PROVE  /\ u \in Time /\ u <= clock
         /\ \A r \in runs : r.schedule = s => r.enqueued < u
         /\ ~Ran(s, u)
<1>1. next[s] \in Time /\ clock \in Time /\ next[s] <= clock /\ status[s] = "active"
  BY DEF Due, IInv, TypeOK
<1>2. u \in Time /\ next[s] <= u /\ u <= clock
  BY <1>1, TimeIsInt DEF ScheduledOccurrence, IInv, TypeOK
<1>3. \A r \in runs : r.schedule = s => r.enqueued < u /\ r.for \in Time /\ r.enqueued \in Time
  <2> SUFFICES ASSUME NEW r \in runs, r.schedule = s
               PROVE  r.enqueued < u /\ r.for \in Time /\ r.enqueued \in Time
    OBVIOUS
  <2>1. r.for \in Time /\ r.enqueued \in Time /\ r.enqueued \in Int
    BY RunFields DEF IInv
  <2>2. next[s] > r.enqueued
    BY <1>1 DEF IInv, NextIsNew
  <2>3. next[s] \in Int /\ u \in Int
    BY <1>1, <1>2, TimeIsInt
  <2> QED BY <1>2, <2>1, <2>2, <2>3
<1>4. ~Ran(s, u)
  <2> SUFFICES ASSUME NEW r \in runs, r.schedule = s, r.for = u PROVE FALSE
    BY DEF Ran
  <2>1. r.for <= r.enqueued
    BY DEF IInv, RunsInPast
  <2>2. r.enqueued < u /\ r.enqueued \in Int /\ u \in Int
    BY <1>2, <1>3, TimeIsInt
  <2> QED BY <2>1, <2>2
<1> QED BY <1>2, <1>3, <1>4

LEMMA InitInv == Init => IInv
<1> SUFFICES ASSUME Init PROVE IInv
  OBVIOUS
<1>1. clock \in Time
  BY SizesAssumption DEF Init, Time
<1>2. /\ status \in [Schedules -> Statuses]
      /\ expr \in [Schedules -> SUBSET Time]
      /\ next \in [Schedules -> Time \cup {None}]
  BY DEF Init, Statuses
<1>3. TypeOK
  <2>1. /\ skipped \in [Schedules -> Nat]
        /\ inFlight \in [Schedules -> 0..1]
        /\ deliverable \in [Schedules -> BOOLEAN]
        /\ actor \in [Schedules -> BOOLEAN]
    BY DEF Init
  <2>2. runs \subseteq [schedule : Schedules, for : Time, enqueued : Time]
        /\ pumping \in BOOLEAN
    BY DEF Init
  <2> QED BY <1>1, <1>2, <2>1, <2>2 DEF TypeOK
<1>4. ActiveIsPlanned /\ RunsInPast /\ NextIsNew /\ OneCatchUp
  BY DEF Init, ActiveIsPlanned, RunsInPast, NextIsNew, OneCatchUp
<1> QED BY <1>3, <1>4 DEF IInv

LEMMA StepInv == IInv /\ [Next]_vars => IInv'
<1> SUFFICES ASSUME IInv, [Next]_vars PROVE IInv'
  OBVIOUS
<1> USE DEF IInv
<1>1. ASSUME NEW s \in Schedules, NEW e \in Expressions, Create(s, e) \/ Update(s, e)
      PROVE  IInv'
  <2>1. e \in SUBSET Time
    BY SizesAssumption DEF Time
  <2>2. Plan(s, e) /\ UNCHANGED <<clock, runs, skipped, inFlight, pumping, world>>
    BY <1>1 DEF Create, Update, Edit
  <2> QED BY <2>1, <2>2, PlanKeeps DEF TypeOK, world
<1>2. ASSUME NEW s \in Schedules, Resume(s) PROVE IInv'
  <2>1. expr[s] \in SUBSET Time
    BY DEF TypeOK
  <2>2. Plan(s, expr[s]) /\ UNCHANGED <<clock, runs, skipped, inFlight, pumping, world>>
    BY <1>2 DEF Resume, Update, Edit
  <2> QED BY <2>1, <2>2, PlanKeeps DEF TypeOK, world
<1>3. ASSUME NEW s \in Schedules, Pause(s) \/ Remove(s) \/ Block(s) PROVE IInv'
  <2>1. UNCHANGED <<clock, expr, skipped, runs, inFlight, pumping, world>>
    BY <1>3 DEF Pause, Remove, Block
  <2>2. /\ \E st \in Statuses \ {"active"} : status' = [status EXCEPT ![s] = st]
        /\ next' = next \/ next' = [next EXCEPT ![s] = None]
    BY <1>3 DEF Pause, Remove, Block, Statuses
  <2>3. PICK st \in Statuses \ {"active"} : status' = [status EXCEPT ![s] = st]
    BY <2>2
  <2>4. status' \in [Schedules -> Statuses] /\ next' \in [Schedules -> Time \cup {None}]
    BY <2>2, <2>3 DEF TypeOK
  <2>5. \A t \in Schedules : status'[t] = "active" =>
          status[t] = "active" /\ next'[t] = next[t]
    BY <2>2, <2>3 DEF TypeOK
  <2>6. TypeOK'
    BY <2>1, <2>4 DEF TypeOK, world
  <2>7. ActiveIsPlanned'
    BY <2>1, <2>5 DEF ActiveIsPlanned
  <2>8. NextIsNew'
    BY <2>1, <2>5 DEF NextIsNew, TypeOK
  <2> QED BY <2>1, <2>6, <2>7, <2>8 DEF RunsInPast, OneCatchUp
<1>4. ASSUME NEW s \in Schedules, Skip(s) PROVE IInv'
  <2>1. Due(s) /\ Advance(s) /\ UNCHANGED <<clock, expr, runs, inFlight, pumping, world>>
    BY <1>4 DEF Skip, FirstDue
  <2>2. skipped' \in [Schedules -> Nat]
    BY <1>4 DEF Skip, TypeOK
  <2>3. TypeOK' /\ ActiveIsPlanned'
    BY <2>1, <2>2, AdvanceKeeps DEF TypeOK, world
  <2>4. NextIsNew'
    BY <2>1, AdvanceKeeps DEF NextIsNew
  <2> QED BY <2>1, <2>3, <2>4 DEF RunsInPast, OneCatchUp
<1>5. ASSUME NEW s \in Schedules, Fire(s) PROVE IInv'
  <2>1. Due(s) /\ Advance(s) /\ UNCHANGED <<clock, expr, skipped, pumping, world>>
    BY <1>5 DEF Fire, FirstDue
  <2>2. PICK u \in ScheduledOccurrence(s) :
          runs' = runs \cup {[schedule |-> s, for |-> u, enqueued |-> clock]}
    BY <1>5 DEF Fire
  <2>3. /\ u \in Time /\ u <= clock
        /\ \A r \in runs : r.schedule = s => r.enqueued < u
    BY <2>1, OccurrenceIsNew
  <2>4. clock \in Time /\ clock \in Int /\ inFlight' \in [Schedules -> 0..1]
    BY <1>5, TimeIsInt DEF Fire, TypeOK
  <2>5. runs' \subseteq [schedule : Schedules, for : Time, enqueued : Time]
    BY <2>2, <2>3, <2>4 DEF TypeOK
  <2>6. TypeOK' /\ ActiveIsPlanned'
    BY <2>1, <2>4, <2>5, AdvanceKeeps DEF TypeOK, world
  <2>7. RunsInPast'
    BY <2>1, <2>2, <2>3, <2>4 DEF RunsInPast
  <2>8. NextIsNew'
    <3> SUFFICES ASSUME NEW r \in runs', status'[r.schedule] = "active"
                 PROVE  next'[r.schedule] > r.enqueued /\ r.enqueued >= r.for
      BY DEF NextIsNew
    <3>1. CASE r \in runs
      BY <2>1, <3>1, AdvanceKeeps
    <3>2. CASE r = [schedule |-> s, for |-> u, enqueued |-> clock]
      <4>1. r.schedule = s /\ r.for = u /\ r.enqueued = clock
        BY <3>2
      <4>2. status'[s] = "active" => next'[s] > clock
        BY <2>1, AdvanceKeeps
      <4> QED BY <2>3, <2>4, <4>1, <4>2, TimeIsInt
    <3> QED BY <2>2, <3>1, <3>2
  <2>9. OneCatchUp'
    BY <2>1, <2>2, <2>3 DEF OneCatchUp
  <2> QED BY <2>6, <2>7, <2>8, <2>9
<1>6. ASSUME NEW s \in Schedules, Trigger(s) \/ TaskSettles(s) PROVE IInv'
  <2>1. UNCHANGED <<clock, rows, runs, pumping, world>>
    BY <1>6 DEF Trigger, TaskSettles
  <2>2. inFlight' \in [Schedules -> 0..1]
    BY <1>6 DEF Trigger, TaskSettles, TypeOK
  <2> QED BY <2>1, <2>2
       DEF rows, world, TypeOK, ActiveIsPlanned, RunsInPast, NextIsNew, OneCatchUp
<1>7. ASSUME NEW s \in Schedules, Unbind(s) \/ Rebind(s) PROVE IInv'
  <2>1. UNCHANGED <<clock, rows, runs, inFlight, pumping, deliverable, restarts>>
    BY <1>7 DEF Unbind, Rebind
  <2>2. actor' \in [Schedules -> BOOLEAN]
    BY <1>7 DEF Unbind, Rebind, TypeOK
  <2> QED BY <2>1, <2>2
       DEF rows, TypeOK, ActiveIsPlanned, RunsInPast, NextIsNew, OneCatchUp
<1>8. CASE Tick
  <2>1. clock' \in Time /\ clock' = clock + 1
        /\ UNCHANGED <<rows, runs, inFlight, pumping, world>>
    BY <1>8, SizesAssumption DEF Tick, TypeOK, Time
  <2>2. RunsInPast'
    <3> SUFFICES ASSUME NEW r \in runs PROVE r.for <= r.enqueued /\ r.enqueued <= clock'
      BY <2>1 DEF rows, RunsInPast
    <3>1. r.enqueued \in Int /\ clock \in Int
      BY RunFields, TimeIsInt DEF TypeOK
    <3> QED BY <2>1, <3>1 DEF RunsInPast
  <2> QED BY <2>1, <2>2
       DEF rows, world, TypeOK, ActiveIsPlanned, NextIsNew, OneCatchUp
<1>9. ASSUME StartPump \/ EndPump \/ Restart \/ \E s \in Schedules : FailDue(s)
      PROVE  IInv'
  <2>1. UNCHANGED <<clock, rows, runs, inFlight, actor>>
    BY <1>9 DEF StartPump, EndPump, Restart, FailDue, world
  <2>2. pumping' \in BOOLEAN /\ deliverable' \in [Schedules -> BOOLEAN]
    BY <1>9 DEF StartPump, EndPump, Restart, FailDue, world, TypeOK
  <2> QED BY <2>1, <2>2
       DEF rows, TypeOK, ActiveIsPlanned, RunsInPast, NextIsNew, OneCatchUp
<1>10. CASE UNCHANGED vars
  BY <1>10
     DEF vars, rows, world, TypeOK, ActiveIsPlanned, RunsInPast, NextIsNew, OneCatchUp
<1> QED
  BY <1>1, <1>2, <1>3, <1>4, <1>5, <1>6, <1>7, <1>8, <1>9, <1>10 DEF Next, ProcessDue

(* The inductive invariant, with it type correctness. *)
THEOREM Inductive == Spec => []IInv
  BY InitInv, StepInv, PTL DEF Spec

(* An active schedule always has a next run, an occurrence of its          *)
(* expression (update, setStatus and advance of ScheduleService).          *)
THEOREM ActivePlanned == Spec => []ActiveIsPlanned
<1>1. IInv => ActiveIsPlanned
  BY DEF IInv
<1> QED BY <1>1, Inductive, PTL

(* An active schedule is planned beyond everything it has run.             *)
THEOREM PlannedAhead == Spec => []NextIsNew
<1>1. IInv => NextIsNew
  BY DEF IInv
<1> QED BY <1>1, Inductive, PTL

(* Missed occurrences are caught up by one run (processDue).               *)
THEOREM Coalesced == Spec => []OneCatchUp
<1>1. IInv => OneCatchUp
  BY DEF IInv
<1> QED BY <1>1, Inductive, PTL

(* The planner never tries to enqueue an occurrence a second time, which   *)
(* UNIQUE(schedule_id, scheduled_for) would answer with an exception.      *)
THEOREM NeverRepeated ==
  Spec => [](\A s \in Schedules : Due(s) => \A u \in ScheduledOccurrence(s) : ~Ran(s, u))
<1>1. IInv => \A s \in Schedules : Due(s) => \A u \in ScheduledOccurrence(s) : ~Ran(s, u)
  BY OccurrenceIsNew
<1> QED BY <1>1, Inductive, PTL

=============================================================================
