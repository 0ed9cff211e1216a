-------------------------- MODULE ScheduleService --------------------------
(***************************************************************************)
(* Scheduled tasks (src/schedule/service.ts): the definitions that an      *)
(* administrator edits, and the planner that turns due ones into queued    *)
(* tasks.                                                                  *)
(*                                                                         *)
(* Time is a counter of ticks.  An expression is the set of ticks at which *)
(* it fires: a cron is such a set, and a one-shot time is a singleton, for *)
(* which the code's two kinds do the same.  Schedules are numbered in the  *)
(* order of created_at.  The scheduled_for of a manual run is the          *)
(* millisecond of the call and never an occurrence, so no row of runs      *)
(* stands for it.  The code trusts its clock, and so does this module: the *)
(* clock does not step back.                                               *)
(***************************************************************************)
EXTENDS Integers, FiniteSets

CONSTANTS
  NumSchedules,   \* how many schedules are created
  Expressions,    \* the expressions an administrator may give
  MaxTime,        \* bound of the clock
  MaxEdits,       \* bound of the commands of an administrator
  MaxRestarts     \* bound of the restarts of the process

ASSUME SizesAssumption ==
  /\ NumSchedules \in Nat
  /\ MaxTime \in Nat
  /\ Expressions \subseteq SUBSET (0..MaxTime)

Schedules == 1..NumSchedules
Time == 0..MaxTime
None == -1        \* next_run_at IS NULL

VARIABLES
  clock,        \* new Date()
  status,       \* schedules.status; "none" before create, "removed" with removed_at
  expr,         \* schedules.schedule_expression and timezone
  next,         \* schedules.next_run_at
  skipped,      \* schedules.skipped_run_count
  runs,         \* schedule_runs: schedule, scheduled_for, enqueued_at
  inFlight,     \* tasks of execution_key schedule:<id> that are not settled
  deliverable,  \* requireSpace and requireExecutable pass
  actor,        \* principalActor finds the identity of the schedule's principal
  pumping,      \* SchedulePlanner.running
  edits,        \* commands so far
  restarts

rows == <<status, expr, next, skipped>>
world == <<deliverable, actor, restarts>>
vars == <<clock, rows, runs, inFlight, pumping, edits, world>>

Statuses == {"none", "active", "paused", "completed", "blocked", "removed"}

Init ==
  /\ clock = 0
  /\ status = [s \in Schedules |-> "none"]
  /\ expr = [s \in Schedules |-> {}]
  /\ next = [s \in Schedules |-> None]
  /\ skipped = [s \in Schedules |-> 0]
  /\ runs = {}
  /\ inFlight = [s \in Schedules |-> 0]
  /\ deliverable = [s \in Schedules |-> TRUE]
  /\ actor = [s \in Schedules |-> TRUE]
  /\ pumping = FALSE
  /\ edits = 0
  /\ restarts = 0

(* Variant: an occurrence at the very moment counts as a next one. *)
IsNextRunAtOnce(e, t, n) ==
  \/ n \in e /\ n >= t /\ \A u \in e : u >= t => n <= u
  \/ n = None /\ \A u \in e : u < t

(* Cron.nextRun, and the check of a one-shot time: the first occurrence    *)
(* after t, if there is one.                                               *)
IsNextRun(e, t, n) ==
  \/ n \in e /\ n > t /\ \A u \in e : u > t => n <= u
  \/ n = None /\ \A u \in e : u <= t

(* require *)
Exists(s) == status[s] \notin {"none", "removed"}

---------------------------------------------------------------------------
(* The operations of an administrator.  The pump is one synchronous loop:  *)
(* nothing but the clock and a crash gets between its steps.               *)

Edit ==
  /\ ~pumping
  /\ edits < MaxEdits
  /\ edits' = edits + 1

(* parseSchedule and the row it is written to: rejects an expression that  *)
(* has no occurrence left.                                                 *)
Plan(s, e) ==
  \E n \in e :
    /\ IsNextRun(e, clock, n)
    /\ next' = [next EXCEPT ![s] = n]
    /\ expr' = [expr EXCEPT ![s] = e]
    /\ status' = [status EXCEPT ![s] = "active"]

Create(s, e) ==
  /\ Edit
  /\ status[s] = "none"
  /\ \A t \in 1..(s - 1) : status[t] # "none"
  /\ deliverable[s] /\ actor[s]
  /\ Plan(s, e)
  /\ UNCHANGED <<clock, skipped, runs, inFlight, pumping, world>>

(* update with a new time, cron or time zone; other updates change no      *)
(* state that is modelled.                                                 *)
Update(s, e) ==
  /\ Edit
  /\ Exists(s) /\ deliverable[s]
  /\ Plan(s, e)
  /\ UNCHANGED <<clock, skipped, runs, inFlight, pumping, world>>

Resume(s) == Update(s, expr[s])

Pause(s) ==
  /\ Edit
  /\ Exists(s)
  /\ status' = [status EXCEPT ![s] = "paused"]
  /\ UNCHANGED <<clock, expr, next, skipped, runs, inFlight, pumping, world>>

Remove(s) ==
  /\ Edit
  /\ Exists(s)
  /\ status' = [status EXCEPT ![s] = "removed"]
  /\ next' = [next EXCEPT ![s] = None]
  /\ UNCHANGED <<clock, expr, skipped, runs, inFlight, pumping, world>>

Trigger(s) ==
  /\ Edit
  /\ Exists(s) /\ status[s] # "blocked"
  /\ deliverable[s] /\ actor[s]
  /\ inFlight[s] = 0
  /\ inFlight' = [inFlight EXCEPT ![s] = 1]
  /\ UNCHANGED <<clock, rows, runs, pumping, world>>

---------------------------------------------------------------------------
(* SchedulePlanner.pump and ScheduleService.processDue.                    *)

Due(s) == status[s] = "active" /\ next[s] # None /\ next[s] <= clock

(* ORDER BY next_run_at, created_at LIMIT 1 *)
FirstDue(s) ==
  /\ Due(s)
  /\ \A t \in Schedules :
       Due(t) => next[s] < next[t] \/ (next[s] = next[t] /\ s <= t)

(* The last occurrence so far; within the last second before a further one *)
(* previousRuns returns that one, and the code falls back to next_run_at.  *)
ScheduledOccurrence(s) ==
  {u \in expr[s] : /\ next[s] <= u /\ u <= clock
                   /\ \A v \in expr[s] : v <= clock => v <= u}
  \cup {u \in {next[s]} : clock + 1 \in expr[s]}

(* For FireBacklog: the next occurrence is counted from the one due. *)
AdvanceFromDue(s) ==
  \E n \in expr[s] \cup {None} :
    /\ IsNextRun(expr[s], next[s], n)
    /\ next' = [next EXCEPT ![s] = n]
    /\ status' = [status EXCEPT ![s] = IF n = None THEN "completed" ELSE @]

(* advance: a schedule without a further occurrence is completed. *)
Advance(s) ==
  \E n \in expr[s] \cup {None} :
    /\ IsNextRun(expr[s], clock, n)
    /\ next' = [next EXCEPT ![s] = n]
    /\ status' = [status EXCEPT ![s] = IF n = None THEN "completed" ELSE @]

Ran(s, u) == \E r \in runs : r.schedule = s /\ r.for = u

StartPump ==
  /\ ~pumping
  /\ pumping' = TRUE
  /\ UNCHANGED <<clock, rows, runs, inFlight, edits, world>>

(* Variant: a target that cannot be delivered to is left to the next pump. *)
BlockNot(s) ==
  /\ pumping /\ FirstDue(s)
  /\ ~deliverable[s]
  /\ pumping' = FALSE
  /\ UNCHANGED <<clock, rows, runs, inFlight, edits, world>>

Block(s) ==
  /\ pumping /\ FirstDue(s)
  /\ ~deliverable[s]
  /\ status' = [status EXCEPT ![s] = "blocked"]
  /\ next' = [next EXCEPT ![s] = None]
  /\ UNCHANGED <<clock, expr, skipped, runs, inFlight, pumping, edits, world>>

Skip(s) ==
  /\ pumping /\ FirstDue(s)
  /\ deliverable[s]
  /\ inFlight[s] > 0
  /\ Advance(s)
  /\ skipped' = [skipped EXCEPT ![s] = @ + 1]
  /\ UNCHANGED <<clock, expr, runs, inFlight, pumping, edits, world>>

(* Variant: every missed occurrence is run in its turn. *)
FireBacklog(s) ==
  /\ pumping /\ FirstDue(s)
  /\ deliverable[s] /\ actor[s]
  /\ inFlight[s] = 0
  /\ runs' = runs \cup {[schedule |-> s, for |-> next[s], enqueued |-> clock]}
  /\ inFlight' = [inFlight EXCEPT ![s] = 1]
  /\ AdvanceFromDue(s)
  /\ UNCHANGED <<clock, expr, skipped, pumping, edits, world>>

(* advance and enqueue in one transaction *)
Fire(s) ==
  /\ pumping /\ FirstDue(s)
  /\ deliverable[s] /\ actor[s]
  /\ inFlight[s] = 0
  /\ \E u \in ScheduledOccurrence(s) :
       /\ ~Ran(s, u)
       /\ runs' = runs \cup {[schedule |-> s, for |-> u, enqueued |-> clock]}
  /\ inFlight' = [inFlight EXCEPT ![s] = 1]
  /\ Advance(s)
  /\ UNCHANGED <<clock, expr, skipped, pumping, edits, world>>

(* enqueue throws, because the principal has no identity in this direct    *)
(* conversation any more or by UNIQUE(schedule_id, scheduled_for): the     *)
(* transaction is rolled back and the pump gives up.                       *)
FailDue(s) ==
  /\ pumping /\ FirstDue(s)
  /\ deliverable[s]
  /\ inFlight[s] = 0
  /\ ~actor[s] \/ \E u \in ScheduledOccurrence(s) : Ran(s, u)
  /\ pumping' = FALSE
  /\ UNCHANGED <<clock, rows, runs, inFlight, edits, world>>

EndPump ==
  /\ pumping
  /\ ~\E s \in Schedules : Due(s)
  /\ pumping' = FALSE
  /\ UNCHANGED <<clock, rows, runs, inFlight, edits, world>>

ProcessDue == \E s \in Schedules : Block(s) \/ Skip(s) \/ Fire(s) \/ FailDue(s)

---------------------------------------------------------------------------
(* What goes on around the component.                                      *)

Tick ==
  /\ clock < MaxTime
  /\ clock' = clock + 1
  /\ UNCHANGED <<rows, runs, inFlight, pumping, edits, world>>

(* The conversation scheduler settles the task of a run (Scheduler.tla).   *)
TaskSettles(s) ==
  /\ ~pumping
  /\ inFlight[s] > 0
  /\ inFlight' = [inFlight EXCEPT ![s] = 0]
  /\ UNCHANGED <<clock, rows, runs, pumping, edits, world>>

(* /imgent unbind moves the identity to a principal of its own, and a      *)
(* later bind merges it back.                                              *)
Unbind(s) ==
  /\ ~pumping
  /\ actor[s]
  /\ actor' = [actor EXCEPT ![s] = FALSE]
  /\ UNCHANGED <<clock, rows, runs, inFlight, pumping, edits, deliverable, restarts>>

Rebind(s) ==
  /\ ~pumping
  /\ ~actor[s]
  /\ actor' = [actor EXCEPT ![s] = TRUE]
  /\ UNCHANGED <<clock, rows, runs, inFlight, pumping, edits, deliverable, restarts>>

(* A crash or a stop, and a start with a configuration whose bots and      *)
(* profiles may have changed.                                              *)
Restart ==
  /\ restarts < MaxRestarts
  /\ restarts' = restarts + 1
  /\ pumping' = FALSE
  /\ deliverable' \in [Schedules -> BOOLEAN]
  /\ UNCHANGED <<clock, rows, runs, inFlight, edits, actor>>

Next ==
  \/ \E s \in Schedules, e \in Expressions : Create(s, e) \/ Update(s, e)
  \/ \E s \in Schedules : Resume(s) \/ Pause(s) \/ Remove(s) \/ Trigger(s)
  \/ StartPump \/ ProcessDue \/ EndPump
  \/ \E s \in Schedules : TaskSettles(s) \/ Unbind(s) \/ Rebind(s)
  \/ Tick \/ Restart

Spec == Init /\ [][Next]_vars

(* setInterval calls pump every second, and its loop runs to its end.      *)
Fairness == WF_vars(StartPump) /\ WF_vars(ProcessDue) /\ WF_vars(EndPump)

FairSpec == Spec /\ Fairness

---------------------------------------------------------------------------
TypeOK ==
  /\ clock \in Time
  /\ status \in [Schedules -> Statuses]
  /\ expr \in [Schedules -> SUBSET Time]
  /\ next \in [Schedules -> Time \cup {None}]
  /\ skipped \in [Schedules -> Nat]
  /\ runs \subseteq [schedule : Schedules, for : Time, enqueued : Time]
  /\ inFlight \in [Schedules -> 0..1]
  /\ deliverable \in [Schedules -> BOOLEAN]
  /\ actor \in [Schedules -> BOOLEAN]
  /\ pumping \in BOOLEAN

(* An active schedule always has a next run, and it is an occurrence of    *)
(* its expression: processDue never finds a row that is active with no     *)
(* next_run_at, which no later pump would ever pick up again, whatever     *)
(* pauses, updates, blocks and restarts came before.                       *)
ActiveIsPlanned ==
  \A s \in Schedules : status[s] = "active" => next[s] \in expr[s]

(* An active schedule is planned for a time after everything that it has   *)
(* run already, so that neither an edit nor a restart makes an occurrence  *)
(* run twice, and enqueue never meets UNIQUE(schedule_id, scheduled_for),  *)
(* which would stop the planner for every other schedule.                  *)
NextIsNew ==
  \A r \in runs : status[r.schedule] = "active" =>
    next[r.schedule] > r.enqueued /\ r.enqueued >= r.for

(* Occurrences missed while the process was down, the schedule was blocked *)
(* or the planner was late are caught up by one run: of two runs of a      *)
(* schedule the later stands for an occurrence after the moment at which   *)
(* the earlier was enqueued (advance and scheduledOccurrence).             *)
OneCatchUp ==
  \A q, r \in runs :
    q.schedule = r.schedule /\ q # r => q.enqueued < r.for \/ r.enqueued < q.for

(* enqueue of s would throw for want of an identity. *)
Poisoned == \E s \in Schedules : Due(s) /\ deliverable[s] /\ ~actor[s]

(* A due schedule is run, skipped, completed, blocked or edited in the     *)
(* end, unless one with a lost identity is due, which stops every pump of  *)
(* the planner (processDue throws on it each second).                      *)
DueIsHandled == \A s \in Schedules : Due(s) ~> ~Due(s) \/ Poisoned

=============================================================================
