---------------------------- MODULE DriversProofs ----------------------------
(***************************************************************************)
(* Proofs about module Drivers, for any number of conversations, runs,     *)
(* requests and faults.                                                    *)
(*                                                                         *)
(* The argument for Codex: a conversation has one task in flight and the   *)
(* task one live run, so that of two live runs of a conversation one was   *)
(* given up (Rows, OneKept); a thread belongs to one conversation (Owned), *)
(* and as long as none of its runs was given up, its entry in the registry *)
(* is the run that waits for its events (Registry) and the run of a turn   *)
(* that is asked for or running is such a run (Attended).  Whatever the    *)
(* turn says then reaches the run that asked for it (Own), and a second    *)
(* turn of the thread would need a second run that nobody gave up.  For    *)
(* Claude Code it is that a query is replaced only before it has said      *)
(* anything, and that a session is held by one conversation from the       *)
(* moment it is announced (Apart).                                         *)
(***************************************************************************)
EXTENDS Drivers, SequenceTheorems, FiniteSetTheorems, TLAPS

-----------------------------------------------------------------------------
(* The inductive invariant.                                                *)

Items(s) == {s[i] : i \in 1 .. Len(s)}
Events(r) == Items(queue[r])

(* A turn is reported as a success by naming the vendor turn that ended.   *)
Reported ==
  \A r \in Run :
    (run[r].outcome = "success" \/ \E e \in Events(r) : e[1] = "success") => by[r] # <<>>

(* Until it knows its thread, nothing has happened in a run.               *)
Unthreaded ==
  \A r \in Run :
    /\ run[r].state \in {"idle", "initialize", "resume", "thread"} => run[r].thread = 0
    /\ run[r].thread = 0 =>
         /\ run[r].state \notin {"start", "stream"}
         /\ turn[r] = "none" /\ r \notin loose /\ r \notin ended
         /\ queue[r] = <<>> /\ text[r] = {} /\ by[r] = <<>>

(* A conversation has one task in flight, and a task one live run, which   *)
(* was given up if its task has failed under it.                           *)
Rows ==
  /\ \A r \in Run : run[r].state = "idle" => task[r] = "none"
  /\ \A r \in Run : run[r].state # "idle" =>
       /\ run[r].conv \in Conversation
       /\ taskOf[r] \in Run
       /\ run[taskOf[r]].state # "idle"
       /\ run[taskOf[r]].conv = run[r].conv
  /\ \A r, o \in Run : Live(r) /\ Live(o) /\ taskOf[r] = taskOf[o] => r = o
  /\ \A t, u \in Run :
       task[t] \in InFlight /\ task[u] \in InFlight /\ run[t].conv = run[u].conv => t = u
  /\ \A r \in Run : Live(r) =>
       \/ task[taskOf[r]] = "active"
       \/ task[taskOf[r]] = "waiting" /\ run[r].state = "stream"
       \/ task[taskOf[r]] = "over" /\ r \in loose

(* A thread has one conversation.                                          *)
Owned ==
  /\ \A r \in Run : run[r].thread <= sessions
  /\ \A c \in Conversation : session[c] <= sessions
  /\ \A r, o \in Run :
       run[r].thread # 0 /\ run[r].thread = run[o].thread => run[r].conv = run[o].conv
  /\ \A r \in Run, c \in Conversation :
       run[r].thread # 0 /\ run[r].thread = session[c] => run[r].conv = c
  /\ \A c, d \in Conversation : session[c] # 0 /\ session[c] = session[d] => c = d
  /\ \A r \in Run : run[r].state = "resume" => session[run[r].conv] # 0
  /\ \A r \in Run : \A e \in Events(r) : e[1] = "session" => e[2] = run[r].thread

(* The registry holds runs that wait for events, and all of them whose     *)
(* thread has not been loosened.                                           *)
Registry ==
  /\ \A t \in Thread : active[t] # 0 =>
       run[active[t]].thread = t /\ run[active[t]].state \in {"start", "stream"}
  /\ \A r \in Run : run[r].state \in {"start", "stream"} /\ ~ Loosened(r) =>
       active[run[r].thread] = r

(* Before the app-server is ready there is no thread.                      *)
Process ==
  /\ \A r \in Run : run[r].state = "initialize" => proc = "starting"
  /\ \A r, o \in Run : run[r].state = "initialize" /\ run[o].state = "initialize" => r = o
  /\ proc \in {"none", "starting"} => \A r \in Run : run[r].thread = 0

(* The run of a turn that is under way waits for its events, unless the    *)
(* thread has been loosened.                                               *)
Attended ==
  \A r \in Run : turn[r] \in {"asked", "running"} /\ ~ Loosened(r) =>
    /\ run[r].state \in {"start", "stream"}
    /\ turn[r] = "asked" => run[r].state = "start"
    /\ r \notin ended
    /\ \A e \in Events(r) : e[1] \in {"session", "request"}

Own ==
  \A r \in Run : ~ Loosened(r) => text[r] \subseteq {<<r, 1>>} /\ by[r] \in {<<>>, <<r, 1>>}

(* Every thread was created for a run of its own.                          *)
Threaded == {r \in Run : run[r].thread # 0}
Counted == sessions <= Cardinality(Threaded)

CodexInv ==
  Unthreaded /\ Rows /\ Owned /\ Registry /\ Process /\ Attended /\ Own /\ Counted

(* The vendor turns that have named a session.                             *)
Named ==
  {v \in VendorTurn : IF v[2] = 1 THEN v[1] \in emitted \cup second
                      ELSE v[1] \in emitted \cap second}

(* A session is with a conversation that stores it or will store it: one of *)
(* its runs has it or has announced it.                                    *)
Held(c, n) ==
  \/ session[c] = n
  \/ \E r \in Run : /\ run[r].conv = c
                    /\ run[r].thread = n \/ \E e \in Events(r) : e[1] = "session" /\ e[2] = n

Apart ==
  \A n \in Thread : \A c \in Conversation : Held(c, n) =>
     n <= sessions /\ \A d \in Conversation : Held(d, n) => c = d

ClaudeInv ==
  /\ loose = {}
  /\ \A r \in Run : turn[r] = "none"
  /\ \A r \in Run : run[r].state = "idle" => query[r] = "none" /\ r \notin second /\ Events(r) = {}
  /\ canFresh \cap second = {}
  /\ \A r \in Run : text[r] \subseteq {Current(r)} /\ by[r] \in {<<>>, <<r, 1>>, <<r, 2>>}
  /\ sessions <= Cardinality(Named)
  /\ Apart

IInv ==
  /\ TypeOK
  /\ Reported
  /\ driver = "codex" => CodexInv
  /\ driver = "claude-code" => ClaudeInv

-----------------------------------------------------------------------------
(* Queues, and the number of sessions.                                     *)

LEMMA ItemsAppended ==
  ASSUME NEW s \in Seq(Event), NEW e \in Event
  PROVE  Append(s, e) \in Seq(Event) /\ Items(Append(s, e)) = Items(s) \cup {e}
<1>1. Append(s, e) \in Seq(Event) /\ Len(Append(s, e)) = Len(s) + 1 /\ Len(s) \in Nat
  BY AppendProperties
<1>2. /\ \A i \in 1 .. Len(s) : Append(s, e)[i] = s[i]
      /\ Append(s, e)[Len(s) + 1] = e
  BY AppendProperties
<1>3. 1 .. Len(Append(s, e)) = 1 .. Len(s) \cup {Len(s) + 1}
  BY <1>1
<1> QED BY <1>1, <1>2, <1>3 DEF Items

LEMMA ItemsTaken ==
  ASSUME NEW s \in Seq(Event), s # <<>>
  PROVE  /\ Tail(s) \in Seq(Event) /\ Items(Tail(s)) \subseteq Items(s)
         /\ Head(s) \in Items(s) /\ Head(s) \in Event
<1>1. Tail(s) \in Seq(Event) /\ Len(Tail(s)) = Len(s) - 1 /\ Len(s) \in Nat \ {0}
  BY HeadTailProperties, EmptySeq
<1>2. \A i \in 1 .. Len(Tail(s)) : Tail(s)[i] = s[i + 1] /\ i + 1 \in 1 .. Len(s)
  BY <1>1, HeadTailProperties
<1>3. Head(s) = s[1] /\ 1 \in 1 .. Len(s)
  BY <1>1, HeadTailProperties
<1> QED BY <1>1, <1>2, <1>3, HeadTailProperties DEF Items

LEMMA ItemsOfNone == Items(<<>>) = {}
BY DEF Items

LEMMA EventType ==
  /\ \A n \in 0 .. 2 * MaxRuns : <<"session", n>> \in Event
  /\ \A k \in {"success", "cancelled", "error"} : <<k, 0>> \in Event
  /\ \A q \in Request : <<"request", q>> \in Event
  /\ 0 \in 0 .. 2 * MaxRuns
BY AgentTurnsAssumption DEF Event

(* What PushedTo adds to a queue.                                          *)
LEMMA PushedItems ==
  ASSUME TypeOKTurns, NEW r \in Run, NEW e \in Event, queue' = PushedTo(r, e)
  PROVE  /\ queue' \in [Run -> Seq(Event)]
         /\ \A o \in Run : o # r => queue'[o] = queue[o] /\ Events(o)' = Events(o)
         /\ r \in ended => queue' = queue /\ Events(r)' = Events(r)
         /\ r \notin ended => Events(r)' = Events(r) \cup {e}
         /\ Events(r)' \subseteq Events(r) \cup {e}
<1>1. CASE r \in ended
  BY <1>1 DEF PushedTo, TypeOKTurns, Events
<1>2. CASE r \notin ended
  <2>1. queue' = [queue EXCEPT ![r] = Append(queue[r], e)]
    BY <1>2 DEF PushedTo
  <2>2. queue[r] \in Seq(Event) /\ queue \in [Run -> Seq(Event)]
    BY DEF TypeOKTurns
  <2>3. Append(queue[r], e) \in Seq(Event) /\ Items(Append(queue[r], e)) = Events(r) \cup {e}
    BY <2>2, ItemsAppended DEF Events
  <2>4. queue' \in [Run -> Seq(Event)] /\ queue'[r] = Append(queue[r], e)
        /\ \A o \in Run : o # r => queue'[o] = queue[o]
    BY <2>1, <2>2, <2>3
  <2> QED BY <1>2, <2>3, <2>4 DEF Events
<1> QED BY <1>1, <1>2

LEMMA RunsPositive == \A r \in Run : r # 0
BY DEF Run

LEMMA RunsFinite ==
  /\ \A S \in SUBSET Run : IsFiniteSet(S) /\ Cardinality(S) \in Nat /\ Cardinality(S) <= MaxRuns
  /\ \A S \in SUBSET Run : \A r \in Run \ S : Cardinality(S \cup {r}) = Cardinality(S) + 1
<1>1. IsFiniteSet(Run) /\ Cardinality(Run) = MaxRuns
  BY AgentTurnsAssumption, FS_Interval DEF Run
<1>2. ASSUME NEW S \in SUBSET Run
      PROVE  IsFiniteSet(S) /\ Cardinality(S) \in Nat /\ Cardinality(S) <= MaxRuns
  BY <1>1, FS_Subset, FS_CardinalityType
<1>3. ASSUME NEW S \in SUBSET Run, NEW r \in Run \ S
      PROVE  Cardinality(S \cup {r}) = Cardinality(S) + 1
  BY <1>2, FS_AddElement
<1> QED BY <1>2, <1>3

LEMMA VendorTurnsFinite ==
  /\ \A S \in SUBSET VendorTurn :
       IsFiniteSet(S) /\ Cardinality(S) \in Nat /\ Cardinality(S) <= 2 * MaxRuns
  /\ \A S, T \in SUBSET VendorTurn : S \subseteq T => Cardinality(S) <= Cardinality(T)
  /\ \A S, T \in SUBSET VendorTurn : \A v \in VendorTurn \ S :
       S \cup {v} \subseteq T => Cardinality(S) + 1 <= Cardinality(T)
<1>1. IsFiniteSet(Run) /\ Cardinality(Run) = MaxRuns /\ MaxRuns \in Nat
  BY AgentTurnsAssumption, FS_Interval DEF Run
<1>2. IsFiniteSet(1 .. 2) /\ Cardinality(1 .. 2) = 2
  <2>1. 1 .. 2 = {1} \cup {2} /\ 2 \notin {1}
    OBVIOUS
  <2>2. IsFiniteSet({1}) /\ Cardinality({1}) = 1
    BY FS_Singleton
  <2>3. IsFiniteSet({1} \cup {2}) /\ Cardinality({1} \cup {2}) = 2
    BY <2>1, <2>2, FS_AddElement
  <2> QED BY <2>1, <2>3
<1>3. IsFiniteSet(VendorTurn) /\ Cardinality(VendorTurn) = MaxRuns * 2
  <2>1. /\ IsFiniteSet(Run \X (1 .. 2))
        /\ Cardinality(Run \X (1 .. 2)) = Cardinality(Run) * Cardinality(1 .. 2)
    BY <1>1, <1>2, FS_Product, Zenon
  <2> QED BY <1>1, <1>2, <2>1 DEF VendorTurn
<1>4. ASSUME NEW S \in SUBSET VendorTurn
      PROVE  IsFiniteSet(S) /\ Cardinality(S) \in Nat /\ Cardinality(S) <= 2 * MaxRuns
  <2>1. IsFiniteSet(S) /\ Cardinality(S) <= Cardinality(VendorTurn)
    BY <1>3, FS_Subset
  <2> QED BY <1>1, <1>3, <2>1, FS_CardinalityType
<1>5. ASSUME NEW S \in SUBSET VendorTurn, NEW T \in SUBSET VendorTurn, S \subseteq T
      PROVE  Cardinality(S) <= Cardinality(T)
  BY <1>4, <1>5, FS_Subset
<1>6. ASSUME NEW S \in SUBSET VendorTurn, NEW T \in SUBSET VendorTurn,
             NEW v \in VendorTurn \ S, S \cup {v} \subseteq T
      PROVE  Cardinality(S) + 1 <= Cardinality(T)
  <2>1. Cardinality(S \cup {v}) = Cardinality(S) + 1
    BY <1>4, FS_AddElement
  <2>2. Cardinality(S \cup {v}) <= Cardinality(T)
    BY <1>5, <1>6
  <2> QED BY <2>1, <2>2
<1> QED BY <1>4, <1>5, <1>6

-----------------------------------------------------------------------------
(* What the actions do to the runs.                                        *)

State == {"idle", "initialize", "resume", "thread", "start", "stream", "over"}
Outcome == {"none", "success", "cancelled", "error", "incomplete", "failed"}

(* No run changes its thread or its conversation.                          *)
Kept == \A o \in Run : run'[o].conv = run[o].conv /\ run'[o].thread = run[o].thread

LEMMA RunsType ==
  ASSUME TypeOKTurns
  PROVE  /\ run \in [Run -> Runs]
         /\ \A o \in Run : /\ run[o].state \in State
                           /\ run[o].conv \in Conversation \cup {None}
                           /\ run[o].thread \in 0 .. 2 * MaxRuns
                           /\ run[o].outcome \in Outcome
BY DEF TypeOKTurns, Runs, State, Outcome

LEMMA StateSet ==
  ASSUME TypeOKTurns, NEW r \in Run, NEW s \in State, run' = [run EXCEPT ![r].state = s]
  PROVE  /\ run' \in [Run -> Runs]
         /\ Kept
         /\ run'[r].state = s
         /\ \A o \in Run : run'[o].outcome = run[o].outcome
         /\ \A o \in Run : o # r => run'[o] = run[o]
<1>1. run \in [Run -> Runs] /\ run[r] \in Runs
  BY DEF TypeOKTurns
<1>2. run' = [run EXCEPT ![r] = [run[r] EXCEPT !.state = s]]
  BY <1>1
<1>3. /\ [run[r] EXCEPT !.state = s] \in Runs
      /\ [run[r] EXCEPT !.state = s].state = s
      /\ [run[r] EXCEPT !.state = s].conv = run[r].conv
      /\ [run[r] EXCEPT !.state = s].thread = run[r].thread
      /\ [run[r] EXCEPT !.state = s].outcome = run[r].outcome
  BY <1>1 DEF Runs, State
<1>4. /\ run' \in [Run -> Runs] /\ run'[r] = [run[r] EXCEPT !.state = s]
      /\ \A o \in Run : o # r => run'[o] = run[o]
  BY <1>1, <1>2, <1>3
<1> QED BY <1>3, <1>4 DEF Kept

LEMMA ThreadSet ==
  ASSUME TypeOKTurns, NEW r \in Run, NEW n \in 0 .. 2 * MaxRuns,
         run' = [run EXCEPT ![r].thread = n]
  PROVE  /\ run' \in [Run -> Runs]
         /\ run'[r].thread = n
         /\ \A o \in Run : /\ run'[o].state = run[o].state
                           /\ run'[o].outcome = run[o].outcome
                           /\ run'[o].conv = run[o].conv
         /\ \A o \in Run : o # r => run'[o] = run[o]
<1>1. run \in [Run -> Runs] /\ run[r] \in Runs
  BY DEF TypeOKTurns
<1>2. run' = [run EXCEPT ![r] = [run[r] EXCEPT !.thread = n]]
  BY <1>1
<1>3. /\ [run[r] EXCEPT !.thread = n] \in Runs
      /\ [run[r] EXCEPT !.thread = n].state = run[r].state
      /\ [run[r] EXCEPT !.thread = n].conv = run[r].conv
      /\ [run[r] EXCEPT !.thread = n].thread = n
      /\ [run[r] EXCEPT !.thread = n].outcome = run[r].outcome
  BY <1>1 DEF Runs
<1>4. /\ run' \in [Run -> Runs] /\ run'[r] = [run[r] EXCEPT !.thread = n]
      /\ \A o \in Run : o # r => run'[o] = run[o]
  BY <1>1, <1>2, <1>3
<1> QED BY <1>3, <1>4

LEMMA StartSet ==
  ASSUME TypeOKTurns, NEW r \in Run, NEW c \in Conversation, NEW s \in State,
         run' = [run EXCEPT ![r].conv = c, ![r].state = s]
  PROVE  /\ run' \in [Run -> Runs]
         /\ run'[r].state = s /\ run'[r].conv = c
         /\ \A o \in Run : run'[o].thread = run[o].thread /\ run'[o].outcome = run[o].outcome
         /\ \A o \in Run : o # r => run'[o] = run[o]
<1>1. run \in [Run -> Runs] /\ run[r] \in Runs
  BY DEF TypeOKTurns
<1>2. run' = [run EXCEPT ![r] = [[run[r] EXCEPT !.conv = c] EXCEPT !.state = s]]
  BY <1>1
<1>3. [[run[r] EXCEPT !.conv = c] EXCEPT !.state = s] \in Runs
  BY <1>1 DEF Runs, State
<1> QED BY <1>1, <1>2, <1>3 DEF Runs

LEMMA OverSet ==
  ASSUME TypeOKTurns, NEW r \in Run, NEW x \in Outcome, run' = Over(r, x)
  PROVE  /\ run' \in [Run -> Runs]
         /\ Kept
         /\ run'[r].state = "over" /\ run'[r].outcome = x
         /\ \A o \in Run : o # r => run'[o] = run[o]
<1> DEFINE a == [[run[r] EXCEPT !.state = "over"] EXCEPT !.outcome = x]
<1>1. run \in [Run -> Runs] /\ run[r] \in Runs
  BY DEF TypeOKTurns
<1>2. run' = [run EXCEPT ![r] = a]
  BY <1>1 DEF Over
<1>3. /\ a \in Runs /\ a.state = "over" /\ a.outcome = x
      /\ a.conv = run[r].conv /\ a.thread = run[r].thread
  BY <1>1 DEF Runs, Outcome
<1> HIDE DEF a
<1>4. /\ run' \in [Run -> Runs] /\ run'[r] = a
      /\ \A o \in Run : o # r => run'[o] = run[o]
  BY <1>1, <1>2, <1>3
<1> QED BY <1>3, <1>4 DEF Kept

LEMMA CallsFailSet ==
  ASSUME TypeOKTurns, CallsFail
  PROVE  /\ run' \in [Run -> Runs]
         /\ Kept
         /\ \A o \in Run :
              /\ run[o].state \in {"initialize", "thread", "start"} => run'[o].state = "over"
              /\ run[o].state = "resume" => run'[o].state = "thread"
              /\ run[o].state \in {"idle", "stream", "over"} => run'[o].state = run[o].state
              /\ run'[o].outcome = "success" => run[o].outcome = "success"
<1>1. \A o \in Run : run[o] \in Runs
  BY DEF TypeOKTurns
<1>2. \A o \in Run : run'[o] =
        CASE run[o].state \in {"initialize", "thread"} ->
               [run[o] EXCEPT !.state = "over", !.outcome = "failed"]
          [] run[o].state = "resume" -> [run[o] EXCEPT !.state = "thread"]
          [] run[o].state = "start" -> [run[o] EXCEPT !.state = "over", !.outcome = "error"]
          [] OTHER -> run[o]
  BY DEF CallsFail
<1>3. ASSUME NEW o \in Run
      PROVE  /\ run'[o] \in Runs
             /\ run'[o].conv = run[o].conv /\ run'[o].thread = run[o].thread
             /\ run[o].state \in {"initialize", "thread", "start"} => run'[o].state = "over"
             /\ run[o].state = "resume" => run'[o].state = "thread"
             /\ run[o].state \in {"idle", "stream", "over"} => run'[o].state = run[o].state
             /\ run'[o].outcome = "success" => run[o].outcome = "success"
  <2> DEFINE a == run[o]
  <2>1. a \in Runs /\ run[o] = a
    BY <1>1
  <2>2. run'[o] = CASE a.state \in {"initialize", "thread"} ->
                        [a EXCEPT !.state = "over", !.outcome = "failed"]
                   [] a.state = "resume" -> [a EXCEPT !.state = "thread"]
                   [] a.state = "start" -> [a EXCEPT !.state = "over", !.outcome = "error"]
                   [] OTHER -> a
    BY <1>2
  <2> HIDE DEF a
  <2>3. CASE a.state \in {"initialize", "thread"}
    <3>1. run'[o] = [a EXCEPT !.state = "over", !.outcome = "failed"]
      BY <2>2, <2>3
    <3> QED BY <2>1, <2>3, <3>1 DEF Runs
  <2>4. CASE a.state = "resume"
    <3>1. run'[o] = [a EXCEPT !.state = "thread"]
      BY <2>2, <2>4
    <3> QED BY <2>1, <2>4, <3>1 DEF Runs
  <2>5. CASE a.state = "start"
    <3>1. run'[o] = [a EXCEPT !.state = "over", !.outcome = "error"]
      BY <2>2, <2>5
    <3> QED BY <2>1, <2>5, <3>1 DEF Runs
  <2>6. CASE a.state \in {"idle", "stream", "over"}
    <3>1. run'[o] = a
      BY <2>2, <2>6
    <3> QED BY <2>1, <2>6, <3>1
  <2>7. a.state \in State
    BY <2>1 DEF Runs, State
  <2> QED BY <2>3, <2>4, <2>5, <2>6, <2>7 DEF State
<1>4. DOMAIN run' = Run /\ run' = [o \in Run |-> run'[o]]
  BY DEF CallsFail
<1> QED BY <1>3, <1>4 DEF Kept

LEMMA RegisteredSet ==
  ASSUME TypeOK, NEW r \in Run, NEW t \in Thread, Registered(r, t)
  PROVE  /\ run' \in [Run -> Runs]
         /\ active' \in [Thread -> Run \cup {0}]
         /\ turn' \in [Run -> {"none", "asked", "running", "done"}]
         /\ queue' \in [Run -> Seq(Event)]
         /\ run'[r].state = "start" /\ run'[r].thread = t
         /\ run'[r].conv = run[r].conv /\ run'[r].outcome = run[r].outcome
         /\ \A o \in Run : o # r => run'[o] = run[o]
         /\ active'[t] = r /\ \A u \in Thread : u # t => active'[u] = active[u]
         /\ turn'[r] = "asked" /\ \A o \in Run : o # r => turn'[o] = turn[o]
         /\ \A o \in Run : o # r => queue'[o] = queue[o] /\ Events(o)' = Events(o)
         /\ Events(r)' \subseteq Events(r) \cup {<<"session", t>>}
<1>1. t \in 0 .. 2 * MaxRuns
  BY AgentTurnsAssumption DEF Thread
<1>2. run' \in [Run -> Runs] /\ run'[r].state = "start" /\ run'[r].thread = t
      /\ run'[r].conv = run[r].conv /\ run'[r].outcome = run[r].outcome
      /\ \A o \in Run : o # r => run'[o] = run[o]
  <2> DEFINE a == [[run[r] EXCEPT !.thread = t] EXCEPT !.state = "start"]
  <2>1. run \in [Run -> Runs] /\ run[r] \in Runs
    BY DEF TypeOK, TypeOKTurns
  <2>2. run' = [run EXCEPT ![r] = a]
    BY <2>1 DEF Registered
  <2>3. /\ a \in Runs /\ a.state = "start" /\ a.thread = t
        /\ a.conv = run[r].conv /\ a.outcome = run[r].outcome
    BY <1>1, <2>1 DEF Runs
  <2> HIDE DEF a
  <2> QED BY <2>1, <2>2, <2>3
<1>3. /\ active' \in [Thread -> Run \cup {0}]
      /\ turn' \in [Run -> {"none", "asked", "running", "done"}]
      /\ active'[t] = r /\ \A u \in Thread : u # t => active'[u] = active[u]
      /\ turn'[r] = "asked" /\ \A o \in Run : o # r => turn'[o] = turn[o]
  BY DEF Registered, TypeOK, TypeOKCodex
<1>4. <<"session", t>> \in Event
  BY <1>1, EventType
<1>5. queue' = PushedTo(r, <<"session", t>>) /\ TypeOKTurns
  BY DEF Registered, TypeOK
<1> HIDE DEF Registered
<1>6. /\ queue' \in [Run -> Seq(Event)]
      /\ \A o \in Run : o # r => queue'[o] = queue[o] /\ Events(o)' = Events(o)
      /\ Events(r)' \subseteq Events(r) \cup {<<"session", t>>}
  BY <1>4, <1>5, PushedItems
<1> QED BY <1>2, <1>3, <1>6

(* A run leaves the registry.                                              *)
LEMMA UnregisteredSet ==
  ASSUME TypeOK, NEW r \in Run, active' = Unregistered(r)
  PROVE  /\ active' \in [Thread -> Run \cup {0}]
         /\ \A t \in Thread : t = run[r].thread => active'[t] = 0
         /\ \A t \in Thread : t # run[r].thread => active'[t] = active[t]
BY DEF TypeOK, TypeOKCodex, Unregistered

(* A run that claims a task.                                               *)
LEMMA ClaimsSet ==
  ASSUME TypeOKTurns, NEW r \in Run, NEW c \in Conversation, Claims(r, c)
  PROVE  /\ taskOf' \in [Run -> Run \cup {0}] /\ task' \in [Run -> Tasks]
         /\ \E t \in Run :
              /\ t = r \/ (run[t].conv = c /\ task[t] = "retry")
              /\ taskOf'[r] = t /\ \A o \in Run : o # r => taskOf'[o] = taskOf[o]
              /\ task'[t] = "active" /\ \A u \in Run : u # t => task'[u] = task[u]
BY DEF TypeOKTurns, Claims, Tasks

(* The two ways of the consumer: an event, or the end of the queue.        *)
LEMMA EventIs ==
  ASSUME NEW e \in Event
  PROVE  \/ e[1] \in {"session", "success", "cancelled", "error"} /\ e[2] \in 0 .. 2 * MaxRuns
         \/ e[1] = "request" /\ e[2] \in Request
BY DEF Event

LEMMA FailedType ==
  ASSUME TypeOKTurns, NEW R \in SUBSET Run
  PROVE  Failed(R) \in [Run -> Tasks]
BY DEF TypeOKTurns, Failed, Tasks

LEMMA ConsumeSet ==
  ASSUME TypeOKTurns, NEW r \in Run, Consume(r)
  PROVE  /\ run' \in [Run -> Runs] /\ queue' \in [Run -> Seq(Event)]
         /\ session' \in [Conversation -> 0 .. 2 * MaxRuns]
         /\ task' \in [Run -> Tasks] /\ request' \in [Request -> Requests]
         /\ run[r].state = "stream"
         /\ Kept
         /\ \A o \in Run : o # r => run'[o] = run[o] /\ queue'[o] = queue[o]
         /\ Events(r)' \subseteq Events(r) /\ \A o \in Run : o # r => Events(o)' = Events(o)
         /\ queue[r] # <<>>
         /\ \E e \in Events(r) :
              /\ run'[r].state = IF e[1] = "error" \/ Throws(r) THEN "over" ELSE "stream"
              /\ run'[r].outcome = "success" => run[r].outcome = "success" \/ e[1] = "success"
              /\ e[1] # "session" => session' = session
              /\ e[1] = "session" => session' = [session EXCEPT ![run[r].conv] = e[2]]
<1> DEFINE e == Head(queue[r])
<1>1. run[r].state = "stream" /\ queue[r] # <<>> /\ queue[r] \in Seq(Event)
      /\ queue \in [Run -> Seq(Event)]
  BY DEF Consume, TypeOKTurns
<1>2. /\ Tail(queue[r]) \in Seq(Event) /\ Items(Tail(queue[r])) \subseteq Events(r)
      /\ e \in Events(r) /\ e \in Event
  BY <1>1, ItemsTaken DEF Events
<1>3. queue' = [queue EXCEPT ![r] = Tail(queue[r])]
  BY DEF Consume
<1>4. /\ queue' \in [Run -> Seq(Event)] /\ \A o \in Run : o # r => queue'[o] = queue[o]
      /\ queue'[r] = Tail(queue[r])
  BY <1>1, <1>2, <1>3
<1>5. Events(r)' \subseteq Events(r) /\ \A o \in Run : o # r => Events(o)' = Events(o)
  BY <1>2, <1>4 DEF Events
<1>6. \/ e[1] \in {"session", "success", "cancelled", "error"} /\ e[2] \in 0 .. 2 * MaxRuns
      \/ e[1] = "request" /\ e[2] \in Request
  BY <1>2, EventIs
<1>7. /\ session' = IF e[1] = "session" THEN [session EXCEPT ![run[r].conv] = e[2]] ELSE session
      /\ run' = CASE e[1] = "error" -> [run EXCEPT ![r].state = "over", ![r].outcome = "error"]
                  [] Throws(r) -> [run EXCEPT ![r].state = "over", ![r].outcome = "failed"]
                  [] e[1] \in {"success", "cancelled"} -> [run EXCEPT ![r].outcome = e[1]]
                  [] OTHER -> run
      /\ task' = CASE e[1] = "error" \/ Throws(r) -> Failed({r})
                   [] e[1] = "request" /\ ~ Throws(r) -> [task EXCEPT ![taskOf[r]] = "waiting"]
                   [] OTHER -> task
      /\ request' = IF e[1] = "request" /\ ~ Throws(r)
                    THEN [request EXCEPT ![e[2]].row = taskOf[r]] ELSE request
  BY DEF Consume
<1>8. Throws(r) => e[1] = "request"
  BY DEF Throws
<1> HIDE DEF e
<1>9. session' \in [Conversation -> 0 .. 2 * MaxRuns]
  BY <1>6, <1>7 DEF TypeOKTurns
<1>10. task' \in [Run -> Tasks]
  <2>1. Failed({r}) \in [Run -> Tasks] /\ [task EXCEPT ![taskOf[r]] = "waiting"] \in [Run -> Tasks]
    BY FailedType DEF TypeOKTurns, Tasks
  <2> QED BY <1>7, <2>1 DEF TypeOKTurns
<1>11. request' \in [Request -> Requests]
  <2>1. CASE e[1] = "request" /\ ~ Throws(r)
    <3>1. e[2] \in Request /\ taskOf[r] \in Run \cup {0}
      BY <1>6, <2>1 DEF TypeOKTurns
    <3>2. PICK q \in Request, n \in Run \cup {0} : q = e[2] /\ n = taskOf[r]
      BY <3>1
    <3>3. request \in [Request -> Requests] /\ request[q] \in Requests
      BY DEF TypeOKTurns
    <3>4. request' = [request EXCEPT ![q] = [request[q] EXCEPT !.row = n]]
      BY <1>7, <2>1, <3>2, <3>3
    <3>5. [request[q] EXCEPT !.row = n] \in Requests
      BY <3>3 DEF Requests
    <3> QED BY <3>3, <3>4, <3>5
  <2>2. CASE ~ (e[1] = "request" /\ ~ Throws(r))
    BY <1>7, <2>2 DEF TypeOKTurns
  <2> QED BY <2>1, <2>2
<1>12. /\ run' \in [Run -> Runs] /\ Kept
       /\ \A o \in Run : o # r => run'[o] = run[o]
       /\ run'[r].state = IF e[1] = "error" \/ Throws(r) THEN "over" ELSE "stream"
       /\ run'[r].outcome = "success" => run[r].outcome = "success" \/ e[1] = "success"
  <2>1. CASE e[1] = "error"
    BY <1>1, <1>7, <2>1 DEF TypeOKTurns, Runs, Kept
  <2>2. CASE Throws(r)
    <3>1. run' = Over(r, "failed") /\ e[1] = "request"
      BY <1>7, <1>8, <2>2 DEF Over
    <3>2. /\ run' \in [Run -> Runs] /\ Kept
          /\ run'[r].state = "over" /\ run'[r].outcome = "failed"
          /\ \A o \in Run : o # r => run'[o] = run[o]
      BY <3>1, OverSet DEF Outcome
    <3> QED BY <2>2, <3>2
  <2>3. CASE e[1] \in {"success", "cancelled"}
    <3>1. run' = [run EXCEPT ![r].outcome = e[1]] /\ ~ Throws(r)
      BY <1>7, <1>8, <2>3
    <3> QED BY <1>1, <2>3, <3>1 DEF TypeOKTurns, Runs, Kept
  <2>4. CASE e[1] \in {"session", "request"} /\ ~ Throws(r)
    <3>1. run' = run
      BY <1>7, <2>4
    <3> QED BY <1>1, <2>4, <3>1 DEF TypeOKTurns, Kept
  <2> QED BY <1>6, <1>8, <2>1, <2>2, <2>3, <2>4
<1> QED BY <1>1, <1>2, <1>4, <1>5, <1>7, <1>9, <1>10, <1>11, <1>12

LEMMA EndStreamSet ==
  ASSUME TypeOKTurns, NEW r \in Run, EndStream(r)
  PROVE  /\ run' \in [Run -> Runs]
         /\ run[r].state = "stream" /\ r \in ended
         /\ Kept
         /\ run'[r].state = "over"
         /\ run'[r].outcome = "success" => run[r].outcome = "success"
         /\ \A o \in Run : o # r => run'[o] = run[o]
         /\ task' \in [Run -> Tasks]
         /\ UNCHANGED <<taskOf, queue, ended, session, sessions, request, text, by, cancelled>>
<1>1. /\ run[r].state = "stream" /\ r \in ended
      /\ run' = [run EXCEPT ![r].state = "over",
                            ![r].outcome = IF run[r].outcome = "none" THEN "incomplete" ELSE run[r].outcome]
      /\ UNCHANGED <<taskOf, queue, ended, session, sessions, request, text, by, cancelled>>
  BY DEF EndStream
<1> DEFINE x == IF run[r].outcome = "none" THEN "incomplete" ELSE run[r].outcome
<1>2. x \in Outcome /\ (x = "success" => run[r].outcome = "success")
  BY RunsType DEF Outcome
<1>3. run' = Over(r, x)
  BY <1>1 DEF Over
<1> HIDE DEF x
<1>4. /\ run' \in [Run -> Runs] /\ Kept
      /\ run'[r].state = "over" /\ run'[r].outcome = x
      /\ \A o \in Run : o # r => run'[o] = run[o]
  BY <1>2, <1>3, OverSet
<1>5. task' \in [Run -> Tasks]
  <2>1. Failed({r}) \in [Run -> Tasks] /\ [task EXCEPT ![taskOf[r]] = "over"] \in [Run -> Tasks]
    BY FailedType DEF TypeOKTurns, Tasks
  <2> QED BY <2>1 DEF EndStream, TypeOKTurns
<1> QED BY <1>1, <1>2, <1>4, <1>5

LEMMA AskedSet ==
  ASSUME TypeOKTurns, NEW q \in Request, NEW r \in Run,
         \/ request' = [request EXCEPT ![q].state = "asked", ![q].run = r]
         \/ request' = [request EXCEPT ![q].state = "closed", ![q].run = r]
  PROVE  request' \in [Request -> Requests]
<1>1. request \in [Request -> Requests] /\ request[q] \in Requests
  BY DEF TypeOKTurns
<1>2. PICK s \in {"asked", "closed"} :
        request' = [request EXCEPT ![q] = [[request[q] EXCEPT !.state = s] EXCEPT !.run = r]]
  BY <1>1
<1>3. [[request[q] EXCEPT !.state = s] EXCEPT !.run = r] \in Requests
  BY <1>1 DEF Requests
<1> QED BY <1>1, <1>2, <1>3

(* Answers, time-outs and expiry.                                          *)
Settles(q) ==
  \/ AnswerRequest(q) \/ RequestTimesOut(q) \/ Dropped(q) \/ TaskExpires(q)

LEMMA SettlesSet ==
  ASSUME TypeOKTurns, NEW q \in Request, Settles(q)
  PROVE  /\ request' \in [Request -> Requests]
         /\ task' \in [Run -> Tasks]
         /\ \/ task' = task
            \/ /\ request[q].row \in Run /\ task[request[q].row] = "waiting"
               /\ task' = [task EXCEPT ![request[q].row] = "active"]
            \/ /\ request[q].row \in Run /\ task[request[q].row] = "waiting"
               /\ task' = [task EXCEPT ![request[q].row] = "over"] /\ TaskExpires(q)
         /\ UNCHANGED <<run, taskOf, queue, ended, session, sessions, text, by, cancelled>>
<1>1. request \in [Request -> Requests] /\ request[q] \in Requests /\ request[q].row \in Run \cup {0}
      /\ task \in [Run -> Tasks]
  BY DEF TypeOKTurns, Requests
<1>2. CASE AnswerRequest(q)
  <2>1. /\ request' = [request EXCEPT ![q].state = "closed", ![q].row = 0]
        /\ request[q].row # 0
        /\ task' = IF task[request[q].row] = "waiting"
                   THEN [task EXCEPT ![request[q].row] = "active"] ELSE task
        /\ UNCHANGED <<run, taskOf, queue, ended, session, sessions, text, by, cancelled>>
    BY <1>2 DEF AnswerRequest, Answerable
  <2>2. request' = [request EXCEPT ![q] = [[request[q] EXCEPT !.state = "closed"] EXCEPT !.row = 0]]
    BY <1>1, <2>1
  <2>3. [[request[q] EXCEPT !.state = "closed"] EXCEPT !.row = 0] \in Requests
    BY <1>1 DEF Requests
  <2>4. request' \in [Request -> Requests]
    BY <1>1, <2>2, <2>3
  <2> QED BY <1>1, <2>1, <2>4 DEF Tasks
<1>3. CASE RequestTimesOut(q) \/ Dropped(q)
  <2>1. /\ request' = [request EXCEPT ![q].state = "closed"] /\ task' = task
        /\ UNCHANGED <<run, taskOf, queue, ended, session, sessions, text, by, cancelled>>
    BY <1>3 DEF RequestTimesOut, Dropped
  <2> QED BY <1>1, <2>1 DEF Requests
<1>4. CASE TaskExpires(q)
  <2>1. /\ request' = [request EXCEPT ![q].row = 0]
        /\ request[q].row # 0
        /\ task' = IF task[request[q].row] = "waiting"
                   THEN [task EXCEPT ![request[q].row] = "over"] ELSE task
        /\ UNCHANGED <<run, taskOf, queue, ended, session, sessions, text, by, cancelled>>
    BY <1>4 DEF TaskExpires
  <2>2. request' \in [Request -> Requests]
    BY <1>1, <2>1 DEF Requests
  <2> QED BY <1>1, <1>4, <2>1, <2>2 DEF Tasks
<1> QED BY <1>2, <1>3, <1>4 DEF Settles

-----------------------------------------------------------------------------
(* Types.                                                                  *)

LEMMA CodexTypes ==
  ASSUME TypeOK, CodexInv, CodexStep \/ CodexFault, UNCHANGED <<claudeVars, driver>>
  PROVE  TypeOK'
<1> USE DEF TypeOK
<1>1. TypeOKClaude' /\ driver' \in {"codex", "claude-code"}
  BY DEF TypeOKClaude, claudeVars
<1>2. \A s : s \in State <=> s \in {"idle", "initialize", "resume", "thread", "start", "stream", "over"}
  BY DEF State
<1>3. \A x : x \in Outcome <=> x \in {"none", "success", "cancelled", "error", "incomplete", "failed"}
  BY DEF Outcome
<1>4. \A c \in Conversation : NextCall(c) \in State
  BY DEF NextCall, State
<1> SUFFICES TypeOKTurns' /\ TypeOKCodex'
  BY <1>1
<1>5. ASSUME NEW r \in Run, NEW c \in Conversation, CodexStarts(r, c)
      PROVE  TypeOKTurns' /\ TypeOKCodex'
  <2> DEFINE s == IF proc = "none" THEN "initialize" ELSE NextCall(c)
  <2>1. s \in State
    BY <1>4 DEF State
  <2>2. run' = [run EXCEPT ![r].conv = c, ![r].state = s]
    BY <1>5 DEF CodexStarts
  <2>3. run' \in [Run -> Runs]
    <3> HIDE DEF s
    <3> QED BY <2>1, <2>2, StartSet
  <2>4. taskOf' \in [Run -> Run \cup {0}] /\ task' \in [Run -> Tasks]
    BY <1>5, ClaimsSet DEF CodexStarts
  <2> QED BY <1>5, <2>3, <2>4 DEF CodexStarts, TypeOKTurns, TypeOKCodex
<1>6. ASSUME NEW r \in Run, NEW s \in State, run' = [run EXCEPT ![r].state = s]
      PROVE  run' \in [Run -> Runs]
  BY <1>6, StateSet
<1>7. ASSUME NEW r \in Run, NEW x \in Outcome, run' = Over(r, x)
      PROVE  run' \in [Run -> Runs]
  BY <1>7, OverSet
<1>8. ASSUME NEW r \in Run, Initialized(r)
      PROVE  TypeOKTurns' /\ TypeOKCodex'
  <2>1. NextCall(run[r].conv) \in State
    BY DEF NextCall, State
  <2>2. run' = [run EXCEPT ![r].state = NextCall(run[r].conv)]
    BY <1>8 DEF Initialized
  <2>3. run' \in [Run -> Runs]
    BY <1>6, <2>1, <2>2
  <2> QED BY <1>8, <2>3 DEF Initialized, TypeOKTurns, TypeOKCodex
<1>9. ASSUME CallsFail
      PROVE  run' \in [Run -> Runs] /\ active' \in [Thread -> Run \cup {0}] /\ task' \in [Run -> Tasks]
  <2>1. run' \in [Run -> Runs]
    BY <1>9, CallsFailSet
  <2>2. active' = [t \in Thread |->
                    IF \E r \in Run : run[r].state = "start" /\ run[r].thread = t
                    THEN 0 ELSE active[t]]
    BY <1>9 DEF CallsFail
  <2>3. task' \in [Run -> Tasks]
    BY <1>9, FailedType DEF CallsFail
  <2> QED BY <2>1, <2>2, <2>3 DEF TypeOKCodex
<1>10. ASSUME faults' = faults \/ (faults < MaxFaults /\ faults' = faults + 1)
        PROVE  faults' \in 0 .. MaxFaults
  BY <1>10, CodexDriverAssumption DEF TypeOKCodex
<1>11. ASSUME NEW r \in Run, InitializeFails(r)
      PROVE  TypeOKTurns' /\ TypeOKCodex'
  <2>1. run' \in [Run -> Runs] /\ task' \in [Run -> Tasks]
    BY <1>7, <1>11, FailedType DEF InitializeFails, Outcome
  <2>2. faults' \in 0 .. MaxFaults
    BY <1>11, <1>10 DEF InitializeFails
  <2> QED BY <1>11, <2>1, <2>2 DEF InitializeFails, TypeOKTurns, TypeOKCodex
<1>12. ASSUME NEW r \in Run, ThreadResumed(r)
       PROVE  TypeOKTurns' /\ TypeOKCodex'
  <2> DEFINE t == session[run[r].conv]
  <2>1. run[r].state = "resume" /\ Registered(r, t)
    BY <1>12 DEF ThreadResumed
  <2>2. run[r].conv \in Conversation /\ t # 0
    BY <2>1, RunsType DEF CodexInv, Rows, Owned
  <2>3. t \in Thread
    BY <2>2, AgentTurnsAssumption DEF TypeOKTurns, Thread
  <2> HIDE DEF t
  <2>4. /\ run' \in [Run -> Runs] /\ active' \in [Thread -> Run \cup {0}]
        /\ turn' \in [Run -> {"none", "asked", "running", "done"}]
        /\ queue' \in [Run -> Seq(Event)]
    BY <2>1, <2>3, RegisteredSet
  <2>5. UNCHANGED <<taskOf, task, ended, session, sessions, request, text, by, cancelled, proc, interrupts,
                    loose, exits, crashed, faults>>
    BY <1>12 DEF ThreadResumed
  <2> QED BY <2>4, <2>5 DEF TypeOKTurns, TypeOKCodex
<1>13. ASSUME NEW r \in Run, run[r].thread = 0
       PROVE  sessions + 1 \in Thread
  <2>1. Threaded \in SUBSET Run /\ r \in Run \ Threaded
    BY <1>13 DEF Threaded
  <2>2. /\ Cardinality(Threaded) \in Nat /\ Cardinality(Threaded) <= MaxRuns
        /\ Threaded \cup {r} \in SUBSET Run
        /\ Cardinality(Threaded \cup {r}) = Cardinality(Threaded) + 1
        /\ Cardinality(Threaded \cup {r}) <= MaxRuns
    BY <2>1, RunsFinite
  <2>3. sessions <= Cardinality(Threaded) /\ sessions \in Nat
    BY AgentTurnsAssumption DEF CodexInv, Counted, TypeOKTurns
  <2> QED BY <2>2, <2>3, AgentTurnsAssumption DEF Thread
<1>14. ASSUME NEW r \in Run, ThreadStarted(r)
       PROVE  TypeOKTurns' /\ TypeOKCodex'
  <2>1. run[r].state = "thread" /\ Registered(r, sessions + 1)
    BY <1>14 DEF ThreadStarted
  <2>2. run[r].thread = 0
    BY <2>1 DEF CodexInv, Unthreaded
  <2>3. sessions + 1 \in Thread
    BY <2>2, <1>13
  <2>4. /\ run' \in [Run -> Runs] /\ active' \in [Thread -> Run \cup {0}]
        /\ turn' \in [Run -> {"none", "asked", "running", "done"}]
        /\ queue' \in [Run -> Seq(Event)]
    BY <2>1, <2>3, RegisteredSet
  <2>5. sessions' \in 0 .. 2 * MaxRuns
    BY <1>14, <2>3, AgentTurnsAssumption DEF ThreadStarted, Thread
  <2>6. UNCHANGED <<taskOf, task, ended, session, request, text, by, cancelled, proc, interrupts, loose,
                    exits, crashed, faults>>
    BY <1>14 DEF ThreadStarted
  <2> QED BY <2>4, <2>5, <2>6 DEF TypeOKTurns, TypeOKCodex
<1>15. ASSUME NEW r \in Run, ResumeFails(r)
       PROVE  TypeOKTurns' /\ TypeOKCodex'
  <2>1. run' = [run EXCEPT ![r].state = "thread"] /\ "thread" \in State
    BY <1>15 DEF ResumeFails, State
  <2>2. run' \in [Run -> Runs]
    BY <2>1, <1>6
  <2>3. faults' \in 0 .. MaxFaults
    <3>1. faults' = faults \/ (faults < MaxFaults /\ faults' = faults + 1)
      BY <1>15 DEF ResumeFails
    <3> QED BY <1>10, <3>1
  <2> QED BY <1>15, <2>2, <2>3 DEF ResumeFails, TypeOKTurns, TypeOKCodex
<1>16. ASSUME NEW r \in Run, ThreadFails(r)
       PROVE  TypeOKTurns' /\ TypeOKCodex'
  <2>1. run' = Over(r, "failed") /\ "failed" \in Outcome
    BY <1>16 DEF ThreadFails, Outcome
  <2>2. run' \in [Run -> Runs] /\ task' \in [Run -> Tasks]
    BY <1>16, <2>1, <1>7, FailedType DEF ThreadFails
  <2>3. faults' \in 0 .. MaxFaults
    <3>1. faults' = faults \/ (faults < MaxFaults /\ faults' = faults + 1)
      BY <1>16 DEF ThreadFails
    <3> QED BY <1>10, <3>1
  <2> QED BY <1>16, <2>2, <2>3 DEF ThreadFails, TypeOKTurns, TypeOKCodex
<1>17. ASSUME NEW r \in Run, TurnStarts(r)
       PROVE  TypeOKTurns' /\ TypeOKCodex'
  BY <1>17 DEF TurnStarts, turnVars, TypeOKTurns, TypeOKCodex
<1>18. ASSUME NEW r \in Run, StartAnswered(r)
       PROVE  TypeOKTurns' /\ TypeOKCodex'
  <2>1. run' = [run EXCEPT ![r].state = "stream"] /\ "stream" \in State
    BY <1>18 DEF StartAnswered, State
  <2>2. run' \in [Run -> Runs]
    BY <2>1, <1>6
  <2> QED BY <1>18, <2>2 DEF StartAnswered, TypeOKTurns, TypeOKCodex
<1>19. ASSUME NEW r \in Run, StartRejected(r) \/ StartTimesOut(r)
       PROVE  TypeOKTurns' /\ TypeOKCodex'
  <2>1. run' = Over(r, "error") /\ "error" \in Outcome /\ active' = Unregistered(r)
    BY <1>19 DEF StartRejected, StartTimesOut, Outcome
  <2>2. run' \in [Run -> Runs] /\ active' \in [Thread -> Run \cup {0}]
    BY <2>1, <1>7, UnregisteredSet
  <2>6. task' \in [Run -> Tasks]
    BY <1>19, FailedType DEF StartRejected, StartTimesOut
  <2>3. faults' \in 0 .. MaxFaults
    BY <1>19, <1>10 DEF StartRejected, StartTimesOut
  <2>4. CASE StartRejected(r)
    BY <2>4, <2>2, <2>3, <2>6 DEF StartRejected, TypeOKTurns, TypeOKCodex
  <2>5. CASE StartTimesOut(r)
    BY <2>5, <2>2, <2>3, <2>6 DEF StartTimesOut, TypeOKTurns, TypeOKCodex
  <2> QED BY <1>19, <2>4, <2>5
<1>20. ASSUME NEW r \in Run, CodexConsumes(r)
       PROVE  TypeOKTurns' /\ TypeOKCodex'
  <2>1. active' \in [Thread -> Run \cup {0}]
    BY <1>20, UnregisteredSet DEF CodexConsumes, TypeOKCodex
  <2>2. UNCHANGED <<proc, turn, interrupts, exits, crashed, faults>> /\ loose' \subseteq Run
    BY <1>20 DEF CodexConsumes, TypeOKCodex
  <2>3. CASE Consume(r)
    <3>1. /\ run' \in [Run -> Runs] /\ queue' \in [Run -> Seq(Event)]
          /\ session' \in [Conversation -> 0 .. 2 * MaxRuns]
          /\ task' \in [Run -> Tasks] /\ request' \in [Request -> Requests]
      BY <2>3, ConsumeSet
    <3>2. UNCHANGED <<taskOf, ended, sessions, text, by, cancelled>>
      BY <2>3 DEF Consume
    <3> QED BY <2>1, <2>2, <3>1, <3>2 DEF TypeOKTurns, TypeOKCodex
  <2>4. CASE EndStream(r)
    <3>1. run' \in [Run -> Runs] /\ task' \in [Run -> Tasks]
          /\ UNCHANGED <<taskOf, queue, ended, session, sessions, request, text, by, cancelled>>
      BY <2>4, EndStreamSet
    <3> QED BY <2>1, <2>2, <3>1 DEF TypeOKTurns, TypeOKCodex
  <2> QED BY <1>20, <2>3, <2>4 DEF CodexConsumes
<1>21. \A r \in Run : <<r, 1>> \in VendorTurn
  BY DEF VendorTurn
<1>22. ASSUME NEW r \in Run, turn[r] = "running"
       PROVE  Receiver(r) \in Run \cup {0}
  <2>1. run[r].thread \in Thread
    BY <1>22, RunsType, AgentTurnsAssumption DEF CodexInv, Unthreaded, Thread
  <2> QED BY <2>1 DEF Receiver, TypeOKCodex
<1>23. ASSUME NEW r \in Run, TurnSpeaks(r)
       PROVE  TypeOKTurns' /\ TypeOKCodex'
  <2>1. Receiver(r) \in Run \cup {0}
    BY <1>22, <1>23 DEF TurnSpeaks
  <2>2. text' = IF Receiver(r) = 0 THEN text
                ELSE [text EXCEPT ![Receiver(r)] = @ \cup {<<r, 1>>}]
    BY <1>23 DEF TurnSpeaks
  <2>3. text' \in [Run -> SUBSET VendorTurn]
    BY <2>1, <2>2, <1>21 DEF TypeOKTurns
  <2> QED BY <1>23, <2>3 DEF TurnSpeaks, codexVars, TypeOKTurns, TypeOKCodex
<1>24. ASSUME NEW r \in Run, NEW s \in {"success", "cancelled", "error"}, TurnCompletes(r, s)
       PROVE  TypeOKTurns' /\ TypeOKCodex'
  <2>1. Receiver(r) \in Run \cup {0}
    BY <1>22, <1>24 DEF TurnCompletes
  <2>2. queue' \in [Run -> Seq(Event)] /\ ended' \subseteq Run
        /\ by' \in [Run -> VendorTurn \cup {<<>>}]
    <3>1. CASE Receiver(r) = 0
      BY <1>24, <3>1 DEF TurnCompletes, Routed, TypeOKTurns
    <3>2. CASE Receiver(r) # 0
      <4>1. /\ Receiver(r) \in Run
            /\ queue' = PushedTo(Receiver(r), <<s, 0>>)
            /\ ended' = ended \cup {Receiver(r)}
            /\ by' = [by EXCEPT ![Receiver(r)] = <<r, 1>>]
        BY <1>24, <2>1, <3>2 DEF TurnCompletes, Routed, Pushed
      <4>2. queue' \in [Run -> Seq(Event)]
        BY <4>1, EventType, PushedItems
      <4> QED BY <1>21, <4>1, <4>2 DEF TypeOKTurns
    <3> QED BY <3>1, <3>2
  <2>3. turn' \in [Run -> {"none", "asked", "running", "done"}] /\ interrupts' \subseteq Run
    BY <1>24 DEF TurnCompletes, TypeOKCodex
  <2> QED BY <1>24, <2>2, <2>3 DEF TurnCompletes, TypeOKTurns, TypeOKCodex
<1>25. ASSUME NEW r \in Run, ErrorNotified(r)
       PROVE  TypeOKTurns' /\ TypeOKCodex'
  <2>1. Receiver(r) \in Run \cup {0}
    BY <1>22, <1>25 DEF ErrorNotified
  <2>2. queue' \in [Run -> Seq(Event)]
    <3>1. CASE Receiver(r) = 0
      BY <1>25, <3>1 DEF ErrorNotified, TypeOKTurns
    <3>2. CASE Receiver(r) # 0
      <4>1. Receiver(r) \in Run /\ queue' = PushedTo(Receiver(r), <<"error", 0>>)
        BY <1>25, <2>1, <3>2 DEF ErrorNotified, Pushed
      <4> QED BY <4>1, EventType, PushedItems
    <3> QED BY <3>1, <3>2
  <2>3. faults' \in 0 .. MaxFaults
    BY <1>25, <1>10 DEF ErrorNotified
  <2> QED BY <1>25, <2>2, <2>3 DEF ErrorNotified, TypeOKTurns, TypeOKCodex
<1>26. ASSUME NEW q \in Request, NEW r \in Run, CodexAsks(q, r)
       PROVE  TypeOKTurns' /\ TypeOKCodex'
  <2>1. Receiver(r) \in Run \cup {0}
    BY <1>22, <1>26 DEF CodexAsks
  <2>2. request' \in [Request -> Requests]
    BY <1>26, AskedSet DEF CodexAsks, Asked, Refused
  <2>3. queue' \in [Run -> Seq(Event)]
    <3>1. CASE queue' = queue
      BY <3>1 DEF TypeOKTurns
    <3>2. CASE Receiver(r) # 0 /\ queue' = PushedTo(Receiver(r), <<"request", q>>)
      BY <2>1, <3>2, EventType, PushedItems
    <3> QED BY <1>26, <3>1, <3>2 DEF CodexAsks, Asked, Refused
  <2>4. UNCHANGED <<run, taskOf, task, ended, session, sessions, text, by, cancelled, codexVars>>
    BY <1>26 DEF CodexAsks
  <2> QED BY <2>2, <2>3, <2>4 DEF codexVars, TypeOKTurns, TypeOKCodex
<1>27. ASSUME NEW q \in Request, CodexAnswers(q) \/ CodexExpires(q) \/ CodexLapses(q)
       PROVE  TypeOKTurns' /\ TypeOKCodex'
  <2>1. Settles(q)
    BY <1>27 DEF CodexAnswers, CodexExpires, CodexLapses, Settles
  <2>2. /\ request' \in [Request -> Requests] /\ task' \in [Run -> Tasks]
        /\ UNCHANGED <<run, taskOf, queue, ended, session, sessions, text, by, cancelled>>
    BY <2>1, SettlesSet
  <2>3. TypeOKTurns'
    BY <2>2 DEF TypeOKTurns
  <2>4. TypeOKCodex'
    BY <1>27 DEF CodexAnswers, CodexExpires, CodexLapses, codexVars, TypeOKCodex
  <2> QED BY <2>3, <2>4
<1>30. ASSUME NEW r \in Run, CodexCancels(r)
       PROVE  TypeOKTurns' /\ TypeOKCodex'
  BY <1>30 DEF CodexCancels, TypeOKTurns, TypeOKCodex
<1>31. ASSUME ProcessExits
       PROVE  TypeOKTurns' /\ TypeOKCodex'
  <2>1. run' \in [Run -> Runs] /\ active' \in [Thread -> Run \cup {0}] /\ task' \in [Run -> Tasks]
    BY <1>9, <1>31 DEF ProcessExits
  <2>2. faults' \in 0 .. MaxFaults
    BY <1>10, <1>31 DEF ProcessExits
  <2>3. /\ proc' \in {"none", "starting", "up", "gone"} /\ exits' \in BOOLEAN
        /\ turn' \in [Run -> {"none", "asked", "running", "done"}] /\ interrupts' \subseteq Run
    BY <1>31 DEF ProcessExits, TypeOKCodex
  <2> QED BY <1>31, <2>1, <2>2, <2>3 DEF ProcessExits, TypeOKTurns, TypeOKCodex
<1> QED
  BY <1>5, <1>8, <1>11, <1>12, <1>14, <1>15, <1>16, <1>17, <1>18, <1>19, <1>20, <1>23, <1>24,
     <1>25, <1>26, <1>27, <1>30, <1>31 DEF CodexStep, CodexFault

-----------------------------------------------------------------------------
(* Codex: what the actions have in common.                                 *)

(* Of two live runs of one conversation one was given up.                  *)
LEMMA OneKept ==
  ASSUME TypeOK, Rows, NEW r \in Run, NEW o \in Run, r # o, Live(r), Live(o),
         run[r].conv = run[o].conv
  PROVE  r \in loose \/ o \in loose
<1>1. /\ run[r].state # "idle" /\ run[o].state # "idle" /\ taskOf[r] # taskOf[o]
      /\ taskOf[r] \in Run /\ taskOf[o] \in Run
      /\ run[taskOf[r]].conv = run[taskOf[o]].conv
  BY DEF Rows, Live
<1>2. ~ (task[taskOf[r]] \in InFlight /\ task[taskOf[o]] \in InFlight)
  BY <1>1 DEF Rows
<1> QED BY <1>2 DEF Rows, InFlight

(* The rows while no run starts.                                           *)
LEMMA RowsMoved ==
  ASSUME TypeOK, Rows, Kept, taskOf' = taskOf, loose \subseteq loose',
         \A o \in Run : run'[o].state = "idle" <=> run[o].state = "idle",
         \A o \in Run : Live(o)' => Live(o),
         \A o \in Run : run[o].state = "stream" /\ Live(o)' => run'[o].state = "stream",
         \A t \in Run : task[t] = "none" => task'[t] = "none",
         \A t \in Run : task'[t] \in InFlight => task[t] \in InFlight,
         \A o \in Run : Live(o)' =>
           \/ task'[taskOf[o]] = task[taskOf[o]]
           \/ task'[taskOf[o]] = "active"
           \/ task'[taskOf[o]] = "waiting" /\ run'[o].state = "stream"
           \/ task'[taskOf[o]] = "over" /\ o \in loose'
  PROVE  Rows'
<1>1. \A r \in Run : run'[r].state = "idle" => task'[r] = "none"
  BY DEF Rows
<1>2. \A r \in Run : run'[r].state # "idle" =>
         /\ run'[r].conv \in Conversation
         /\ taskOf'[r] \in Run
         /\ run'[taskOf'[r]].state # "idle"
         /\ run'[taskOf'[r]].conv = run'[r].conv
  BY DEF Rows, Kept
<1>3. \A r, o \in Run : Live(r)' /\ Live(o)' /\ taskOf'[r] = taskOf'[o] => r = o
  BY DEF Rows
<1>4. \A t, u \in Run :
         task'[t] \in InFlight /\ task'[u] \in InFlight /\ run'[t].conv = run'[u].conv => t = u
  BY DEF Rows, Kept
<1>5. \A r \in Run : Live(r)' =>
         \/ task'[taskOf'[r]] = "active"
         \/ task'[taskOf'[r]] = "waiting" /\ run'[r].state = "stream"
         \/ task'[taskOf'[r]] = "over" /\ r \in loose'
  BY DEF Rows
<1> QED BY <1>1, <1>2, <1>3, <1>4, <1>5 DEF Rows

(* Some runs end and their tasks fail.                                     *)
LEMMA RowsFailed ==
  ASSUME TypeOK, Rows, Kept, taskOf' = taskOf, loose \subseteq loose',
         NEW R \in SUBSET Run, task' = Failed(R),
         \A o \in R : Live(o) /\ ~ Live(o)',
         \A o \in Run : run'[o].state = "idle" <=> run[o].state = "idle",
         \A o \in Run : Live(o)' => Live(o),
         \A o \in Run : run[o].state = "stream" /\ Live(o)' => run'[o].state = "stream"
  PROVE  Rows'
<1>1. \A t \in Run : task'[t] = IF task[t] \in InFlight /\ \E o \in R : taskOf[o] = t
                                THEN "retry" ELSE task[t]
  BY DEF Failed
<1>2. ASSUME NEW o \in Run, Live(o)'
      PROVE  task'[taskOf[o]] = task[taskOf[o]]
  <2>1. Live(o) /\ o \notin R /\ taskOf[o] \in Run
    BY <1>2 DEF Rows, Live
  <2>2. \A p \in R : taskOf[p] # taskOf[o]
    BY <2>1 DEF Rows
  <2> QED BY <1>1, <2>1, <2>2
<1>3. /\ \A t \in Run : task[t] = "none" => task'[t] = "none"
      /\ \A t \in Run : task'[t] \in InFlight => task[t] \in InFlight
  BY <1>1 DEF InFlight
<1> QED BY <1>2, <1>3, RowsMoved

(* The consumer takes an event or finds the end.                           *)
LEMMA RowsConsumed ==
  ASSUME TypeOK, Rows, NEW r \in Run, CodexConsumes(r)
  PROVE  Rows'
<1>1. /\ Consume(r) \/ EndStream(r)
      /\ loose' = IF run[r].state = "stream" /\ queue[r] # <<>> /\ Throws(r)
                  THEN loose \cup {r} ELSE loose
  BY DEF CodexConsumes
<1>2. /\ taskOf' = taskOf /\ loose \subseteq loose'
      /\ taskOf \in [Run -> Run \cup {0}] /\ task \in [Run -> Tasks] /\ TypeOKTurns
  BY <1>1 DEF Consume, EndStream, TypeOK, TypeOKTurns
<1>3. /\ run[r].state = "stream" /\ Kept /\ run'[r].state \in {"stream", "over"}
      /\ \A o \in Run : o # r => run'[o] = run[o]
  <2>1. CASE Consume(r)
    BY <1>2, <2>1, ConsumeSet
  <2>2. CASE EndStream(r)
    BY <1>2, <2>2, EndStreamSet
  <2> QED BY <1>1, <2>1, <2>2
<1>4. /\ \A o \in Run : run'[o].state = "idle" <=> run[o].state = "idle"
      /\ \A o \in Run : Live(o)' => Live(o)
      /\ \A o \in Run : run[o].state = "stream" /\ Live(o)' => run'[o].state = "stream"
      /\ Live(r) /\ taskOf[r] \in Run
      /\ \A o \in Run : Live(o) /\ o # r => taskOf[o] # taskOf[r]
  BY <1>3 DEF Live, Rows
<1>5. CASE run'[r].state = "over" /\ task' = Failed({r})
  <2>1. {r} \in SUBSET Run /\ \A o \in {r} : Live(o) /\ ~ Live(o)'
    BY <1>4, <1>5 DEF Live
  <2> QED BY <1>2, <1>3, <1>4, <1>5, <2>1, RowsFailed
<1>6. CASE task' = task
  <2>1. \A o \in Run : task'[taskOf[o]] = task[taskOf[o]]
    BY <1>6
  <2> QED BY <1>2, <1>3, <1>4, <1>6, <2>1, RowsMoved
<1>7. CASE /\ task[taskOf[r]] \in InFlight
           /\ \/ task' = [task EXCEPT ![taskOf[r]] = "waiting"] /\ run'[r].state = "stream"
              \/ task' = [task EXCEPT ![taskOf[r]] = "over"] /\ run'[r].state = "over"
  <2>1. \A t \in Run : t # taskOf[r] => task'[t] = task[t]
    BY <1>2, <1>7
  <2>2. task'[taskOf[r]] = IF run'[r].state = "stream" THEN "waiting" ELSE "over"
    BY <1>2, <1>4, <1>7
  <2>3. /\ \A t \in Run : task[t] = "none" => task'[t] = "none"
        /\ \A t \in Run : task'[t] \in InFlight => task[t] \in InFlight
    BY <1>7, <2>1, <2>2 DEF InFlight
  <2>4. ASSUME NEW o \in Run, Live(o)'
        PROVE  \/ task'[taskOf[o]] = task[taskOf[o]]
               \/ task'[taskOf[o]] = "waiting" /\ run'[o].state = "stream"
    <3>1. CASE o = r
      BY <1>3, <2>2, <2>4, <3>1 DEF Live
    <3>2. CASE o # r
      <4>1. taskOf[o] \in Run /\ taskOf[o] # taskOf[r]
        BY <1>4, <2>4, <3>2 DEF Rows, Live
      <4> QED BY <2>1, <4>1
    <3> QED BY <3>1, <3>2
  <2> QED BY <1>2, <1>3, <1>4, <2>3, <2>4, RowsMoved
<1>8. CASE Consume(r)
  <2> DEFINE k == Head(queue[r])[1]
  <2>1. /\ task' = CASE k = "error" \/ Throws(r) -> Failed({r})
                     [] k = "request" /\ ~ Throws(r) -> [task EXCEPT ![taskOf[r]] = "waiting"]
                     [] OTHER -> task
        /\ run' = CASE k = "error" -> [run EXCEPT ![r].state = "over", ![r].outcome = "error"]
                    [] Throws(r) -> [run EXCEPT ![r].state = "over", ![r].outcome = "failed"]
                    [] k \in {"success", "cancelled"} -> [run EXCEPT ![r].outcome = k]
                    [] OTHER -> run
        /\ k = "request" /\ ~ Throws(r) => task[taskOf[r]] = "active"
        /\ Throws(r) => k = "request"
    BY <1>8 DEF Consume, Throws
  <2> HIDE DEF k
  <2>2. CASE k = "error" \/ Throws(r)
    <3>1. task' = Failed({r})
      BY <2>1, <2>2
    <3>2. \E x \in Outcome : run' = Over(r, x)
      BY <2>1, <2>2 DEF Over, Outcome
    <3>3. run'[r].state = "over"
      BY <1>2, <3>2, OverSet
    <3> QED BY <1>5, <3>1, <3>3
  <2>3. CASE k = "request" /\ ~ Throws(r)
    <3>1. task' = [task EXCEPT ![taskOf[r]] = "waiting"] /\ run' = run
      BY <2>1, <2>3
    <3> QED BY <1>3, <1>7, <2>1, <2>3, <3>1 DEF InFlight
  <2>4. CASE k \notin {"error", "request"} /\ ~ Throws(r)
    BY <1>6, <2>1, <2>4
  <2> QED BY <2>1, <2>2, <2>3, <2>4
<1>9. CASE EndStream(r)
  <2>1. run'[r].state = "over"
    BY <1>2, <1>9, EndStreamSet
  <2>2. \/ task' = Failed({r}) \/ task' = task
        \/ task[taskOf[r]] \in InFlight /\ task' = [task EXCEPT ![taskOf[r]] = "over"]
    BY <1>9 DEF EndStream, InFlight
  <2> QED BY <1>5, <1>6, <1>7, <2>1, <2>2
<1> QED BY <1>1, <1>8, <1>9

(* Which conversation a thread belongs to is kept while no run gets a      *)
(* thread and no session is stored.                                        *)
LEMMA OwnersKept ==
  ASSUME TypeOK, Owned, Counted, Kept, UNCHANGED <<session, sessions>>,
         \A o \in Run : run'[o].state = "resume" =>
            run[o].state = "resume" \/ session[run[o].conv] # 0,
         \A o \in Run : \A e \in Events(o)' : e[1] = "session" => e \in Events(o)
  PROVE  Owned' /\ Counted'
<1>1. Owned'
  BY DEF Owned, Kept
<1>2. Threaded' = Threaded
  BY DEF Threaded, Kept
<1> QED BY <1>1, <1>2 DEF Counted

(* A turn that has been asked for has a thread; the run it reaches is in   *)
(* that thread, and is its own unless the thread was loosened.             *)
LEMMA ReceiverIs ==
  ASSUME TypeOK, CodexInv, NEW r \in Run, turn[r] # "none"
  PROVE  /\ run[r].thread \in Thread
         /\ Receiver(r) \in Run \cup {0}
         /\ Receiver(r) # 0 =>
              /\ run[Receiver(r)].thread = run[r].thread
              /\ run[Receiver(r)].thread # 0
              /\ run[Receiver(r)].state \in {"start", "stream"}
              /\ Loosened(Receiver(r)) <=> Loosened(r)
         /\ turn[r] \in {"asked", "running"} /\ ~ Loosened(r) => Receiver(r) = r
<1>1. run[r].thread \in Thread
  BY RunsType, AgentTurnsAssumption DEF CodexInv, Unthreaded, Thread, TypeOK
<1>2. Receiver(r) \in Run \cup {0}
  BY <1>1 DEF Receiver, TypeOK, TypeOKCodex
<1>3. Receiver(r) # 0 =>
        /\ run[Receiver(r)].thread = run[r].thread
        /\ run[Receiver(r)].state \in {"start", "stream"}
  BY <1>1 DEF Receiver, CodexInv, Registry
<1>4. Receiver(r) # 0 => (Loosened(Receiver(r)) <=> Loosened(r))
  BY <1>3 DEF Loosened
<1>5. turn[r] \in {"asked", "running"} /\ ~ Loosened(r) => Receiver(r) = r
  BY DEF Receiver, CodexInv, Attended, Registry
<1>6. run[r].thread # 0
  BY <1>1, AgentTurnsAssumption DEF Thread
<1> QED BY <1>1, <1>2, <1>3, <1>4, <1>5, <1>6

(* Requests and cancellations: a request reaches the run that waits for    *)
(* the events of its turn, and expiry may give a streaming run up.         *)
LEMMA CodexQuiet ==
  ASSUME TypeOK, CodexInv, Reported, Rows',
         UNCHANGED <<run, ended, session, sessions, text, by, proc, active, turn>>,
         loose \subseteq loose', loose' \subseteq Run,
         \A o \in loose' : run[o].thread # 0,
         \A o \in Run : \/ queue'[o] = queue[o] /\ Events(o)' = Events(o)
                        \/ /\ run[o].thread # 0
                           /\ \A e \in Events(o)' : e \in Events(o) \/ e[1] = "request"
  PROVE  CodexInv' /\ Reported'
<1>1. Kept
  BY DEF Kept
<1>2. \A o \in Run : \A e \in Events(o)' : e \in Events(o) \/ e[1] = "request"
  OBVIOUS
<1>3. Owned' /\ Counted'
  BY <1>1, <1>2, OwnersKept DEF CodexInv
<1>4. \A o \in Run : ~ Loosened(o)' => ~ Loosened(o) /\ o \notin loose'
  BY DEF Loosened
<1>5. Unthreaded'
  BY DEF Unthreaded, CodexInv
<1>6. Registry' /\ Process'
  BY <1>4 DEF Registry, Process, CodexInv
<1>7. Attended'
  BY <1>2, <1>4 DEF Attended, CodexInv
<1>8. Own'
  BY <1>4 DEF Own, CodexInv
<1>9. Reported'
  BY <1>2 DEF Reported
<1> QED BY <1>3, <1>5, <1>6, <1>7, <1>8, <1>9 DEF CodexInv

LEMMA CodexSettlesInv ==
  ASSUME TypeOK, CodexInv, Reported, NEW q \in Request,
         CodexAnswers(q) \/ CodexExpires(q) \/ CodexLapses(q)
  PROVE  CodexInv' /\ Reported'
<1>1. Settles(q) /\ UNCHANGED <<proc, active, turn>> /\ TypeOKTurns
  BY DEF CodexAnswers, CodexExpires, CodexLapses, Settles, codexVars, TypeOK
<1>2. /\ task' \in [Run -> Tasks]
      /\ \/ task' = task
         \/ /\ request[q].row \in Run /\ task[request[q].row] = "waiting"
            /\ task' = [task EXCEPT ![request[q].row] = "active"]
         \/ /\ request[q].row \in Run /\ task[request[q].row] = "waiting"
            /\ task' = [task EXCEPT ![request[q].row] = "over"] /\ TaskExpires(q)
      /\ UNCHANGED <<run, taskOf, queue, ended, session, sessions, text, by, cancelled>>
  BY <1>1, SettlesSet
<1>3. /\ loose \subseteq loose' /\ loose' \subseteq Run
      /\ \A o \in loose' \ loose : Live(o) /\ task[taskOf[o]] = "waiting"
  BY DEF CodexAnswers, CodexExpires, CodexLapses, codexVars, TypeOK, TypeOKCodex
<1>4. \A o \in loose' : run[o].thread # 0
  BY <1>3 DEF CodexInv, Unthreaded, Rows
<1>5. Rows'
  <2>1. Kept /\ task \in [Run -> Tasks]
    BY <1>1, <1>2 DEF Kept, TypeOKTurns
  <2>2. CASE task' = task
    BY <1>2, <1>3, <2>1, <2>2, RowsMoved DEF CodexInv, Live
  <2>3. CASE /\ request[q].row \in Run /\ task[request[q].row] = "waiting"
             /\ task' = [task EXCEPT ![request[q].row] = "active"]
    <3>1. \A t \in Run : \/ task'[t] = task[t]
                         \/ task'[t] = "active" /\ task[t] = "waiting"
      BY <2>1, <2>3
    <3>2. /\ \A t \in Run : task[t] = "none" => task'[t] = "none"
          /\ \A t \in Run : task'[t] \in InFlight => task[t] \in InFlight
      BY <3>1 DEF InFlight
    <3>3. \A o \in Run : Live(o)' => task'[taskOf[o]] = task[taskOf[o]] \/ task'[taskOf[o]] = "active"
      BY <1>2, <3>1 DEF Live, CodexInv, Rows
    <3> QED BY <1>2, <1>3, <2>1, <3>2, <3>3, RowsMoved DEF CodexInv, Live
  <2>4. CASE /\ request[q].row \in Run /\ task[request[q].row] = "waiting"
             /\ task' = [task EXCEPT ![request[q].row] = "over"] /\ TaskExpires(q)
    <3>1. \A t \in Run : \/ task'[t] = task[t]
                         \/ task'[t] = "over" /\ task[t] = "waiting" /\ t = request[q].row
      BY <2>1, <2>4
    <3>2. /\ \A t \in Run : task[t] = "none" => task'[t] = "none"
          /\ \A t \in Run : task'[t] \in InFlight => task[t] \in InFlight
      BY <3>1 DEF InFlight
    <3>3. CodexLapses(q)
      <4>1. task[request[q].row] = "waiting" /\ task'[request[q].row] = "over"
        BY <2>1, <2>4
      <4>2. AnswerRequest(q) => task'[request[q].row] = "active"
        BY <2>1, <2>4 DEF AnswerRequest
      <4>3. RequestTimesOut(q) \/ Dropped(q) => task' = task
        BY DEF RequestTimesOut, Dropped
      <4> QED BY <4>1, <4>2, <4>3 DEF CodexAnswers, CodexExpires
    <3>4. ASSUME NEW o \in Run, Live(o)'
          PROVE  \/ task'[taskOf[o]] = task[taskOf[o]]
                 \/ task'[taskOf[o]] = "over" /\ o \in loose'
      <4>1. Live(o) /\ taskOf[o] \in Run
        BY <1>2, <3>4 DEF Live, CodexInv, Rows
      <4> QED BY <3>1, <3>3, <4>1 DEF CodexLapses
    <3> QED BY <1>2, <1>3, <2>1, <3>2, <3>4, RowsMoved DEF CodexInv, Live
  <2> QED BY <1>2, <2>2, <2>3, <2>4
<1> QED BY <1>1, <1>2, <1>3, <1>4, <1>5, CodexQuiet DEF Events

LEMMA RowsSame ==
  ASSUME TypeOK, Rows, UNCHANGED <<run, taskOf, task, loose>>
  PROVE  Rows'
BY DEF Rows, Live

LEMMA CodexUnchanged ==
  ASSUME TypeOK, CodexInv, Reported,
         UNCHANGED <<run, taskOf, task, queue, ended, session, sessions, text, by, proc, active,
                     turn, loose>>
  PROVE  CodexInv' /\ Reported'
<1>1. Rows'
  BY RowsSame DEF CodexInv
<1>2. loose' \subseteq Run /\ \A o \in loose' : run[o].thread # 0
  BY DEF CodexInv, Unthreaded, TypeOK, TypeOKCodex
<1> QED BY <1>1, <1>2, CodexQuiet DEF Events

LEMMA CodexAsksInv ==
  ASSUME TypeOK, CodexInv, Reported, NEW q \in Request, NEW r \in Run, CodexAsks(q, r)
  PROVE  CodexInv' /\ Reported'
<1>1. /\ turn[r] = "running"
      /\ UNCHANGED <<run, taskOf, task, ended, session, sessions, text, by, proc, active, turn, loose>>
  BY DEF CodexAsks, codexVars
<1>2. Rows'
  BY <1>1, RowsSame DEF CodexInv
<1>3. loose' \subseteq Run /\ \A o \in loose' : run[o].thread # 0
  BY <1>1 DEF CodexInv, Unthreaded, TypeOK, TypeOKCodex
<1>4. PICK p \in Run \cup {0} : p = Receiver(r) /\ (p # 0 => run[p].thread # 0)
  BY <1>1, ReceiverIs
<1>5. queue' = queue \/ (p # 0 /\ queue' = PushedTo(p, <<"request", q>>))
  BY <1>4 DEF CodexAsks, Asked, Refused
<1>6. \A o \in Run : \/ queue'[o] = queue[o] /\ Events(o)' = Events(o)
                     \/ /\ run[o].thread # 0
                        /\ \A e \in Events(o)' : e \in Events(o) \/ e[1] = "request"
  <2>1. CASE queue' = queue
    BY <2>1 DEF Events
  <2>2. CASE p # 0 /\ queue' = PushedTo(p, <<"request", q>>)
    <3>1. p \in Run /\ <<"request", q>> \in Event
      BY <2>2, EventType
    <3>2. /\ \A o \in Run : o # p => queue'[o] = queue[o] /\ Events(o)' = Events(o)
          /\ Events(p)' \subseteq Events(p) \cup {<<"request", q>>}
      BY <2>2, <3>1, PushedItems DEF TypeOK
    <3> QED BY <1>4, <2>2, <3>2
  <2> QED BY <1>5, <2>1, <2>2
<1> QED BY <1>1, <1>2, <1>3, <1>6, CodexQuiet

LEMMA CodexStartsInv ==
  ASSUME TypeOK, CodexInv, Reported, NEW r \in Run, NEW c \in Conversation, CodexStarts(r, c)
  PROVE  CodexInv' /\ Reported'
<1> DEFINE s == IF proc = "none" THEN "initialize" ELSE NextCall(c)
<1>1. UNCHANGED <<queue, ended, session, sessions, text, by, active, turn, loose>>
  BY DEF CodexStarts
<1>2. /\ Startable(r, c) /\ Claims(r, c)
      /\ run' = [run EXCEPT ![r].conv = c, ![r].state = s]
      /\ proc' = IF proc = "none" THEN "starting" ELSE proc
  BY DEF CodexStarts
<1>3. /\ s \in {"initialize", "resume", "thread"}
      /\ s = "initialize" => proc = "none"
      /\ s = "resume" => session[c] # 0
  BY DEF NextCall
<1> HIDE DEF s
<1>4. /\ run'[r].state = s /\ run'[r].conv = c
      /\ \A o \in Run : run'[o].thread = run[o].thread /\ run'[o].outcome = run[o].outcome
      /\ \A o \in Run : o # r => run'[o] = run[o]
  <2> DEFINE a == [[run[r] EXCEPT !.conv = c] EXCEPT !.state = s]
  <2>1. run \in [Run -> Runs] /\ run[r] \in Runs
    BY DEF TypeOK, TypeOKTurns
  <2>2. run' = [run EXCEPT ![r] = a]
    BY <1>2, <2>1
  <2>3. a.state = s /\ a.conv = c /\ a.thread = run[r].thread /\ a.outcome = run[r].outcome
    BY <2>1 DEF Runs
  <2> HIDE DEF a
  <2> QED BY <2>1, <2>2, <2>3
<1>5. /\ run[r].state = "idle" /\ run[r].thread = 0
      /\ \A t \in Run : run[t].conv = c => task[t] \notin InFlight
  BY <1>2 DEF Startable, CodexInv, Unthreaded
<1>6. \A o \in Run : Events(o)' = Events(o)
  BY <1>1 DEF Events
<1>7. \A o \in Run : Loosened(o)' <=> Loosened(o)
  BY <1>1, <1>4 DEF Loosened, TypeOK, TypeOKCodex
<1>8. Unthreaded'
  <2>1. ASSUME NEW o \in Run
        PROVE  /\ run'[o].state \in {"idle", "initialize", "resume", "thread"} => run'[o].thread = 0
               /\ run'[o].thread = 0 =>
                    /\ run'[o].state \notin {"start", "stream"}
                    /\ turn'[o] = "none" /\ o \notin loose' /\ o \notin ended'
                    /\ queue'[o] = <<>> /\ text'[o] = {} /\ by'[o] = <<>>
    BY <1>1, <1>3, <1>4, <1>5 DEF CodexInv, Unthreaded
  <2> QED BY <2>1 DEF Unthreaded
<1>9. Rows'
  <2>1. PICK t \in Run :
          /\ t = r \/ (run[t].conv = c /\ task[t] = "retry")
          /\ taskOf'[r] = t /\ \A o \in Run : o # r => taskOf'[o] = taskOf[o]
          /\ task'[t] = "active" /\ \A u \in Run : u # t => task'[u] = task[u]
    BY <1>2, ClaimsSet DEF TypeOK
  <2>2. task[r] = "none" /\ (t # r => run[t].state # "idle")
    BY <1>5, <2>1 DEF CodexInv, Rows
  <2>3. \A o \in Run : Live(o)' => o = r \/ (o # r /\ Live(o))
    BY <1>4 DEF Live
  <2>4. \A o \in Run : Live(o) => taskOf[o] \in Run /\ taskOf[o] # t
    <3>1. \A o \in Run : Live(o) => /\ taskOf[o] \in Run /\ run[taskOf[o]].state # "idle"
                                    /\ task[taskOf[o]] # "retry"
      BY DEF CodexInv, Rows, Live
    <3> QED BY <1>5, <2>1, <3>1
  <2>5. \A o \in Run : run'[o].state = "idle" => task'[o] = "none"
    BY <1>3, <1>4, <2>1, <2>2 DEF CodexInv, Rows
  <2>6. ASSUME NEW o \in Run, run'[o].state # "idle"
        PROVE  /\ run'[o].conv \in Conversation
               /\ taskOf'[o] \in Run
               /\ run'[taskOf'[o]].state # "idle"
               /\ run'[taskOf'[o]].conv = run'[o].conv
    <3>1. CASE o = r
      BY <1>3, <1>4, <2>1, <2>2, <3>1
    <3>2. CASE o # r
      <4>1. /\ run[o].state # "idle" /\ run'[o] = run[o] /\ taskOf'[o] = taskOf[o]
            /\ taskOf[o] \in Run /\ run[taskOf[o]].state # "idle"
            /\ run[taskOf[o]].conv = run[o].conv /\ run[o].conv \in Conversation
        BY <1>4, <2>1, <2>6, <3>2 DEF CodexInv, Rows
      <4>2. taskOf[o] # r
        BY <1>5, <4>1
      <4> QED BY <1>4, <4>1, <4>2
    <3> QED BY <3>1, <3>2
  <2>7. ASSUME NEW o \in Run, NEW p \in Run, Live(o)', Live(p)', taskOf'[o] = taskOf'[p]
        PROVE  o = p
    BY <2>1, <2>3, <2>4, <2>7 DEF CodexInv, Rows
  <2>8. ASSUME NEW u \in Run, NEW v \in Run, task'[u] \in InFlight, task'[v] \in InFlight,
               run'[u].conv = run'[v].conv
        PROVE  u = v
    <3>1. run'[t].conv = c
      BY <1>4, <2>1
    <3>2. ASSUME NEW w \in Run, w # t, task'[w] \in InFlight
          PROVE  task[w] \in InFlight /\ run'[w].conv = run[w].conv /\ run[w].conv # c
      <4>1. task[w] \in InFlight /\ w # r
        BY <2>1, <2>2, <3>2 DEF InFlight
      <4> QED BY <1>4, <1>5, <4>1
    <3>3. CASE u = t \/ v = t
      BY <2>8, <3>1, <3>2, <3>3
    <3>4. CASE u # t /\ v # t
      BY <2>8, <3>2, <3>4 DEF CodexInv, Rows
    <3> QED BY <3>3, <3>4
  <2>9. ASSUME NEW o \in Run, Live(o)'
        PROVE  \/ task'[taskOf'[o]] = "active"
               \/ task'[taskOf'[o]] = "waiting" /\ run'[o].state = "stream"
               \/ task'[taskOf'[o]] = "over" /\ o \in loose'
    <3>1. CASE o = r
      BY <2>1, <3>1
    <3>2. CASE o # r
      <4>1. Live(o) /\ run'[o] = run[o] /\ taskOf'[o] = taskOf[o]
            /\ task'[taskOf[o]] = task[taskOf[o]]
        BY <1>4, <2>1, <2>3, <2>4, <2>9, <3>2
      <4> QED BY <1>1, <4>1 DEF CodexInv, Rows
    <3> QED BY <3>1, <3>2
  <2> QED BY <2>5, <2>6, <2>7, <2>8, <2>9 DEF Rows
<1>10. Owned'
  <2>1. \A o \in Run : run'[o].thread <= sessions'
    BY <1>1, <1>4 DEF CodexInv, Owned
  <2>2. \A o \in Run : run'[o].thread # 0 => o # r /\ run'[o].conv = run[o].conv
    BY <1>4, <1>5
  <2>3. \A o, p \in Run :
          run'[o].thread # 0 /\ run'[o].thread = run'[p].thread => run'[o].conv = run'[p].conv
    BY <1>4, <2>2 DEF CodexInv, Owned
  <2>4. \A o \in Run, d \in Conversation :
          run'[o].thread # 0 /\ run'[o].thread = session'[d] => run'[o].conv = d
    BY <1>1, <1>4, <2>2 DEF CodexInv, Owned
  <2>5. \A o \in Run : run'[o].state = "resume" => session'[run'[o].conv] # 0
    <3>1. session'[run'[r].conv] = session[c] /\ (run'[r].state = "resume" => session[c] # 0)
      BY <1>1, <1>3, <1>4
    <3>2. \A o \in Run : o # r /\ run'[o].state = "resume" => session'[run'[o].conv] # 0
      BY <1>1, <1>4 DEF CodexInv, Owned
    <3> QED BY <3>1, <3>2
  <2>6. \A o \in Run : \A e \in Events(o)' : e[1] = "session" => e[2] = run'[o].thread
    BY <1>4, <1>6 DEF CodexInv, Owned
  <2> QED BY <1>1, <2>1, <2>3, <2>4, <2>5, <2>6 DEF CodexInv, Owned
<1>11. Counted'
  BY <1>1, <1>4 DEF CodexInv, Counted, Threaded
<1>12. Registry'
  <2>1. \A t \in Thread : active'[t] # 0 => active[t] \in Run /\ active[t] # r
    BY <1>1, <1>5 DEF CodexInv, Registry, TypeOK, TypeOKCodex
  <2>2. \A t \in Thread : active'[t] # 0 =>
          run'[active'[t]].thread = t /\ run'[active'[t]].state \in {"start", "stream"}
    BY <1>1, <1>4, <2>1 DEF CodexInv, Registry
  <2>3. \A o \in Run : run'[o].state \in {"start", "stream"} => o # r /\ run'[o] = run[o]
    BY <1>3, <1>4
  <2>4. \A o \in Run : run'[o].state \in {"start", "stream"} /\ ~ Loosened(o)' =>
          active'[run'[o].thread] = o
    BY <1>1, <1>7, <2>3 DEF CodexInv, Registry
  <2> QED BY <2>2, <2>4 DEF Registry
<1>13. Process'
  <2>1. proc' = IF proc = "none" THEN "starting" ELSE proc
    BY DEF CodexStarts
  <2>2. \A o \in Run : run'[o].state = "initialize" =>
          IF o = r THEN proc = "none" ELSE run[o].state = "initialize"
    BY <1>3, <1>4
  <2> QED BY <1>4, <2>1, <2>2 DEF CodexInv, Process
<1>14. Attended' /\ Own'
  <2>1. turn[r] = "none"
    BY <1>5 DEF CodexInv, Unthreaded
  <2>2. \A o \in Run : turn'[o] \in {"asked", "running"} => o # r /\ run'[o] = run[o]
    BY <1>1, <1>4, <2>1
  <2>3. Attended'
    BY <1>1, <1>6, <1>7, <2>2 DEF CodexInv, Attended
  <2>4. Own'
    BY <1>1, <1>7 DEF CodexInv, Own
  <2> QED BY <2>3, <2>4
<1>15. Reported'
  BY <1>1, <1>4, <1>6 DEF Reported
<1> QED BY <1>8, <1>9, <1>10, <1>11, <1>12, <1>13, <1>14, <1>15 DEF CodexInv

(* Actions that only move runs on: the threads, the queues and the answers *)
(* stay, no turn is asked for, and a run whose turn is under way leaves    *)
(* start and stream only when it is given up.                              *)
LEMMA MovedInv ==
  ASSUME TypeOK, CodexInv, Reported, Kept,
         UNCHANGED <<queue, ended, session, sessions, text, by>>,
         loose \subseteq loose', loose' \subseteq Run,
         \A o \in loose' : run[o].thread # 0,
         \A o \in Run : run[o].state \in {"idle", "over"} => run'[o].state = run[o].state,
         \A o \in Run : run'[o].state = "resume" =>
            run[o].state = "resume" \/ session[run[o].conv] # 0,
         \A o \in Run : run'[o].state \in {"start", "stream"} =>
            run[o].state \in {"start", "stream"},
         \A o \in Run : run[o].state \in {"start", "stream"} =>
            run'[o].state \in {"start", "stream", "over"},
         \A o \in Run : run'[o].outcome = "success" => run[o].outcome = "success",
         \A o \in Run : turn[o] = "none" => turn'[o] = "none",
         \A o \in Run : turn'[o] = "asked" => turn[o] = "asked",
         \A o \in Run : turn'[o] = "running" => turn[o] \in {"asked", "running"},
         \A o \in Run : turn'[o] \in {"asked", "running"} =>
            \/ run'[o].state = run[o].state
            \/ run'[o].state = "stream" /\ turn'[o] = "running"
            \/ o \in loose'
  PROVE  Unthreaded' /\ Owned' /\ Counted' /\ Attended' /\ Own' /\ Reported'
<1>1. \A o \in Run : Events(o)' = Events(o)
  BY DEF Events
<1>2. Owned' /\ Counted'
  BY <1>1, OwnersKept DEF CodexInv
<1>3. \A o \in Run : ~ Loosened(o)' => ~ Loosened(o) /\ o \notin loose'
  BY DEF Loosened, Kept
<1>4. Unthreaded'
  <2>1. \A o \in Run : run'[o].state \in {"idle", "initialize", "resume", "thread"} =>
          run[o].state \in {"idle", "initialize", "resume", "thread"}
    BY RunsType DEF TypeOK, State
  <2> QED BY <2>1 DEF Unthreaded, CodexInv, Kept
<1>5. Attended'
  BY <1>1, <1>3 DEF Attended, CodexInv
<1>6. Own'
  BY <1>3 DEF Own, CodexInv
<1>7. Reported'
  BY <1>1 DEF Reported
<1> QED BY <1>2, <1>4, <1>5, <1>6, <1>7

(* The registry is kept while no run comes to wait for events or ceases to. *)
LEMMA RegistryKept ==
  ASSUME TypeOK, CodexInv, Kept, active' = active, loose \subseteq loose',
         \A o \in Run : run'[o].state \in {"start", "stream"} <=>
                        run[o].state \in {"start", "stream"}
  PROVE  Registry'
<1>1. \A t \in Thread : active[t] \in Run \cup {0}
  BY DEF TypeOK, TypeOKCodex
<1>2. \A o \in Run : ~ Loosened(o)' => ~ Loosened(o)
  BY DEF Loosened, Kept, TypeOK, TypeOKCodex
<1> QED BY <1>1, <1>2 DEF Registry, CodexInv, Kept

(* If a run leaves a thread in which another one waits, one of the two was *)
(* given up.                                                               *)
LEMMA SharedLoosened ==
  ASSUME TypeOK, CodexInv, NEW r \in Run, NEW o \in Run, r # o, Live(r), Live(o),
         run[r].thread # 0, run[r].thread = run[o].thread
  PROVE  Loosened(o)
<1>1. run[r].conv = run[o].conv
  BY DEF CodexInv, Owned
<1>2. r \in loose \/ o \in loose
  BY <1>1, OneKept DEF CodexInv
<1> QED BY <1>2 DEF Loosened

LEMMA RegistryLeft ==
  ASSUME TypeOK, CodexInv, Kept, NEW r \in Run, active' = Unregistered(r),
         loose \subseteq loose',
         run[r].state \in {"start", "stream"}, run'[r].state = "over",
         \A o \in Run : o # r => run'[o] = run[o]
  PROVE  Registry'
<1>1. /\ \A t \in Thread : t = run[r].thread => active'[t] = 0
      /\ \A t \in Thread : t # run[r].thread => active'[t] = active[t]
  BY UnregisteredSet
<1>2. \A t \in Thread : active[t] \in Run \cup {0}
  BY DEF TypeOK, TypeOKCodex
<1>3. /\ \A o \in Run : run[o].state \in {"start", "stream"} => run[o].thread \in Thread
      /\ run[r].thread # 0
  BY RunsType, AgentTurnsAssumption DEF Thread, TypeOK, CodexInv, Unthreaded
<1>4. \A t \in Thread : active'[t] # 0 => active'[t] = active[t] /\ active[t] # r
  BY <1>1, <1>2 DEF CodexInv, Registry
<1>5. ASSUME NEW o \in Run, run'[o].state \in {"start", "stream"}, ~ Loosened(o)'
      PROVE  active'[run'[o].thread] = o
  <2>1. o # r /\ run'[o] = run[o] /\ run[o].state \in {"start", "stream"}
    BY <1>5
  <2>2. ~ Loosened(o)
    BY <1>5 DEF Loosened, Kept, TypeOK, TypeOKCodex
  <2>3. run[o].thread # run[r].thread
    BY <1>3, <2>1, <2>2, SharedLoosened DEF Live
  <2> QED BY <1>1, <1>3, <2>1, <2>2, <2>3 DEF CodexInv, Registry
<1> QED BY <1>2, <1>4, <1>5 DEF Registry, CodexInv

LEMMA RegistryFails ==
  ASSUME TypeOK, CodexInv, CallsFail, loose' = loose
  PROVE  Registry'
<1>1. Kept /\ \A o \in Run :
              /\ run[o].state \in {"initialize", "thread", "start"} => run'[o].state = "over"
              /\ run[o].state = "resume" => run'[o].state = "thread"
              /\ run[o].state \in {"idle", "stream", "over"} => run'[o].state = run[o].state
  BY CallsFailSet DEF TypeOK
<1>2. \A t \in Thread : active[t] \in Run \cup {0}
  BY DEF TypeOK, TypeOKCodex
<1>3. \A t \in Thread : active'[t] =
         IF \E o \in Run : run[o].state = "start" /\ run[o].thread = t THEN 0 ELSE active[t]
  BY DEF CallsFail
<1>4. \A o \in Run : run'[o].state \in {"start", "stream"} =>
         run[o].state = "stream" /\ run'[o].thread = run[o].thread /\ run[o].thread \in Thread
  BY <1>1, RunsType, AgentTurnsAssumption
     DEF Thread, TypeOK, State, CodexInv, Unthreaded, Registry, Kept
<1>5. ASSUME NEW o \in Run, run'[o].state \in {"start", "stream"}, ~ Loosened(o)'
      PROVE  active'[run'[o].thread] = o
  <2>1. /\ run[o].state = "stream" /\ run'[o].thread = run[o].thread /\ run[o].thread \in Thread
        /\ run[o].thread # 0
    BY <1>4, <1>5, AgentTurnsAssumption DEF Thread
  <2>2. ~ Loosened(o)
    BY <1>1, <1>5 DEF Loosened, Kept, TypeOK, TypeOKCodex
  <2>3. ASSUME NEW p \in Run, run[p].state = "start", run[p].thread = run[o].thread
        PROVE  FALSE
    BY <2>1, <2>2, <2>3, SharedLoosened DEF Live
  <2>4. active'[run[o].thread] = active[run[o].thread]
    BY <1>3, <2>1, <2>3
  <2> QED BY <2>1, <2>2, <2>4 DEF CodexInv, Registry
<1>6. ASSUME NEW t \in Thread, active'[t] # 0
      PROVE  run'[active'[t]].thread = t /\ run'[active'[t]].state \in {"start", "stream"}
  <2>1. PICK o \in Run : active[t] = o /\ active'[t] = o /\ o # 0
                         /\ ~ (run[o].state = "start" /\ run[o].thread = t)
    BY <1>2, <1>3, <1>6
  <2>2. run[o].state = "stream" /\ run[o].thread = t
    BY <2>1 DEF CodexInv, Registry
  <2>3. run'[o].state = "stream" /\ run'[o].thread = t
    BY <1>1, <2>2 DEF Kept
  <2> QED BY <2>1, <2>3
<1> QED BY <1>5, <1>6 DEF Registry

LEMMA ProcessKept ==
  ASSUME TypeOK, CodexInv, Kept, proc' = proc,
         \A o \in Run : run'[o].state = "initialize" => run[o].state = "initialize"
  PROVE  Process'
BY DEF Process, CodexInv, Kept

LEMMA InitializedInv ==
  ASSUME TypeOK, CodexInv, Reported, NEW r \in Run, Initialized(r)
  PROVE  CodexInv' /\ Reported'
<1>1. /\ run[r].state = "initialize" /\ proc = "starting" /\ proc' = "up"
      /\ UNCHANGED <<queue, ended, session, sessions, text, by, active, turn, loose>>
  BY DEF Initialized
<1> DEFINE s == NextCall(run[r].conv)
<1>2. s \in {"resume", "thread"} /\ (s = "resume" => session[run[r].conv] # 0)
  BY DEF NextCall
<1>3. run' = [run EXCEPT ![r].state = s]
  BY DEF Initialized
<1> HIDE DEF s
<1>4. /\ Kept /\ run'[r].state = s
      /\ \A o \in Run : run'[o].outcome = run[o].outcome
      /\ \A o \in Run : o # r => run'[o] = run[o]
  BY <1>2, <1>3, StateSet DEF State, TypeOK
<1>5. turn[r] = "none"
  BY <1>1 DEF CodexInv, Unthreaded
<1>6. loose \subseteq Run /\ \A o \in loose : run[o].thread # 0
  BY DEF CodexInv, Unthreaded, TypeOK, TypeOKCodex
<1>7. Unthreaded' /\ Owned' /\ Counted' /\ Attended' /\ Own' /\ Reported'
  BY <1>1, <1>2, <1>4, <1>5, <1>6, MovedInv
<1>8. Registry'
  BY <1>1, <1>2, <1>4, RegistryKept
<1>9. Process'
  <2>1. \A o \in Run : run'[o].state # "initialize"
    BY <1>1, <1>2, <1>4 DEF CodexInv, Process
  <2> QED BY <1>1, <2>1 DEF Process
<1>10. Rows'
  <2>1. UNCHANGED <<taskOf, task>>
    BY DEF Initialized
  <2> QED BY <1>1, <1>2, <1>4, <2>1, RowsMoved DEF CodexInv, Live
<1> QED BY <1>7, <1>8, <1>9, <1>10 DEF CodexInv

LEMMA ResumeFailsInv ==
  ASSUME TypeOK, CodexInv, Reported, NEW r \in Run, ResumeFails(r)
  PROVE  CodexInv' /\ Reported'
<1>1. /\ run[r].state = "resume"
      /\ UNCHANGED <<queue, ended, session, sessions, text, by, proc, active, turn, loose>>
  BY DEF ResumeFails
<1>2. run' = [run EXCEPT ![r].state = "thread"]
  BY DEF ResumeFails
<1>3. /\ Kept /\ run'[r].state = "thread"
      /\ \A o \in Run : run'[o].outcome = run[o].outcome
      /\ \A o \in Run : o # r => run'[o] = run[o]
  BY <1>2, StateSet DEF State, TypeOK
<1>4. turn[r] = "none" /\ loose \subseteq Run /\ \A o \in loose : run[o].thread # 0
  BY <1>1 DEF CodexInv, Unthreaded, TypeOK, TypeOKCodex
<1>5. Unthreaded' /\ Owned' /\ Counted' /\ Attended' /\ Own' /\ Reported'
  BY <1>1, <1>3, <1>4, MovedInv
<1>6. Registry' /\ Process'
  BY <1>1, <1>3, RegistryKept, ProcessKept
<1>7. Rows'
  <2>1. UNCHANGED <<taskOf, task>>
    BY DEF ResumeFails
  <2> QED BY <1>1, <1>3, <2>1, RowsMoved DEF CodexInv, Live
<1> QED BY <1>5, <1>6, <1>7 DEF CodexInv

LEMMA ThreadFailsInv ==
  ASSUME TypeOK, CodexInv, Reported, NEW r \in Run, ThreadFails(r)
  PROVE  CodexInv' /\ Reported'
<1>1. /\ run[r].state = "thread"
      /\ UNCHANGED <<queue, ended, session, sessions, text, by, proc, active, turn, loose>>
  BY DEF ThreadFails
<1>2. run' = Over(r, "failed")
  BY DEF ThreadFails
<1>3. /\ Kept /\ run'[r].state = "over" /\ run'[r].outcome = "failed"
      /\ \A o \in Run : o # r => run'[o] = run[o]
  BY <1>2, OverSet DEF Outcome, TypeOK
<1>4. turn[r] = "none" /\ loose \subseteq Run /\ \A o \in loose : run[o].thread # 0
  BY <1>1 DEF CodexInv, Unthreaded, TypeOK, TypeOKCodex
<1>5. Unthreaded' /\ Owned' /\ Counted' /\ Attended' /\ Own' /\ Reported'
  BY <1>1, <1>3, <1>4, MovedInv
<1>6. Registry' /\ Process'
  BY <1>1, <1>3, RegistryKept, ProcessKept
<1>7. Rows'
  <2>1. taskOf' = taskOf /\ task' = Failed({r}) /\ {r} \in SUBSET Run
    BY DEF ThreadFails
  <2> QED BY <1>1, <1>3, <2>1, RowsFailed DEF CodexInv, Live
<1> QED BY <1>5, <1>6, <1>7 DEF CodexInv

LEMMA TurnStartsInv ==
  ASSUME TypeOK, CodexInv, Reported, NEW r \in Run, TurnStarts(r)
  PROVE  CodexInv' /\ Reported'
<1>1. /\ UNCHANGED <<run, queue, ended, session, sessions, text, by, proc, active, loose>>
      /\ turn[r] = "asked" /\ turn'[r] = "running"
      /\ \A o \in Run : o # r => turn'[o] = turn[o]
  BY DEF TurnStarts, turnVars, TypeOK, TypeOKCodex
<1>2. Kept /\ \A o \in Run : run'[o] = run[o]
  BY <1>1 DEF Kept
<1>3. loose \subseteq Run /\ \A o \in loose : run[o].thread # 0
  BY DEF CodexInv, Unthreaded, TypeOK, TypeOKCodex
<1>4. Unthreaded' /\ Owned' /\ Counted' /\ Attended' /\ Own' /\ Reported'
  BY <1>1, <1>2, <1>3, MovedInv
<1>5. Registry' /\ Process'
  BY <1>1, <1>2, RegistryKept, ProcessKept
<1>6. Rows'
  <2>1. UNCHANGED <<taskOf, task>>
    BY DEF TurnStarts, turnVars
  <2> QED BY <1>1, <2>1, RowsSame DEF CodexInv
<1> QED BY <1>4, <1>5, <1>6 DEF CodexInv

LEMMA StartAnsweredInv ==
  ASSUME TypeOK, CodexInv, Reported, NEW r \in Run, StartAnswered(r)
  PROVE  CodexInv' /\ Reported'
<1>1. /\ run[r].state = "start" /\ turn[r] \in {"running", "done"}
      /\ UNCHANGED <<queue, ended, session, sessions, text, by, proc, active, turn, loose>>
  BY DEF StartAnswered
<1>2. run' = [run EXCEPT ![r].state = "stream"]
  BY DEF StartAnswered
<1>3. /\ Kept /\ run'[r].state = "stream"
      /\ \A o \in Run : run'[o].outcome = run[o].outcome
      /\ \A o \in Run : o # r => run'[o] = run[o]
  BY <1>2, StateSet DEF State, TypeOK
<1>4. loose \subseteq Run /\ \A o \in loose : run[o].thread # 0
  BY DEF CodexInv, Unthreaded, TypeOK, TypeOKCodex
<1>5. Unthreaded' /\ Owned' /\ Counted' /\ Attended' /\ Own' /\ Reported'
  BY <1>1, <1>3, <1>4, MovedInv
<1>6. Registry' /\ Process'
  BY <1>1, <1>3, RegistryKept, ProcessKept
<1>7. Rows'
  <2>1. UNCHANGED <<taskOf, task>>
    BY DEF StartAnswered
  <2> QED BY <1>1, <1>3, <2>1, RowsMoved DEF CodexInv, Live
<1> QED BY <1>5, <1>6, <1>7 DEF CodexInv

(* A run is given up before its turn streams.                              *)
LEMMA StartRejectedInv ==
  ASSUME TypeOK, CodexInv, Reported, NEW r \in Run, StartRejected(r)
  PROVE  CodexInv' /\ Reported'
<1>1. /\ run[r].state = "start" /\ active' = Unregistered(r)
      /\ UNCHANGED <<queue, ended, session, sessions, text, by, proc, loose>>
      /\ turn[r] = "asked" /\ turn'[r] = "none" /\ \A o \in Run : o # r => turn'[o] = turn[o]
  BY DEF StartRejected, TypeOK, TypeOKCodex
<1>2. run' = Over(r, "error")
  BY DEF StartRejected
<1>3. /\ Kept /\ run'[r].state = "over" /\ run'[r].outcome = "error"
      /\ \A o \in Run : o # r => run'[o] = run[o]
  BY <1>2, OverSet DEF Outcome, TypeOK
<1>4. loose \subseteq Run /\ \A o \in loose : run[o].thread # 0
  BY DEF CodexInv, Unthreaded, TypeOK, TypeOKCodex
<1>5. Unthreaded' /\ Owned' /\ Counted' /\ Attended' /\ Own' /\ Reported'
  BY <1>1, <1>3, <1>4, MovedInv
<1>6. Registry' /\ Process'
  BY <1>1, <1>3, RegistryLeft, ProcessKept
<1>7. Rows'
  <2>1. taskOf' = taskOf /\ task' = Failed({r}) /\ {r} \in SUBSET Run
    BY DEF StartRejected
  <2> QED BY <1>1, <1>3, <2>1, RowsFailed DEF CodexInv, Live
<1> QED BY <1>5, <1>6, <1>7 DEF CodexInv

LEMMA StartTimesOutInv ==
  ASSUME TypeOK, CodexInv, Reported, NEW r \in Run, StartTimesOut(r)
  PROVE  CodexInv' /\ Reported'
<1>1. /\ run[r].state = "start" /\ active' = Unregistered(r)
      /\ UNCHANGED <<queue, ended, session, sessions, text, by, proc, turn>>
      /\ loose' = loose \cup {r}
  BY DEF StartTimesOut
<1>2. run' = Over(r, "error")
  BY DEF StartTimesOut
<1>3. /\ Kept /\ run'[r].state = "over" /\ run'[r].outcome = "error"
      /\ \A o \in Run : o # r => run'[o] = run[o]
  BY <1>2, OverSet DEF Outcome, TypeOK
<1>4. loose' \subseteq Run /\ \A o \in loose' : run[o].thread # 0
  BY <1>1 DEF CodexInv, Unthreaded, TypeOK, TypeOKCodex
<1>5. Unthreaded' /\ Owned' /\ Counted' /\ Attended' /\ Own' /\ Reported'
  BY <1>1, <1>3, <1>4, MovedInv
<1>6. Registry' /\ Process'
  BY <1>1, <1>3, RegistryLeft, ProcessKept
<1>7. Rows'
  <2>1. taskOf' = taskOf /\ task' = Failed({r}) /\ {r} \in SUBSET Run
    BY DEF StartTimesOut
  <2> QED BY <1>1, <1>3, <2>1, RowsFailed DEF CodexInv, Live
<1> QED BY <1>5, <1>6, <1>7 DEF CodexInv

(* The calls that wait fail, and no turn is left to run.  Before the       *)
(* app-server is ready there is no thread and so no turn at all.           *)
LEMMA CallsFailInv ==
  ASSUME TypeOK, CodexInv, Reported, CallsFail,
         UNCHANGED <<taskOf, queue, ended, session, sessions, text, by, loose>>,
         \A o \in Run : turn'[o] \in {"none", "done"},
         \A o \in Run : turn[o] = "none" => turn'[o] = "none",
         proc' = "none" => proc = "starting", proc' \in {"none", "gone"}
  PROVE  CodexInv' /\ Reported'
<1>1. Kept /\ \A o \in Run :
              /\ run[o].state \in {"initialize", "thread", "start"} => run'[o].state = "over"
              /\ run[o].state = "resume" => run'[o].state = "thread"
              /\ run[o].state \in {"idle", "stream", "over"} => run'[o].state = run[o].state
              /\ run'[o].outcome = "success" => run[o].outcome = "success"
  BY CallsFailSet DEF TypeOK
<1>2. loose \subseteq Run /\ \A o \in loose : run[o].thread # 0
  BY DEF CodexInv, Unthreaded, TypeOK, TypeOKCodex
<1>3. \A o \in Run : run[o].state \in State
  BY RunsType DEF TypeOK
<1>4. Unthreaded' /\ Owned' /\ Counted' /\ Attended' /\ Own' /\ Reported'
  <2>1. /\ \A o \in Run : run'[o].state \notin {"initialize", "resume", "start"}
        /\ \A o \in Run : run'[o].state = "stream" => run[o].state = "stream"
    BY <1>1, <1>3 DEF State
  <2> QED BY <1>1, <1>2, <2>1, MovedInv
<1>5. Registry'
  BY RegistryFails
<1>6. Process'
  <2>1. \A o \in Run : run'[o].state # "initialize"
    BY <1>1, <1>3 DEF State
  <2> QED BY <1>1, <2>1 DEF Process, CodexInv, Kept
<1>7. Rows'
  <2> DEFINE R == {o \in Run : run[o].state \in {"initialize", "thread", "start"}}
  <2>1. task' = Failed(R) /\ R \in SUBSET Run
    BY DEF CallsFail
  <2>2. \A o \in R : Live(o) /\ ~ Live(o)'
    BY <1>1 DEF Live
  <2>3. /\ \A o \in Run : run'[o].state = "idle" <=> run[o].state = "idle"
        /\ \A o \in Run : Live(o)' => Live(o)
        /\ \A o \in Run : run[o].state = "stream" /\ Live(o)' => run'[o].state = "stream"
    BY <1>1, <1>3 DEF Live, State
  <2> HIDE DEF R
  <2> QED BY <1>1, <2>1, <2>2, <2>3, RowsFailed DEF CodexInv
<1> QED BY <1>4, <1>5, <1>6, <1>7 DEF CodexInv

LEMMA InitializeFailsInv ==
  ASSUME TypeOK, CodexInv, Reported, NEW r \in Run, InitializeFails(r)
  PROVE  CodexInv' /\ Reported'
<1>1. /\ run[r].state = "initialize" /\ proc' = "none"
      /\ UNCHANGED <<queue, ended, session, sessions, text, by, active, turn, loose>>
  BY DEF InitializeFails
<1>2. run' = Over(r, "failed")
  BY DEF InitializeFails
<1>3. /\ Kept /\ run'[r].state = "over" /\ run'[r].outcome = "failed"
      /\ \A o \in Run : o # r => run'[o] = run[o]
  BY <1>2, OverSet DEF Outcome, TypeOK
<1>4. turn[r] = "none" /\ loose \subseteq Run /\ \A o \in loose : run[o].thread # 0
  BY <1>1 DEF CodexInv, Unthreaded, TypeOK, TypeOKCodex
<1>5. Unthreaded' /\ Owned' /\ Counted' /\ Attended' /\ Own' /\ Reported'
  BY <1>1, <1>3, <1>4, MovedInv
<1>6. Registry'
  BY <1>1, <1>3, RegistryKept
<1>7. Process'
  <2>1. \A o \in Run : run'[o].state # "initialize" /\ run[o].thread = 0
    BY <1>1, <1>3 DEF CodexInv, Process
  <2> QED BY <1>3, <2>1 DEF Process, Kept
<1>8. Rows'
  <2>1. taskOf' = taskOf /\ task' = Failed({r}) /\ {r} \in SUBSET Run
    BY DEF InitializeFails
  <2> QED BY <1>1, <1>3, <2>1, RowsFailed DEF CodexInv, Live
<1> QED BY <1>5, <1>6, <1>7, <1>8 DEF CodexInv

LEMMA ProcessExitsInv ==
  ASSUME TypeOK, CodexInv, Reported, ProcessExits
  PROVE  CodexInv' /\ Reported'
<1>1. /\ proc \in {"starting", "up"} /\ CallsFail
      /\ UNCHANGED <<taskOf, queue, ended, session, sessions, text, by, loose>>
  BY DEF ProcessExits
<1>2. proc' = IF proc = "starting" THEN "none" ELSE "gone"
  BY DEF ProcessExits
<1>3. \A o \in Run : turn'[o] = IF turn[o] = "none" THEN "none" ELSE "done"
  BY DEF ProcessExits
<1> QED BY <1>1, <1>2, <1>3, CallsFailInv

LEMMA TurnSpeaksInv ==
  ASSUME TypeOK, CodexInv, Reported, NEW r \in Run, TurnSpeaks(r)
  PROVE  CodexInv' /\ Reported'
<1>1. /\ turn[r] = "running"
      /\ UNCHANGED <<run, queue, ended, session, sessions, by, proc, active, turn, loose>>
  BY DEF TurnSpeaks, codexVars
<1>2. text' = IF Receiver(r) = 0 THEN text
              ELSE [text EXCEPT ![Receiver(r)] = text[Receiver(r)] \cup {<<r, 1>>}]
  BY DEF TurnSpeaks
<1>3. /\ Receiver(r) \in Run \cup {0}
      /\ Receiver(r) # 0 => /\ run[Receiver(r)].thread # 0
                            /\ Loosened(Receiver(r)) <=> Loosened(r)
      /\ ~ Loosened(r) => Receiver(r) = r
  BY <1>1, ReceiverIs
<1>4. \A o \in Run : \/ text'[o] = text[o]
                     \/ /\ o = Receiver(r) /\ o # 0
                        /\ text'[o] = text[o] \cup {<<r, 1>>}
  BY <1>2, <1>3 DEF TypeOK, TypeOKTurns
<1>5. \A o \in Run : Events(o)' = Events(o) /\ (Loosened(o)' <=> Loosened(o))
  BY <1>1 DEF Events, Loosened
<1>6. Owned' /\ Counted'
  BY <1>1, <1>5, OwnersKept DEF Kept, CodexInv
<1>7. Unthreaded'
  BY <1>1, <1>3, <1>4 DEF CodexInv, Unthreaded
<1>8. Registry' /\ Process' /\ Attended' /\ Reported'
  <2>1. Registry' /\ Process'
    BY <1>1, <1>5 DEF CodexInv, Registry, Process
  <2>2. Attended' /\ Reported'
    BY <1>1, <1>5 DEF CodexInv, Attended, Reported
  <2> QED BY <2>1, <2>2
<1>9. Own'
  <2>1. ASSUME NEW o \in Run, ~ Loosened(o)'
        PROVE  text'[o] \subseteq {<<o, 1>>} /\ by'[o] \in {<<>>, <<o, 1>>}
    <3>1. ~ Loosened(o)
      BY <1>5, <2>1
    <3>2. o = Receiver(r) => o = r
      BY <1>3, <3>1, RunsPositive
    <3>3. text[o] \subseteq {<<o, 1>>} /\ by[o] \in {<<>>, <<o, 1>>}
      BY <3>1 DEF CodexInv, Own
    <3> QED BY <1>1, <1>4, <3>2, <3>3
  <2> QED BY <2>1 DEF Own
<1>10. Rows'
  BY <1>1, RowsSame DEF CodexInv, TurnSpeaks
<1> QED BY <1>6, <1>7, <1>8, <1>9, <1>10 DEF CodexInv

LEMMA TurnCompletesInv ==
  ASSUME TypeOK, CodexInv, Reported, NEW r \in Run,
         NEW status \in {"success", "cancelled", "error"}, TurnCompletes(r, status)
  PROVE  CodexInv' /\ Reported'
<1>1. /\ turn[r] = "running" /\ turn'[r] = "done" /\ \A o \in Run : o # r => turn'[o] = turn[o]
      /\ UNCHANGED <<run, session, sessions, text, proc, active, loose>>
  BY DEF TurnCompletes, TypeOK, TypeOKCodex
<1>2. PICK p \in Run \cup {0} :
        /\ p = Receiver(r)
        /\ p # 0 => run[p].thread # 0 /\ (Loosened(p) <=> Loosened(r))
        /\ ~ Loosened(r) => p = r
  BY <1>1, ReceiverIs
<1>3. \/ /\ p = 0 /\ UNCHANGED <<queue, ended, by>>
      \/ /\ p # 0 /\ queue' = PushedTo(p, <<status, 0>>)
         /\ ended' = ended \cup {p} /\ by' = [by EXCEPT ![p] = <<r, 1>>]
  BY <1>2 DEF TurnCompletes, Routed, Pushed
<1>4. \A o \in Run :
        \/ /\ queue'[o] = queue[o] /\ Events(o)' = Events(o) /\ by'[o] = by[o]
           /\ o \in ended' <=> o \in ended
        \/ /\ o = p /\ p # 0 /\ Events(o)' \subseteq Events(o) \cup {<<status, 0>>}
           /\ by'[o] = <<r, 1>>
  <2>1. CASE p = 0
    BY <1>3, <2>1 DEF Events
  <2>2. CASE p # 0
    <3>1. p \in Run /\ queue' = PushedTo(p, <<status, 0>>) /\ <<status, 0>> \in Event
      BY <1>2, <1>3, <2>2, EventType
    <3>2. /\ \A o \in Run : o # p => queue'[o] = queue[o] /\ Events(o)' = Events(o)
          /\ Events(p)' \subseteq Events(p) \cup {<<status, 0>>}
      BY <3>1, PushedItems DEF TypeOK
    <3>3. /\ by'[p] = <<r, 1>> /\ \A o \in Run : o # p => by'[o] = by[o]
          /\ \A o \in Run : o # p => (o \in ended' <=> o \in ended)
      BY <1>3, <2>2, <3>1 DEF TypeOK, TypeOKTurns
    <3> QED BY <2>2, <3>2, <3>3
  <2> QED BY <2>1, <2>2
<1>5. \A o \in Run : Loosened(o)' <=> Loosened(o)
  BY <1>1 DEF Loosened
<1>6. Owned' /\ Counted'
  <2>1. \A o \in Run : \A e \in Events(o)' : e[1] = "session" => e \in Events(o)
    BY <1>4
  <2> QED BY <1>1, <2>1, OwnersKept DEF Kept, CodexInv
<1>7. Unthreaded'
  <2>1. run[r].thread # 0
    BY <1>1 DEF CodexInv, Unthreaded
  <2> QED BY <1>1, <1>2, <1>4, <2>1 DEF CodexInv, Unthreaded
<1>8. Registry' /\ Process'
  BY <1>1, <1>5 DEF CodexInv, Registry, Process
<1>9. Attended'
  <2>1. ASSUME NEW o \in Run, turn'[o] \in {"asked", "running"}, ~ Loosened(o)'
        PROVE  /\ run'[o].state \in {"start", "stream"}
               /\ turn'[o] = "asked" => run'[o].state = "start"
               /\ o \notin ended'
               /\ \A e \in Events(o)' : e[1] \in {"session", "request"}
    <3>1. o # r /\ turn[o] = turn'[o] /\ ~ Loosened(o)
      BY <1>1, <1>5, <2>1
    <3>2. o # p
      BY <1>2, <3>1, RunsPositive
    <3> QED BY <1>1, <1>4, <2>1, <3>1, <3>2 DEF CodexInv, Attended
  <2> QED BY <2>1 DEF Attended
<1>10. Own'
  <2>1. ASSUME NEW o \in Run, ~ Loosened(o)'
        PROVE  text'[o] \subseteq {<<o, 1>>} /\ by'[o] \in {<<>>, <<o, 1>>}
    <3>1. ~ Loosened(o)
      BY <1>5, <2>1
    <3>2. o = p => o = r
      BY <1>2, <3>1, RunsPositive
    <3>3. text[o] \subseteq {<<o, 1>>} /\ by[o] \in {<<>>, <<o, 1>>}
      BY <3>1 DEF CodexInv, Own
    <3> QED BY <1>1, <1>4, <3>2, <3>3
  <2> QED BY <2>1 DEF Own
<1>11. Reported'
  <2>1. <<r, 1>> # <<>>
    OBVIOUS
  <2> QED BY <1>1, <1>4, <2>1 DEF Reported
<1>12. Rows'
  BY <1>1, RowsSame DEF CodexInv, TurnCompletes
<1> QED BY <1>6, <1>7, <1>8, <1>9, <1>10, <1>11, <1>12 DEF CodexInv

LEMMA ErrorNotifiedInv ==
  ASSUME TypeOK, CodexInv, Reported, NEW r \in Run, ErrorNotified(r)
  PROVE  CodexInv' /\ Reported'
<1>1. /\ turn[r] = "running" /\ loose' = loose \cup {r}
      /\ UNCHANGED <<run, ended, session, sessions, text, by, proc, active, turn>>
  BY DEF ErrorNotified
<1>2. PICK p \in Run \cup {0} :
        /\ p = Receiver(r) /\ run[r].thread # 0
        /\ p # 0 => run[p].thread = run[r].thread
  BY <1>1, ReceiverIs, AgentTurnsAssumption DEF Thread
<1>3. (p = 0 /\ queue' = queue) \/ (p # 0 /\ queue' = PushedTo(p, <<"error", 0>>))
  BY <1>2 DEF ErrorNotified, Pushed
<1>4. \A o \in Run : \/ queue'[o] = queue[o] /\ Events(o)' = Events(o)
                     \/ o = p /\ p # 0 /\ Events(o)' \subseteq Events(o) \cup {<<"error", 0>>}
  <2>1. CASE p = 0
    BY <1>3, <2>1 DEF Events
  <2>2. CASE p # 0
    <3>1. p \in Run /\ queue' = PushedTo(p, <<"error", 0>>) /\ <<"error", 0>> \in Event
      BY <1>2, <1>3, <2>2, EventType
    <3>2. /\ \A o \in Run : o # p => queue'[o] = queue[o] /\ Events(o)' = Events(o)
          /\ Events(p)' \subseteq Events(p) \cup {<<"error", 0>>}
      BY <3>1, PushedItems DEF TypeOK
    <3> QED BY <2>2, <3>2
  <2> QED BY <2>1, <2>2
<1>5. Kept
  BY <1>1 DEF Kept
<1>6. /\ \A o \in Run : ~ Loosened(o)' => ~ Loosened(o)
      /\ p # 0 => Loosened(p)'
  <2>1. r \in loose' /\ (p # 0 => run'[r].thread = run'[p].thread)
    BY <1>1, <1>2
  <2>2. \A o \in Run : ~ Loosened(o)' => ~ Loosened(o)
    BY <1>1, <1>5 DEF Loosened, Kept
  <2> QED BY <2>1, <2>2 DEF Loosened
<1>7. Owned' /\ Counted'
  <2>1. \A o \in Run : \A e \in Events(o)' : e[1] = "session" => e \in Events(o)
    BY <1>4
  <2> QED BY <1>1, <1>5, <2>1, OwnersKept DEF CodexInv
<1>8. Unthreaded'
  BY <1>1, <1>2, <1>4 DEF CodexInv, Unthreaded
<1>9. Registry' /\ Process'
  BY <1>1, <1>6 DEF CodexInv, Registry, Process
<1>10. Attended'
  <2>1. ASSUME NEW o \in Run, ~ Loosened(o)'
        PROVE  Events(o)' = Events(o)
    BY <1>4, <1>6, <2>1
  <2> QED BY <1>1, <1>6, <2>1 DEF CodexInv, Attended
<1>11. Own'
  BY <1>1, <1>6 DEF CodexInv, Own
<1>12. Reported'
  BY <1>1, <1>4 DEF Reported
<1>13. Rows'
  <2>1. UNCHANGED <<taskOf, task>>
    BY DEF ErrorNotified
  <2> QED BY <1>1, <1>5, <2>1, RowsMoved DEF CodexInv, Live
<1> QED BY <1>7, <1>8, <1>9, <1>10, <1>11, <1>12, <1>13 DEF CodexInv

(* The run gets a thread no other conversation has, and is the one that    *)
(* waits for its events.                                                   *)
LEMMA RegisteredInv ==
  ASSUME TypeOK, CodexInv, Reported, NEW r \in Run, NEW t \in Thread, Registered(r, t),
         run[r].state \in {"resume", "thread"}, proc = "up",
         UNCHANGED <<taskOf, task, ended, session, text, by, proc, loose>>,
         sessions' \in Nat, sessions <= sessions', t <= sessions',
         \A o \in Run : run[o].thread = t => run[o].conv = run[r].conv,
         \A c \in Conversation : session[c] = t => c = run[r].conv
  PROVE  /\ Unthreaded' /\ Rows' /\ Owned' /\ Registry' /\ Process'
         /\ Attended' /\ Own' /\ Reported'
<1>1. /\ run'[r].state = "start" /\ run'[r].thread = t
      /\ run'[r].conv = run[r].conv /\ run'[r].outcome = run[r].outcome
      /\ \A o \in Run : o # r => run'[o] = run[o]
      /\ active'[t] = r /\ \A u \in Thread : u # t => active'[u] = active[u]
      /\ turn'[r] = "asked" /\ \A o \in Run : o # r => turn'[o] = turn[o]
      /\ \A o \in Run : o # r => queue'[o] = queue[o] /\ Events(o)' = Events(o)
      /\ Events(r)' \subseteq Events(r) \cup {<<"session", t>>}
  BY RegisteredSet
<1>2. t # 0 /\ t \in Nat
  BY AgentTurnsAssumption DEF Thread
<1>3. /\ run[r].thread = 0 /\ turn[r] = "none" /\ r \notin loose /\ r \notin ended
      /\ queue[r] = <<>> /\ text[r] = {} /\ by[r] = <<>>
  BY DEF CodexInv, Unthreaded
<1>4. Events(r)' \subseteq {<<"session", t>>}
  BY <1>1, <1>3, ItemsOfNone DEF Events
<1>5. \A o \in Run : o # r => (Loosened(o)' <=> Loosened(o))
  BY <1>1, <1>3 DEF Loosened, TypeOK, TypeOKCodex
<1>6. ASSUME NEW o \in Run, o # r, run[o].state \in {"start", "stream"}, run[o].thread = t
      PROVE  Loosened(o)
  <2>1. run[o].conv = run[r].conv /\ Live(o) /\ Live(r)
    BY <1>6 DEF Live
  <2> QED BY <1>3, <1>6, <2>1, OneKept DEF CodexInv, Loosened
<1>7. Unthreaded'
  BY <1>1, <1>2 DEF CodexInv, Unthreaded
<1>8. Rows'
  <2>1. \A o \in Run : /\ Live(o)' <=> Live(o)
                       /\ run'[o].state = "stream" <=> run[o].state = "stream"
                       /\ run'[o].state = "idle" <=> run[o].state = "idle"
                       /\ run'[o].conv = run[o].conv
    BY <1>1 DEF Live
  <2> QED BY <2>1 DEF CodexInv, Rows
<1>9. Owned'
  <2>1. \A o \in Run : run[o].thread \in Nat /\ sessions \in Nat
    BY RunsType, AgentTurnsAssumption DEF TypeOK, TypeOKTurns
  <2>2. \A c \in Conversation : session[c] \in Nat
    BY AgentTurnsAssumption DEF TypeOK, TypeOKTurns
  <2>3. \A o \in Run : run'[o].thread <= sessions'
    BY <1>1, <2>1 DEF CodexInv, Owned
  <2>4. \A c \in Conversation : session'[c] <= sessions'
    BY <2>1, <2>2 DEF CodexInv, Owned
  <2>5. ASSUME NEW o \in Run, NEW p \in Run,
               run'[o].thread # 0, run'[o].thread = run'[p].thread
        PROVE  run'[o].conv = run'[p].conv
    <3>1. CASE o = r
      BY <1>1, <2>5, <3>1
    <3>2. CASE p = r
      BY <1>1, <2>5, <3>2
    <3>3. CASE o # r /\ p # r
      BY <1>1, <2>5, <3>3 DEF CodexInv, Owned
    <3> QED BY <3>1, <3>2, <3>3
  <2>6. ASSUME NEW o \in Run, NEW c \in Conversation,
               run'[o].thread # 0, run'[o].thread = session'[c]
        PROVE  run'[o].conv = c
    <3>1. CASE o = r
      BY <1>1, <2>6, <3>1
    <3>2. CASE o # r
      BY <1>1, <2>6, <3>2 DEF CodexInv, Owned
    <3> QED BY <3>1, <3>2
  <2>7. \A c, d \in Conversation : session'[c] # 0 /\ session'[c] = session'[d] => c = d
    BY DEF CodexInv, Owned
  <2>8. \A o \in Run : run'[o].state = "resume" => session'[run'[o].conv] # 0
    BY <1>1 DEF CodexInv, Owned
  <2>9. ASSUME NEW o \in Run, NEW e \in Events(o)', e[1] = "session"
        PROVE  e[2] = run'[o].thread
    <3>1. CASE o = r
      BY <1>1, <1>4, <2>9, <3>1
    <3>2. CASE o # r
      BY <1>1, <2>9, <3>2 DEF CodexInv, Owned
    <3> QED BY <3>1, <3>2
  <2> QED BY <2>3, <2>4, <2>5, <2>6, <2>7, <2>8, <2>9 DEF Owned
<1>10. Registry'
  <2>1. \A u \in Thread : active[u] \in Run \cup {0}
    BY DEF TypeOK, TypeOKCodex
  <2>2. \A u \in Thread : u # t /\ active[u] # 0 => active[u] # r
    BY <1>3, <2>1, AgentTurnsAssumption DEF CodexInv, Registry, Thread
  <2>3. ASSUME NEW u \in Thread, active'[u] # 0
        PROVE  run'[active'[u]].thread = u /\ run'[active'[u]].state \in {"start", "stream"}
    <3>1. CASE u = t
      BY <1>1, <3>1
    <3>2. CASE u # t
      <4>1. PICK o \in Run : active[u] = o /\ active'[u] = o /\ o # 0 /\ o # r
        BY <1>1, <2>1, <2>2, <2>3, <3>2
      <4>2. run[o].thread = u /\ run[o].state \in {"start", "stream"}
        BY <4>1 DEF CodexInv, Registry
      <4> QED BY <1>1, <4>1, <4>2
    <3> QED BY <3>1, <3>2
  <2>4. ASSUME NEW o \in Run, run'[o].state \in {"start", "stream"}, ~ Loosened(o)'
        PROVE  active'[run'[o].thread] = o
    <3>1. CASE o = r
      BY <1>1, <3>1
    <3>2. CASE o # r
      <4>1. run'[o] = run[o] /\ run[o].state \in {"start", "stream"} /\ ~ Loosened(o)
        BY <1>1, <1>5, <2>4, <3>2
      <4>2. run[o].thread # t /\ active[run[o].thread] = o
        BY <1>6, <3>2, <4>1 DEF CodexInv, Registry
      <4>3. run[o].thread \in Thread
        BY <4>1, RunsType, AgentTurnsAssumption DEF CodexInv, Unthreaded, TypeOK, Thread
      <4> QED BY <1>1, <4>1, <4>2, <4>3
    <3> QED BY <3>1, <3>2
  <2> QED BY <2>3, <2>4 DEF Registry
<1>11. Process'
  <2>1. \A o \in Run : run'[o].state # "initialize"
    BY <1>1 DEF CodexInv, Process
  <2> QED BY <2>1 DEF Process
<1>12. Attended'
  <2>1. ASSUME NEW o \in Run, turn'[o] \in {"asked", "running"}, ~ Loosened(o)'
        PROVE  /\ run'[o].state \in {"start", "stream"}
               /\ turn'[o] = "asked" => run'[o].state = "start"
               /\ o \notin ended'
               /\ \A e \in Events(o)' : e[1] \in {"session", "request"}
    <3>1. CASE o = r
      BY <1>1, <1>3, <1>4, <3>1
    <3>2. CASE o # r
      BY <1>1, <1>5, <2>1, <3>2 DEF CodexInv, Attended
    <3> QED BY <3>1, <3>2
  <2> QED BY <2>1 DEF Attended
<1>13. Own'
  <2>1. ASSUME NEW o \in Run, ~ Loosened(o)'
        PROVE  text'[o] \subseteq {<<o, 1>>} /\ by'[o] \in {<<>>, <<o, 1>>}
    <3>1. CASE o = r
      BY <1>3, <3>1
    <3>2. CASE o # r
      BY <1>5, <2>1, <3>2 DEF CodexInv, Own
    <3> QED BY <3>1, <3>2
  <2> QED BY <2>1 DEF Own
<1>14. Reported'
  <2>1. ASSUME NEW o \in Run,
               run'[o].outcome = "success" \/ \E e \in Events(o)' : e[1] = "success"
        PROVE  by'[o] # <<>>
    <3>1. CASE o = r
      BY <1>1, <1>4, <2>1, <3>1 DEF Reported
    <3>2. CASE o # r
      BY <1>1, <2>1, <3>2 DEF Reported
    <3> QED BY <3>1, <3>2
  <2> QED BY <2>1 DEF Reported
<1> QED BY <1>7, <1>8, <1>9, <1>10, <1>11, <1>12, <1>13, <1>14

(* One more thread, and one more run that has one.                         *)
LEMMA ThreadedGrows ==
  ASSUME TypeOK, NEW r \in Run, NEW t \in Thread, Registered(r, t), run[r].thread = 0
  PROVE  Cardinality(Threaded)' = Cardinality(Threaded) + 1 /\ Cardinality(Threaded) \in Nat
<1>1. run'[r].thread = t /\ \A o \in Run : o # r => run'[o] = run[o]
  BY RegisteredSet
<1>2. t # 0
  BY AgentTurnsAssumption DEF Thread
<1>3. Threaded' = Threaded \cup {r} /\ Threaded \in SUBSET Run /\ r \in Run \ Threaded
  BY <1>1, <1>2 DEF Threaded
<1> QED BY <1>3, RunsFinite

LEMMA ThreadResumedInv ==
  ASSUME TypeOK, CodexInv, Reported, NEW r \in Run, ThreadResumed(r)
  PROVE  CodexInv' /\ Reported'
<1> DEFINE c == run[r].conv
<1>1. /\ run[r].state = "resume" /\ proc = "up" /\ Registered(r, session[c])
      /\ UNCHANGED <<taskOf, task, ended, session, sessions, text, by, proc, loose>>
  BY DEF ThreadResumed
<1>2. c \in Conversation /\ session[c] # 0
  BY <1>1 DEF CodexInv, Rows, Owned
<1>3. session[c] \in Thread /\ sessions \in Nat
  BY <1>2, AgentTurnsAssumption DEF TypeOK, TypeOKTurns, Thread
<1>4. run[r].thread = 0
  BY <1>1 DEF CodexInv, Unthreaded
<1>5. PICK t \in Thread : t = session[c]
  BY <1>3
<1>6. t # 0 /\ t <= sessions
  BY <1>2, <1>5 DEF CodexInv, Owned
<1>7. /\ \A o \in Run : run[o].thread = t => run[o].conv = c
      /\ \A d \in Conversation : session[d] = t => d = c
  BY <1>2, <1>5, <1>6 DEF CodexInv, Owned
<1>8. Unthreaded' /\ Rows' /\ Owned' /\ Registry' /\ Process' /\ Attended' /\ Own' /\ Reported'
  BY <1>1, <1>3, <1>5, <1>6, <1>7, RegisteredInv
<1>9. Counted'
  BY <1>1, <1>3, <1>4, <1>5, ThreadedGrows DEF CodexInv, Counted
<1> QED BY <1>8, <1>9 DEF CodexInv

LEMMA ThreadStartedInv ==
  ASSUME TypeOK, TypeOK', CodexInv, Reported, NEW r \in Run, ThreadStarted(r)
  PROVE  CodexInv' /\ Reported'
<1>1. /\ run[r].state = "thread" /\ proc = "up" /\ sessions' = sessions + 1
      /\ Registered(r, sessions + 1)
      /\ UNCHANGED <<taskOf, task, ended, session, text, by, proc, loose>>
  BY DEF ThreadStarted
<1>2. run[r].thread = 0
  BY <1>1 DEF CodexInv, Unthreaded
<1>3. sessions \in Nat /\ sessions + 1 \in Thread
  BY <1>1, AgentTurnsAssumption DEF TypeOK, TypeOKTurns, Thread
<1>4. PICK t \in Thread : t = sessions + 1
  BY <1>3
<1>5. /\ \A o \in Run : run[o].thread \in Nat /\ run[o].thread <= sessions
      /\ \A d \in Conversation : session[d] \in Nat /\ session[d] <= sessions
  <2>1. \A o \in Run : run[o].thread \in Nat
    BY RunsType, AgentTurnsAssumption DEF TypeOK
  <2>2. \A d \in Conversation : session[d] \in Nat
    BY AgentTurnsAssumption DEF TypeOK, TypeOKTurns
  <2> QED BY <2>1, <2>2 DEF CodexInv, Owned
<1>6. /\ \A o \in Run : run[o].thread # t
      /\ \A d \in Conversation : session[d] # t
  BY <1>3, <1>4, <1>5
<1>7. sessions' \in Nat /\ sessions <= sessions' /\ t <= sessions' /\ Registered(r, t)
  BY <1>1, <1>3, <1>4
<1>8. Unthreaded' /\ Rows' /\ Owned' /\ Registry' /\ Process' /\ Attended' /\ Own' /\ Reported'
  BY <1>1, <1>6, <1>7, RegisteredInv
<1>9. Counted'
  <2>1. Cardinality(Threaded)' = Cardinality(Threaded) + 1 /\ Cardinality(Threaded) \in Nat
    BY <1>2, <1>7, ThreadedGrows
  <2> QED BY <1>1, <1>3, <2>1 DEF CodexInv, Counted
<1> QED BY <1>8, <1>9 DEF CodexInv

(* The consumer reads the events of its own run; if it stops, its turn has *)
(* ended or was given up.                                                  *)
LEMMA CodexConsumesInv ==
  ASSUME TypeOK, CodexInv, Reported, NEW r \in Run, CodexConsumes(r)
  PROVE  CodexInv' /\ Reported'
<1>1. /\ UNCHANGED <<proc, turn>> /\ (Consume(r) \/ EndStream(r))
      /\ loose' = IF run[r].state = "stream" /\ queue[r] # <<>> /\ Throws(r)
                  THEN loose \cup {r} ELSE loose
  BY DEF CodexConsumes
<1>2. active' = IF run'[r].state = "over" THEN Unregistered(r) ELSE active
  BY DEF CodexConsumes
<1>3. UNCHANGED <<ended, sessions, text, by>>
  BY <1>1 DEF Consume, EndStream
<1>4. /\ Kept /\ run[r].state = "stream" /\ run'[r].state \in {"stream", "over"}
      /\ \A o \in Run : o # r => run'[o] = run[o] /\ queue'[o] = queue[o]
      /\ \A o \in Run : Events(o)' \subseteq Events(o)
      /\ run'[r].outcome = "success" =>
           run[r].outcome = "success" \/ \E e \in Events(r) : e[1] = "success"
      /\ run'[r].state = "over" =>
           r \in ended \/ r \in loose' \/ \E e \in Events(r) : e[1] = "error"
      /\ \/ session' = session
         \/ \E e \in Events(r) : /\ e[1] = "session"
                                 /\ session' = [session EXCEPT ![run[r].conv] = e[2]]
  <2>1. CASE Consume(r)
    <3>1. /\ run[r].state = "stream" /\ Kept
          /\ \A o \in Run : o # r => run'[o] = run[o] /\ queue'[o] = queue[o]
          /\ Events(r)' \subseteq Events(r) /\ \A o \in Run : o # r => Events(o)' = Events(o)
          /\ queue[r] # <<>>
          /\ \E e \in Events(r) :
               /\ run'[r].state = IF e[1] = "error" \/ Throws(r) THEN "over" ELSE "stream"
               /\ run'[r].outcome = "success" => run[r].outcome = "success" \/ e[1] = "success"
               /\ e[1] # "session" => session' = session
               /\ e[1] = "session" => session' = [session EXCEPT ![run[r].conv] = e[2]]
      BY <2>1, ConsumeSet DEF TypeOK
    <3>2. Throws(r) => r \in loose'
      BY <1>1, <3>1
    <3> QED BY <3>1, <3>2
  <2>2. CASE EndStream(r)
    <3>1. /\ run[r].state = "stream" /\ r \in ended /\ Kept
          /\ run'[r].state = "over"
          /\ run'[r].outcome = "success" => run[r].outcome = "success"
          /\ \A o \in Run : o # r => run'[o] = run[o]
          /\ queue' = queue /\ session' = session
      BY <2>2, EndStreamSet DEF TypeOK
    <3> QED BY <3>1 DEF Events
  <2> QED BY <1>1, <2>1, <2>2
<1>5. /\ loose \subseteq loose' /\ loose' \subseteq loose \cup {r}
      /\ \A o \in Run : ~ Loosened(o)' => ~ Loosened(o) /\ o \notin loose'
  <2>1. loose \subseteq loose' /\ loose' \subseteq loose \cup {r} /\ loose \subseteq Run
    BY <1>1 DEF TypeOK, TypeOKCodex
  <2> QED BY <1>4, <2>1 DEF Loosened, Kept
<1>6. run[r].thread # 0
  BY <1>4 DEF CodexInv, Unthreaded
<1>7. Unthreaded'
  BY <1>1, <1>3, <1>4, <1>5, <1>6 DEF CodexInv, Unthreaded, Kept
<1>8. Rows'
  BY RowsConsumed DEF CodexInv
<1>9. Owned'
  <2>1. \A o \in Run : \A e \in Events(o)' : e[1] = "session" => e[2] = run'[o].thread
    BY <1>4 DEF CodexInv, Owned, Kept
  <2>2. CASE session' = session
    BY <1>3, <1>4, <2>1, <2>2 DEF CodexInv, Owned, Kept
  <2>3. CASE session' # session
    <3> DEFINE c == run[r].conv
    <3>1. c \in Conversation /\ session \in [Conversation -> 0 .. 2 * MaxRuns]
      BY <1>4 DEF CodexInv, Rows, TypeOK, TypeOKTurns
    <3>2. session' = [session EXCEPT ![c] = run[r].thread]
      BY <1>4, <2>3 DEF CodexInv, Owned
    <3>3. session'[c] = run[r].thread /\ \A d \in Conversation : d # c => session'[d] = session[d]
      BY <3>1, <3>2
    <3>4. \A o \in Run : run'[o].thread <= sessions'
      BY <1>3, <1>4 DEF CodexInv, Owned, Kept
    <3>5. \A d \in Conversation : session'[d] <= sessions'
      BY <1>3, <3>3 DEF CodexInv, Owned
    <3>6. \A o, p \in Run :
            run'[o].thread # 0 /\ run'[o].thread = run'[p].thread => run'[o].conv = run'[p].conv
      BY <1>4 DEF CodexInv, Owned, Kept
    <3>7. \A o \in Run : run[o].thread = run[r].thread => run[o].conv = c
      BY <1>6 DEF CodexInv, Owned
    <3>8. ASSUME NEW o \in Run, NEW d \in Conversation,
                 run'[o].thread # 0, run'[o].thread = session'[d]
          PROVE  run'[o].conv = d
      <4>1. run[o].thread # 0 /\ run[o].thread = session'[d] /\ run'[o].conv = run[o].conv
        BY <1>4, <3>8 DEF Kept
      <4>2. CASE d = c
        BY <3>3, <3>7, <4>1, <4>2
      <4>3. CASE d # c
        BY <3>3, <4>1, <4>3 DEF CodexInv, Owned
      <4> QED BY <4>2, <4>3
    <3>9. ASSUME NEW d \in Conversation, NEW e \in Conversation,
                 session'[d] # 0, session'[d] = session'[e]
          PROVE  d = e
      <4>1. \A b \in Conversation : run[r].thread = session[b] => b = c
        BY <1>6 DEF CodexInv, Owned
      <4>2. CASE d # c /\ e # c
        BY <3>3, <3>9, <4>2 DEF CodexInv, Owned
      <4>3. CASE d = c \/ e = c
        BY <3>3, <3>9, <4>1, <4>3
      <4> QED BY <4>2, <4>3
    <3>10. ASSUME NEW o \in Run, run'[o].state = "resume"
           PROVE  session'[run'[o].conv] # 0
      <4>1. run[o].state = "resume" /\ run'[o].conv = run[o].conv
        BY <1>4, <3>10 DEF Kept
      <4>2. session[run[o].conv] # 0 /\ run[o].conv \in Conversation
        BY <4>1 DEF CodexInv, Owned, Rows
      <4> QED BY <1>6, <3>3, <4>1, <4>2
    <3> QED BY <2>1, <3>4, <3>5, <3>6, <3>8, <3>9, <3>10 DEF Owned
  <2> QED BY <2>2, <2>3
<1>10. Registry'
  <2>1. CASE run'[r].state = "over"
    BY <1>2, <1>4, <1>5, <2>1, RegistryLeft
  <2>2. CASE run'[r].state = "stream"
    BY <1>2, <1>4, <1>5, <2>2, RegistryKept
  <2> QED BY <1>4, <2>1, <2>2
<1>11. Process'
  BY <1>1, <1>4, ProcessKept
<1>12. Attended'
  <2>1. ASSUME NEW o \in Run, turn'[o] \in {"asked", "running"}, ~ Loosened(o)'
        PROVE  /\ run'[o].state \in {"start", "stream"}
               /\ turn'[o] = "asked" => run'[o].state = "start"
               /\ o \notin ended'
               /\ \A e \in Events(o)' : e[1] \in {"session", "request"}
    <3>1. turn[o] = turn'[o] /\ ~ Loosened(o)
      BY <1>1, <1>5, <2>1
    <3>2. /\ run[o].state \in {"start", "stream"} /\ o \notin ended
          /\ turn[o] = "asked" => run[o].state = "start"
          /\ \A e \in Events(o) : e[1] \in {"session", "request"}
      BY <2>1, <3>1 DEF CodexInv, Attended
    <3>3. CASE o = r
      <4>1. run'[r].state = "stream"
        BY <1>4, <1>5, <2>1, <3>2, <3>3
      <4>2. turn[o] # "asked"
        BY <1>4, <3>2, <3>3
      <4> QED BY <1>3, <1>4, <3>1, <3>2, <3>3, <4>1, <4>2
    <3>4. CASE o # r
      BY <1>3, <1>4, <3>1, <3>2, <3>4
    <3> QED BY <3>3, <3>4
  <2> QED BY <2>1 DEF Attended
<1>13. Own'
  BY <1>3, <1>5 DEF CodexInv, Own
<1>14. Reported'
  BY <1>3, <1>4 DEF Reported
<1>15. Counted'
  BY <1>3, <1>4 DEF CodexInv, Counted, Threaded, Kept
<1> QED BY <1>7, <1>8, <1>9, <1>10, <1>11, <1>12, <1>13, <1>14, <1>15 DEF CodexInv

LEMMA CodexKeeps ==
  ASSUME TypeOK, CodexInv, Reported, CodexStep \/ CodexFault,
         UNCHANGED <<claudeVars, driver>>
  PROVE  TypeOK' /\ CodexInv' /\ Reported'
<1>1. TypeOK'
  BY CodexTypes
<1>2. ASSUME NEW q \in Request, CodexAnswers(q) \/ CodexExpires(q) \/ CodexLapses(q)
      PROVE  CodexInv' /\ Reported'
  BY <1>2, CodexSettlesInv
<1>3. ASSUME NEW q \in Request, NEW r \in Run, CodexAsks(q, r)
      PROVE  CodexInv' /\ Reported'
  BY <1>3, CodexAsksInv
<1>4. ASSUME NEW r \in Run, CodexCancels(r)
      PROVE  CodexInv' /\ Reported'
  BY <1>4, CodexUnchanged DEF CodexCancels
<1>5. ASSUME NEW r \in Run, NEW c \in Conversation, CodexStarts(r, c)
      PROVE  CodexInv' /\ Reported'
  BY <1>5, CodexStartsInv
<1>6. ASSUME NEW r \in Run, NEW s \in {"success", "cancelled", "error"}, TurnCompletes(r, s)
      PROVE  CodexInv' /\ Reported'
  BY <1>6, TurnCompletesInv
<1>7. ASSUME NEW r \in Run, ThreadResumed(r)
      PROVE  CodexInv' /\ Reported'
  BY <1>7, ThreadResumedInv
<1>8. ASSUME NEW r \in Run, ThreadStarted(r)
      PROVE  CodexInv' /\ Reported'
  BY <1>1, <1>8, ThreadStartedInv
<1>9. ASSUME NEW r \in Run, CodexConsumes(r)
      PROVE  CodexInv' /\ Reported'
  BY <1>9, CodexConsumesInv
<1>10. ASSUME NEW r \in Run, Initialized(r)
       PROVE  CodexInv' /\ Reported'
  BY <1>10, InitializedInv
<1>11. ASSUME NEW r \in Run, TurnStarts(r)
       PROVE  CodexInv' /\ Reported'
  BY <1>11, TurnStartsInv
<1>12. ASSUME NEW r \in Run, StartAnswered(r)
       PROVE  CodexInv' /\ Reported'
  BY <1>12, StartAnsweredInv
<1>13. ASSUME NEW r \in Run, TurnSpeaks(r)
       PROVE  CodexInv' /\ Reported'
  BY <1>13, TurnSpeaksInv
<1>14. ASSUME NEW r \in Run, InitializeFails(r)
       PROVE  CodexInv' /\ Reported'
  BY <1>14, InitializeFailsInv
<1>15. ASSUME NEW r \in Run, ResumeFails(r)
       PROVE  CodexInv' /\ Reported'
  BY <1>15, ResumeFailsInv
<1>16. ASSUME NEW r \in Run, ThreadFails(r)
       PROVE  CodexInv' /\ Reported'
  BY <1>16, ThreadFailsInv
<1>17. ASSUME NEW r \in Run, StartRejected(r)
       PROVE  CodexInv' /\ Reported'
  BY <1>17, StartRejectedInv
<1>18. ASSUME NEW r \in Run, StartTimesOut(r)
       PROVE  CodexInv' /\ Reported'
  BY <1>18, StartTimesOutInv
<1>19. ASSUME NEW r \in Run, ErrorNotified(r)
       PROVE  CodexInv' /\ Reported'
  BY <1>19, ErrorNotifiedInv
<1>20. CASE ProcessExits
  BY <1>1, <1>20, ProcessExitsInv
<1>21. CASE CodexStep
  BY <1>1, <1>2, <1>3, <1>4, <1>5, <1>6, <1>7, <1>8, <1>9, <1>10, <1>11, <1>12, <1>13, <1>21
     DEF CodexStep
<1>22. CASE CodexFault
  BY <1>1, <1>14, <1>15, <1>16, <1>17, <1>18, <1>19, <1>20, <1>22 DEF CodexFault
<1> QED BY <1>1, <1>21, <1>22

-----------------------------------------------------------------------------
(* Claude Code.                                                            *)

LEMMA CurrentIs ==
  ASSUME NEW r \in Run
  PROVE  Current(r) \in VendorTurn /\ Current(r) \in {<<r, 1>>, <<r, 2>>} /\ Current(r)[1] = r
BY DEF Current, VendorTurn

(* A query that names its session is counted once more.                    *)
LEMMA NamedGrows ==
  ASSUME TypeOK, ClaudeInv, NEW r \in Run, r \notin emitted
  PROVE  /\ sessions + 1 \in 0 .. 2 * MaxRuns
         /\ emitted' = emitted \cup {r} /\ second' = second =>
              sessions + 1 <= Cardinality(Named)'
<1>1. Named \in SUBSET VendorTurn /\ Current(r) \in VendorTurn \ Named
  BY CurrentIs DEF Named, Current
<1>2. sessions <= Cardinality(Named) /\ sessions \in Nat
  BY AgentTurnsAssumption DEF ClaudeInv, TypeOK, TypeOKTurns
<1>3. Named \cup {Current(r)} \in SUBSET VendorTurn
  BY <1>1
<1>4. /\ Cardinality(Named) \in Nat
      /\ Cardinality(Named \cup {Current(r)}) \in Nat
      /\ Cardinality(Named) + 1 <= Cardinality(Named \cup {Current(r)})
      /\ Cardinality(Named \cup {Current(r)}) <= 2 * MaxRuns
  BY <1>1, <1>3, VendorTurnsFinite
<1>5. sessions + 1 \in 0 .. 2 * MaxRuns
  BY <1>2, <1>4, AgentTurnsAssumption
<1>6. ASSUME emitted' = emitted \cup {r}, second' = second
      PROVE  sessions + 1 <= Cardinality(Named)'
  <2>1. Named' \in SUBSET VendorTurn /\ Named \cup {Current(r)} \subseteq Named'
    BY <1>6, <1>1 DEF Named, Current
  <2>2. Cardinality(Named') \in Nat /\ Cardinality(Named) + 1 <= Cardinality(Named')
    BY <1>1, <2>1, VendorTurnsFinite
  <2> QED BY <1>2, <1>4, <2>2
<1> QED BY <1>5, <1>6

(* Sessions stay apart while none gets a new holder, and if the latest one  *)
(* gets its first.                                                         *)
LEMMA ApartKept ==
  ASSUME TypeOK, Apart, sessions' \in Nat, sessions <= sessions',
         NEW k \in Conversation \cup {None},
         \A c \in Conversation, n \in Thread :
            Held(c, n)' => Held(c, n) \/ (n = sessions + 1 /\ n <= sessions' /\ c = k)
  PROVE  Apart'
<1>1. sessions \in Nat /\ \A n \in Thread : n \in Nat
  BY AgentTurnsAssumption DEF TypeOK, TypeOKTurns, Thread
<1>2. ASSUME NEW n \in Thread, NEW c \in Conversation, Held(c, n)'
      PROVE  n <= sessions' /\ (n # sessions + 1 => Held(c, n)) /\ (n = sessions + 1 => c = k)
  BY <1>1, <1>2 DEF Apart
<1>3. ASSUME NEW n \in Thread, NEW c \in Conversation, NEW d \in Conversation,
             Held(c, n)', Held(d, n)'
      PROVE  c = d
  BY <1>2, <1>3 DEF Apart
<1> QED BY <1>2, <1>3 DEF Apart

LEMMA HeldKept ==
  ASSUME \A o \in Run : run'[o].conv = run[o].conv /\ run'[o].thread \in {run[o].thread, 0},
         \A o \in Run : \A e \in Events(o)' : e[1] = "session" => e \in Events(o),
         UNCHANGED session
  PROVE  \A c \in Conversation, n \in Thread : Held(c, n)' => Held(c, n)
<1>1. \A n \in Thread : n # 0
  BY AgentTurnsAssumption DEF Thread
<1> QED BY <1>1 DEF Held

LEMMA ClaudeStartsKeeps ==
  ASSUME TypeOK, ClaudeInv, Reported, NEW r \in Run, NEW c \in Conversation,
         ClaudeStarts(r, c), UNCHANGED codexVars, driver' = driver
  PROVE  TypeOK' /\ ClaudeInv' /\ Reported'
<1>1. /\ run[r].state = "idle" /\ query' = [query EXCEPT ![r] = "running"]
      /\ canFresh' \subseteq canFresh \cup {r}
      /\ UNCHANGED <<queue, ended, session, sessions, request, text, by, cancelled, second,
                     emitted, throws>>
  BY DEF ClaudeStarts, Startable
<1>2. run' = [run EXCEPT ![r] = [state |-> "stream", conv |-> c, thread |-> session[c],
                                 outcome |-> "none"]]
  BY DEF ClaudeStarts
<1>3. session[c] \in 0 .. 2 * MaxRuns
  BY DEF TypeOK, TypeOKTurns
<1>4. run' \in [Run -> Runs]
  BY <1>2, <1>3 DEF TypeOK, TypeOKTurns, Runs
<1>5. /\ run'[r].state = "stream" /\ run'[r].outcome = "none"
      /\ run'[r].conv = c /\ run'[r].thread = session[c]
      /\ \A o \in Run : o # r => run'[o] = run[o]
  BY <1>2 DEF TypeOK, TypeOKTurns
<1>6. TypeOK'
  <2>1. TypeOKTurns'
    <3>1. taskOf' \in [Run -> Run \cup {0}] /\ task' \in [Run -> Tasks]
      BY ClaimsSet DEF ClaudeStarts, TypeOK
    <3> QED BY <1>1, <1>4, <3>1 DEF TypeOK, TypeOKTurns
  <2>2. TypeOKClaude' /\ TypeOKCodex'
    BY <1>1 DEF TypeOK, TypeOKClaude, TypeOKCodex, codexVars
  <2> QED BY <2>1, <2>2 DEF TypeOK
<1>7. ClaudeInv'
  <2>1. r \notin second
    BY <1>1 DEF ClaudeInv
  <2>2. \A o \in Run : Current(o)' = Current(o)
    BY <1>1 DEF Current
  <2>3. \A o \in Run : run'[o].state = "idle" => query'[o] = "none" /\ o \notin second'
                                            /\ Events(o)' = {}
    BY <1>1, <1>5 DEF ClaudeInv, TypeOK, TypeOKClaude, Events
  <2>4. canFresh' \cap second' = {}
    BY <1>1, <2>1 DEF ClaudeInv
  <2>5. sessions' <= Cardinality(Named)'
    BY <1>1 DEF ClaudeInv, Named
  <2>6. \A o \in Run : text'[o] \subseteq {Current(o)'} /\ by'[o] \in {<<>>, <<o, 1>>, <<o, 2>>}
    BY <1>1, <2>2 DEF ClaudeInv
  <2>7. loose' = {} /\ \A o \in Run : turn'[o] = "none"
    BY DEF ClaudeInv, codexVars
  <2>8. Apart'
    <3>1. \A o \in Run : Events(o)' = Events(o)
      BY <1>1 DEF Events
    <3>2. Events(r) = {} /\ Apart
      BY <1>1 DEF ClaudeInv
    <3>3. ASSUME NEW d \in Conversation, NEW n \in Thread, Held(d, n)'
          PROVE  Held(d, n)
      <4>1. CASE session'[d] = n
        BY <1>1, <4>1 DEF Held
      <4>2. CASE \E o \in Run : /\ run'[o].conv = d
                                /\ \/ run'[o].thread = n
                                   \/ \E e \in Events(o)' : e[1] = "session" /\ e[2] = n
        <5>1. PICK o \in Run : /\ run'[o].conv = d
                               /\ \/ run'[o].thread = n
                                  \/ \E e \in Events(o) : e[1] = "session" /\ e[2] = n
          BY <3>1, <4>2
        <5>2. CASE o = r
          BY <1>5, <3>2, <5>1, <5>2 DEF Held
        <5>3. CASE o # r
          BY <1>5, <5>1, <5>3 DEF Held
        <5> QED BY <5>2, <5>3
      <4> QED BY <3>3, <4>1, <4>2 DEF Held
    <3>4. sessions' \in Nat /\ sessions <= sessions'
      BY <1>1, AgentTurnsAssumption DEF TypeOK, TypeOKTurns
    <3> QED BY <3>2, <3>3, <3>4, ApartKept
  <2> QED BY <2>3, <2>4, <2>5, <2>6, <2>7, <2>8 DEF ClaudeInv
<1>8. Reported'
  BY <1>1, <1>5 DEF Reported, Events
<1> QED BY <1>6, <1>7, <1>8

LEMMA SdkSessionKeeps ==
  ASSUME TypeOK, ClaudeInv, Reported, NEW r \in Run,
         SdkSession(r), UNCHANGED codexVars, driver' = driver
  PROVE  TypeOK' /\ ClaudeInv' /\ Reported'
<1> DEFINE new == run[r].thread = 0
           s == IF new THEN sessions + 1 ELSE run[r].thread
<1>1. /\ query[r] = "running" /\ r \notin emitted /\ emitted' = emitted \cup {r}
      /\ UNCHANGED <<taskOf, task, ended, session, request, text, by, cancelled, query, canFresh, second, throws>>
  BY DEF SdkSession
<1>2. /\ queue' = PushedTo(r, <<"session", s>>)
      /\ run' = [run EXCEPT ![r].thread = s]
      /\ sessions' = sessions + 1 \/ sessions' = sessions
  BY DEF SdkSession
<1>3. sessions' = IF run[r].thread = 0 THEN s ELSE sessions
  BY DEF SdkSession
<1>4. /\ sessions + 1 \in 0 .. 2 * MaxRuns
      /\ sessions + 1 <= Cardinality(Named)'
  BY <1>1, NamedGrows
<1>5. s \in 0 .. 2 * MaxRuns
  BY <1>4, RunsType DEF TypeOK
<1>6. sessions' \in 0 .. 2 * MaxRuns /\ sessions' <= sessions + 1
  BY <1>2, <1>4, AgentTurnsAssumption DEF TypeOK, TypeOKTurns
<1> HIDE DEF s
<1>7. PICK x \in 0 .. 2 * MaxRuns : x = s
  BY <1>5
<1>8. queue' = PushedTo(r, <<"session", x>>) /\ run' = [run EXCEPT ![r].thread = x]
  BY <1>2, <1>7
<1>9. /\ run' \in [Run -> Runs]
      /\ \A o \in Run : run'[o].state = run[o].state /\ run'[o].outcome = run[o].outcome
                        /\ run'[o].conv = run[o].conv
      /\ run'[r].thread = x /\ \A o \in Run : o # r => run'[o].thread = run[o].thread
  BY <1>8, ThreadSet DEF TypeOK
<1>10. /\ queue' \in [Run -> Seq(Event)]
       /\ \A o \in Run : o # r => Events(o)' = Events(o)
       /\ Events(r)' \subseteq Events(r) \cup {<<"session", x>>}
  <2>1. <<"session", x>> \in Event /\ TypeOKTurns
    BY EventType DEF TypeOK
  <2>2. /\ queue' \in [Run -> Seq(Event)]
        /\ \A o \in Run : o # r => Events(o)' = Events(o)
        /\ Events(r)' \subseteq Events(r) \cup {<<"session", x>>}
    BY <1>8, <2>1, PushedItems
  <2> QED BY <2>2
<1>11. TypeOK'
  <2>1. TypeOKTurns'
    BY <1>1, <1>6, <1>9, <1>10 DEF TypeOK, TypeOKTurns
  <2>2. TypeOKClaude' /\ TypeOKCodex'
    BY <1>1 DEF TypeOK, TypeOKClaude, TypeOKCodex, codexVars
  <2> QED BY <2>1, <2>2 DEF TypeOK
<1>12. ClaudeInv'
  <2>1. \A o \in Run : Current(o)' = Current(o)
    BY <1>1 DEF Current
  <2>2. \A o \in Run : run'[o].state = "idle" => query'[o] = "none" /\ o \notin second'
                                            /\ Events(o)' = {}
    BY <1>1, <1>9, <1>10 DEF ClaudeInv
  <2>3. canFresh' \cap second' = {}
    BY <1>1 DEF ClaudeInv
  <2>4. sessions' <= Cardinality(Named)'
    <3>1. Named' \in SUBSET VendorTurn
      BY DEF Named, VendorTurn, Run
    <3>2. Cardinality(Named') \in Nat
      BY <3>1, VendorTurnsFinite
    <3>3. sessions \in Nat
      BY AgentTurnsAssumption DEF TypeOK, TypeOKTurns
    <3> QED BY <1>4, <1>6, <3>2, <3>3, AgentTurnsAssumption
  <2>5. \A o \in Run : text'[o] \subseteq {Current(o)'} /\ by'[o] \in {<<>>, <<o, 1>>, <<o, 2>>}
    BY <1>1, <2>1 DEF ClaudeInv
  <2>6. loose' = {} /\ \A o \in Run : turn'[o] = "none"
    BY DEF ClaudeInv, codexVars
  <2>7. Apart'
    <3> DEFINE k == run[r].conv
    <3>1. k \in Conversation \cup {None}
      BY RunsType DEF TypeOK
    <3>2. (x = sessions + 1 /\ sessions' = x) \/ (x = run[r].thread /\ sessions' = sessions)
      BY <1>7, <1>3 DEF s
    <3>3. ASSUME NEW c \in Conversation, NEW n \in Thread, Held(c, n)'
          PROVE  Held(c, n) \/ (n = sessions + 1 /\ n <= sessions' /\ c = k)
      <4>1. CASE session'[c] = n
        BY <1>1, <4>1 DEF Held
      <4>2. CASE \E o \in Run : /\ run'[o].conv = c
                                /\ \/ run'[o].thread = n
                                   \/ \E e \in Events(o)' : e[1] = "session" /\ e[2] = n
        <5>1. PICK o \in Run : /\ run'[o].conv = c
                               /\ \/ run'[o].thread = n
                                  \/ \E e \in Events(o)' : e[1] = "session" /\ e[2] = n
          BY <4>2
        <5>2. CASE o # r
          BY <1>9, <1>10, <5>1, <5>2 DEF Held
        <5>3. CASE o = r
          <6>1. c = k /\ (n = x \/ \E e \in Events(r) : e[1] = "session" /\ e[2] = n)
            BY <1>9, <1>10, <5>1, <5>3
          <6>2. n = x => Held(c, n) \/ (n = sessions + 1 /\ sessions' = n)
            BY <3>2, <6>1 DEF Held
          <6> QED BY <6>1, <6>2, AgentTurnsAssumption DEF Held, Thread
        <5> QED BY <5>2, <5>3
      <4> QED BY <3>3, <4>1, <4>2 DEF Held
    <3>4. sessions' \in Nat /\ sessions <= sessions' /\ Apart
      BY <1>2, <1>6, AgentTurnsAssumption DEF TypeOK, TypeOKTurns, ClaudeInv
    <3> HIDE DEF k
    <3> QED BY <3>1, <3>3, <3>4, ApartKept
  <2> QED BY <2>2, <2>3, <2>4, <2>5, <2>6, <2>7 DEF ClaudeInv
<1>13. Reported'
  <2>1. \A o \in Run : \A e \in Events(o)' : e[1] = "success" => e \in Events(o)
    BY <1>10
  <2> QED BY <1>1, <1>9, <2>1 DEF Reported
<1> QED BY <1>11, <1>12, <1>13

(* What leaves the queries' history alone: output, results, ends, requests *)
(* and what the consumer does.                                             *)
LEMMA ClaudeGoesOn ==
  ASSUME TypeOK, TypeOK', ClaudeInv, UNCHANGED codexVars,
         UNCHANGED <<sessions, canFresh, second, emitted>>,
         \A o \in Run : run'[o].state = "idle" => run[o].state = "idle",
         \A o \in Run : query[o] = "none" => query'[o] = "none",
         \A o \in Run : run[o].state = "idle" => Events(o)' = Events(o),
         \A c \in Conversation, n \in Thread : Held(c, n)' => Held(c, n),
         \A o \in Run : text'[o] \subseteq text[o] \cup {Current(o)},
         \A o \in Run : by'[o] \in {by[o], Current(o)}
  PROVE  ClaudeInv'
<1>1. \A o \in Run : Current(o)' = Current(o) /\ Current(o) \in {<<o, 1>>, <<o, 2>>}
  BY CurrentIs DEF Current
<1>2. \A o \in Run : run'[o].state = "idle" =>
         query'[o] = "none" /\ o \notin second' /\ Events(o)' = {}
  BY DEF ClaudeInv
<1>3. canFresh' \cap second' = {} /\ sessions' <= Cardinality(Named)'
  BY DEF ClaudeInv, Named
<1>4. Apart'
  <2>1. sessions' \in Nat /\ sessions <= sessions' /\ Apart /\ None \in Conversation \cup {None}
    BY AgentTurnsAssumption DEF TypeOK, TypeOKTurns, ClaudeInv
  <2> QED BY <2>1, ApartKept
<1>5. \A o \in Run : text'[o] \subseteq {Current(o)'} /\ by'[o] \in {<<>>, <<o, 1>>, <<o, 2>>}
  BY <1>1 DEF ClaudeInv
<1>6. loose' = {} /\ \A o \in Run : turn'[o] = "none"
  BY DEF ClaudeInv, codexVars
<1> QED BY <1>2, <1>3, <1>5, <1>6, <1>4 DEF ClaudeInv

(* The query is replaced before it has said anything.                      *)
LEMMA ReplacedInv ==
  ASSUME TypeOK, ClaudeInv, NEW r \in Run, Replaceable(r), Replaced(r),
         query[r] \in {"running", "result"},
         UNCHANGED codexVars, UNCHANGED <<queue, session, sessions, text, by>>
  PROVE  /\ ClaudeInv' /\ run' \in [Run -> Runs]
         /\ query' \in [Run -> {"none", "running", "result", "done"}]
         /\ canFresh' \subseteq Run /\ second' \subseteq Run /\ emitted' \subseteq Run
         /\ \A o \in Run : run'[o].outcome = run[o].outcome
<1>1. /\ run' = [run EXCEPT ![r].thread = 0] /\ 0 \in 0 .. 2 * MaxRuns
      /\ query' = [query EXCEPT ![r] = "running"]
      /\ canFresh' = canFresh \ {r} /\ second' = second \cup {r} /\ emitted' = emitted \ {r}
  BY EventType DEF Replaced
<1>2. /\ run' \in [Run -> Runs]
      /\ \A o \in Run : run'[o].state = run[o].state /\ run'[o].outcome = run[o].outcome
      /\ \A o \in Run : run'[o].conv = run[o].conv /\ run'[o].thread \in {run[o].thread, 0}
  BY <1>1, ThreadSet DEF TypeOK
<1>3. /\ query' \in [Run -> {"none", "running", "result", "done"}]
      /\ canFresh' \subseteq Run /\ second' \subseteq Run /\ emitted' \subseteq Run
  BY <1>1 DEF TypeOK, TypeOKClaude
<1>4. r \in canFresh /\ r \notin second /\ text[r] = {}
  BY DEF Replaceable, ClaudeInv
<1>5. \A o \in Run : run'[o].state = "idle" =>
         query'[o] = "none" /\ o \notin second' /\ Events(o)' = {}
  <2>1. run[r].state # "idle"
    BY DEF ClaudeInv
  <2>2. \A o \in Run : o # r => query'[o] = query[o] /\ (o \in second' => o \in second)
    BY <1>1 DEF TypeOK, TypeOKClaude
  <2>3. \A o \in Run : Events(o)' = Events(o)
    BY DEF Events
  <2> QED BY <1>2, <2>1, <2>2, <2>3 DEF ClaudeInv
<1>6. canFresh' \cap second' = {}
  BY <1>1 DEF ClaudeInv
<1>7. \A o \in Run : text'[o] \subseteq {Current(o)'} /\ by'[o] \in {<<>>, <<o, 1>>, <<o, 2>>}
  <2>1. \A o \in Run : o # r => Current(o)' = Current(o)
    BY <1>1 DEF Current
  <2> QED BY <1>4, <2>1 DEF ClaudeInv
<1>8. sessions' <= Cardinality(Named)'
  <2>1. Named \in SUBSET VendorTurn /\ Named' \in SUBSET VendorTurn /\ Named \subseteq Named'
    BY <1>1, <1>4 DEF Named, VendorTurn, Run
  <2>2. /\ Cardinality(Named) \in Nat /\ Cardinality(Named') \in Nat
        /\ Cardinality(Named) <= Cardinality(Named')
    BY <2>1, VendorTurnsFinite
  <2>3. sessions <= Cardinality(Named) /\ sessions \in Nat
    BY AgentTurnsAssumption DEF ClaudeInv, TypeOK, TypeOKTurns
  <2> QED BY <2>2, <2>3
<1>9. loose' = {} /\ \A o \in Run : turn'[o] = "none"
  BY DEF ClaudeInv, codexVars
<1>10. Apart'
  <2>1. \A c \in Conversation, n \in Thread : Held(c, n)' => Held(c, n)
    BY <1>2, HeldKept DEF Events
  <2>2. sessions' \in Nat /\ sessions <= sessions' /\ Apart /\ None \in Conversation \cup {None}
    BY AgentTurnsAssumption DEF TypeOK, TypeOKTurns, ClaudeInv
  <2> QED BY <2>1, <2>2, ApartKept
<1> QED BY <1>2, <1>3, <1>5, <1>6, <1>7, <1>8, <1>9, <1>10 DEF ClaudeInv

LEMMA SdkResultKeeps ==
  ASSUME TypeOK, ClaudeInv, Reported, NEW r \in Run,
         SdkOutput(r) \/ SdkSucceeds(r) \/ SdkFails(r) \/ SdkEnds(r) \/ SdkThrows(r),
         UNCHANGED codexVars, driver' = driver
  PROVE  TypeOK' /\ ClaudeInv' /\ Reported'
<1>1. /\ Current(r) \in VendorTurn /\ Current(r) # <<>>
      /\ run \in [Run -> Runs] /\ TypeOKTurns /\ TypeOKCodex'
  <2>1. Current(r) \in VendorTurn /\ Current(r) # <<>>
    BY CurrentIs
  <2>2. run \in [Run -> Runs] /\ TypeOKTurns
    BY DEF TypeOK, TypeOKTurns
  <2>3. TypeOKCodex'
    BY DEF TypeOK, TypeOKCodex, codexVars
  <2> QED BY <2>1, <2>2, <2>3
<1>2. CASE SdkOutput(r)
  <2>1. /\ query[r] = "running" /\ text' = [text EXCEPT ![r] = text[r] \cup {Current(r)}]
        /\ UNCHANGED <<run, taskOf, task, queue, ended, session, sessions, request, by, cancelled>>
        /\ UNCHANGED <<query, canFresh, second, emitted, throws>>
    BY <1>2 DEF SdkOutput, claudeVars
  <2>2. TypeOK'
    BY <1>1, <2>1 DEF TypeOK, TypeOKTurns, TypeOKClaude
  <2>3. \A o \in Run : text'[o] \subseteq text[o] \cup {Current(o)}
    BY <2>1 DEF TypeOK, TypeOKTurns
  <2>4. \A c \in Conversation, n \in Thread : Held(c, n)' => Held(c, n)
    BY <2>1, HeldKept DEF Events
  <2>5. ClaudeInv'
    BY <2>1, <2>2, <2>3, <2>4, ClaudeGoesOn DEF Events
  <2> QED BY <2>1, <2>2, <2>5 DEF Reported, Events
<1>3. CASE SdkSucceeds(r)
  <2>1. /\ query[r] = "running" /\ query' = [query EXCEPT ![r] = "result"]
        /\ UNCHANGED <<run, taskOf, task, ended, session, sessions, request, text, cancelled, canFresh, second,
                       emitted, throws>>
        /\ \/ queue' = PushedTo(r, <<"success", 0>>) /\ by' = [by EXCEPT ![r] = Current(r)]
           \/ UNCHANGED <<queue, by>>
    BY <1>3 DEF SdkSucceeds, Pushed
  <2>2. <<"success", 0>> \in Event
    BY EventType
  <2>3. \/ /\ queue' \in [Run -> Seq(Event)]
           /\ \A o \in Run : o # r => Events(o)' = Events(o)
           /\ Events(r)' \subseteq Events(r) \cup {<<"success", 0>>}
           /\ by' = [by EXCEPT ![r] = Current(r)]
        \/ UNCHANGED <<queue, by>>
    BY <1>1, <2>1, <2>2, PushedItems
  <2>4. TypeOK'
    BY <1>1, <2>1, <2>3 DEF TypeOK, TypeOKTurns, TypeOKClaude
  <2>5. \A o \in Run : by'[o] \in {by[o], Current(o)}
    BY <2>3 DEF TypeOK, TypeOKTurns
  <2>6. /\ \A o \in Run : o # r => Events(o)' = Events(o)
        /\ \A o \in Run : \A e \in Events(o)' : e[1] = "session" => e \in Events(o)
    BY <2>3 DEF Events
  <2>7. \A c \in Conversation, n \in Thread : Held(c, n)' => Held(c, n)
    BY <2>1, <2>6, HeldKept
  <2>8. run[r].state # "idle"
    BY <2>1 DEF ClaudeInv
  <2>9. ClaudeInv'
    BY <2>1, <2>4, <2>5, <2>6, <2>7, <2>8, ClaudeGoesOn DEF TypeOK, TypeOKClaude
  <2>10. Reported'
    <3>1. CASE UNCHANGED <<queue, by>>
      BY <2>1, <3>1 DEF Reported, Events
    <3>2. CASE /\ \A o \in Run : o # r => Events(o)' = Events(o)
               /\ by' = [by EXCEPT ![r] = Current(r)]
      BY <1>1, <2>1, <3>2 DEF Reported, TypeOK, TypeOKTurns
    <3> QED BY <2>3, <3>1, <3>2
  <2> QED BY <2>4, <2>9, <2>10
<1>4. CASE SdkEnds(r)
  <2>1. /\ query[r] = "result" /\ query' = [query EXCEPT ![r] = "done"]
        /\ ended' = ended \cup {r}
        /\ UNCHANGED <<run, taskOf, task, queue, session, sessions, request, text, by, cancelled, canFresh,
                       second, emitted, throws>>
    BY <1>4 DEF SdkEnds
  <2>2. TypeOK'
    BY <1>1, <2>1 DEF TypeOK, TypeOKTurns, TypeOKClaude
  <2>3. \A c \in Conversation, n \in Thread : Held(c, n)' => Held(c, n)
    BY <2>1, HeldKept DEF Events
  <2>4. ClaudeInv'
    BY <2>1, <2>2, <2>3, ClaudeGoesOn DEF TypeOK, TypeOKClaude, Events
  <2> QED BY <2>1, <2>2, <2>4 DEF Reported, Events
(* A query that fails or throws is replaced, or ends with an event that is  *)
(* no success.                                                              *)
<1>5. ASSUME query[r] \in {"running", "result"}, Replaceable(r), Replaced(r), throws' \in 0 .. MaxThrows,
             UNCHANGED <<taskOf, task, queue, ended, session, sessions, request, text, by, cancelled>>
      PROVE  TypeOK' /\ ClaudeInv' /\ Reported'
  <2>1. /\ ClaudeInv' /\ run' \in [Run -> Runs]
        /\ query' \in [Run -> {"none", "running", "result", "done"}]
        /\ canFresh' \subseteq Run /\ second' \subseteq Run /\ emitted' \subseteq Run
        /\ \A o \in Run : run'[o].outcome = run[o].outcome
    BY <1>5, ReplacedInv
  <2>2. TypeOK'
    BY <1>1, <1>5, <2>1 DEF TypeOK, TypeOKTurns, TypeOKClaude
  <2>3. Reported'
    BY <1>5, <2>1 DEF Reported, Events
  <2> QED BY <2>1, <2>2, <2>3
<1>6. ASSUME query[r] \in {"running", "result"}, NEW kind \in {"cancelled", "error"},
             queue' = Pushed(r, kind), ended' \subseteq Run, throws' \in 0 .. MaxThrows,
             NEW s \in {"result", "done"}, query' = [query EXCEPT ![r] = s],
             UNCHANGED <<run, taskOf, task, canFresh, second, emitted, session, sessions, request, text, by,
                         cancelled>>
      PROVE  TypeOK' /\ ClaudeInv' /\ Reported'
  <2>1. <<kind, 0>> \in Event /\ queue' = PushedTo(r, <<kind, 0>>)
    BY <1>6, EventType DEF Pushed
  <2>2. /\ queue' \in [Run -> Seq(Event)]
        /\ \A o \in Run : o # r => Events(o)' = Events(o)
        /\ Events(r)' \subseteq Events(r) \cup {<<kind, 0>>}
    BY <1>1, <2>1, PushedItems
  <2>3. TypeOK'
    BY <1>1, <1>6, <2>2 DEF TypeOK, TypeOKTurns, TypeOKClaude
  <2>4. \A o \in Run : \A e \in Events(o)' : e[1] = "session" => e \in Events(o)
    BY <2>2
  <2>5. \A c \in Conversation, n \in Thread : Held(c, n)' => Held(c, n)
    BY <1>6, <2>4, HeldKept
  <2>6. run[r].state # "idle"
    BY <1>6 DEF ClaudeInv
  <2>7. ClaudeInv'
    BY <1>6, <2>2, <2>3, <2>5, <2>6, ClaudeGoesOn DEF TypeOK, TypeOKClaude
  <2>8. \A o \in Run : \A e \in Events(o)' : e[1] = "success" => e \in Events(o)
    BY <2>2
  <2>9. Reported'
    BY <1>6, <2>8 DEF Reported
  <2> QED BY <2>3, <2>7, <2>9
<1>7. CASE SdkFails(r)
  <2>1. /\ query[r] = "running"
        /\ UNCHANGED <<taskOf, task, ended, session, sessions, request, text, by, cancelled, throws>>
    BY <1>7 DEF SdkFails
  <2>2. throws' \in 0 .. MaxThrows /\ ended' \subseteq Run
    BY <2>1 DEF TypeOK, TypeOKClaude, TypeOKTurns
  <2>3. CASE Replaceable(r)
    <3>1. Replaced(r) /\ queue' = queue
      BY <1>7, <2>3 DEF SdkFails
    <3> QED BY <1>5, <2>1, <2>2, <2>3, <3>1
  <2>4. CASE ~ Replaceable(r)
    <3>1. /\ queue' = Pushed(r, "error") /\ query' = [query EXCEPT ![r] = "result"]
          /\ UNCHANGED <<run, canFresh, second, emitted>>
      BY <1>7, <2>4 DEF SdkFails
    <3> QED BY <1>6, <2>1, <2>2, <3>1
  <2> QED BY <2>3, <2>4
<1>8. CASE SdkThrows(r)
  <2>1. /\ query[r] \in {"running", "result"}
        /\ UNCHANGED <<taskOf, task, session, sessions, request, text, by, cancelled>>
    BY <1>8 DEF SdkThrows
  <2>2. throws' \in 0 .. MaxThrows
    BY <1>8, ClaudeDriverAssumption DEF SdkThrows, TypeOK, TypeOKClaude
  <2>3. CASE Replaceable(r) /\ r \notin cancelled
    <3>1. Replaced(r) /\ UNCHANGED <<queue, ended>>
      BY <1>8, <2>3 DEF SdkThrows
    <3> QED BY <1>5, <2>1, <2>2, <2>3, <3>1
  <2>4. CASE ~ (Replaceable(r) /\ r \notin cancelled)
    <3> DEFINE kind == IF r \in cancelled THEN "cancelled" ELSE "error"
    <3>1. /\ queue' = Pushed(r, kind) /\ query' = [query EXCEPT ![r] = "done"]
          /\ ended' = ended \cup {r}
          /\ UNCHANGED <<run, canFresh, second, emitted>>
      BY <1>8, <2>4 DEF SdkThrows
    <3>2. kind \in {"cancelled", "error"} /\ ended' \subseteq Run
      BY <3>1 DEF TypeOK, TypeOKTurns
    <3> HIDE DEF kind
    <3>3. PICK k \in {"cancelled", "error"} : k = kind
      BY <3>2
    <3> QED BY <1>6, <2>1, <2>2, <3>1, <3>2, <3>3
  <2> QED BY <2>3, <2>4
<1> QED BY <1>2, <1>3, <1>4, <1>7, <1>8

LEMMA ClaudeRequestKeeps ==
  ASSUME TypeOK, ClaudeInv, Reported, request' \in [Request -> Requests],
         task' \in [Run -> Tasks], queue' \in [Run -> Seq(Event)], cancelled' \subseteq Run,
         UNCHANGED <<run, taskOf, ended, session, sessions, text, by>>,
         \A o \in Run : run[o].state = "idle" => Events(o)' = Events(o),
         \A o \in Run : \A e \in Events(o)' : e \in Events(o) \/ e[1] = "request",
         UNCHANGED claudeVars, UNCHANGED codexVars, driver' = driver
  PROVE  TypeOK' /\ ClaudeInv' /\ Reported'
<1>1. TypeOK'
  <2>1. TypeOKTurns'
    BY DEF TypeOK, TypeOKTurns
  <2> QED BY <2>1 DEF TypeOK, TypeOKClaude, TypeOKCodex, claudeVars, codexVars
<1>2. \A c \in Conversation, n \in Thread : Held(c, n)' => Held(c, n)
  <2>1. \A o \in Run : \A e \in Events(o)' : e[1] = "session" => e \in Events(o)
    OBVIOUS
  <2> QED BY <2>1, HeldKept
<1>3. ClaudeInv'
  BY <1>1, <1>2, ClaudeGoesOn DEF claudeVars
<1>4. Reported'
  BY DEF Reported
<1> QED BY <1>1, <1>3, <1>4

LEMMA ClaudeConsumesKeeps ==
  ASSUME TypeOK, ClaudeInv, Reported, NEW r \in Run, ClaudeConsumes(r),
         UNCHANGED codexVars, driver' = driver
  PROVE  TypeOK' /\ ClaudeInv' /\ Reported'
<1>1. TypeOKTurns /\ TypeOKCodex' /\ TypeOKClaude' /\ driver' \in {"codex", "claude-code"}
      /\ UNCHANGED <<query, canFresh, second, emitted, throws>>
  BY DEF TypeOK, TypeOKCodex, TypeOKClaude, codexVars, claudeVars, ClaudeConsumes
<1>2. CASE Consume(r)
  <2>1. UNCHANGED <<taskOf, ended, sessions, text, by, cancelled>>
    BY <1>2 DEF Consume
  <2>2. /\ run' \in [Run -> Runs] /\ queue' \in [Run -> Seq(Event)]
        /\ task' \in [Run -> Tasks] /\ request' \in [Request -> Requests]
        /\ session' \in [Conversation -> 0 .. 2 * MaxRuns]
        /\ run[r].state = "stream"
        /\ \A o \in Run : o # r => run'[o] = run[o]
        /\ Events(r)' \subseteq Events(r) /\ \A o \in Run : o # r => Events(o)' = Events(o)
        /\ \E e \in Events(r) :
             /\ run'[r].state = IF e[1] = "error" \/ Throws(r) THEN "over" ELSE "stream"
             /\ run'[r].outcome = "success" => run[r].outcome = "success" \/ e[1] = "success"
             /\ e[1] # "session" => session' = session
             /\ e[1] = "session" => session' = [session EXCEPT ![run[r].conv] = e[2]]
        /\ Kept
    BY <1>1, <1>2, ConsumeSet
  <2>3. TypeOK'
    BY <1>1, <2>1, <2>2 DEF TypeOK, TypeOKTurns
  <2>4. ASSUME NEW c \in Conversation, NEW n \in Thread, Held(c, n)'
        PROVE  Held(c, n)
    <3>1. CASE session'[c] = n
      <4>1. PICK e \in Events(r) :
              /\ e[1] # "session" => session' = session
              /\ e[1] = "session" => session' = [session EXCEPT ![run[r].conv] = e[2]]
        BY <2>2
      <4>2. session[c] = n \/ (c = run[r].conv /\ e[1] = "session" /\ e[2] = n)
        BY <1>1, <3>1, <4>1 DEF TypeOKTurns
      <4> QED BY <4>2 DEF Held
    <3>2. CASE session'[c] # n
      <4>1. PICK o \in Run : /\ run'[o].conv = c
                             /\ \/ run'[o].thread = n
                                \/ \E e \in Events(o)' : e[1] = "session" /\ e[2] = n
        BY <2>4, <3>2 DEF Held
      <4>2. Events(o)' \subseteq Events(o) /\ run'[o].conv = run[o].conv
            /\ run'[o].thread = run[o].thread
        BY <2>2 DEF Kept
      <4> QED BY <4>1, <4>2 DEF Held
    <3> QED BY <3>1, <3>2
  <2>5. ClaudeInv'
    BY <1>1, <2>1, <2>2, <2>3, <2>4, ClaudeGoesOn
  <2>6. Reported'
    BY <2>1, <2>2 DEF Reported
  <2> QED BY <2>3, <2>5, <2>6
<1>3. CASE EndStream(r)
  <2>1. /\ run' \in [Run -> Runs]
        /\ run'[r].state = "over" /\ Kept
        /\ run'[r].outcome = "success" => run[r].outcome = "success"
        /\ \A o \in Run : o # r => run'[o] = run[o]
        /\ task' \in [Run -> Tasks]
        /\ UNCHANGED <<taskOf, queue, ended, session, sessions, request, text, by, cancelled>>
    BY <1>1, <1>3, EndStreamSet
  <2>2. TypeOK'
    BY <1>1, <2>1 DEF TypeOK, TypeOKTurns
  <2>3. \A c \in Conversation, n \in Thread : Held(c, n)' => Held(c, n)
    BY <2>1, HeldKept DEF Kept, Events
  <2>4. ClaudeInv'
    BY <1>1, <2>1, <2>2, <2>3, ClaudeGoesOn DEF Events
  <2>5. Reported'
    BY <2>1 DEF Reported, Events
  <2> QED BY <2>2, <2>4, <2>5
<1> QED BY <1>2, <1>3 DEF ClaudeConsumes

LEMMA ClaudeKeeps ==
  ASSUME TypeOK, ClaudeInv, Reported, ClaudeStep, UNCHANGED <<codexVars, driver>>
  PROVE  TypeOK' /\ ClaudeInv' /\ Reported'
<1>1. UNCHANGED codexVars /\ driver' = driver
  OBVIOUS
<1>2. ASSUME NEW r \in Run, NEW c \in ClaudeSpaces, ClaudeStarts(r, c)
      PROVE  TypeOK' /\ ClaudeInv' /\ Reported'
  <2>1. c \in Conversation
    BY ClaudeDriverAssumption
  <2> QED BY <1>1, <1>2, <2>1, ClaudeStartsKeeps
<1>3. ASSUME NEW r \in Run, SdkSession(r)
      PROVE  TypeOK' /\ ClaudeInv' /\ Reported'
  BY <1>1, <1>3, SdkSessionKeeps
<1>4. ASSUME NEW r \in Run,
             SdkOutput(r) \/ SdkSucceeds(r) \/ SdkFails(r) \/ SdkEnds(r) \/ SdkThrows(r)
      PROVE  TypeOK' /\ ClaudeInv' /\ Reported'
  BY <1>1, <1>4, SdkResultKeeps
<1>5. ASSUME NEW r \in Run, ClaudeConsumes(r)
      PROVE  TypeOK' /\ ClaudeInv' /\ Reported'
  BY <1>1, <1>5, ClaudeConsumesKeeps
<1>6. /\ request \in [Request -> Requests] /\ cancelled \subseteq Run
      /\ task \in [Run -> Tasks] /\ queue \in [Run -> Seq(Event)] /\ TypeOKTurns
  BY DEF TypeOK, TypeOKTurns
<1>7. ASSUME NEW r \in Run, ClaudeCancels(r)
      PROVE  TypeOK' /\ ClaudeInv' /\ Reported'
  <2>1. /\ request' \in [Request -> Requests] /\ cancelled' \subseteq Run
        /\ task' \in [Run -> Tasks] /\ queue' \in [Run -> Seq(Event)]
        /\ UNCHANGED <<run, taskOf, queue, ended, session, sessions, text, by>>
        /\ UNCHANGED claudeVars
    BY <1>6, <1>7 DEF ClaudeCancels
  <2>2. \A o \in Run : Events(o)' = Events(o)
    BY <2>1 DEF Events
  <2> QED BY <1>1, <2>1, <2>2, ClaudeRequestKeeps
<1>8. ASSUME NEW q \in Request, NEW r \in Run, SdkAsks(q, r)
      PROVE  TypeOK' /\ ClaudeInv' /\ Reported'
  <2>1. /\ request' \in [Request -> Requests] /\ cancelled' \subseteq Run
        /\ task' \in [Run -> Tasks] /\ query[r] = "running"
        /\ queue' = queue \/ queue' = PushedTo(r, <<"request", q>>)
        /\ UNCHANGED <<run, taskOf, ended, session, sessions, text, by>> /\ UNCHANGED claudeVars
    BY <1>6, <1>8, AskedSet DEF SdkAsks, Asked, Refused
  <2>2. /\ queue' \in [Run -> Seq(Event)]
        /\ \A o \in Run : o # r => Events(o)' = Events(o)
        /\ Events(r)' \subseteq Events(r) \cup {<<"request", q>>}
    <3>1. CASE queue' = queue
      BY <1>6, <3>1 DEF Events
    <3>2. CASE queue' = PushedTo(r, <<"request", q>>)
      BY <1>6, <3>2, EventType, PushedItems
    <3> QED BY <2>1, <3>1, <3>2
  <2>3. run[r].state # "idle"
    BY <2>1 DEF ClaudeInv
  <2>4. /\ \A o \in Run : run[o].state = "idle" => Events(o)' = Events(o)
        /\ \A o \in Run : \A e \in Events(o)' : e \in Events(o) \/ e[1] = "request"
    BY <2>2, <2>3
  <2> QED BY <1>1, <2>1, <2>2, <2>4, ClaudeRequestKeeps
<1>9. ASSUME NEW q \in Request, ClaudeAnswers(q) \/ ClaudeExpires(q) \/ ClaudeLapses(q)
      PROVE  TypeOK' /\ ClaudeInv' /\ Reported'
  <2>1. Settles(q) /\ UNCHANGED claudeVars
    BY <1>9 DEF ClaudeAnswers, ClaudeExpires, ClaudeLapses, Settles
  <2>2. /\ request' \in [Request -> Requests] /\ task' \in [Run -> Tasks]
        /\ UNCHANGED <<run, taskOf, queue, ended, session, sessions, text, by, cancelled>>
    BY <1>6, <2>1, SettlesSet
  <2>3. \A o \in Run : Events(o)' = Events(o)
    BY <2>2 DEF Events
  <2>4. queue' \in [Run -> Seq(Event)] /\ cancelled' \subseteq Run
    BY <1>6, <2>2
  <2> QED BY <1>1, <2>1, <2>2, <2>3, <2>4, ClaudeRequestKeeps
<1> QED BY <1>2, <1>3, <1>4, <1>5, <1>7, <1>8, <1>9 DEF ClaudeStep

-----------------------------------------------------------------------------
(* The theorems.                                                           *)

LEMMA Initially == Init => IInv
<1> SUFFICES ASSUME Init PROVE IInv
  OBVIOUS
<1>1. /\ run = [r \in Run |-> [state |-> "idle", conv |-> None, thread |-> 0, outcome |-> "none"]]
      /\ queue = [r \in Run |-> <<>>] /\ ended = {}
      /\ session \in [Conversation -> {0}] /\ sessions = 0
      /\ request = [q \in Request |-> [state |-> "none", run |-> 0, row |-> 0]]
      /\ taskOf = [r \in Run |-> 0] /\ task = [r \in Run |-> "none"]
      /\ text = [r \in Run |-> {}] /\ by = [r \in Run |-> <<>>] /\ cancelled = {}
  BY DEF Init, InitTurns
<1>2. \A r \in Run : /\ run[r].state = "idle" /\ run[r].thread = 0 /\ run[r].outcome = "none"
                     /\ Events(r) = {} /\ queue[r] = <<>> /\ text[r] = {} /\ by[r] = <<>>
  BY <1>1, ItemsOfNone DEF Events
<1>3. TypeOKTurns
  <2>1. 0 \in 0 .. 2 * MaxRuns
    BY EventType
  <2>2. run \in [Run -> Runs] /\ request \in [Request -> Requests]
    BY <1>1, <2>1 DEF Runs, Requests
  <2>3. queue \in [Run -> Seq(Event)]
    BY <1>1, EmptySeq
  <2>4. task \in [Run -> Tasks] /\ taskOf \in [Run -> Run \cup {0}]
    BY <1>1 DEF Tasks
  <2> QED BY <1>1, <2>1, <2>2, <2>3, <2>4 DEF TypeOKTurns
<1>4. TypeOKCodex /\ TypeOKClaude
  <2>1. 0 \in 0 .. MaxFaults /\ 0 \in 0 .. MaxThrows
    BY CodexDriverAssumption, ClaudeDriverAssumption
  <2>2. TypeOKCodex
    BY <2>1 DEF Init, InitCodex, TypeOKCodex
  <2>3. TypeOKClaude
    BY <2>1 DEF Init, InitClaude, TypeOKClaude
  <2> QED BY <2>2, <2>3
<1>5. TypeOK
  BY <1>3, <1>4 DEF TypeOK, Init
<1>6. Reported
  BY <1>2 DEF Reported
<1>7. 0 <= Cardinality(Threaded) /\ 0 <= Cardinality(Named)
  <2>1. Threaded \in SUBSET Run /\ Named \in SUBSET VendorTurn
    BY DEF Threaded, Named
  <2>2. Cardinality(Threaded) \in Nat /\ Cardinality(Named) \in Nat
    BY <2>1, RunsFinite, VendorTurnsFinite
  <2> QED BY <2>2
<1>8. CodexInv
  <2>1. /\ proc = "none" /\ loose = {} /\ \A t \in Thread : active[t] = 0
        /\ \A r \in Run : turn[r] = "none"
    BY DEF Init, InitCodex
  <2>2. Unthreaded /\ Process /\ Registry
    BY <1>1, <1>2, <2>1 DEF Unthreaded, Process, Registry
  <2>3. Rows /\ Counted
    BY <1>1, <1>2, <1>7 DEF Rows, Counted, Live, InFlight
  <2>4. Owned
    BY <1>1, <1>2 DEF Owned
  <2>5. Attended /\ Own
    BY <1>2, <2>1 DEF Attended, Own
  <2> QED BY <2>2, <2>3, <2>4, <2>5 DEF CodexInv
<1>9. ClaudeInv
  <2>1. /\ loose = {} /\ canFresh = {} /\ second = {}
        /\ \A r \in Run : turn[r] = "none" /\ query[r] = "none"
    BY DEF Init, InitCodex, InitClaude
  <2>2. Apart
    <3>1. \A c \in Conversation, n \in Thread : ~ Held(c, n)
      BY <1>1, <1>2, AgentTurnsAssumption DEF Held, Thread
    <3> QED BY <3>1 DEF Apart
  <2> QED BY <1>1, <1>2, <1>7, <2>1, <2>2 DEF ClaudeInv
<1> QED BY <1>5, <1>6, <1>8, <1>9 DEF IInv

LEMMA Inductive == IInv /\ [Next]_vars => IInv'
<1> SUFFICES ASSUME IInv, [Next]_vars PROVE IInv'
  OBVIOUS
<1>1. CASE driver = "codex" /\ (CodexStep \/ CodexFault) /\ UNCHANGED <<claudeVars, driver>>
  <2>1. TypeOK /\ Reported /\ CodexInv
    BY <1>1 DEF IInv
  <2>2. TypeOK' /\ CodexInv' /\ Reported'
    BY <1>1, <2>1, CodexKeeps
  <2> QED BY <1>1, <2>2 DEF IInv
<1>2. CASE driver = "claude-code" /\ ClaudeStep /\ UNCHANGED <<codexVars, driver>>
  <2>1. TypeOK /\ Reported /\ ClaudeInv
    BY <1>2 DEF IInv
  <2>2. TypeOK' /\ ClaudeInv' /\ Reported'
    BY <1>2, <2>1, ClaudeKeeps
  <2> QED BY <1>2, <2>2 DEF IInv
<1>3. CASE UNCHANGED vars
  <2>1. UNCHANGED <<run, taskOf, task, queue, ended, session, sessions, request, text, by,
                    cancelled>>
        /\ UNCHANGED codexVars /\ UNCHANGED claudeVars /\ driver' = driver
    BY <1>3 DEF vars, turnVars
  <2>2. /\ TypeOK /\ Reported /\ request \in [Request -> Requests] /\ cancelled \subseteq Run
        /\ task \in [Run -> Tasks] /\ queue \in [Run -> Seq(Event)]
    BY DEF IInv, TypeOK, TypeOKTurns
  <2>3. CASE driver = "codex"
    <3>1. CodexInv' /\ Reported'
      BY <2>1, <2>2, <2>3, CodexUnchanged DEF IInv, codexVars
    <3>2. TypeOK'
      BY <2>1, <2>2 DEF TypeOK, TypeOKTurns, TypeOKCodex, TypeOKClaude, codexVars, claudeVars
    <3> QED BY <2>1, <2>3, <3>1, <3>2 DEF IInv
  <2>4. CASE driver = "claude-code"
    <3>1. TypeOK' /\ ClaudeInv' /\ Reported'
      BY <2>1, <2>2, <2>4, ClaudeRequestKeeps DEF IInv, Events
    <3> QED BY <2>1, <2>4, <3>1 DEF IInv
  <2> QED BY <2>2, <2>3, <2>4 DEF TypeOK
<1> QED BY <1>1, <1>2, <1>3 DEF Next

THEOREM Invariant == Spec => []IInv
<1>1. Init => IInv
  BY Initially
<1>2. IInv /\ [Next]_vars => IInv'
  BY Inductive
<1> QED BY <1>1, <1>2, PTL DEF Spec

(* The runs, tasks, queues, registries and requests of both drivers keep   *)
(* their types; in particular the vendors create no more sessions than there are *)
(* runs (Codex) or queries (Claude Code) to name them.                     *)
THEOREM WellTyped == Spec => []TypeOK
<1>1. IInv => TypeOK
  BY DEF IInv
<1> QED BY <1>1, Invariant, PTL

(* Two turns of one Codex thread never run at once, however cancellations, *)
(* completions, exits and the next runs of the conversation interleave,    *)
(* unless a run of the thread was given up while its turn might run on:    *)
(* on an error, a time-out or an exception of the consumer, or because its *)
(* task failed when a request expired (the driver is not told).            *)
THEOREM OneTurnPerThread == Spec => []OneVendorTurn
<1>1. ASSUME IInv, NEW r \in Run, NEW o \in Run, turn[r] = "running", turn[o] = "running",
             run[r].thread = run[o].thread, ~ Loosened(r)
      PROVE  r = o
  <2>1. driver = "codex"
    BY <1>1 DEF IInv, TypeOK, ClaudeInv
  <2>2. CodexInv /\ ~ Loosened(o)
    BY <1>1, <2>1 DEF IInv, Loosened
  <2>3. Receiver(r) = r /\ Receiver(o) = o
    BY <1>1, <2>2, ReceiverIs DEF IInv
  <2> QED BY <1>1, <2>3 DEF Receiver
<1>2. IInv => OneVendorTurn
  BY <1>1 DEF OneVendorTurn
<1> QED BY <1>2, Invariant, PTL

(* A run that succeeds in a thread in which no run was given up carries the *)
(* output of one vendor turn, its own: neither a late notification in the thread of the turn      *)
(* before it nor the replacement of a resumed query mixes two answers.     *)
THEOREM AnswersAreOwn == Spec => []AnswersItself
<1>1. ASSUME NEW r \in Run, NEW v \in VendorTurn, text[r] \subseteq {v}, v[1] = r
      PROVE  Cardinality(text[r]) <= 1 /\ \A t \in text[r] : t[1] = r
  <2>1. IsFiniteSet({v}) /\ Cardinality({v}) = 1
    BY FS_Singleton
  <2>2. Cardinality(text[r]) <= Cardinality({v})
    BY <1>1, <2>1, FS_Subset
  <2> QED BY <1>1, <2>1, <2>2
<1>2. ASSUME IInv, NEW r \in Run, run[r].outcome = "success", ~ Loosened(r)
      PROVE  /\ by[r][1] = r
             /\ Cardinality(text[r]) <= 1
             /\ \A t \in text[r] : t[1] = r
  <2>1. by[r] # <<>>
    BY <1>2 DEF IInv, Reported
  <2>2. CASE driver = "codex"
    <3>1. text[r] \subseteq {<<r, 1>>} /\ by[r] = <<r, 1>>
      BY <1>2, <2>1, <2>2 DEF IInv, CodexInv, Own
    <3>2. <<r, 1>> \in VendorTurn /\ <<r, 1>>[1] = r
      BY DEF VendorTurn
    <3> QED BY <1>1, <3>1, <3>2
  <2>3. CASE driver = "claude-code"
    <3>1. text[r] \subseteq {Current(r)} /\ by[r] \in {<<r, 1>>, <<r, 2>>}
      BY <1>2, <2>1, <2>3 DEF IInv, ClaudeInv
    <3>2. Current(r) \in VendorTurn /\ Current(r)[1] = r
      BY CurrentIs
    <3>3. by[r][1] = r
      BY <3>1
    <3> QED BY <1>1, <3>1, <3>2, <3>3
  <2> QED BY <1>2, <2>2, <2>3 DEF IInv, TypeOK
<1>3. IInv => AnswersItself
  BY <1>2 DEF AnswersItself
<1> QED BY <1>3, Invariant, PTL

(* A vendor session, with all that was said in it, is never stored for two *)
(* conversations.                                                          *)
SessionsApart ==
  \A c, d \in Conversation : session[c] # 0 /\ session[c] = session[d] => c = d

(* Whatever the order in which sessions are created, announced, replaced   *)
(* and stored, a conversation resumes only a session of its own.           *)
THEOREM OwnSessions == Spec => []SessionsApart
<1>1. ASSUME IInv
      PROVE  SessionsApart
  <2>1. CASE driver = "codex"
    BY <1>1, <2>1 DEF IInv, CodexInv, Owned, SessionsApart
  <2>2. CASE driver = "claude-code"
    <3>1. \A c \in Conversation : session[c] # 0 => session[c] \in Thread /\ Held(c, session[c])
      BY <1>1, AgentTurnsAssumption DEF IInv, TypeOK, TypeOKTurns, Thread, Held
    <3> QED BY <1>1, <2>2, <3>1 DEF IInv, ClaudeInv, Apart, SessionsApart
  <2> QED BY <1>1, <2>1, <2>2 DEF IInv, TypeOK
<1> QED BY <1>1, Invariant, PTL

=============================================================================
