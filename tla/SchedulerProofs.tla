--------------------------- MODULE SchedulerProofs ---------------------------
(***************************************************************************)
(* Proofs about module Scheduler, for any number of tasks, requests,       *)
(* attempts, workers and restarts and any assignment of keys and speakers, *)
(* in three parts.                                                         *)
(*                                                                         *)
(* 1. IInv is inductive (lemmas TypeStep to InductiveStep); the theorems   *)
(*    about the tables follow from it.                                     *)
(* 2. The promises about effects, answers and overlapping turns.  Lawful   *)
(*    and Settling say what one step may do to a task, a steer, a request  *)
(*    and the outbox; each is shown action by action from IInv.  What the  *)
(*    promises need beyond it (OwnerKnown, Marked, HostKept,               *)
(*    AnsweredTogether, LiveOrLapsed) then follows from those two without  *)
(*    a look at the actions.                                               *)
(* 3. Scheduler implements ConversationQueue: whatever the drivers, the    *)
(*    users, the timers and crashes do, every conversation is served in    *)
(*    order and every message is answered at most once.                    *)
(***************************************************************************)
EXTENDS Scheduler, TLAPS

USE DEF Task, Request, None

-----------------------------------------------------------------------------
LEMMA ClaimedCounts ==
  ASSUME NEW t \in Task, attempt \in [Task -> Nat], Claimed(t)
  PROVE  attempt' \in [Task -> Nat]
BY DEF Claimed

(* Every step keeps the types.  Only SteerRejected needs more than the     *)
(* types: the attempt it takes back has been counted.                      *)
LEMMA TypeStep ==
  ASSUME IInv, [Next]_vars
  PROVE  TypeOK'
<1> USE SchedulerAssumption
    DEF IInv, TypeOK, TaskStatus, Waiting, InFlight, Terminal, SteerState,
        ApprovalStatus, TurnPhase, Outcome, taskVars, steerVars, apprVars,
        rowVars, turnVars
<1>1. ASSUME NEW t \in Task, Enqueue(t) PROVE TypeOK'
  <2>1. status' \in [Task -> TaskStatus]
    BY <1>1 DEF Enqueue
  <2>2. flush' \subseteq Task
    <3>1. steering[KeyOf[t]] # None => steering[KeyOf[t]] \in Task
      OBVIOUS
    <3>2. flush' = flush \/ (steering[KeyOf[t]] # None
                             /\ flush' = flush \cup {steering[KeyOf[t]]})
      BY <1>1, Zenon DEF Enqueue
    <3> QED
      BY <3>1, <3>2
  <2> QED
    BY <1>1, <2>1, <2>2 DEF Enqueue
<1>2. ASSUME NEW t \in Task, StartTurn(t) PROVE TypeOK'
  <2>1. attempt' \in [Task -> Nat]
    BY <1>2, ClaimedCounts DEF StartTurn
  <2>2. steering' \in [Keys -> Task \cup {None}]
    BY <1>2 DEF StartTurn
  <2> QED
    BY <1>2, <2>1, <2>2 DEF StartTurn
<1>3. ASSUME NEW t \in Task, RefuseTurn(t) PROVE TypeOK'
  <2>1. /\ status' \in [Task -> TaskStatus]
        /\ steering' \in [Keys -> Task \cup {None}]
    BY ZenonT(30), <1>3 DEF RefuseTurn
  <2>2. attempt' \in [Task -> Nat]
    BY <1>3, ClaimedCounts DEF RefuseTurn
  <2>3. outbox' \subseteq Task \X {"final", "memory", "error", "steer-uncertain"}
    BY <1>3 DEF RefuseTurn
  <2> QED
    BY <1>3, <2>1, <2>2, <2>3 DEF RefuseTurn
<1>4. ASSUME NEW t \in Task, TurnStarted(t) PROVE TypeOK'
  BY <1>4 DEF TurnStarted
<1>5. ASSUME NEW t \in Task, FlushIdle(t) PROVE TypeOK'
  BY <1>5 DEF FlushIdle
<1>6. ASSUME NEW t \in Task, NEW i \in Task, BeginSteer(t, i) PROVE TypeOK'
  <2>1. /\ status' \in [Task -> TaskStatus]
        /\ attempt' \in [Task -> Nat]
    BY <1>6 DEF BeginSteer
  <2>2. /\ steer' \in [Task -> SteerState]
        /\ target' \in [Task -> Task \cup {None}]
    BY <1>6 DEF BeginSteer
  <2>3. dangerous' \in [Task -> BOOLEAN]
    BY <1>6 DEF BeginSteer
  <2> QED
    BY <1>6, <2>1, <2>2, <2>3 DEF BeginSteer
<1>7. ASSUME NEW i \in Task, SteerAccepted(i) PROVE TypeOK'
  BY <1>7 DEF SteerAccepted
<1>8. ASSUME NEW i \in Task, SteerRejected(i) PROVE TypeOK'
  <2>1. attempt[i] - 1 \in Nat /\ target[i] \in Task
    BY <1>8 DEF SteerRejected, SteeredShape, Steered
  <2>2. /\ status' \in [Task -> TaskStatus]
        /\ attempt' \in [Task -> Nat]
    BY <1>8, <2>1 DEF SteerRejected
  <2>3. dangerous' \in [Task -> BOOLEAN]
    BY <1>8, Zenon DEF SteerRejected
  <2>4. /\ steer' \in [Task -> SteerState]
        /\ closing' \subseteq Task
        /\ flush' \subseteq Task
    BY <1>8, <2>1 DEF SteerRejected
  <2> QED
    BY <1>8, <2>2, <2>3, <2>4 DEF SteerRejected
<1>9. ASSUME NEW i \in Task, SteerUncertain(i) PROVE TypeOK'
  <2>1. target[i] \in Task
    BY <1>9 DEF SteerUncertain, SteeredShape, Steered
  <2>2. status' \in [Task -> TaskStatus] /\ steer' \in [Task -> SteerState]
    BY <1>9 DEF SteerUncertain
  <2>3. outbox' \subseteq Task \X {"final", "memory", "error", "steer-uncertain"}
    BY <1>9 DEF SteerUncertain
  <2>4. deadLetters' \subseteq Task \X {"unsafe-replay", "steer-uncertain"}
    BY <1>9 DEF SteerUncertain
  <2>5. closing' \subseteq Task /\ flush' \subseteq Task
    BY <1>9, <2>1 DEF SteerUncertain
  <2> QED
    BY <1>9, <2>2, <2>3, <2>4, <2>5 DEF SteerUncertain
<1>10. ASSUME NEW t \in Task, NEW r \in Request, Ask(t, r) PROVE TypeOK'
  BY <1>10 DEF Ask
<1>11. ASSUME NEW t \in Task, AskRefused(t) PROVE TypeOK'
  BY <1>11 DEF AskRefused
<1>12. ASSUME NEW r \in Request, Lapse(r) PROVE TypeOK'
  BY <1>12 DEF Lapse
<1>13. ASSUME NEW r \in Request, NEW d \in DOMAIN Verdict, Answer(r, d)
       PROVE  TypeOK'
  <2>1. dangerous' \in [Task -> BOOLEAN]
    BY <1>13, Zenon DEF Answer
  <2>2. Verdict[d] \in {"allowed", "denied"}
    BY <1>13 DEF Verdict
  <2>3. status' \in [Task -> TaskStatus]
    <3>1. ASSUME NEW s \in TaskStatus, Resume(r, s)
          PROVE  status' \in [Task -> TaskStatus]
      BY ZenonT(30), <3>1 DEF Resume
    <3>2. status' = status \/ Resume(r, "active") \/ Resume(r, "failed")
      BY <1>13, Zenon DEF Answer
    <3> QED
      BY <3>1, <3>2
  <2>4. appr' \in [Request -> ApprovalStatus]
    <3>1. \/ appr' = appr
          \/ \E v \in {"allowed", "denied", "expired"} :
               appr' = [appr EXCEPT ![r] = v]
      BY <1>13, <2>2, Zenon DEF Answer
    <3> QED
      BY <3>1
  <2>5. /\ waiter' \in [Request -> {"none", "live", "stale"}]
        /\ overdue' \subseteq Request
    BY ZenonT(30), <1>13 DEF Answer
  <2>6. late' \subseteq Request
    BY <1>13 DEF Answer
  <2> QED
    BY <1>13, <2>1, <2>3, <2>4, <2>5, <2>6 DEF Answer
<1>14. ASSUME NEW r \in Request, AnswerLate(r) PROVE TypeOK'
  BY ZenonT(30), <1>14 DEF AnswerLate, Resume
<1>15. ASSUME NEW r \in Request, DriverTimeout(r) PROVE TypeOK'
  BY <1>15 DEF DriverTimeout
<1>16. ASSUME ExpirePending PROVE TypeOK'
  BY <1>16 DEF ExpirePending
<1>17. ASSUME NEW t \in Task, NEW o \in Outcome, TurnEnds(t, o) PROVE TypeOK'
  BY <1>17 DEF TurnEnds
<1>18. ASSUME NEW t \in Task, EndTurn(t) PROVE TypeOK'
  <2>1. PICK s \in TaskStatus : Finish(t, s)
    <3>1. status[t] \in TaskStatus
      OBVIOUS
    <3>2. \A s \in Terminal \cup {"retry_wait"} : InFlightTo(t, s) \in TaskStatus
      BY <3>1 DEF InFlightTo
    <3>3. CASE Complete(t)
      BY <3>3, Zenon DEF Complete
    <3>4. CASE CompleteUnheard(t)
      BY <3>1, <3>4, Zenon DEF CompleteUnheard
    <3>5. CASE CompleteCancelled(t)
      BY <3>2, <3>5, Zenon DEF CompleteCancelled
    <3>6. CASE Retry(t)
      BY <3>2, <3>6, Zenon DEF Retry
    <3>7. CASE DeadLetter(t)
      BY <3>2, <3>7, Zenon DEF DeadLetter
    <3>8. CASE Fail(t)
      BY <3>2, <3>8, Zenon DEF Fail
    <3> QED
      BY <1>18, <3>3, <3>4, <3>5, <3>6, <3>7, <3>8 DEF EndTurn
  <2>2. status' \in [Task -> TaskStatus]
    <3> DEFINE st == [status EXCEPT ![t] = s]
    <3>1. st \in [Task -> TaskStatus]
      OBVIOUS
    <3>2. status' = st \/ status' = Settled(t, s, st)
      BY <2>1, Zenon DEF Finish
    <3> HIDE DEF st
    <3>3. Settled(t, s, st) \in [Task -> TaskStatus]
      BY <3>1 DEF Settled
    <3> QED
      BY <3>1, <3>2, <3>3
  <2>3. outbox' \subseteq Task \X {"final", "memory", "error", "steer-uncertain"}
    <3>1. CASE Complete(t)
      BY <3>1 DEF Complete
    <3>2. CASE ~ Complete(t)
      BY <1>18, <3>2 DEF EndTurn, CompleteUnheard, CompleteCancelled, Retry,
                         DeadLetter, Fail
    <3> QED
      BY <3>1, <3>2
  <2>4. deadLetters' \subseteq Task \X {"unsafe-replay", "steer-uncertain"}
    BY <1>18 DEF EndTurn, Complete, CompleteUnheard, CompleteCancelled, Retry,
                 DeadLetter, Fail
  <2>5. waiter' \in [Request -> {"none", "live", "stale"}]
    BY <2>1 DEF Finish
  <2> QED
    BY <2>1, <2>2, <2>3, <2>4, <2>5 DEF Finish
<1>19. ASSUME NEW c \in Keys, NEW p \in Speakers, Cancel(c, p) PROVE TypeOK'
  <2>1. status' \in [Task -> TaskStatus]
    BY <1>19 DEF Cancel
  <2>2. stopping' \in [Task -> {"no", "lost", "sent"}]
    BY <1>19 DEF Cancel
  <2> QED
    BY <1>19, <2>1, <2>2 DEF Cancel
<1>20. ASSUME Restart PROVE TypeOK'
  BY <1>20 DEF Restart, Recovered, InFlightTo
<1>21. CASE UNCHANGED vars
  BY <1>21 DEF vars
<1> QED
  BY <1>1, <1>2, <1>3, <1>4, <1>5, <1>6, <1>7, <1>8, <1>9, <1>10, <1>11, <1>12,
     <1>13, <1>14, <1>15, <1>16, <1>17, <1>18, <1>19, <1>20, <1>21 DEF Next

-----------------------------------------------------------------------------
(* Most steps do not touch the order of a key: they only park, release,    *)
(* fail or cancel tasks where they stand.                                  *)
InPlace(t) ==
  \/ status'[t] = status[t]
  \/ status[t] \in Waiting /\ status'[t] = "cancelled"
  \/ status[t] = "waiting_approval" /\ status'[t] \in {"active", "failed"}
  \/ status[t] = "active" /\ turn[t] # "none" /\ status'[t] = "waiting_approval"

LEMMA InPlaceStep ==
  ASSUME IInv, TypeOK',
         UNCHANGED <<attempt, steer, target>>,
         \A t \in Task : /\ InPlace(t)
                         /\ dangerous[t] => dangerous'[t]
                         /\ turn'[t] = "none" <=> turn[t] = "none"
                         /\ t \in flush' => turn[t] # "none"
  PROVE  IInv'
<1> USE DEF IInv, InPlace, Steered, Waiting, InFlight, Terminal
<1>1. AbsentIsFresh'
  BY DEF AbsentIsFresh
<1>2. TurnsHaveStarted'
  BY DEF TurnsHaveStarted
<1>3. SteeredShape'
  BY DEF SteeredShape
<1>4. OneRoot'
  BY DEF OneRoot, SteeredShape
<1>5. ReturnsInOrder'
  BY DEF ReturnsInOrder, MayReturn
<1> QED
  BY <1>1, <1>2, <1>3, <1>4, <1>5

LEMMA EnqueueStep ==
  ASSUME IInv, TypeOK', NEW t \in Task, Enqueue(t)
  PROVE  IInv'
<1> USE SchedulerAssumption
    DEF IInv, Steered, Waiting, InFlight, Terminal, steerVars
<1>1. /\ status[t] = "absent"
      /\ \A u \in Task : /\ u < t => status[u] # "absent"
                         /\ status'[u] = IF u = t THEN "queued" ELSE status[u]
      /\ UNCHANGED <<attempt, dangerous, steer, target, turn>>
  BY DEF Enqueue, TypeOK
<1>2. \A x \in flush' : x \in flush \/ turn[x] = "running"
  BY Zenon DEF Enqueue
<1>3. AbsentIsFresh'
  BY <1>1 DEF AbsentIsFresh
<1>4. TurnsHaveStarted'
  BY <1>1, <1>2 DEF TurnsHaveStarted
<1>5. SteeredShape'
  BY <1>1 DEF SteeredShape
<1>6. OneRoot'
  BY <1>1 DEF OneRoot, SteeredShape
<1>7. ReturnsInOrder'
  BY <1>1 DEF ReturnsInOrder, MayReturn, AbsentIsFresh, SteeredShape
<1> QED
  BY <1>3, <1>4, <1>5, <1>6, <1>7

(* A claimed task is the head of a key in which nothing is in flight.      *)
LEMMA ClaimedIsHead ==
  ASSUME IInv, NEW t \in Task, Claimed(t)
  PROVE  /\ status[t] \in Waiting /\ turn[t] = "none" /\ ~ Steered(t)
         /\ \A u \in Task : u # t /\ KeyOf[u] = KeyOf[t] =>
              /\ status[u] \notin InFlight /\ ~ steer[u] = "submitting"
              /\ u < t => status[u] \notin Waiting
              /\ t < u => /\ status[u] \in {"absent", "queued", "cancelled"}
                         /\ attempt[u] = 0
<1> USE DEF IInv, Claimed, Claimable, Waiting, InFlight, Terminal, Steered
<1>1. status[t] \in Waiting /\ turn[t] = "none" /\ ~ Steered(t)
  BY DEF TurnsHaveStarted, SteeredShape
<1>2. ASSUME NEW u \in Task, u # t, KeyOf[u] = KeyOf[t]
      PROVE  /\ status[u] \notin InFlight /\ ~ steer[u] = "submitting"
             /\ u < t => status[u] \notin Waiting
  BY <1>2 DEF SteeredShape
<1>3. ASSUME NEW u \in Task, t < u, KeyOf[u] = KeyOf[t]
      PROVE  /\ status[u] \in {"absent", "queued", "cancelled"}
             /\ attempt[u] = 0
  BY <1>1, <1>3 DEF ReturnsInOrder, MayReturn
<1> QED
  BY <1>1, <1>2, <1>3

(* Starting or refusing the head of a key: its status becomes s.           *)
LEMMA ClaimStep ==
  ASSUME IInv, TypeOK', NEW t \in Task, Claimed(t),
         NEW s \in {"active", "dead_letter", "failed"},
         status' = [status EXCEPT ![t] = s],
         turn' = [turn EXCEPT ![t] = IF s = "active" THEN "starting" ELSE @],
         UNCHANGED <<dangerous, steer, target, flush>>
  PROVE  IInv'
<1> USE SchedulerAssumption, ClaimedIsHead
    DEF IInv, Steered, Waiting, InFlight, Terminal
<1>1. \A u \in Task :
        /\ status'[u] = IF u = t THEN s ELSE status[u]
        /\ attempt'[u] = IF u = t THEN attempt[u] + 1 ELSE attempt[u]
        /\ turn'[u] = IF u = t /\ s = "active" THEN "starting" ELSE turn[u]
  BY DEF Claimed, TypeOK
<1>2. attempt'[t] \in Nat \ {0}
  BY <1>1 DEF TypeOK
<1>3. AbsentIsFresh'
  BY SMTT(30), <1>1 DEF AbsentIsFresh
<1>4. TurnsHaveStarted'
  BY <1>1 DEF TurnsHaveStarted
<1>5. SteeredShape'
  BY <1>1 DEF SteeredShape
<1>6. OneRoot'
  BY <1>1 DEF OneRoot, SteeredShape
<1>7. ReturnsInOrder'
  BY <1>1 DEF ReturnsInOrder, MayReturn
<1> QED
  BY <1>3, <1>4, <1>5, <1>6, <1>7

(* Steering moves the head of the queue into the turn that holds the key.  *)
LEMMA BeginSteerStep ==
  ASSUME IInv, TypeOK', NEW t \in Task, NEW i \in Task, BeginSteer(t, i)
  PROVE  IInv'
<1> USE SchedulerAssumption DEF IInv, Steered, Waiting, InFlight, Terminal
<1>1. \A u \in Task :
        /\ status'[u] = IF u = i THEN "active" ELSE status[u]
        /\ attempt'[u] = IF u = i THEN attempt[u] + 1 ELSE attempt[u]
        /\ steer'[u] = IF u = i THEN "submitting" ELSE steer[u]
        /\ target'[u] = IF u = i THEN t ELSE target[u]
        /\ u \in {i, t} \/ dangerous[u] => dangerous'[u]
  BY DEF BeginSteer, TypeOK
<1>2. /\ UNCHANGED <<turn, flush>> /\ attempt[i] + 1 \in Nat \ {0}
      /\ status[i] = "queued" /\ KeyOf[i] = KeyOf[t] /\ status[t] \in InFlight
      /\ t # None /\ i # t
  BY DEF BeginSteer, CanSteer, SamePrompter, turnVars, TypeOK
<1>3. turn[t] # "none" /\ turn[i] = "none" /\ ~ Steered(t) /\ ~ Steered(i)
  BY <1>2 DEF BeginSteer, TurnsHaveStarted, SteeredShape
<1>4. ASSUME NEW u \in Task, u \notin {t, i}, KeyOf[u] = KeyOf[t]
      PROVE  /\ status[u] \in InFlight => Steered(u) /\ dangerous[u]
             /\ steer[u] # "submitting"
             /\ u < i => status[u] \notin Waiting
  <2>1. /\ status[u] \in InFlight => Steered(u)
        /\ steer[u] = "submitting" => target[u] = t
    BY <1>2, <1>3, <1>4 DEF OneRoot
  <2>2. steer[u] # "submitting"
    BY <2>1 DEF BeginSteer, Submitting
  <2>3. u < i => status[u] \notin Waiting
    BY <1>2, <1>4 DEF BeginSteer, IsNextFollowUp
  <2> QED
    BY <2>1, <2>2, <2>3 DEF SteeredShape
<1>5. AbsentIsFresh'
  BY SMTT(30), <1>1, <1>2 DEF AbsentIsFresh
<1>6. TurnsHaveStarted'
  BY <1>1, <1>2 DEF TurnsHaveStarted
<1>7. SteeredShape'
  <2>1. i \in Task /\ attempt'[i] >= 1 /\ dangerous'[i]
    BY <1>1, <1>2
  <2>2. ASSUME NEW u \in Task, u # i, Steered(u)
        PROVE  /\ steer[u] = steer'[u] /\ target'[u] = target[u]
               /\ attempt'[u] = attempt[u] /\ status'[u] = status[u]
               /\ dangerous[u] => dangerous'[u]
    BY <1>1, <2>2
  <2>3. steer'[i] = "submitting" /\ target'[i] = t /\ status'[i] = "active"
    BY <1>1
  <2> QED
    <3> SUFFICES ASSUME NEW u \in Task, Steered(u)'
                 PROVE  /\ turn'[u] = "none" /\ dangerous'[u]
                        /\ target'[u] # None /\ KeyOf[target'[u]] = KeyOf[u]
                        /\ status'[u] \in {"active"} \cup Terminal
                        /\ steer'[u] = "submitting" =>
                             status'[u] = "active" /\ attempt'[u] >= 1
      BY DEF SteeredShape
    <3>1. CASE u = i
      BY <1>2, <1>3, <2>1, <2>3, <3>1
    <3>2. CASE u # i
      <4>1. Steered(u)
        BY <1>1, <3>2
      <4> QED
        BY <1>2, <2>2, <3>2, <4>1 DEF SteeredShape
    <3> QED
      BY <3>1, <3>2
<1>8. OneRoot'
  <2> SUFFICES ASSUME NEW u \in Task, NEW v \in Task, u # v,
                      KeyOf[u] = KeyOf[v], status'[u] \in InFlight,
                      ~ Steered(u)'
               PROVE  /\ status'[v] \in InFlight => Steered(v)'
                      /\ steer'[v] = "submitting" => target'[v] = u
    BY DEF OneRoot
  <2>1. u # i /\ status[u] \in InFlight /\ ~ Steered(u)
    BY <1>1
  <2>2. CASE u = t
    BY <1>1, <1>2, <1>4, <2>2
  <2>3. CASE u # t /\ KeyOf[u] = KeyOf[t]
    BY <1>4, <2>1, <2>3
  <2>4. CASE KeyOf[u] # KeyOf[t]
    BY <1>1, <1>2, <2>1, <2>4 DEF OneRoot
  <2> QED
    BY <2>2, <2>3, <2>4
<1>9. ReturnsInOrder'
  <2> SUFFICES ASSUME NEW w \in Task, NEW u \in Task, w < u,
                      KeyOf[w] = KeyOf[u], MayReturn(w)'
               PROVE  /\ status'[u] \in {"absent", "queued", "cancelled"}
                      /\ attempt'[u] = 0
    BY DEF ReturnsInOrder
  <2>1. MayReturn(w) /\ w # t
    BY <1>1, <1>2, <1>3 DEF MayReturn
  <2>2. u # i
    BY <1>2, <1>4, <2>1 DEF MayReturn
  <2> QED
    BY <1>1, <2>1, <2>2 DEF ReturnsInOrder
<1> QED
  BY <1>5, <1>6, <1>7, <1>8, <1>9

LEMMA SteerAcceptedStep ==
  ASSUME IInv, TypeOK', NEW i \in Task, SteerAccepted(i)
  PROVE  IInv'
<1> USE DEF IInv, Steered
<1>1. \A u \in Task : steer'[u] = IF u = i THEN "accepted" ELSE steer[u]
  BY DEF SteerAccepted, TypeOK
<1>2. /\ UNCHANGED <<status, attempt, dangerous, target, turn, flush>>
      /\ steer[i] = "submitting"
  BY DEF SteerAccepted, taskVars, turnVars
<1>3. AbsentIsFresh'
  BY <1>2 DEF AbsentIsFresh
<1>4. TurnsHaveStarted'
  BY <1>2 DEF TurnsHaveStarted
<1>5. SteeredShape'
  BY <1>1, <1>2 DEF SteeredShape
<1>6. OneRoot'
  BY <1>1, <1>2 DEF OneRoot
<1>7. ReturnsInOrder'
  BY <1>1, <1>2 DEF ReturnsInOrder, MayReturn
<1> QED
  BY <1>3, <1>4, <1>5, <1>6, <1>7

(* An input that is still being submitted may return to the queue, so      *)
(* everything behind it is still waiting for the first time.               *)
LEMMA SteerRejectedStep ==
  ASSUME IInv, TypeOK', NEW i \in Task, SteerRejected(i)
  PROVE  IInv'
<1> USE SchedulerAssumption DEF IInv, Steered, Waiting, InFlight, Terminal
<1>1. /\ steer[i] = "submitting" /\ status[i] = "active"
      /\ turn[i] = "none" /\ attempt[i] >= 1
  BY DEF SteerRejected, SteeredShape
<1>2. \A u \in Task :
        /\ status'[u] = IF u = i THEN "queued" ELSE status[u]
        /\ steer'[u] = IF u = i THEN "rejected" ELSE steer[u]
        /\ u # i => attempt'[u] = attempt[u] /\ dangerous'[u] = dangerous[u]
  BY <1>1 DEF SteerRejected, TypeOK
<1>3. UNCHANGED <<target, turn>> /\ flush' \subseteq flush
  BY DEF SteerRejected
<1>4. AbsentIsFresh'
  BY <1>1, <1>2 DEF AbsentIsFresh
<1>5. TurnsHaveStarted'
  BY <1>1, <1>2, <1>3 DEF TurnsHaveStarted
<1>6. SteeredShape'
  BY <1>1, <1>2, <1>3 DEF SteeredShape
<1>7. OneRoot'
  BY <1>1, <1>2, <1>3 DEF OneRoot
<1>8. ReturnsInOrder'
  BY <1>1, <1>2 DEF ReturnsInOrder, MayReturn
<1> QED
  BY <1>4, <1>5, <1>6, <1>7, <1>8

LEMMA SteerUncertainStep ==
  ASSUME IInv, TypeOK', NEW i \in Task, SteerUncertain(i)
  PROVE  IInv'
<1> USE SchedulerAssumption DEF IInv, Steered, Waiting, InFlight, Terminal
<1>1. steer[i] = "submitting" /\ status[i] = "active" /\ turn[i] = "none"
  BY DEF SteerUncertain, SteeredShape
<1>2. \A u \in Task :
        /\ status'[u] = IF u = i THEN "dead_letter" ELSE status[u]
        /\ steer'[u] = IF u = i THEN "uncertain" ELSE steer[u]
  BY <1>1 DEF SteerUncertain, TypeOK
<1>3. /\ UNCHANGED <<attempt, dangerous, target, turn>>
      /\ flush' \subseteq flush
  BY DEF SteerUncertain
<1>4. AbsentIsFresh'
  BY <1>1, <1>2, <1>3 DEF AbsentIsFresh
<1>5. TurnsHaveStarted'
  BY <1>1, <1>2, <1>3 DEF TurnsHaveStarted
<1>6. SteeredShape'
  BY SMTT(30), <1>1, <1>2, <1>3 DEF SteeredShape
<1>7. OneRoot'
  BY <1>1, <1>2, <1>3 DEF OneRoot
<1>8. ReturnsInOrder'
  BY <1>1, <1>2, <1>3 DEF ReturnsInOrder, MayReturn
<1> QED
  BY <1>4, <1>5, <1>6, <1>7, <1>8

(* The end of a turn: its task is given s, and so is everything that       *)
(* joined it if s is terminal.  A retry is granted only to an unmarked     *)
(* task, which was therefore still ahead of its key.                       *)
LEMMA FinishStep ==
  ASSUME IInv, TypeOK', NEW t \in Task, turn[t] # "none", NEW s, Finish(t, s),
         \/ s = status[t]
         \/ status[t] \in InFlight /\ s \in Terminal
         \/ status[t] \in InFlight /\ ~ dangerous[t] /\ s = "retry_wait"
  PROVE  IInv'
<1> USE SchedulerAssumption DEF IInv, Steered, Waiting, InFlight, Terminal
<1>1. /\ status[t] \notin Waiting \cup {"absent"} /\ ~ Steered(t)
  BY DEF TurnsHaveStarted, SteeredShape
<1>2. ASSUME NEW u \in Task
      PROVE  \/ u = t /\ status'[u] = s
             \/ u # t /\ status'[u] = status[u]
             \/ /\ u # t /\ steer[u] = "accepted" /\ status[u] = "active"
                /\ status'[u] = s /\ s \in Terminal
  <2> DEFINE st == [status EXCEPT ![t] = s]
  <2>1. status' = st \/ status' = Settled(t, s, st)
    BY Zenon DEF Finish
  <2>2. st[u] = IF u = t THEN s ELSE status[u]
    BY DEF TypeOK
  <2> HIDE DEF st
  <2> QED
    BY <1>1, <2>1, <2>2 DEF Settled, Joined
<1>3. /\ UNCHANGED <<attempt, dangerous, steer, target>>
      /\ \A u \in Task : turn'[u] = IF u = t THEN "none" ELSE turn[u]
      /\ flush' = flush \ {t}
  BY DEF Finish, steerVars, TypeOK
<1>4. AbsentIsFresh'
  BY <1>1, <1>2, <1>3 DEF AbsentIsFresh
<1>5. TurnsHaveStarted'
  BY <1>2, <1>3 DEF TurnsHaveStarted
<1>6. SteeredShape'
  BY <1>1, <1>2, <1>3 DEF SteeredShape
<1>7. OneRoot'
  BY <1>1, <1>2, <1>3 DEF OneRoot
<1>8. ReturnsInOrder'
  <2>1. \A u \in Task : MayReturn(u)' => MayReturn(u)
    BY <1>1, <1>2, <1>3 DEF MayReturn
  <2>2. \A u \in Task : status[u] \in {"absent", "queued", "cancelled"} =>
                           status'[u] = status[u]
    BY <1>1, <1>2
  <2> QED
    BY <1>3, <2>1, <2>2 DEF ReturnsInOrder
<1> QED
  BY <1>4, <1>5, <1>6, <1>7, <1>8

LEMMA EndTurnStep ==
  ASSUME IInv, TypeOK', NEW t \in Task, EndTurn(t)
  PROVE  IInv'
<1> USE DEF InFlight, Terminal
<1>1. CASE Complete(t)
  BY <1>1, FinishStep DEF Complete
<1>2. CASE CompleteUnheard(t)
  BY <1>2, FinishStep DEF CompleteUnheard
<1>3. CASE CompleteCancelled(t)
  BY <1>3, FinishStep DEF CompleteCancelled, InFlightTo
<1>4. CASE Retry(t)
  BY <1>4, FinishStep DEF Retry, Errored, CanRetry, InFlightTo
<1>5. CASE DeadLetter(t)
  BY <1>5, FinishStep DEF DeadLetter, Errored, InFlightTo
<1>6. CASE Fail(t)
  BY <1>6, FinishStep DEF Fail, Errored, InFlightTo
<1> QED
  BY <1>1, <1>2, <1>3, <1>4, <1>5, <1>6 DEF EndTurn

(* recoverAfterRestart only gives back tasks that could have been retried. *)
LEMMA RestartStep ==
  ASSUME IInv, TypeOK', Restart
  PROVE  IInv'
<1> USE SchedulerAssumption DEF IInv, Steered, Waiting, InFlight, Terminal
<1>1. \A u \in Task :
        /\ status'[u] = IF status[u] = "active" /\ ~dangerous[u]
                        THEN "retry_wait" ELSE InFlightTo(u, "dead_letter")
        /\ steer'[u] = IF steer[u] = "submitting" THEN "uncertain" ELSE steer[u]
        /\ turn'[u] = "none"
  BY DEF Restart, Recovered
<1>2. UNCHANGED <<attempt, dangerous, target>> /\ flush' = {}
  BY DEF Restart
<1>3. AbsentIsFresh'
  BY <1>1, <1>2 DEF AbsentIsFresh, InFlightTo
<1>4. TurnsHaveStarted'
  BY <1>1, <1>2 DEF TurnsHaveStarted
<1>5. SteeredShape'
  BY <1>1, <1>2 DEF SteeredShape, InFlightTo
<1>6. OneRoot'
  BY <1>1 DEF OneRoot, InFlightTo
<1>7. ReturnsInOrder'
  BY <1>1, <1>2 DEF ReturnsInOrder, MayReturn, InFlightTo
<1> QED
  BY <1>3, <1>4, <1>5, <1>6, <1>7

LEMMA InductiveStep ==
  ASSUME IInv, [Next]_vars
  PROVE  IInv'
<1>1. TypeOK'
  BY TypeStep
<1> USE <1>1 DEF taskVars, steerVars, apprVars, turnVars
<1>2. ASSUME NEW t \in Task, Enqueue(t) PROVE IInv'
  BY <1>2, EnqueueStep
<1>3. ASSUME NEW t \in Task, StartTurn(t) PROVE IInv'
  <2>1. turn' = [turn EXCEPT ![t] = "starting"] /\ flush' = flush
    BY <1>3 DEF StartTurn
  <2> QED
    BY <1>3, <2>1, ClaimStep DEF StartTurn
<1>4. ASSUME NEW t \in Task, RefuseTurn(t) PROVE IInv'
  <2>1. turn' = [turn EXCEPT ![t] = @]
    BY <1>4 DEF RefuseTurn, IInv, TypeOK
  <2>2. PICK s \in {"dead_letter", "failed"} : status' = [status EXCEPT ![t] = s]
    BY <1>4 DEF RefuseTurn
  <2> QED
    BY <1>4, <2>1, <2>2, ClaimStep DEF RefuseTurn
<1>5. ASSUME NEW t \in Task, TurnStarted(t) PROVE IInv'
  BY <1>5, InPlaceStep DEF TurnStarted, InPlace, IInv, TypeOK, TurnsHaveStarted
<1>6. ASSUME NEW t \in Task, FlushIdle(t) PROVE IInv'
  BY <1>6, InPlaceStep DEF FlushIdle, InPlace, IInv, TurnsHaveStarted
<1>7. ASSUME NEW t \in Task, NEW i \in Task, BeginSteer(t, i) PROVE IInv'
  BY <1>7, BeginSteerStep
<1>8. ASSUME NEW i \in Task, SteerAccepted(i) PROVE IInv'
  BY <1>8, SteerAcceptedStep
<1>9. ASSUME NEW i \in Task, SteerRejected(i) PROVE IInv'
  BY <1>9, SteerRejectedStep
<1>10. ASSUME NEW i \in Task, SteerUncertain(i) PROVE IInv'
  BY <1>10, SteerUncertainStep
<1>11. ASSUME NEW t \in Task, NEW r \in Request, Ask(t, r) PROVE IInv'
  BY <1>11, InPlaceStep
  DEF Ask, Live, InPlace, IInv, TypeOK, TurnsHaveStarted
<1>12. ASSUME NEW t \in Task, AskRefused(t) PROVE IInv'
  BY <1>12, InPlaceStep
  DEF AskRefused, Live, InPlace, IInv, TypeOK, TurnsHaveStarted
<1>13. ASSUME NEW r \in Request, Lapse(r) PROVE IInv'
  BY <1>13, InPlaceStep DEF Lapse, InPlace, IInv, TurnsHaveStarted
<1>14. ASSUME NEW r \in Request, NEW d \in DOMAIN Verdict, Answer(r, d)
       PROVE  IInv'
  <2>1. \A t \in Task : InPlace(t)
    BY <1>14 DEF Answer, Resume, InPlace, IInv, TypeOK
  <2>2. \A t \in Task : dangerous[t] => dangerous'[t]
    BY <1>14 DEF Answer, IInv, TypeOK
  <2> QED
    BY <1>14, <2>1, <2>2, InPlaceStep DEF Answer, IInv, TurnsHaveStarted
<1>15. ASSUME NEW r \in Request, AnswerLate(r) PROVE IInv'
  <2>1. \A t \in Task : InPlace(t)
    BY <1>15 DEF AnswerLate, Resume, InPlace, IInv, TypeOK
  <2> QED
    BY <1>15, <2>1, InPlaceStep DEF AnswerLate, IInv, TurnsHaveStarted
<1>16. ASSUME NEW r \in Request, DriverTimeout(r) PROVE IInv'
  BY <1>16, InPlaceStep DEF DriverTimeout, InPlace, IInv, TurnsHaveStarted
<1>17. ASSUME ExpirePending PROVE IInv'
  <2>1. \A t \in Task : InPlace(t)
    BY <1>17 DEF ExpirePending, InPlace
  <2> QED
    BY <1>17, <2>1, InPlaceStep DEF ExpirePending, IInv, TurnsHaveStarted
<1>18. ASSUME NEW t \in Task, NEW o \in Outcome, TurnEnds(t, o) PROVE IInv'
  BY <1>18, InPlaceStep
  DEF TurnEnds, Live, Outcome, InPlace, IInv, TypeOK, TurnsHaveStarted
<1>19. ASSUME NEW t \in Task, EndTurn(t) PROVE IInv'
  BY <1>19, EndTurnStep
<1>20. ASSUME NEW c \in Keys, NEW p \in Speakers, Cancel(c, p) PROVE IInv'
  <2>1. \A t \in Task : InPlace(t)
    BY <1>20 DEF Cancel, InPlace
  <2>2. UNCHANGED <<attempt, dangerous, steer, target, turn, flush>>
    BY <1>20 DEF Cancel
  <2> QED
    BY <2>1, <2>2, InPlaceStep DEF IInv, TurnsHaveStarted
<1>21. ASSUME Restart PROVE IInv'
  BY <1>21, RestartStep
<1>22. CASE UNCHANGED vars
  BY <1>22, InPlaceStep DEF vars, InPlace, IInv, TurnsHaveStarted
<1> QED
  BY <1>2, <1>3, <1>4, <1>5, <1>6, <1>7, <1>8, <1>9, <1>10, <1>11, <1>12,
     <1>13, <1>14, <1>15, <1>16, <1>17, <1>18, <1>19, <1>20, <1>21, <1>22
  DEF Next

LEMMA Initially == Init => IInv
BY SchedulerAssumption
DEF Init, IInv, TypeOK, TaskStatus, SteerState, ApprovalStatus, TurnPhase,
    AbsentIsFresh, TurnsHaveStarted, SteeredShape, Steered, OneRoot, InFlight,
    ReturnsInOrder, MayReturn, Waiting

THEOREM Inductive == Spec => []IInv
<1>1. IInv /\ [Next]_vars => IInv'
  BY InductiveStep
<1> QED
  BY Initially, <1>1, PTL DEF Spec

-----------------------------------------------------------------------------
(* The tables and the maps of the scheduler keep their types: in           *)
(* particular the attempt that resolveSteer takes back was counted, and a  *)
(* steer is always settled against a turn that exists.                     *)
THEOREM TypeCorrect == Spec => []TypeOK
<1>1. IInv => TypeOK
  BY DEF IInv
<1> QED
  BY <1>1, Inductive, PTL

(* Messages of one key are started in the order of their arrival, also     *)
(* when the first of them is retried, recovered or handed back by a        *)
(* rejected steer.                                                         *)
THEOREM FirstInFirstOut == Spec => []NoOvertaking
<1>1. IInv => NoOvertaking
  BY DEF IInv, ReturnsInOrder, MayReturn, NoOvertaking
<1> QED
  BY <1>1, Inductive, PTL

(* The two NOT EXISTS of claimNextTask, and the beginSteer that sidesteps  *)
(* them, leave at most one task of a key in flight that is not an input of *)
(* another one.                                                            *)
THEOREM SingleRoot == Spec => []OneRootPerKey
<1>1. IInv => OneRootPerKey
  BY DEF IInv, OneRoot, OneRootPerKey
<1> QED
  BY <1>1, Inductive, PTL

-----------------------------------------------------------------------------
(* The steps that leave the approvals table alone.                         *)
Undecided ==
  \/ \E t \in Task :
       \/ Enqueue(t) \/ StartTurn(t) \/ RefuseTurn(t) \/ TurnStarted(t)
       \/ FlushIdle(t) \/ EndTurn(t) \/ AskRefused(t)
       \/ SteerAccepted(t) \/ SteerRejected(t) \/ SteerUncertain(t)
       \/ \E i \in Task : BeginSteer(t, i)
       \/ \E o \in Outcome : TurnEnds(t, o)
  \/ \E r \in Request : Lapse(r) \/ DriverTimeout(r)
  \/ \E c \in Keys, p \in Speakers : Cancel(c, p)
  \/ UNCHANGED vars

(* None of them parks a task or takes one out of a terminal state.         *)
LEMMA UndecidedStep ==
  ASSUME IInv, Undecided
  PROVE  /\ UNCHANGED apprVars
         /\ \A u \in Task :
              /\ status'[u] = "waiting_approval" => status[u] = "waiting_approval"
              /\ status[u] \in Terminal => status'[u] = status[u]
<1> USE DEF Waiting, InFlight, Terminal, taskVars
<1> DEFINE Calm == \A u \in Task :
      /\ status'[u] = "waiting_approval" => status[u] = "waiting_approval"
      /\ status[u] \in Terminal => status'[u] = status[u]
<1>1. ASSUME NEW t \in Task, status[t] \notin Terminal,
             NEW s, s # "waiting_approval", status' = [status EXCEPT ![t] = s]
      PROVE  Calm
  BY <1>1 DEF IInv, TypeOK
<1>2. ASSUME NEW t \in Task, EndTurn(t)
      PROVE  UNCHANGED apprVars /\ Calm
  <2>1. PICK s : /\ Finish(t, s)
                 /\ s = status[t] \/ (status[t] \in InFlight
                                      /\ s # "waiting_approval")
    BY <1>2 DEF EndTurn, Complete, CompleteUnheard, CompleteCancelled, Retry,
                DeadLetter, Fail, InFlightTo
  <2> DEFINE st == [status EXCEPT ![t] = s]
  <2>2. status' = st \/ status' = Settled(t, s, st)
    BY <2>1, Zenon DEF Finish
  <2>3. \A u \in Task : st[u] = IF u = t THEN s ELSE status[u]
    BY DEF IInv, TypeOK
  <2> HIDE DEF st
  <2>4. Calm
    BY <2>1, <2>2, <2>3 DEF Settled
  <2> QED
    BY <2>1, <2>4 DEF Finish
<1>3. ASSUME NEW t \in Task,
             \/ Enqueue(t) \/ StartTurn(t) \/ RefuseTurn(t)
             \/ SteerRejected(t) \/ SteerUncertain(t)
             \/ \E i \in Task : BeginSteer(t, i)
      PROVE  UNCHANGED apprVars /\ Calm
  <2>1. UNCHANGED apprVars
    BY <1>3 DEF Enqueue, StartTurn, RefuseTurn, SteerRejected, SteerUncertain,
                BeginSteer
  <2>2. PICK x \in Task, s \in {"queued", "active", "dead_letter", "failed"} :
          /\ status[x] \notin Terminal
          /\ status' = [status EXCEPT ![x] = s]
    <3>1. CASE SteerRejected(t) \/ SteerUncertain(t)
      BY <3>1 DEF SteerRejected, SteerUncertain, IInv, SteeredShape, Steered
    <3>2. CASE StartTurn(t) \/ RefuseTurn(t)
      BY <3>2 DEF StartTurn, RefuseTurn, Claimed, Claimable
    <3>3. CASE Enqueue(t) \/ \E i \in Task : BeginSteer(t, i)
      BY <3>3 DEF Enqueue, BeginSteer, CanSteer
    <3> QED
      BY <1>3, <3>1, <3>2, <3>3
  <2> QED
    BY <1>1, <2>1, <2>2
<1>4. ASSUME NEW t \in Task,
             \/ TurnStarted(t) \/ FlushIdle(t) \/ AskRefused(t)
             \/ SteerAccepted(t) \/ \E o \in Outcome : TurnEnds(t, o)
      PROVE  UNCHANGED apprVars /\ Calm
  BY <1>4 DEF TurnStarted, FlushIdle, AskRefused, SteerAccepted, TurnEnds
<1>5. ASSUME NEW r \in Request, Lapse(r) \/ DriverTimeout(r)
      PROVE  UNCHANGED apprVars /\ Calm
  BY <1>5 DEF Lapse, DriverTimeout
<1>6. ASSUME NEW c \in Keys, NEW p \in Speakers, Cancel(c, p)
      PROVE  UNCHANGED apprVars /\ Calm
  BY <1>6 DEF Cancel
<1>7. CASE UNCHANGED vars
  BY <1>7 DEF vars
<1> QED
  BY <1>2, <1>3, <1>4, <1>5, <1>6, <1>7 DEF Undecided

(* The steps that write it: a new request, a decision, an expiry, recovery.*)
LEMMA NextSplit ==
  ASSUME [Next]_vars
  PROVE  \/ Undecided \/ ExpirePending \/ Restart
         \/ \E t \in Task, r \in Request : Ask(t, r)
         \/ \E r \in Request : \/ AnswerLate(r)
                              \/ \E d \in DOMAIN Verdict : Answer(r, d)
BY Zenon DEF Next, Undecided

(* An answer, in time or late, decides a pending request and releases its  *)
(* task, or leaves both as they are.                                       *)
LEMMA AnswerStep ==
  ASSUME IInv, NEW r \in Request,
         AnswerLate(r) \/ \E d \in DOMAIN Verdict : Answer(r, d)
  PROVE  /\ UNCHANGED owner
         /\ \/ UNCHANGED <<status, appr>>
            \/ /\ appr[r] = "pending"
               /\ \A q \in Request : q # r => appr'[q] = appr[q]
               /\ \E s \in {"active", "failed"} : \A u \in Task :
                    status'[u] = IF u = owner[r] /\ status[u] = "waiting_approval"
                                 THEN s ELSE status[u]
<1>1. PICK s \in {"active", "failed"} :
        /\ UNCHANGED owner
        /\ \/ UNCHANGED <<status, appr>>
           \/ /\ appr[r] = "pending" /\ Resume(r, s)
              /\ \E v : appr' = [appr EXCEPT ![r] = v]
  BY DEF AnswerLate, Answer
<1>2. status \in [Task -> TaskStatus] /\ appr \in [Request -> ApprovalStatus]
  BY DEF IInv, TypeOK
<1>3. Resume(r, s) => \A u \in Task :
        status'[u] = IF u = owner[r] /\ status[u] = "waiting_approval"
                     THEN s ELSE status[u]
  BY <1>2 DEF Resume
<1> QED
  BY <1>1, <1>2, <1>3

(* A task in waiting_approval has a pending request of its own, so there   *)
(* is always somebody who can release it: the principal by deciding it or  *)
(* the maintenance timer by expiring it.                                   *)
THEOREM NobodyWaitsForever == Spec => []WaitingHasPending
<1> USE DEF WaitingHasPending
<1>1. Init => WaitingHasPending
  BY DEF Init
<1>2. ASSUME IInv, WaitingHasPending, [Next]_vars
      PROVE  WaitingHasPending'
  <2>1. CASE Undecided
    BY <1>2, <2>1, UndecidedStep DEF apprVars
  <2>2. ASSUME NEW t \in Task, NEW r \in Request, Ask(t, r)
        PROVE  WaitingHasPending'
    BY <1>2, <2>2 DEF Ask, IInv, TypeOK
  <2>3. ASSUME NEW r \in Request,
               AnswerLate(r) \/ \E d \in DOMAIN Verdict : Answer(r, d)
        PROVE  WaitingHasPending'
    BY <1>2, <2>3, AnswerStep
  <2>4. CASE ExpirePending
    BY <2>4 DEF ExpirePending, Orphans
  <2>5. CASE Restart
    BY <2>5 DEF Restart, Recovered, InFlightTo, InFlight
  <2> QED
    BY <1>2, <2>1, <2>2, <2>3, <2>4, <2>5, NextSplit
<1> QED
  BY <1>1, <1>2, Inductive, PTL DEF Spec

(* The outcome of a task is final: late answers, expiry, settled steers,   *)
(* turns that end afterwards and recovery leave a terminal task alone.     *)
THEOREM OutcomeIsFinal == Spec => TerminalIsFinal
<1>1. ASSUME IInv, [Next]_vars
      PROVE  \A t \in Task : status[t] \in Terminal => status'[t] = status[t]
  <2>1. CASE Undecided
    BY <1>1, <2>1, UndecidedStep
  <2>2. ASSUME NEW t \in Task, NEW r \in Request, Ask(t, r)
        PROVE  \A u \in Task : status[u] \in Terminal => status'[u] = status[u]
    BY <1>1, <2>2 DEF Ask, IInv, TypeOK, Terminal
  <2>3. ASSUME NEW r \in Request,
               AnswerLate(r) \/ \E d \in DOMAIN Verdict : Answer(r, d)
        PROVE  \A t \in Task : status[t] \in Terminal => status'[t] = status[t]
    BY <1>1, <2>3, AnswerStep DEF Terminal
  <2>4. CASE ExpirePending
    BY <2>4 DEF ExpirePending, Terminal
  <2>5. CASE Restart
    BY <2>5 DEF Restart, Recovered, InFlightTo, InFlight, Terminal
  <2> QED
    BY <1>1, <2>1, <2>2, <2>3, <2>4, <2>5, NextSplit
<1> QED
  BY <1>1, Inductive, PTL DEF Spec, TerminalIsFinal

(* A request is decided once: an answer, its expiry and a restart race for *)
(* it, and the loser changes nothing.                                      *)
THEOREM DecisionIsFinal == Spec => DecidedOnce
<1>1. ASSUME IInv, [Next]_vars
      PROVE  \A r \in Request :
               appr[r] \notin {"absent", "pending"} => appr'[r] = appr[r]
  <2>1. CASE Undecided
    BY <1>1, <2>1, UndecidedStep DEF apprVars
  <2>2. ASSUME NEW t \in Task, NEW r \in Request, Ask(t, r)
        PROVE  \A q \in Request :
                 appr[q] \notin {"absent", "pending"} => appr'[q] = appr[q]
    BY <1>1, <2>2 DEF Ask, IInv, TypeOK
  <2>3. ASSUME NEW r \in Request,
               AnswerLate(r) \/ \E d \in DOMAIN Verdict : Answer(r, d)
        PROVE  \A q \in Request :
                 appr[q] \notin {"absent", "pending"} => appr'[q] = appr[q]
    BY <1>1, <2>3, AnswerStep
  <2>4. CASE ExpirePending
    BY <2>4 DEF ExpirePending, Expired
  <2>5. CASE Restart
    BY <2>5 DEF Restart
  <2> QED
    BY <1>1, <2>1, <2>2, <2>3, <2>4, <2>5, NextSplit
<1> QED
  BY <1>1, Inductive, PTL DEF Spec, DecidedOnce

-----------------------------------------------------------------------------
(***************************************************************************)
(* Part 2: effects, answers, overlapping turns.                            *)
(***************************************************************************)
(* A request belongs to a stored task, and nobody takes it over.           *)
OwnerKnown ==
  \A r \in Request :
    /\ appr[r] = "absent" => owner[r] = None
    /\ owner[r] # None => status[owner[r]] # "absent"

(* The turn that asked is in progress while its driver waits for it.       *)
AskedLive ==
  \A r \in Request : waiter[r] = "live" =>
    owner[r] \in Task /\ turn[owner[r]] # "none"

(* A mark is set while a task is in flight, or by an answer that comes     *)
(* after the turn that asked.                                              *)
Marked ==
  \A t \in Task : dangerous[t] =>
    /\ status[t] # "absent"
    /\ status[t] \in Waiting => \E r \in late : owner[r] = t

(* The turn an input was given to is marked, was never steered itself and  *)
(* does not return to the queue, nor does the input.                       *)
Taken(i) == steer[i] \in {"submitting", "accepted", "uncertain"}

HostKept ==
  \A i \in Task : Taken(i) =>
    /\ target[i] \in Task /\ dangerous[target[i]] /\ ~ Steered(target[i])
    /\ status[target[i]] \notin Waiting \cup {"absent"}
    /\ steer[i] = "uncertain" => status[i] \in Terminal

(* An input shares the fate of its turn: as long as the turn is in flight  *)
(* so is the input, and they succeed together.                             *)
AnsweredTogether ==
  \A i \in Task :
    /\ steer[i] = "submitting" => status[target[i]] # "succeeded"
    /\ steer[i] = "accepted" =>
         /\ status[i] = "succeeded" <=> status[target[i]] = "succeeded"
         /\ status[target[i]] \in InFlight => status[i] = "active"
    /\ <<i, "final">> \in outbox <=> status[i] = "succeeded" /\ steer[i] # "accepted"

(* A turn outlives its task only when a request of the task has expired.   *)
Lapsed(t) ==
  status[t] = "failed" /\ \E r \in Request : owner[r] = t /\ appr[r] = "expired"

LiveOrLapsed ==
  \A t \in Task : turn[t] # "none" => status[t] \in InFlight \/ Lapsed(t)

-----------------------------------------------------------------------------
(* What a step may do to a task and to its steer.                          *)

(* The driver handed the input u back.                                     *)
Withdrawn(u) ==
  steer[u] = "submitting" /\ steer'[u] = "rejected" /\ ~ dangerous'[u]

(* beginSteer moved u into the turn of its target.                         *)
JoinsTurn(u) ==
  /\ status[u] \in Waiting /\ status'[u] = "active" /\ steer'[u] = "submitting"
  /\ target'[u] \in Task /\ turn[target'[u]] # "none"
  /\ dangerous'[target'[u]] /\ status'[target'[u]] \in InFlight

(* The steer of u was answered.                                            *)
Resolves(u) ==
  /\ steer[u] = "submitting" /\ target'[u] = target[u]
  /\ steer'[u] \in {"accepted", "rejected", "uncertain"}
  /\ steer'[u] = "accepted" => UNCHANGED status
  /\ steer'[u] = "uncertain" => status'[u] \in Terminal

(* An answer marked u, in time or late; it does not requeue it.            *)
MarkedByAnswer(u) ==
  \E r \in Request :
    /\ owner[r] = u
    /\ \/ r \in late'
       \/ waiter[r] = "live" /\ (status'[u] = status[u] \/ status'[u] \notin Waiting)

LawfulTask(u) ==
  /\ status'[u] = "absent" => status[u] = "absent"
  /\ status[u] \in Terminal => status'[u] = status[u]
  /\ status'[u] \in Waiting =>
       \/ status[u] \in Waiting \cup {"absent"}
       \/ status[u] \in InFlight /\ ~ dangerous[u]
       \/ Withdrawn(u)
  /\ dangerous[u] /\ ~ dangerous'[u] => Withdrawn(u)
  /\ dangerous'[u] => dangerous[u] \/ status'[u] \in InFlight \/ MarkedByAnswer(u)
  /\ (steer'[u] = steer[u] /\ target'[u] = target[u]) \/ JoinsTurn(u) \/ Resolves(u)

LawfulRequest(r) ==
  /\ \/ appr'[r] = appr[r]
     \/ appr[r] \in {"absent", "pending"} /\ appr'[r] # "absent"
  /\ \/ owner'[r] = owner[r]
     \/ /\ appr[r] = "absent" /\ appr'[r] = "pending"
        /\ owner'[r] \in Task /\ status'[owner'[r]] # "absent"

Lawful ==
  /\ \A u \in Task : LawfulTask(u)
  /\ \A r \in Request : LawfulRequest(r)
  /\ late \subseteq late'

(* What a step may do to the success of a task.                            *)

(* The turn of u has succeeded, and with it every input it had taken.      *)
Answers(u) ==
  /\ turn[u] # "none" /\ status[u] = "active" /\ <<u, "final">> \in outbox'
  /\ \A i \in Task : /\ steer[i] = "submitting" => target[i] # u
                     /\ steer[i] = "accepted" /\ target[i] = u
                        /\ status[i] = "active" => status'[i] = "succeeded"

(* The input u is settled with its turn.                                   *)
SettledWith(u) ==
  /\ steer[u] = "accepted" /\ status'[u] \in Terminal
  /\ status'[target[u]] = status'[u]

SettlingTask(u) ==
  /\ status'[u] = "succeeded" =>
       status[u] = "succeeded" \/ Answers(u) \/ SettledWith(u)
  /\ <<u, "final">> \in outbox' =>
       <<u, "final">> \in outbox \/ (turn[u] # "none" /\ status'[u] = "succeeded")
  /\ <<u, "final">> \in outbox => <<u, "final">> \in outbox'
  /\ steer[u] = "accepted" /\ status[u] = "active" =>
       \/ status'[u] = "active" \/ SettledWith(u)
       \/ status'[u] = "dead_letter" /\ status'[target[u]] \notin InFlight

Settling == \A u \in Task : SettlingTask(u)

-----------------------------------------------------------------------------
(* Every step is lawful and settles together.  First the steps that leave  *)
(* the tables alone, then those that write one row of them.                *)
Calm == UNCHANGED <<taskVars, steerVars, apprVars, rowVars>>

LEMMA CalmStep ==
  ASSUME Calm
  PROVE  Lawful /\ Settling
BY DEF Calm, Lawful, Settling, LawfulTask, LawfulRequest, SettlingTask,
       taskVars, steerVars, apprVars, rowVars

(* The task x moves to s, and neither steers, requests nor final answers   *)
(* change.                                                                 *)
LEMMA MoveStep ==
  ASSUME TypeOK, NEW x \in Task, NEW s \in TaskStatus \ {"absent", "succeeded"},
         status' = [status EXCEPT ![x] = s],
         status[x] \notin Terminal, ~ Steered(x),
         s \in Waiting => status[x] \in Waiting \cup {"absent"},
         UNCHANGED <<dangerous, steerVars, apprVars>>,
         \A u \in Task : <<u, "final">> \in outbox' <=> <<u, "final">> \in outbox
  PROVE  Lawful /\ Settling
<1>1. \A u \in Task : status'[u] = IF u = x THEN s ELSE status[u]
  BY DEF TypeOK
<1>2. Lawful
  BY <1>1 DEF Lawful, LawfulTask, LawfulRequest, steerVars, apprVars, TaskStatus
<1>3. Settling
  BY <1>1 DEF Settling, SettlingTask, Steered
<1> QED
  BY <1>2, <1>3

LEMMA EnqueueLawful ==
  ASSUME IInv, NEW t \in Task, Enqueue(t)
  PROVE  Lawful /\ Settling
<1>1. /\ status[t] = "absent" /\ status' = [status EXCEPT ![t] = "queued"]
      /\ UNCHANGED <<dangerous, steerVars, apprVars, outbox>>
  BY DEF Enqueue, rowVars
<1>2. ~ Steered(t)
  BY <1>1 DEF IInv, SteeredShape, Terminal
<1> QED
  BY <1>1, <1>2, MoveStep DEF IInv, TaskStatus, Waiting, Terminal

LEMMA StartLawful ==
  ASSUME IInv, NEW t \in Task, StartTurn(t) \/ RefuseTurn(t)
  PROVE  Lawful /\ Settling
<1>1. Claimed(t)
  BY DEF StartTurn, RefuseTurn
<1>2. status[t] \in Waiting /\ ~ Steered(t)
  BY <1>1 DEF Claimed, Claimable, IInv, SteeredShape, Waiting, Terminal
<1>3. \E s \in {"active", "dead_letter", "failed"} : status' = [status EXCEPT ![t] = s]
  BY DEF StartTurn, RefuseTurn
<1>4. UNCHANGED <<dangerous, steerVars, apprVars>>
  BY DEF StartTurn, RefuseTurn
<1>5. \A u \in Task : <<u, "final">> \in outbox' <=> <<u, "final">> \in outbox
  BY DEF StartTurn, RefuseTurn, rowVars
<1> QED
  BY <1>2, <1>3, <1>4, <1>5, MoveStep
  DEF IInv, TaskStatus, Waiting, InFlight, Terminal

LEMMA BeginSteerLawful ==
  ASSUME IInv, NEW t \in Task, NEW i \in Task, BeginSteer(t, i)
  PROVE  Lawful /\ Settling
<1> USE DEF Waiting, InFlight, Terminal
<1>1. /\ status[i] = "queued" /\ status[t] \in InFlight /\ turn[t] # "none"
      /\ ~ Steered(i)
  BY DEF BeginSteer, CanSteer, IInv, TurnsHaveStarted, SteeredShape
<1>2. \A u \in Task :
        /\ status'[u] = IF u = i THEN "active" ELSE status[u]
        /\ steer'[u] = IF u = i THEN "submitting" ELSE steer[u]
        /\ target'[u] = IF u = i THEN t ELSE target[u]
        /\ dangerous'[u] = (u \in {i, t} \/ dangerous[u])
  BY DEF BeginSteer, IInv, TypeOK
<1>3. UNCHANGED <<apprVars, outbox>>
  BY DEF BeginSteer, rowVars
<1>4. Lawful
  BY <1>1, <1>2, <1>3 DEF Lawful, LawfulTask, LawfulRequest, JoinsTurn, apprVars
<1>5. Settling
  BY <1>1, <1>2, <1>3 DEF Settling, SettlingTask, Steered
<1> QED
  BY <1>4, <1>5

LEMMA ResolveLawful ==
  ASSUME IInv, NEW i \in Task,
         SteerAccepted(i) \/ SteerRejected(i) \/ SteerUncertain(i)
  PROVE  Lawful /\ Settling
<1> USE DEF Waiting, InFlight, Terminal
<1>1. steer[i] = "submitting" /\ status[i] = "active" /\ dangerous[i]
  BY DEF SteerAccepted, SteerRejected, SteerUncertain, IInv, SteeredShape, Steered
<1>2. PICK s \in {"active", "queued", "dead_letter"},
           k \in {"accepted", "rejected", "uncertain"}, d \in BOOLEAN :
        /\ status' = [status EXCEPT ![i] = s]
        /\ steer' = [steer EXCEPT ![i] = k]
        /\ dangerous' = [dangerous EXCEPT ![i] = d]
        /\ k = "accepted" => UNCHANGED status /\ d
        /\ k = "rejected" => s = "queued" /\ ~ d
        /\ k = "uncertain" => s = "dead_letter" /\ d
  <2>1. CASE SteerAccepted(i)
    BY <1>1, <2>1 DEF SteerAccepted, IInv, TypeOK, taskVars
  <2>2. CASE SteerRejected(i)
    BY <1>1, <2>2 DEF SteerRejected
  <2>3. CASE SteerUncertain(i)
    BY <1>1, <2>3 DEF SteerUncertain, IInv, TypeOK
  <2> QED
    BY <2>1, <2>2, <2>3
<1>3. \A u \in Task :
        /\ status'[u] = IF u = i THEN s ELSE status[u]
        /\ steer'[u] = IF u = i THEN k ELSE steer[u]
        /\ dangerous'[u] = IF u = i THEN d ELSE dangerous[u]
  BY <1>2 DEF IInv, TypeOK
<1>4. /\ UNCHANGED <<target, apprVars>>
      /\ \A u \in Task : <<u, "final">> \in outbox' <=> <<u, "final">> \in outbox
  BY DEF SteerAccepted, SteerRejected, SteerUncertain, rowVars
<1>5. k = "accepted" => s = "active"
  BY <1>1, <1>2, <1>3
<1>6. \A u \in Task : LawfulTask(u)
  BY <1>1, <1>2, <1>3, <1>4, <1>5 DEF LawfulTask, Withdrawn, Resolves
<1>7. Lawful
  BY <1>4, <1>6 DEF Lawful, LawfulRequest, apprVars
<1>8. Settling
  BY <1>1, <1>3, <1>4 DEF Settling, SettlingTask
<1> QED
  BY <1>7, <1>8

LEMMA AskLawful ==
  ASSUME IInv, NEW t \in Task, NEW r \in Request, Ask(t, r)
  PROVE  Lawful /\ Settling
<1>1. /\ status[t] = "active" /\ turn[t] # "none" /\ appr[r] = "absent"
      /\ status' = [status EXCEPT ![t] = "waiting_approval"]
      /\ UNCHANGED <<dangerous, steerVars, late, outbox>>
  BY DEF Ask, Live, rowVars
<1>2. \A u \in Task : status'[u] = IF u = t THEN "waiting_approval" ELSE status[u]
  BY <1>1 DEF IInv, TypeOK
<1>3. \A q \in Request : /\ appr'[q] = IF q = r THEN "pending" ELSE appr[q]
                         /\ owner'[q] = IF q = r THEN t ELSE owner[q]
  BY DEF Ask, IInv, TypeOK
<1>4. ~ Steered(t)
  BY <1>1 DEF IInv, SteeredShape
<1>5. Lawful
  BY <1>1, <1>2, <1>3
  DEF Lawful, LawfulTask, LawfulRequest, steerVars, Waiting, InFlight, Terminal
<1>6. Settling
  BY <1>1, <1>2, <1>4 DEF Settling, SettlingTask, Steered
<1> QED
  BY <1>5, <1>6

(* The steps that release or fail waiting tasks, cancel queued ones, or    *)
(* decide requests: none of them touches an input that has been taken.     *)
LEMMA ReleaseStep ==
  ASSUME IInv, UNCHANGED <<steerVars, owner, outbox>>,
         \A u \in Task :
           /\ \/ status'[u] = status[u]
              \/ status[u] \in Waiting /\ status'[u] = "cancelled"
              \/ status[u] = "waiting_approval" /\ status'[u] \in {"active", "failed"}
           /\ dangerous[u] => dangerous'[u]
           /\ dangerous'[u] => dangerous[u] \/ \E r \in Request :
                owner[r] = u /\ (r \in late' \/ waiter[r] = "live"),
         late \subseteq late',
         \A r \in Request : \/ appr'[r] = appr[r]
                            \/ appr[r] = "pending" /\ appr'[r] # "absent"
  PROVE  Lawful /\ Settling
<1>1. \A u \in Task : dangerous'[u] => dangerous[u] \/ MarkedByAnswer(u)
  BY DEF MarkedByAnswer, Waiting
<1>2. Lawful
  BY <1>1 DEF Lawful, LawfulTask, LawfulRequest, steerVars, Waiting, InFlight, Terminal
<1>3. Settling
  BY DEF Settling, SettlingTask, Waiting
<1> QED
  BY <1>2, <1>3

LEMMA AnswerLawful ==
  ASSUME IInv, NEW r \in Request,
         AnswerLate(r) \/ \E d \in DOMAIN Verdict : Answer(r, d)
  PROVE  Lawful /\ Settling
<1>1. UNCHANGED <<steerVars, owner, outbox>>
  BY DEF AnswerLate, Answer, rowVars
<1>2. \A u \in Task : /\ dangerous[u] => dangerous'[u]
                      /\ dangerous'[u] => dangerous[u] \/ \E q \in Request :
                           owner[q] = u /\ (q \in late' \/ waiter[q] = "live")
  <2>1. dangerous \in [Task -> BOOLEAN]
    BY DEF IInv, TypeOK
  <2>2. ASSUME NEW d \in DOMAIN Verdict, Answer(r, d), NEW u \in Task
        PROVE  /\ dangerous[u] => dangerous'[u]
               /\ dangerous'[u] => dangerous[u] \/ \E q \in Request :
                    owner[q] = u /\ (q \in late' \/ waiter[q] = "live")
    <3>1. /\ dangerous' = [dangerous EXCEPT ![owner[r]] = @ \/ d = "allow"]
          /\ d = "allow" => r \in late' \/ waiter[r] = "live"
      BY <2>2 DEF Answer
    <3>2. \/ dangerous'[u] = dangerous[u]
          \/ u = owner[r] /\ d = "allow" /\ dangerous'[u]
          \/ u = owner[r] /\ d # "allow" /\ dangerous'[u] = dangerous[u]
      BY <2>1, <3>1
    <3> QED
      BY <3>1, <3>2
  <2>3. CASE AnswerLate(r)
    BY <2>3 DEF AnswerLate
  <2> QED
    BY <2>2, <2>3
<1>3. \A q \in Request : \/ appr'[q] = appr[q]
                         \/ appr[q] = "pending" /\ appr'[q] # "absent"
  <2>1. appr[r] = "pending" /\ appr \in [Request -> ApprovalStatus]
    BY DEF AnswerLate, Answer, IInv, TypeOK
  <2>2. \/ appr' = appr
        \/ \E a \in {"allowed", "denied", "expired"} : appr' = [appr EXCEPT ![r] = a]
    BY DEF AnswerLate, Answer, Verdict
  <2> QED
    BY <2>1, <2>2
<1>4. \A u \in Task :
        \/ status'[u] = status[u]
        \/ status[u] = "waiting_approval" /\ status'[u] \in {"active", "failed"}
  BY AnswerStep
<1>5. late \subseteq late'
  BY DEF AnswerLate, Answer
<1> QED
  BY <1>1, <1>2, <1>3, <1>4, <1>5, ReleaseStep

LEMMA SweepLawful ==
  ASSUME IInv, ExpirePending \/ \E c \in Keys, p \in Speakers : Cancel(c, p)
  PROVE  Lawful /\ Settling
<1>1. CASE ExpirePending
  <2>1. \A u \in Task :
          \/ status'[u] = status[u]
          \/ status[u] = "waiting_approval" /\ status'[u] = "failed"
    BY <1>1 DEF ExpirePending
  <2>2. \A r \in Request : \/ appr'[r] = appr[r]
                           \/ appr[r] = "pending" /\ appr'[r] # "absent"
    BY <1>1 DEF ExpirePending, Expired
  <2> QED
    BY <1>1, <2>1, <2>2, ReleaseStep DEF ExpirePending, rowVars
<1>2. ASSUME NEW c \in Keys, NEW p \in Speakers, Cancel(c, p)
      PROVE  Lawful /\ Settling
  <2>1. \A u \in Task :
          \/ status'[u] = status[u]
          \/ status[u] \in Waiting /\ status'[u] = "cancelled"
    BY <1>2 DEF Cancel
  <2>2. UNCHANGED <<dangerous, steerVars, apprVars, outbox>>
    BY <1>2 DEF Cancel, rowVars
  <2> QED
    BY <2>1, <2>2, ReleaseStep DEF apprVars
<1> QED
  BY <1>1, <1>2

LEMMA RestartLawful ==
  ASSUME IInv, Restart
  PROVE  Lawful /\ Settling
<1> USE DEF Waiting, InFlight, Terminal
<1>1. \A u \in Task :
        /\ status'[u] = IF status[u] \notin InFlight THEN status[u]
                        ELSE IF status[u] = "active" /\ ~ dangerous[u]
                        THEN "retry_wait" ELSE "dead_letter"
        /\ steer'[u] = IF steer[u] = "submitting" THEN "uncertain" ELSE steer[u]
  BY DEF Restart, Recovered, InFlightTo
<1>2. /\ UNCHANGED <<dangerous, target, owner, late, outbox>>
      /\ \A r \in Request : \/ appr'[r] = appr[r]
                            \/ appr[r] = "pending" /\ appr'[r] # "absent"
  BY DEF Restart, rowVars
<1>3. \A u \in Task : Steered(u) => /\ dangerous[u] /\ target[u] \in Task
                                    /\ status[u] \in {"active"} \cup Terminal
  BY DEF IInv, TypeOK, SteeredShape
<1>4. \A u \in Task : steer[u] = "submitting" => status'[u] \in Terminal
  BY <1>1, <1>3 DEF Steered
<1>5. Lawful
  BY <1>1, <1>2, <1>4 DEF Lawful, LawfulTask, LawfulRequest, Resolves
<1>6. Settling
  BY <1>1, <1>2, <1>3 DEF Settling, SettlingTask, Steered
<1> QED
  BY <1>5, <1>6

(* What runTask's finally does to the inputs of t, and what that leaves.   *)
LEMMA FinishMoves ==
  ASSUME IInv, NEW t \in Task, turn[t] # "none", NEW s, Finish(t, s), NEW u \in Task
  PROVE  \/ u = t /\ status'[u] = s
         \/ u # t /\ status'[u] = status[u]
         \/ /\ u # t /\ steer[u] = "accepted" /\ target[u] = t
            /\ status[u] = "active" /\ status'[u] = s /\ s \in Terminal
<1> DEFINE st == [status EXCEPT ![t] = s]
<1>1. ~ Steered(t)
  BY DEF IInv, SteeredShape
<1>2. status' = st \/ status' = Settled(t, s, st)
  BY Zenon DEF Finish
<1>3. st[u] = IF u = t THEN s ELSE status[u]
  BY DEF IInv, TypeOK
<1> HIDE DEF st
<1> QED
  BY <1>1, <1>2, <1>3 DEF Settled, Joined, Steered

LEMMA FinishLawful ==
  ASSUME IInv, NEW t \in Task, turn[t] # "none", NEW s, Finish(t, s),
         \/ s = status[t] /\ \A u \in Task : <<u, "final">> \in outbox' <=>
                                             <<u, "final">> \in outbox
         \/ /\ status[t] \in InFlight /\ s \in Terminal \ {"succeeded"}
            /\ \A u \in Task : <<u, "final">> \in outbox' <=> <<u, "final">> \in outbox
         \/ /\ status[t] \in InFlight /\ ~ dangerous[t] /\ s = "retry_wait"
            /\ \A u \in Task : <<u, "final">> \in outbox' <=> <<u, "final">> \in outbox
         \/ /\ status[t] = "active" /\ s = "succeeded"
            /\ \A u \in Task : <<u, "final">> \in outbox' <=>
                               <<u, "final">> \in outbox \/ u = t
  PROVE  Lawful /\ Settling
<1> USE DEF Waiting, InFlight, Terminal
<1>1. status[t] \notin Waiting \cup {"absent"} /\ ~ Steered(t)
  BY DEF IInv, TurnsHaveStarted, SteeredShape
<1>2. ASSUME NEW u \in Task
      PROVE  \/ u = t /\ status'[u] = s
             \/ u # t /\ status'[u] = status[u]
             \/ /\ u # t /\ steer[u] = "accepted" /\ target[u] = t
                /\ status[u] = "active" /\ status'[u] = s /\ s \in Terminal
  BY FinishMoves
<1>3. UNCHANGED <<dangerous, steer, target, appr, owner, late>>
  BY DEF Finish, steerVars, apprVars
<1>4. Lawful
  <2>1. \A u \in Task : LawfulTask(u)
    BY <1>1, <1>2, <1>3 DEF LawfulTask
  <2> QED
    BY <1>3, <2>1 DEF Lawful, LawfulRequest
<1>5. ASSUME s = "succeeded", status[t] = "active", <<t, "final">> \in outbox'
      PROVE  Answers(t)
  <2> DEFINE st == [status EXCEPT ![t] = s]
  <2>1. status' = Settled(t, s, st) /\ Submitting(t) = {}
    BY <1>5, Zenon DEF Finish
  <2>2. ASSUME NEW i \in Task, steer[i] = "accepted", target[i] = t,
               status[i] = "active"
        PROVE  status'[i] = "succeeded"
    <3>1. i # t
      BY <1>1, <2>2 DEF Steered
    <3>2. st[i] = "active"
      BY <2>2, <3>1 DEF IInv, TypeOK
    <3> HIDE DEF st
    <3> QED
      BY <1>5, <2>1, <2>2, <3>2 DEF Settled, Joined
  <2>3. \A i \in Task : steer[i] = "submitting" => target[i] # t
    BY <2>1 DEF Submitting
  <2> QED
    BY <1>5, <2>2, <2>3 DEF Answers
<1>6. status'[t] = s
  BY <1>2
<1>7. Settling
  <2> SUFFICES ASSUME NEW u \in Task PROVE SettlingTask(u)
    BY DEF Settling
  <2>1. CASE u = t
    BY <1>1, <1>5, <1>6, <2>1 DEF SettlingTask, Steered
  <2>2. CASE u # t
    BY <1>2, <1>6, <2>2 DEF SettlingTask, SettledWith
  <2> QED
    BY <2>1, <2>2
<1> QED
  BY <1>4, <1>7

LEMMA EndTurnLawful ==
  ASSUME IInv, NEW t \in Task, EndTurn(t)
  PROVE  Lawful /\ Settling
<1> USE DEF InFlight, Terminal, rowVars
<1>1. CASE Complete(t)
  <2>1. \A u \in Task : <<u, "final">> \in outbox' <=> <<u, "final">> \in outbox \/ u = t
    BY <1>1 DEF Complete
  <2> QED
    BY <1>1, <2>1, FinishLawful DEF Complete
<1>2. CASE CompleteUnheard(t)
  BY <1>2, FinishLawful DEF CompleteUnheard
<1>3. CASE CompleteCancelled(t)
  BY <1>3, FinishLawful DEF CompleteCancelled, InFlightTo
<1>4. CASE Retry(t)
  BY <1>4, FinishLawful DEF Retry, Errored, CanRetry, InFlightTo
<1>5. CASE DeadLetter(t) \/ Fail(t)
  <2>1. \A u \in Task : <<u, "final">> \in outbox' <=> <<u, "final">> \in outbox
    BY <1>5 DEF DeadLetter, Fail
  <2> QED
    BY <1>5, <2>1, FinishLawful DEF DeadLetter, Fail, Errored, InFlightTo
<1> QED
  BY <1>1, <1>2, <1>3, <1>4, <1>5 DEF EndTurn

LEMMA EveryStep ==
  ASSUME IInv, [Next]_vars
  PROVE  Lawful /\ Settling
<1>1. ASSUME NEW t \in Task,
             TurnStarted(t) \/ FlushIdle(t) \/ AskRefused(t)
             \/ \E o \in Outcome : TurnEnds(t, o)
      PROVE  Lawful /\ Settling
  BY <1>1, CalmStep DEF TurnStarted, FlushIdle, AskRefused, TurnEnds, Calm
<1>2. ASSUME NEW r \in Request, Lapse(r) \/ DriverTimeout(r)
      PROVE  Lawful /\ Settling
  BY <1>2, CalmStep DEF Lapse, DriverTimeout, Calm
<1>3. CASE UNCHANGED vars
  BY <1>3, CalmStep DEF vars, Calm
<1>4. ASSUME NEW t \in Task, Enqueue(t) \/ StartTurn(t) \/ RefuseTurn(t) \/ EndTurn(t)
      PROVE  Lawful /\ Settling
  BY <1>4, EnqueueLawful, StartLawful, EndTurnLawful
<1>5. ASSUME NEW t \in Task,
             \/ SteerAccepted(t) \/ SteerRejected(t) \/ SteerUncertain(t)
             \/ \E i \in Task : BeginSteer(t, i)
      PROVE  Lawful /\ Settling
  BY <1>5, ResolveLawful, BeginSteerLawful
<1>6. ASSUME NEW t \in Task, NEW r \in Request, Ask(t, r)
      PROVE  Lawful /\ Settling
  BY <1>6, AskLawful
<1>7. ASSUME NEW r \in Request, AnswerLate(r) \/ \E d \in DOMAIN Verdict : Answer(r, d)
      PROVE  Lawful /\ Settling
  BY <1>7, AnswerLawful
<1>8. CASE ExpirePending \/ \E c \in Keys, p \in Speakers : Cancel(c, p)
  BY <1>8, SweepLawful
<1>9. CASE Restart
  BY <1>9, RestartLawful
<1> QED
  BY <1>1, <1>2, <1>3, <1>4, <1>5, <1>6, <1>7, <1>8, <1>9 DEF Next

-----------------------------------------------------------------------------
(* The promises about effects.                                             *)
LEMMA AskedStep ==
  ASSUME IInv, AskedLive, [Next]_vars
  PROVE  AskedLive'
<1> USE DEF AskedLive, apprVars, turnVars
<1>1. ASSUME UNCHANGED <<turn, owner>>,
             \A r \in Request : waiter'[r] = "live" => waiter[r] = "live"
      PROVE  AskedLive'
  BY <1>1
<1>2. ASSUME NEW t \in Task,
             \/ Enqueue(t) \/ RefuseTurn(t) \/ FlushIdle(t) \/ SteerAccepted(t)
             \/ SteerRejected(t) \/ SteerUncertain(t) \/ \E i \in Task : BeginSteer(t, i)
      PROVE  AskedLive'
  BY <1>1, <1>2 DEF Enqueue, RefuseTurn, FlushIdle, SteerAccepted, SteerRejected,
                    SteerUncertain, BeginSteer
<1>3. ASSUME NEW t \in Task,
             \/ StartTurn(t) \/ TurnStarted(t) \/ AskRefused(t)
             \/ \E o \in Outcome : TurnEnds(t, o)
      PROVE  AskedLive'
  <2>1. UNCHANGED <<waiter, owner>> /\ \A u \in Task : turn[u] # "none" => turn'[u] # "none"
    BY <1>3 DEF StartTurn, TurnStarted, AskRefused, TurnEnds, Outcome, IInv, TypeOK
  <2> QED
    BY <2>1
<1>4. ASSUME NEW t \in Task, NEW r \in Request, Ask(t, r)
      PROVE  AskedLive'
  <2>1. /\ turn' = turn /\ turn[t] # "none"
        /\ \A q \in Request : /\ waiter'[q] = IF q = r THEN "live" ELSE waiter[q]
                             /\ owner'[q] = IF q = r THEN t ELSE owner[q]
    BY <1>4 DEF Ask, Live, IInv, TypeOK
  <2> QED
    BY <2>1
<1>5. ASSUME NEW r \in Request,
             \/ Lapse(r) \/ AnswerLate(r) \/ DriverTimeout(r)
             \/ \E d \in DOMAIN Verdict : Answer(r, d)
      PROVE  AskedLive'
  <2>1. UNCHANGED <<turn, owner>>
    BY <1>5 DEF Lapse, AnswerLate, DriverTimeout, Answer
  <2>2. waiter' = waiter \/ waiter' = [waiter EXCEPT ![r] = "none"]
    BY <1>5 DEF Lapse, AnswerLate, DriverTimeout, Answer
  <2> QED
    BY <1>1, <2>1, <2>2 DEF IInv, TypeOK
<1>6. ASSUME NEW t \in Task, EndTurn(t)
      PROVE  AskedLive'
  <2>1. /\ turn' = [turn EXCEPT ![t] = "none"] /\ owner' = owner
        /\ waiter' = [r \in Request |-> IF owner[r] = t /\ waiter[r] = "live"
                                        THEN "stale" ELSE waiter[r]]
    BY <1>6 DEF EndTurn, Complete, CompleteUnheard, CompleteCancelled, Retry,
                DeadLetter, Fail, Finish
  <2> QED
    BY <2>1 DEF IInv, TypeOK
<1>7. CASE ExpirePending \/ \E c \in Keys, p \in Speakers : Cancel(c, p)
  BY <1>1, <1>7 DEF ExpirePending, Cancel
<1>8. CASE Restart
  BY <1>8 DEF Restart
<1>9. CASE UNCHANGED vars
  BY <1>1, <1>9 DEF vars
<1> QED
  BY <1>2, <1>3, <1>4, <1>5, <1>6, <1>7, <1>8, <1>9 DEF Next

ReplayInv == AskedLive /\ OwnerKnown /\ Marked /\ HostKept

LEMMA ReplayStep ==
  ASSUME IInv, IInv', ReplayInv, AskedLive', Lawful
  PROVE  ReplayInv'
<1> USE DEF ReplayInv, Lawful, LawfulTask, LawfulRequest
<1>1. owner \in [Request -> Task \cup {None}] /\ owner' \in [Request -> Task \cup {None}]
  BY DEF IInv, TypeOK
<1>2. OwnerKnown'
  <2> SUFFICES ASSUME NEW r \in Request
               PROVE  /\ appr'[r] = "absent" => owner'[r] = None
                      /\ owner'[r] # None => status'[owner'[r]] # "absent"
    BY DEF OwnerKnown
  <2>1. LawfulRequest(r) /\ (appr[r] = "absent" => owner[r] = None)
    BY DEF OwnerKnown
  <2>2. CASE owner'[r] # owner[r]
    BY <2>1, <2>2, SchedulerAssumption
  <2>3. CASE owner'[r] = owner[r] /\ owner[r] \in Task
    <3>1. LawfulTask(owner[r]) /\ status[owner[r]] # "absent"
      BY <2>3, SchedulerAssumption DEF OwnerKnown
    <3> QED
      BY <2>1, <2>3, <3>1, SchedulerAssumption
  <2>4. CASE owner'[r] = owner[r] /\ owner[r] = None
    BY <2>4
  <2> QED
    BY <1>1, <2>2, <2>3, <2>4
<1>3. Marked'
  <2> SUFFICES ASSUME NEW t \in Task, dangerous'[t]
               PROVE  /\ status'[t] # "absent"
                      /\ status'[t] \in Waiting => \E r \in late' : owner'[r] = t
    BY DEF Marked
  <2>1. \A r \in Request : owner[r] = t => status[t] # "absent" /\ owner'[r] = t
    <3>1. t # None
      BY SchedulerAssumption DEF Task, None
    <3> QED
      BY <1>1, <3>1 DEF OwnerKnown
  <2>2. CASE dangerous[t]
    <3>1. late \subseteq Request /\ late \subseteq late'
      BY DEF IInv, TypeOK
    <3> QED
      BY <2>1, <2>2, <3>1 DEF Marked, Withdrawn
  <2>3. CASE status'[t] \in InFlight
    BY <2>3 DEF InFlight, Waiting
  <2>4. CASE MarkedByAnswer(t)
    <3>1. PICK r \in Request :
            /\ owner[r] = t
            /\ \/ r \in late'
               \/ waiter[r] = "live" /\ (status'[t] = status[t] \/ status'[t] \notin Waiting)
      BY <2>4 DEF MarkedByAnswer
    <3>2. waiter[r] = "live" => status[t] \notin Waiting
      BY <3>1 DEF AskedLive, IInv, TurnsHaveStarted
    <3> QED
      BY <2>1, <3>1, <3>2
  <2> QED
    BY <2>2, <2>3, <2>4
<1>4. HostKept'
  <2> SUFFICES ASSUME NEW i \in Task, Taken(i)'
               PROVE  /\ target'[i] \in Task /\ dangerous'[target'[i]]
                      /\ ~ Steered(target[i])'
                      /\ status'[target'[i]] \notin Waiting \cup {"absent"}
                      /\ steer'[i] = "uncertain" => status'[i] \in Terminal
    BY DEF HostKept
  <2>1. CASE JoinsTurn(i)
    <3> DEFINE h == target'[i]
    <3>1. /\ h \in Task /\ turn[h] # "none" /\ dangerous'[h] /\ status'[h] \in InFlight
          /\ steer'[i] = "submitting"
      BY <2>1 DEF JoinsTurn
    <3>2. ~ Steered(h) /\ status[h] \notin Waiting
      BY <3>1 DEF IInv, SteeredShape, TurnsHaveStarted
    <3>3. ~ JoinsTurn(h) /\ ~ Resolves(h)
      BY <3>2 DEF JoinsTurn, Resolves, Steered
    <3>4. steer'[h] = steer[h]
      BY <3>1, <3>3
    <3> QED
      BY <3>1, <3>2, <3>4 DEF Steered, InFlight, Waiting
  <2>2. CASE ~ JoinsTurn(i)
    <3>1. Taken(i) /\ target'[i] = target[i]
      BY <2>2 DEF Taken, Resolves
    <3> DEFINE h == target[i]
    <3>2. /\ h \in Task /\ dangerous[h] /\ ~ Steered(h)
          /\ status[h] \notin Waiting \cup {"absent"}
      BY <3>1 DEF HostKept
    <3>3. ~ JoinsTurn(h) /\ ~ Resolves(h) /\ ~ Withdrawn(h)
      BY <3>2 DEF JoinsTurn, Resolves, Withdrawn, Steered
    <3>4. steer'[h] = steer[h] /\ dangerous'[h]
          /\ status'[h] \notin Waiting \cup {"absent"}
      BY <3>2, <3>3
    <3>5. steer'[i] = "uncertain" => status'[i] \in Terminal
      BY <2>2, <3>1 DEF HostKept, Resolves
    <3> QED
      BY <3>1, <3>2, <3>4, <3>5 DEF Steered
  <2> QED
    BY <2>1, <2>2
<1> QED
  BY <1>2, <1>3, <1>4

LEMMA ReplayInductive == Spec => []ReplayInv
<1>1. Init => ReplayInv
  BY DEF Init, ReplayInv, AskedLive, OwnerKnown, Marked, HostKept, Taken
<1>2. IInv /\ ReplayInv /\ [Next]_vars => ReplayInv'
  BY InductiveStep, EveryStep, AskedStep, ReplayStep DEF ReplayInv
<1> QED
  BY <1>1, <1>2, Inductive, PTL DEF Spec

(* Nothing that may have had effects runs again by itself, however         *)
(* retries, steers, answers, cancellations and restarts are interleaved:   *)
(* the marks that execute, beginSteer and deliverAnswer set are the ones   *)
(* handleDriverError and recoverAfterRestart rely on.                      *)
THEOREM EffectsRunOnce == Spec => []NoUnsafeReplay
<1>1. IInv /\ ReplayInv => NoUnsafeReplay
  BY DEF IInv, ReplayInv, Marked, HostKept, SteeredShape, Steered, Taken,
         NoUnsafeReplay, Waiting, Terminal
<1> QED
  BY <1>1, Inductive, ReplayInductive, PTL

-----------------------------------------------------------------------------
(* The promises about answers.                                             *)
LEMMA AnswerInvStep ==
  ASSUME IInv, ReplayInv, AnsweredTogether, Lawful, Settling
  PROVE  AnsweredTogether'
<1> USE DEF Lawful, LawfulTask, Settling, SettlingTask
<1> SUFFICES ASSUME NEW i \in Task
    PROVE /\ steer'[i] = "submitting" => status'[target'[i]] # "succeeded"
          /\ steer'[i] = "accepted" =>
               /\ status'[i] = "succeeded" <=> status'[target'[i]] = "succeeded"
               /\ status'[target'[i]] \in InFlight => status'[i] = "active"
          /\ <<i, "final">> \in outbox' <=>
               status'[i] = "succeeded" /\ steer'[i] # "accepted"
  BY DEF AnsweredTogether
<1>1. /\ turn[i] # "none" => ~ Steered(i)
      /\ steer[i] = "submitting" => status[i] = "active"
      /\ steer[i] = "accepted" => status[i] \in {"active"} \cup Terminal
  BY DEF IInv, SteeredShape, Steered
<1>2. CASE JoinsTurn(i)
  <2>1. /\ steer'[i] = "submitting" /\ status'[i] = "active"
        /\ status'[target'[i]] \in InFlight /\ status[i] \in Waiting
    BY <1>2 DEF JoinsTurn
  <2>2. <<i, "final">> \notin outbox'
    BY <2>1 DEF AnsweredTogether, Waiting
  <2> QED
    BY <2>1, <2>2 DEF InFlight
<1>3. CASE ~ JoinsTurn(i)
  <2>1. target'[i] = target[i] /\ (steer'[i] = steer[i] \/ Resolves(i))
    BY <1>3 DEF Resolves
  <2> DEFINE h == target[i]
  <2>2. ASSUME Steered(i)
        PROVE  /\ h \in Task /\ ~ Steered(h)
               /\ status[h] \notin Waiting \cup {"absent"}
    BY <2>2 DEF ReplayInv, HostKept, Taken, Steered
  <2>3. ASSUME Steered(i), status'[h] = "succeeded"
        PROVE  status[h] = "succeeded" \/ Answers(h)
    BY <2>2, <2>3 DEF SettledWith, Steered
  <2>4. steer'[i] = "submitting" => status'[h] # "succeeded"
    <3> SUFFICES ASSUME steer'[i] = "submitting"
                 PROVE  status'[h] # "succeeded"
      OBVIOUS
    <3>1. steer[i] = "submitting"
      BY <2>1 DEF Resolves
    <3>2. status[h] # "succeeded" /\ ~ Answers(h)
      BY <3>1 DEF AnsweredTogether, Answers
    <3> QED
      BY <2>3, <3>1, <3>2 DEF Steered
  <2>5. ASSUME steer'[i] = "accepted"
        PROVE  /\ status'[i] = "succeeded" <=> status'[h] = "succeeded"
               /\ status'[h] \in InFlight => status'[i] = "active"
    <3>1. CASE Resolves(i)
      <4>1. steer[i] = "submitting" /\ UNCHANGED status
        BY <2>5, <3>1 DEF Resolves
      <4>2. status[i] = "active" /\ status[h] # "succeeded"
        BY <1>1, <4>1 DEF AnsweredTogether
      <4> QED
        BY <4>1, <4>2
    <3>2. CASE steer[i] = "accepted"
      <4>1. status[h] \in InFlight \cup Terminal
        BY <2>2, <3>2 DEF Steered, IInv, TypeOK, TaskStatus
      <4>2. CASE status[i] \in Terminal
        <5>1. status[h] \in Terminal
          BY <3>2, <4>1, <4>2 DEF AnsweredTogether, Terminal
        <5> QED
          BY <2>2, <3>2, <4>2, <5>1 DEF AnsweredTogether, Steered, Terminal, InFlight
      <4>3. CASE status[i] = "active"
        <5>1. status[h] # "succeeded" /\ ~ Answers(i)
          BY <1>1, <3>2, <4>3 DEF AnsweredTogether, Answers, Steered
        <5>2. Answers(h) => status'[i] = "succeeded"
          BY <3>2, <4>3 DEF Answers
        <5>3. status'[i] = "succeeded" => status'[h] = "succeeded"
          BY <4>3, <5>1 DEF SettledWith
        <5>4. status'[h] \in InFlight => status'[i] = "active"
          BY <3>2, <4>3 DEF SettledWith, Terminal, InFlight
        <5> QED
          BY <2>3, <3>2, <5>1, <5>2, <5>3, <5>4 DEF Steered
      <4> QED
        BY <1>1, <3>2, <4>2, <4>3
    <3> QED
      BY <2>1, <2>5, <3>1, <3>2
  <2>6. <<i, "final">> \in outbox' => status'[i] = "succeeded" /\ steer'[i] # "accepted"
    <3>1. CASE <<i, "final">> \in outbox
      <4>1. status[i] = "succeeded" /\ steer[i] # "accepted"
        BY <3>1 DEF AnsweredTogether
      <4> QED
        BY <1>1, <2>1, <4>1 DEF Resolves, Terminal
    <3>2. CASE turn[i] # "none" /\ status'[i] = "succeeded"
      BY <1>1, <2>1, <3>2 DEF Resolves, Steered
    <3> QED
      BY <3>1, <3>2
  <2>7. ASSUME status'[i] = "succeeded", steer'[i] # "accepted"
        PROVE  <<i, "final">> \in outbox'
    <3>1. steer[i] # "accepted"
      BY <2>1, <2>7 DEF Resolves
    <3> QED
      BY <2>7, <3>1 DEF AnsweredTogether, Answers, SettledWith
  <2> QED
    BY <2>1, <2>4, <2>5, <2>6, <2>7
<1> QED
  BY <1>2, <1>3

(* A turn and everything steered into it get one final answer: it is in    *)
(* the outbox exactly when the task of the turn has succeeded, and         *)
(* completeTaskWithOutbound and settleSteeredInputs take every accepted    *)
(* input along, through retries, late steers, expiry and restarts.         *)
THEOREM OneAnswer == Spec => []OneFinalAnswer
<1>1. Init => AnsweredTogether
  BY DEF Init, AnsweredTogether
<1>2. IInv /\ ReplayInv /\ AnsweredTogether /\ [Next]_vars => AnsweredTogether'
  BY EveryStep, AnswerInvStep
<1>3. AnsweredTogether => OneFinalAnswer
  BY DEF AnsweredTogether, OneFinalAnswer
<1> QED
  BY <1>1, <1>2, <1>3, Inductive, ReplayInductive, PTL DEF Spec

-----------------------------------------------------------------------------
(* The promise about overlapping turns.                                    *)

(* A task whose turn goes on leaves the flight only by the expiry of a     *)
(* request of it.                                                          *)
LEMMA LapseStep ==
  ASSUME IInv, WaitingHasPending, [Next]_vars, NEW t \in Task,
         turn'[t] # "none", status[t] \in InFlight, status'[t] \notin InFlight
  PROVE  Lapsed(t)'
<1> USE DEF InFlight
<1>1. ASSUME NEW x \in Task, \/ Enqueue(x) \/ StartTurn(x) \/ RefuseTurn(x)
                             \/ \E i \in Task : BeginSteer(x, i)
      PROVE  FALSE
  <2>1. PICK y \in Task :
          /\ status[y] \in Waiting \cup {"absent"}
          /\ \E s : status' = [status EXCEPT ![y] = s]
    BY <1>1 DEF Enqueue, StartTurn, RefuseTurn, Claimed, Claimable, BeginSteer,
                IsNextFollowUp
  <2> QED
    BY <2>1 DEF IInv, TypeOK, Waiting
<1>2. ASSUME NEW x \in Task, SteerRejected(x) \/ SteerUncertain(x)
      PROVE  FALSE
  <2>1. UNCHANGED turn /\ turn[x] = "none"
    BY <1>2 DEF SteerRejected, SteerUncertain, IInv, SteeredShape, Steered
  <2>2. \E s : status' = [status EXCEPT ![x] = s]
    BY <1>2 DEF SteerRejected, SteerUncertain
  <2> QED
    BY <2>1, <2>2 DEF IInv, TypeOK
<1>3. ASSUME NEW x \in Task, EndTurn(x)
      PROVE  FALSE
  <2>1. turn[x] # "none" /\ \E s : Finish(x, s)
    BY <1>3 DEF EndTurn, Complete, CompleteUnheard, CompleteCancelled, Retry,
                DeadLetter, Fail, Errored
  <2>2. turn' = [turn EXCEPT ![x] = "none"]
    BY <2>1 DEF Finish
  <2>3. t # x /\ turn[t] # "none"
    BY <2>2 DEF IInv, TypeOK
  <2>4. ~ Steered(t)
    BY <2>3 DEF IInv, SteeredShape
  <2> QED
    BY <2>1, <2>3, <2>4, FinishMoves DEF Steered
<1>4. ASSUME NEW x \in Task,
             \/ TurnStarted(x) \/ FlushIdle(x) \/ AskRefused(x) \/ SteerAccepted(x)
             \/ \E o \in Outcome : TurnEnds(x, o)
      PROVE  FALSE
  BY <1>4 DEF TurnStarted, FlushIdle, AskRefused, SteerAccepted, TurnEnds, taskVars
<1>5. ASSUME NEW x \in Task, NEW r \in Request, Ask(x, r)
      PROVE  FALSE
  BY <1>5 DEF Ask, IInv, TypeOK
<1>6. ASSUME NEW r \in Request, Lapse(r) \/ DriverTimeout(r)
      PROVE  FALSE
  BY <1>6 DEF Lapse, DriverTimeout, taskVars
<1>7. CASE Restart \/ \E c \in Keys, p \in Speakers : Cancel(c, p)
  BY <1>7 DEF Restart, Cancel, Waiting
<1>8. CASE UNCHANGED vars
  BY <1>8 DEF vars, taskVars
<1>9. ASSUME NEW r \in Request,
             AnswerLate(r) \/ \E d \in DOMAIN Verdict : Answer(r, d)
      PROVE  Lapsed(t)'
  <2>1. \/ UNCHANGED status
        \/ Resume(r, "active")
        \/ Resume(r, "failed") /\ appr' = [appr EXCEPT ![r] = "expired"]
    BY <1>9 DEF AnswerLate, Answer
  <2>2. status'[t] = "failed" /\ owner[r] = t /\ appr'[r] = "expired"
    BY <2>1 DEF Resume, IInv, TypeOK
  <2>3. owner' = owner
    BY <1>9 DEF AnswerLate, Answer
  <2> QED
    BY <2>2, <2>3 DEF Lapsed
<1>10. CASE ExpirePending
  BY <1>10 DEF ExpirePending, Expired, Orphans, Lapsed, WaitingHasPending
<1> QED
  BY <1>1, <1>2, <1>3, <1>4, <1>5, <1>6, <1>7, <1>8, <1>9, <1>10 DEF Next

(* Only runTask gives a task a turn.                                       *)
LEMMA TurnBegins ==
  ASSUME IInv, [Next]_vars, NEW t \in Task, turn[t] = "none", turn'[t] # "none"
  PROVE  status'[t] = "active"
<1>1. ASSUME NEW x \in Task, StartTurn(x)
      PROVE  status'[t] = "active"
  BY <1>1 DEF StartTurn, IInv, TypeOK
<1>2. ASSUME NEW x \in Task,
             \/ TurnStarted(x) \/ AskRefused(x) \/ \E o \in Outcome : TurnEnds(x, o)
      PROVE  FALSE
  BY <1>2 DEF TurnStarted, AskRefused, TurnEnds, Live, IInv, TypeOK
<1>3. ASSUME NEW x \in Task, EndTurn(x)
      PROVE  FALSE
  <2>1. turn' = [turn EXCEPT ![x] = "none"]
    BY <1>3 DEF EndTurn, Complete, CompleteUnheard, CompleteCancelled, Retry,
                DeadLetter, Fail, Finish
  <2> QED
    BY <2>1 DEF IInv, TypeOK
<1>4. ASSUME NEW x \in Task,
             \/ Enqueue(x) \/ RefuseTurn(x) \/ FlushIdle(x) \/ SteerAccepted(x)
             \/ SteerRejected(x) \/ SteerUncertain(x)
             \/ \E i \in Task : BeginSteer(x, i)
             \/ \E r \in Request : Ask(x, r)
      PROVE  UNCHANGED turn
  BY <1>4 DEF Enqueue, RefuseTurn, FlushIdle, SteerAccepted, SteerRejected,
              SteerUncertain, BeginSteer, Ask, turnVars
<1>5. ASSUME NEW r \in Request,
             \/ Lapse(r) \/ AnswerLate(r) \/ DriverTimeout(r)
             \/ \E d \in DOMAIN Verdict : Answer(r, d)
      PROVE  UNCHANGED turn
  BY <1>5 DEF Lapse, AnswerLate, DriverTimeout, Answer, turnVars
<1>6. CASE ExpirePending \/ \E c \in Keys, p \in Speakers : Cancel(c, p)
  BY <1>6 DEF ExpirePending, Cancel, turnVars
<1>7. CASE Restart
  BY <1>7 DEF Restart
<1>8. CASE UNCHANGED vars
  BY <1>8 DEF vars, turnVars
<1> QED
  BY <1>1, <1>2, <1>3, <1>4, <1>5, <1>6, <1>7, <1>8 DEF Next

(* Lapsed is for good: the task is terminal and the request decided.       *)
LEMMA OverlapStep ==
  ASSUME IInv, WaitingHasPending, LiveOrLapsed, [Next]_vars
  PROVE  LiveOrLapsed'
<1> SUFFICES ASSUME NEW t \in Task, turn'[t] # "none", status'[t] \notin InFlight
             PROVE  Lapsed(t)'
  BY DEF LiveOrLapsed
<1>1. CASE status[t] \in InFlight
  BY <1>1, LapseStep
<1>2. CASE Lapsed(t)
  <2>1. LawfulTask(t) /\ \A r \in Request : LawfulRequest(r)
    BY EveryStep DEF Lawful
  <2> QED
    BY <1>2, <2>1 DEF Lapsed, LawfulTask, LawfulRequest, Terminal
<1>3. turn[t] # "none"
  BY TurnBegins DEF InFlight
<1> QED
  BY <1>1, <1>2, <1>3 DEF LiveOrLapsed

(* Two turns of one conversation overlap in one way only: a request of one *)
(* of them expired, expirePending or a late answer has failed its task and *)
(* with that freed the key, and its turn is still being wound up.          *)
THEOREM OverlapExplained == Spec => []OverlapOnlyAfterExpiry
<1>1. Init => LiveOrLapsed
  BY DEF Init, LiveOrLapsed
<1>2. IInv /\ WaitingHasPending /\ LiveOrLapsed /\ [Next]_vars => LiveOrLapsed'
  BY OverlapStep
<1>3. ASSUME IInv, LiveOrLapsed
      PROVE  OverlapOnlyAfterExpiry
  <2> SUFFICES ASSUME NEW t \in Task, NEW u \in Task, t # u, KeyOf[t] = KeyOf[u],
                      turn[t] # "none", turn[u] # "none", ~ Lapsed(t), ~ Lapsed(u)
               PROVE  FALSE
    BY DEF OverlapOnlyAfterExpiry, Running, Lapsed
  <2>1. {status[t], status[u]} \subseteq InFlight
    BY <1>3 DEF LiveOrLapsed
  <2>2. ~ Steered(t) /\ ~ Steered(u)
    BY <1>3 DEF IInv, SteeredShape
  <2> QED
    BY <1>3, <2>1, <2>2 DEF IInv, OneRoot
<1> QED
  BY <1>1, <1>2, <1>3, Inductive, NobodyWaitsForever, PTL DEF Spec

-----------------------------------------------------------------------------
(***************************************************************************)
(* Part 3: the refinement of ConversationQueue.                            *)
(***************************************************************************)
Where(t) == PlaceOf(status[t])
Answered == {t \in Task : <<t, "final">> \in outbox}

(* The state functions of the instance, by their meaning in Scheduler.     *)
LEMMA Abstraction ==
  ASSUME TypeOK
  PROVE  \A t \in Task :
           /\ Where(t) \in {"absent", "waiting", "serving", "done"}
           /\ Where(t) = "absent" <=> status[t] = "absent"
           /\ Where(t) = "waiting" <=> status[t] \in Waiting
           /\ Where(t) = "serving" <=> status[t] \in InFlight
           /\ Where(t) = "done" <=> status[t] \in Terminal
BY DEF Where, PlaceOf, TypeOK, TaskStatus, Waiting, InFlight, Terminal

LEMMA Members ==
  ASSUME TypeOK
  PROVE  /\ Queue!In("absent") = {t \in Task : status[t] = "absent"}
         /\ Queue!In("waiting") = {t \in Task : status[t] \in Waiting}
         /\ Queue!In("serving") = {t \in Task : status[t] \in InFlight}
BY Abstraction DEF Queue!In, Where

(* Tasks that leave service are concluded or, if nothing behind them in    *)
(* their key has been started, given back.                                 *)
LEMMA LeavingService ==
  ASSUME IInv, TypeOK', Answered' = Answered,
         \A t \in Task :
           \/ Where(t)' = Where(t)
           \/ /\ status[t] \in InFlight
              /\ \/ status'[t] \in Terminal
                 \/ status'[t] \in Waiting /\ MayReturn(t)
  PROVE  Queue!QNext \/ UNCHANGED Queue!qvars
<1> USE DEF Queue!qvars
<1> DEFINE R == {t \in Task : status[t] \in InFlight /\ status'[t] \in Waiting}
           D == {t \in Task : status[t] \in InFlight /\ status'[t] \in Terminal}
<1>1. TypeOK
  BY DEF IInv
<1>2. CASE R \cup D = {}
  <2>1. \A t \in Task : Where(t)' = Where(t)
    BY <1>2
  <2> QED
    BY <2>1 DEF Where, Answered
<1>3. CASE R \cup D # {}
  <2>1. Queue!GiveBack(R)
    <3>1. ASSUME NEW t \in R, NEW u \in Task, t < u, KeyOf[u] = KeyOf[t]
          PROVE  status[u] \notin InFlight
      <4>1. MayReturn(t)
        BY <1>1, Abstraction DEF Where, PlaceOf, Waiting, InFlight, Terminal
      <4> QED
        BY <3>1, <4>1 DEF IInv, ReturnsInOrder, InFlight
    <3>2. ASSUME NEW t \in R, NEW u \in Queue!SameQueue(t) \cap Queue!In("serving")
          PROVE  u < t
      <4>1. u \in Task /\ u # t /\ KeyOf[u] = KeyOf[t] /\ status[u] \in InFlight
        BY <1>1, Members DEF Queue!SameQueue
      <4>2. ~ (t < u)
        BY <3>1, <4>1
      <4> QED
        BY <4>1, <4>2
    <3>3. R \subseteq Queue!In("serving")
      BY <1>1, Members
    <3> QED
      BY <3>2, <3>3 DEF Queue!GiveBack
  <2>2. D \subseteq Queue!In("serving") \ R
    BY DEF Queue!In, PlaceOf, Waiting, InFlight, Terminal
  <2>3. ASSUME NEW t \in Task
        PROVE  Where(t)' = IF t \in R THEN "waiting"
                           ELSE IF t \in D THEN "done" ELSE Where(t)
    BY DEF Where, PlaceOf, Waiting, InFlight, Terminal
  <2>4. Queue!Release(R, D)
    BY <1>3, <2>1, <2>2, <2>3 DEF Queue!Release, Where, Answered
  <2> QED
    BY <2>4 DEF Queue!QNext
<1> QED
  BY <1>2, <1>3

(* What the other steps do to the queue.                                   *)
LEMMA Submits ==
  ASSUME IInv, NEW t \in Task, Enqueue(t)
  PROVE  Queue!Submit(t)
<1>1. status \in [Task -> TaskStatus] /\ UNCHANGED outbox
  BY DEF IInv, TypeOK, Enqueue, rowVars
<1>2. t \in Queue!In("absent") /\ \A u \in Queue!In("absent") : t <= u
  BY Members DEF IInv, Enqueue
<1>3. \A u \in Task : Where(u)' = IF u \in {t} THEN "waiting" ELSE Where(u)
  BY <1>1 DEF Enqueue, Where, PlaceOf, Waiting
<1> QED
  BY <1>1, <1>2, <1>3 DEF Queue!Submit, Queue!Move, Where

LEMMA ClaimedLeads ==
  ASSUME IInv, NEW t \in Task, Claimed(t)
  PROVE  /\ Queue!Head(t)
         /\ Queue!SameQueue(t) \cap Queue!In("serving") = {}
<1>1. TypeOK
  BY DEF IInv
<1>2. t \in Queue!In("waiting")
  BY <1>1, ClaimedIsHead, Members
<1>3. ASSUME NEW u \in Queue!SameQueue(t)
      PROVE  /\ u \in Task /\ status[u] \notin InFlight
             /\ status[u] \in Waiting => t < u
  <2>1. u \in Task /\ u # t /\ KeyOf[u] = KeyOf[t]
    BY DEF Queue!SameQueue
  <2>2. status[u] \notin InFlight /\ (u < t => status[u] \notin Waiting)
    BY <2>1, ClaimedIsHead
  <2> QED
    BY <2>1, <2>2
<1> QED
  BY <1>1, <1>2, <1>3, Members DEF Queue!Head

LEMMA Serves ==
  ASSUME IInv, NEW t \in Task, StartTurn(t)
  PROVE  Queue!Serve(t)
<1>1. status \in [Task -> TaskStatus] /\ UNCHANGED outbox
  BY DEF IInv, TypeOK, StartTurn, rowVars
<1>2. \A u \in Task : Where(u)' = IF u \in {t} THEN "serving" ELSE Where(u)
  BY <1>1 DEF StartTurn, Where, PlaceOf, Waiting, InFlight
<1> QED
  BY <1>1, <1>2, ClaimedLeads DEF StartTurn, Queue!Serve, Queue!Move, Where

LEMMA Refuses ==
  ASSUME IInv, NEW t \in Task, RefuseTurn(t)
  PROVE  Queue!Withdraw({t})
<1>1. TypeOK /\ status \in [Task -> TaskStatus]
  BY DEF IInv, TypeOK
<1>2. {t} \subseteq Queue!In("waiting")
  BY <1>1, ClaimedIsHead, Members DEF RefuseTurn
<1>3. \A u \in Task : Where(u)' = IF u \in {t} THEN "done" ELSE Where(u)
  BY <1>1 DEF RefuseTurn, Where, PlaceOf, Waiting, InFlight, Terminal
<1>4. Answered' = Answered
  BY DEF RefuseTurn, Answered
<1> QED
  BY <1>2, <1>3, <1>4 DEF Queue!Withdraw, Queue!Move, Where, Answered

(* The turn that an input joins was started before the input came: the     *)
(* input still waits, so nothing behind it is in flight.                   *)
LEMMA Joins ==
  ASSUME IInv, NEW t \in Task, NEW i \in Task, BeginSteer(t, i)
  PROVE  Queue!Join(i)
<1>1. TypeOK /\ status \in [Task -> TaskStatus] /\ UNCHANGED outbox
  BY DEF IInv, TypeOK, BeginSteer, rowVars
<1>2. /\ status[i] = "queued" /\ status[t] \in InFlight /\ t # i
      /\ {t, i} \subseteq Steerable /\ KeyOf[i] = KeyOf[t]
      /\ SpeakerOf[i] = SpeakerOf[t]
  BY DEF BeginSteer, CanSteer, SamePrompter, InFlight
<1>3. t < i
  <2>1. ~ (i < t)
    BY <1>2 DEF IInv, ReturnsInOrder, MayReturn, Waiting, InFlight
  <2> QED
    BY <1>2, <2>1
<1>4. Queue!Head(i)
  <2>1. i \in Queue!In("waiting")
    BY <1>1, <1>2, Members DEF Waiting
  <2>2. ASSUME NEW u \in Queue!SameQueue(i) \cap Queue!In("waiting")
        PROVE  i < u
    <3>1. u \in Task /\ u # i /\ KeyOf[u] = KeyOf[i] /\ status[u] \in Waiting
      BY <1>1, Members DEF Queue!SameQueue
    <3>2. ~ (u < i)
      BY <1>2, <3>1 DEF BeginSteer, IsNextFollowUp
    <3> QED
      BY <3>1, <3>2
  <2> QED
    BY <2>1, <2>2 DEF Queue!Head
<1>5. t \in Queue!SameQueue(i) \cap Queue!In("serving") \cap Steerable
  BY <1>1, <1>2, Members DEF Queue!SameQueue
<1>6. \A u \in Task : Where(u)' = IF u \in {i} THEN "serving" ELSE Where(u)
  BY <1>1 DEF BeginSteer, Where, PlaceOf, Waiting, InFlight
<1> QED
  BY <1>1, <1>2, <1>3, <1>4, <1>5, <1>6 DEF Queue!Join, Queue!Move, Where

LEMMA Withdraws ==
  ASSUME IInv, NEW c \in Keys, NEW p \in Speakers, Cancel(c, p)
  PROVE  (\E S \in SUBSET Task : Queue!Withdraw(S)) \/ UNCHANGED Queue!qvars
<1> DEFINE S == {t \in Task : /\ ConvOf[t] = c /\ SpeakerOf[t] = p
                             /\ status[t] \in Waiting}
<1>1. TypeOK /\ status \in [Task -> TaskStatus] /\ UNCHANGED outbox
  BY DEF IInv, TypeOK, Cancel, rowVars
<1>2. status' = [t \in Task |-> IF t \in S THEN "cancelled" ELSE status[t]]
  BY DEF Cancel
<1>3. \A u \in Task : Where(u)' = IF u \in S THEN "done" ELSE Where(u)
  BY <1>2 DEF Where, PlaceOf, Waiting, InFlight, Terminal
<1>4. S \subseteq Queue!In("waiting")
  BY <1>1, Members
<1>5. CASE S # {}
  <2>1. Queue!Withdraw(S)
    BY <1>1, <1>3, <1>4, <1>5 DEF Queue!Withdraw, Queue!Move, Where
  <2> QED
    BY <2>1
<1>6. CASE S = {}
  BY <1>1, <1>3, <1>6 DEF Queue!qvars, Where
<1> QED
  BY <1>5, <1>6

LEMMA Delivers ==
  ASSUME IInv, NEW t \in Task, Complete(t)
  PROVE  \E J \in SUBSET Queue!SameQueue(t) : Queue!Deliver(t, J)
<1> DEFINE J == {i \in Joined(t) : status[i] = "active"}
           st == [status EXCEPT ![t] = "succeeded"]
<1>1. /\ TypeOK /\ status \in [Task -> TaskStatus]
      /\ status[t] = "active" /\ ~ Steered(t)
  BY DEF IInv, TypeOK, Complete, SteeredShape
<1>2. \A i \in J : i \in Task /\ i # t /\ KeyOf[i] = KeyOf[t]
  BY <1>1 DEF IInv, SteeredShape, Joined, Steered
<1>3. status' = Settled(t, "succeeded", st)
  BY DEF Complete, Finish
<1>4. \A u \in Task : status'[u] = IF u \in J \cup {t} THEN "succeeded"
                                  ELSE status[u]
  <2>1. \A u \in Task : st[u] = IF u = t THEN "succeeded" ELSE status[u]
    BY <1>1
  <2> HIDE DEF st
  <2> QED
    BY <1>1, <1>2, <1>3, <2>1 DEF Settled, Joined, Terminal
<1>5. \A u \in Task : Where(u)' = IF u \in J \cup {t} THEN "done" ELSE Where(u)
  BY <1>4 DEF Where, PlaceOf, Waiting, InFlight, Terminal
<1>6. J \subseteq Queue!SameQueue(t) \cap Queue!In("serving")
  BY <1>1, <1>2, Members DEF Queue!SameQueue, InFlight
<1>7. t \in Queue!In("serving")
  BY <1>1, Members DEF InFlight
<1>8. Answered' = Answered \cup {t}
  BY DEF Complete, Answered
<1> HIDE DEF J
<1>9. Queue!Deliver(t, J)
  BY <1>5, <1>6, <1>7, <1>8 DEF Queue!Deliver, Queue!Move, Where, Answered
<1>10. J \in SUBSET Queue!SameQueue(t)
  BY <1>6
<1> QED
  BY <1>9, <1>10, Zenon DEF Queue!Deliver

LEMMA Undelivered ==
  ASSUME IInv, TypeOK', NEW t \in Task, EndTurn(t), ~ Complete(t)
  PROVE  Queue!QNext \/ UNCHANGED Queue!qvars
<1>1. PICK s \in TaskStatus :
        /\ Finish(t, s)
        /\ \/ s = status[t]
           \/ status[t] \in InFlight /\ s \in Terminal
           \/ status[t] \in InFlight /\ s = "retry_wait" /\ MayReturn(t)
  <2>1. status[t] \in TaskStatus
    BY DEF IInv, TypeOK
  <2> QED
    BY <2>1
    DEF EndTurn, CompleteUnheard, CompleteCancelled, Retry, CanRetry,
        DeadLetter, Fail, InFlightTo, MayReturn, TaskStatus, Terminal, Waiting
<1>2. Answered' = Answered
  <2>1. outbox' = outbox \/ outbox' = outbox \cup {<<t, "error">>}
    BY Zenon DEF EndTurn, CompleteUnheard, CompleteCancelled, Retry, DeadLetter,
                 Fail, rowVars
  <2> QED
    BY <2>1 DEF Answered
<1>3. ASSUME NEW u \in Task
      PROVE  \/ Where(u)' = Where(u)
             \/ /\ status[u] \in InFlight
                /\ \/ status'[u] \in Terminal
                   \/ status'[u] \in Waiting /\ MayReturn(u)
  <2> DEFINE st == [status EXCEPT ![t] = s]
  <2>1. status' = st \/ status' = Settled(t, s, st)
    BY <1>1, Zenon DEF Finish
  <2>2. st[u] = IF u = t THEN s ELSE status[u]
    BY DEF IInv, TypeOK
  <2> HIDE DEF st
  <2>3. \/ status'[u] = status[u]
        \/ u = t /\ status'[u] = s
        \/ status[u] = "active" /\ status'[u] \in Terminal
        \/ u = t /\ s = "active" /\ status'[u] = s
    BY <2>1, <2>2 DEF Settled, Terminal
  <2> QED
    BY <1>1, <2>3 DEF Where, InFlight, Waiting
<1> QED
  BY <1>2, <1>3, LeavingService

(* Every other step parks, releases, expires, settles or recovers tasks.   *)
LEMMA Leaves ==
  ASSUME IInv, TypeOK',
         \/ \E t \in Task :
              \/ TurnStarted(t) \/ FlushIdle(t) \/ AskRefused(t)
              \/ SteerAccepted(t) \/ SteerRejected(t) \/ SteerUncertain(t)
              \/ \E r \in Request : Ask(t, r)
              \/ \E o \in Outcome : TurnEnds(t, o)
         \/ \E r \in Request :
              \/ Lapse(r) \/ AnswerLate(r) \/ DriverTimeout(r)
              \/ \E d \in DOMAIN Verdict : Answer(r, d)
         \/ ExpirePending \/ Restart \/ UNCHANGED vars
  PROVE  Queue!QNext \/ UNCHANGED Queue!qvars
<1> DEFINE Leaving == \A u \in Task :
      \/ Where(u)' = Where(u)
      \/ /\ status[u] \in InFlight
         /\ \/ status'[u] \in Terminal
            \/ status'[u] \in Waiting /\ MayReturn(u)
<1> USE DEF InFlight, Waiting, Terminal
<1>1. status \in [Task -> TaskStatus]
  BY DEF IInv, TypeOK
<1>2. ASSUME NEW i \in Task, SteerRejected(i) \/ SteerUncertain(i)
      PROVE  Leaving /\ Answered' = Answered
  <2>1. steer[i] = "submitting" /\ status[i] = "active"
    BY <1>2 DEF SteerRejected, SteerUncertain, IInv, SteeredShape, Steered
  <2>2. PICK s \in {"queued", "dead_letter"} : status' = [status EXCEPT ![i] = s]
    BY <1>2, <2>1 DEF SteerRejected, SteerUncertain
  <2>3. Leaving
    BY <1>1, <2>1, <2>2 DEF Where, MayReturn
  <2>4. Answered' = Answered
    BY <1>2 DEF SteerRejected, SteerUncertain, rowVars, Answered
  <2> QED
    BY <2>3, <2>4
<1>3. ASSUME NEW t \in Task, NEW r \in Request, Ask(t, r)
      PROVE  Leaving /\ Answered' = Answered
  BY <1>1, <1>3 DEF Ask, Where, PlaceOf, rowVars, Answered
<1>4. ASSUME NEW r \in Request,
             AnswerLate(r) \/ \E d \in DOMAIN Verdict : Answer(r, d)
      PROVE  Leaving /\ Answered' = Answered
  <2>1. Leaving
    BY <1>4, AnswerStep DEF Where, PlaceOf
  <2>2. Answered' = Answered
    BY <1>4 DEF AnswerLate, Answer, rowVars, Answered
  <2> QED
    BY <2>1, <2>2
<1>5. ASSUME ExpirePending
      PROVE  Leaving /\ Answered' = Answered
  BY <1>5 DEF ExpirePending, Where, rowVars, Answered
<1>6. ASSUME Restart
      PROVE  Leaving /\ Answered' = Answered
  BY <1>6 DEF Restart, Recovered, InFlightTo, Where, MayReturn, rowVars, Answered
<1>7. ASSUME \/ \E t \in Task :
                  \/ TurnStarted(t) \/ FlushIdle(t) \/ AskRefused(t)
                  \/ SteerAccepted(t) \/ \E o \in Outcome : TurnEnds(t, o)
             \/ \E r \in Request : Lapse(r) \/ DriverTimeout(r)
             \/ UNCHANGED vars
      PROVE  Leaving /\ Answered' = Answered
  <2>1. UNCHANGED <<status, outbox>>
    BY <1>7 DEF TurnStarted, FlushIdle, AskRefused, SteerAccepted, TurnEnds,
                Lapse, DriverTimeout, vars, taskVars, rowVars
  <2> QED
    BY <2>1 DEF Where, Answered
<1> HIDE DEF Leaving
<1>8. Leaving /\ Answered' = Answered
  BY <1>2, <1>3, <1>4, <1>5, <1>6, <1>7, Zenon
<1> QED
  BY <1>8, LeavingService DEF Leaving

-----------------------------------------------------------------------------
(* The scheduler keeps the promise of module ConversationQueue, for any    *)
(* number of conversations, messages, requests and crashes.                *)
THEOREM Implements == Spec => ServesInOrder
<1>1. Init => Queue!QInit
  BY DEF Init, Queue!QInit, PlaceOf, Waiting, InFlight, Terminal
<1>2. ASSUME IInv, [Next]_vars
      PROVE  [Queue!QNext]_Queue!qvars
  <2>1. TypeOK'
    BY <1>2, TypeStep
  <2>2. ASSUME NEW t \in Task, Enqueue(t) PROVE Queue!QNext
    BY <1>2, <2>2, Submits DEF Queue!QNext
  <2>3. ASSUME NEW t \in Task, StartTurn(t) PROVE Queue!QNext
    BY <1>2, <2>3, Serves DEF Queue!QNext
  <2>4. ASSUME NEW t \in Task, RefuseTurn(t) PROVE Queue!QNext
    BY <1>2, <2>4, Refuses DEF Queue!QNext
  <2>5. ASSUME NEW t \in Task, NEW i \in Task, BeginSteer(t, i) PROVE Queue!QNext
    BY <1>2, <2>5, Joins DEF Queue!QNext
  <2>6. ASSUME NEW t \in Task, EndTurn(t)
        PROVE  Queue!QNext \/ UNCHANGED Queue!qvars
    <3>1. CASE Complete(t)
      BY <1>2, <3>1, Delivers DEF Queue!QNext
    <3>2. CASE ~ Complete(t)
      BY <1>2, <2>1, <2>6, <3>2, Undelivered
    <3> QED
      BY <3>1, <3>2
  <2>7. ASSUME NEW c \in Keys, NEW p \in Speakers, Cancel(c, p)
        PROVE  Queue!QNext \/ UNCHANGED Queue!qvars
    BY <1>2, <2>7, Withdraws DEF Queue!QNext
  <2> QED
    BY <1>2, <2>1, <2>2, <2>3, <2>4, <2>5, <2>6, <2>7, Leaves, Zenon DEF Next
<1> QED
  BY <1>1, <1>2, Inductive, PTL DEF Spec, ServesInOrder, Queue!QSpec
=============================================================================
