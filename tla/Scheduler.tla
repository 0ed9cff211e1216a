------------------------------ MODULE Scheduler ------------------------------
(***************************************************************************)
(* The conversation scheduler of IMGent: ConversationScheduler              *)
(* (src/queue/scheduler.ts) over the tasks, task_steers and approvals       *)
(* tables (src/storage/store.ts, src/approvals/service.ts).                 *)
(*                                                                         *)
(* A task is one durably ingested message or schedule run.  Tasks are      *)
(* numbered in the order (created_at, rowid) in which they were stored, so *)
(* t < u says that t was ingested before u.  JavaScript runs one callback  *)
(* at a time and every SQLite transaction is synchronous, so an action is  *)
(* what happens between two awaits that really wait: for a driver event, a *)
(* steer acknowledgment, a timer or a user command.                        *)
(***************************************************************************)
EXTENDS Integers, FiniteSets

CONSTANTS
  NumTasks,        \* how many messages and schedule runs arrive (bound)
  NumRequests,     \* how many approval requests the agents make (bound)
  MaxAttempts,     \* executions granted by handleDriverError: 3 in the code
  MaxConcurrency,  \* SchedulerOptions.maxConcurrency: 8 unless configured
  MaxRestarts,     \* how often the process crashes and restarts (bound)
  Keys,            \* execution and conversation keys
  Speakers,        \* principals
  KeyOf,           \* task -> execution_key, the FIFO it belongs to
  ConvOf,          \* task -> conversation_key, what a cancel addresses
  SpeakerOf,       \* task -> principal_id
  Scheduled,       \* tasks started by a schedule run
  Steerable        \* tasks of a profile that steers and a driver that can

Task == 1..NumTasks
Request == 1..NumRequests
None == 0

ASSUME SchedulerAssumption ==
  /\ NumTasks \in Nat
  /\ NumRequests \in Nat
  /\ MaxAttempts \in Nat \ {0}
  /\ MaxConcurrency \in Nat \ {0}
  /\ MaxRestarts \in Nat
  /\ KeyOf \in [Task -> Keys]
  /\ ConvOf \in [Task -> Keys]
  /\ SpeakerOf \in [Task -> Speakers]
  /\ Scheduled \subseteq Task
  /\ Steerable \subseteq Task \ Scheduled

VARIABLES
  \* table tasks
  status, attempt, dangerous,
  \* table task_steers: the state of an input's steer and the turn it joined
  steer, target,
  \* table approvals: status and task_id; overdue is expires_at <= now
  appr, owner, overdue,
  \* history: requests that were allowed when the turn that asked was over
  late,
  \* rows of outbound_messages, memory_outbox and dead_letters by task
  outbox, deadLetters,
  \* the scheduler's memory: the runTask in progress for a task, the turns
  \* whose SteeringTurn is closing, the flush loops that have work to look
  \* for, and the steeringTurns map
  turn, closing, flush, steering,
  \* the drivers' memory: the pending map, and what became of a cancel
  waiter, stopping,
  \* how many restarts have happened
  restarts

taskVars == <<status, attempt, dangerous>>
steerVars == <<steer, target>>
apprVars == <<appr, owner, late>>
rowVars == <<outbox, deadLetters>>
turnVars == <<turn, closing, flush, steering>>
vars == <<taskVars, steerVars, apprVars, overdue, rowVars, turnVars, waiter,
          stopping, restarts>>

-----------------------------------------------------------------------------
(* Vocabulary.                                                             *)

InFlight == {"active", "waiting_approval"}
Waiting == {"queued", "retry_wait"}
Terminal == {"succeeded", "cancelled", "failed", "dead_letter"}
TaskStatus == {"absent"} \cup Waiting \cup InFlight \cup Terminal
SteerState == {"none", "submitting", "accepted", "rejected", "uncertain"}
ApprovalStatus == {"absent", "pending", "allowed", "denied", "expired"}

(* How a turn ends for the scheduler: its driver reports success or a      *)
(* cancellation, or an error that is "transient" (retry strategy backoff,  *)
(* replay safe), "definite" (replay safe, not retried) or "unknown" (the   *)
(* replay is not known to be safe).                                        *)
Outcome == {"success", "cancelled", "transient", "definite", "unknown"}
TurnPhase == {"none", "starting", "running"} \cup Outcome

Live(t) == turn[t] \in {"starting", "running"}
Running == {t \in Task : turn[t] # "none"}

Submitting(t) == {i \in Task : steer[i] = "submitting" /\ target[i] = t}
Joined(t) == {i \in Task : steer[i] = "accepted" /\ target[i] = t}

TypeOK ==
  /\ status \in [Task -> TaskStatus]
  /\ attempt \in [Task -> Nat]
  /\ dangerous \in [Task -> BOOLEAN]
  /\ steer \in [Task -> SteerState]
  /\ target \in [Task -> Task \cup {None}]
  /\ appr \in [Request -> ApprovalStatus]
  /\ owner \in [Request -> Task \cup {None}]
  /\ overdue \subseteq Request
  /\ late \subseteq Request
  /\ outbox \subseteq Task \X {"final", "memory", "error", "steer-uncertain"}
  /\ deadLetters \subseteq Task \X {"unsafe-replay", "steer-uncertain"}
  /\ turn \in [Task -> TurnPhase]
  /\ closing \subseteq Task
  /\ flush \subseteq Task
  /\ steering \in [Keys -> Task \cup {None}]
  /\ waiter \in [Request -> {"none", "live", "stale"}]
  /\ stopping \in [Task -> {"no", "lost", "sent"}]
  /\ restarts \in 0..MaxRestarts

Init ==
  /\ status = [t \in Task |-> "absent"]
  /\ attempt = [t \in Task |-> 0]
  /\ dangerous = [t \in Task |-> FALSE]
  /\ steer = [t \in Task |-> "none"]
  /\ target = [t \in Task |-> None]
  /\ appr = [r \in Request |-> "absent"]
  /\ owner = [r \in Request |-> None]
  /\ overdue = {}
  /\ late = {}
  /\ outbox = {}
  /\ deadLetters = {}
  /\ turn = [t \in Task |-> "none"]
  /\ closing = {}
  /\ flush = {}
  /\ steering = [k \in Keys |-> None]
  /\ waiter = [r \in Request |-> "none"]
  /\ stopping = [t \in Task |-> "no"]
  /\ restarts = 0

-----------------------------------------------------------------------------
(* Ingestion, claiming and steering.                                       *)

(* Definitions whose name ends in a variant's word ("Busy", "Blind",        *)
(* "Unchecked", ...) are faulty versions of the definition that follows    *)
(* them; nothing refers to them, they show what the properties detect.     *)

(* nextQueuedFollowUp: i is the oldest waiting task of key k under st.     *)
IsNextFollowUp(i, k, st) ==
  /\ KeyOf[i] = k /\ st[i] \in Waiting
  /\ \A u \in Task : u < i /\ KeyOf[u] = k => st[u] \notin Waiting

SamePrompterBlind(t, i) == {t, i} \subseteq Steerable /\ KeyOf[i] = KeyOf[t]

(* canSteer: the part of the test that does not change while t runs, and   *)
(* the part that does.                                                     *)
SamePrompter(t, i) ==
  /\ {t, i} \subseteq Steerable
  /\ KeyOf[i] = KeyOf[t] /\ SpeakerOf[i] = SpeakerOf[t]

CanSteer(t, i, st) ==
  t \notin closing /\ SamePrompter(t, i) /\ st[i] = "queued"

(* A message is ingested in one transaction; onTaskQueued then wakes the   *)
(* flush loop of the turn registered for its key, when both the message    *)
(* and the head of the queue can be steered into that turn.                *)
Enqueue(t) ==
  /\ status[t] = "absent"
  /\ \A u \in Task : u < t => status[u] # "absent"
  /\ status' = [status EXCEPT ![t] = "queued"]
  /\ LET host == steering[KeyOf[t]] IN
       IF /\ host # None
          /\ turn[host] = "running"
          /\ CanSteer(host, t, status')
          /\ \E i \in Task : /\ IsNextFollowUp(i, KeyOf[t], status')
                             /\ CanSteer(host, i, status')
       THEN flush' = flush \cup {host}
       ELSE flush' = flush
  /\ UNCHANGED <<attempt, dangerous, steerVars, apprVars, overdue, rowVars,
                 turn, closing, steering, waiter, stopping, restarts>>

ClaimableBusy(t) ==
  /\ status[t] \in Waiting
  /\ \A u \in Task : KeyOf[u] = KeyOf[t] /\ u < t => status[u] \notin Waiting

(* The two NOT EXISTS of claimNextTask.                                    *)
Claimable(t) ==
  /\ status[t] \in Waiting
  /\ \A u \in Task : KeyOf[u] = KeyOf[t] =>
       /\ status[u] \notin InFlight
       /\ u < t => status[u] \notin Waiting

(* claimNextTask takes the oldest claimable row; a retry_wait row counts   *)
(* only once its delay has passed, which may be at any moment.             *)
Claimed(t) ==
  /\ Cardinality(Running) < MaxConcurrency
  /\ Claimable(t)
  /\ \A u \in Task : u < t /\ Claimable(u) => status[u] = "retry_wait"
  /\ attempt' = [attempt EXCEPT ![t] = @ + 1]

(* pump, runTask and the start of execute.                                 *)
StartTurn(t) ==
  /\ Claimed(t)
  /\ status' = [status EXCEPT ![t] = "active"]
  /\ turn' = [turn EXCEPT ![t] = "starting"]
  /\ steering' = [steering EXCEPT ![KeyOf[t]] = t]
  /\ UNCHANGED <<dangerous, steerVars, apprVars, overdue, rowVars, closing,
                 flush, waiter, stopping, restarts>>

(* execute refuses the task at once: its profile or driver is not          *)
(* configured (dead_letter), or its session belongs to another driver or   *)
(* workspace (failed).                                                     *)
RefuseTurn(t) ==
  /\ Claimed(t)
  /\ \/ /\ status' = [status EXCEPT ![t] = "dead_letter"]
        /\ steering' = steering
     \* the session is compared after steeringTurns.set: runTask deletes the entry
     \/ /\ status' = [status EXCEPT ![t] = "failed"]
        /\ steering' = [steering EXCEPT ![KeyOf[t]] = None]
  /\ outbox' = outbox \cup {<<t, "error">>}
  /\ UNCHANGED <<dangerous, steerVars, apprVars, overdue, deadLetters, turn,
                 closing, flush, waiter, stopping, restarts>>

(* Event turn-started: the turn can be steered from now on.                *)
TurnStarted(t) ==
  /\ turn[t] = "starting"
  /\ turn' = [turn EXCEPT ![t] = "running"]
  /\ flush' = flush \cup {t}
  /\ UNCHANGED <<taskVars, steerVars, apprVars, overdue, rowVars, closing,
                 steering, waiter, stopping, restarts>>

(* One iteration of the flush loop of t: beginSteer moves the head of the  *)
(* queue into the turn and marks both tasks before the driver is called.   *)
BeginSteer(t, i) ==
  /\ t \in flush /\ Submitting(t) = {}
  /\ IsNextFollowUp(i, KeyOf[t], status)
  /\ CanSteer(t, i, status)
  /\ status[t] \in InFlight
  /\ status' = [status EXCEPT ![i] = "active"]
  /\ attempt' = [attempt EXCEPT ![i] = @ + 1]
  /\ steer' = [steer EXCEPT ![i] = "submitting"]
  /\ target' = [target EXCEPT ![i] = t]
  /\ dangerous' = [dangerous EXCEPT ![i] = TRUE, ![t] = TRUE]
  /\ UNCHANGED <<apprVars, overdue, rowVars, turnVars, waiter, stopping,
                 restarts>>

(* The loop ends: nothing (more) can be steered into t.                    *)
FlushIdle(t) ==
  /\ t \in flush /\ Submitting(t) = {}
  /\ \/ status[t] \notin InFlight
     \/ ~ \E i \in Task : /\ IsNextFollowUp(i, KeyOf[t], status)
                          /\ CanSteer(t, i, status)
  /\ flush' = flush \ {t}
  /\ UNCHANGED <<taskVars, steerVars, apprVars, overdue, rowVars, turn,
                 closing, steering, waiter, stopping, restarts>>

(* steerTurn answers "accepted".                                           *)
SteerAccepted(i) ==
  /\ steer[i] = "submitting"
  /\ steer' = [steer EXCEPT ![i] = "accepted"]
  /\ UNCHANGED <<taskVars, target, apprVars, overdue, rowVars, turnVars,
                 waiter, stopping, restarts>>

(* steerTurn answers "not-active": the input returns to the queue and the  *)
(* turn takes no more.                                                     *)
SteerRejected(i) ==
  /\ steer[i] = "submitting"
  /\ steer' = [steer EXCEPT ![i] = "rejected"]
  /\ status' = [status EXCEPT ![i] = IF @ = "active" THEN "queued" ELSE @]
  /\ attempt' = [attempt EXCEPT ![i] = IF status[i] = "active" THEN @ - 1 ELSE @]
  /\ dangerous' = [dangerous EXCEPT ![i] = @ /\ status[i] # "active"]
  /\ closing' = closing \cup {target[i]}
  /\ flush' = flush \ {target[i]}
  /\ UNCHANGED <<target, apprVars, overdue, rowVars, turn, steering, waiter,
                 stopping, restarts>>

(* steerTurn throws: whether the agent took the input cannot be known.     *)
SteerUncertain(i) ==
  /\ steer[i] = "submitting"
  /\ steer' = [steer EXCEPT ![i] = "uncertain"]
  /\ status' = [status EXCEPT ![i] = IF @ = "active" THEN "dead_letter" ELSE @]
  /\ deadLetters' = deadLetters \cup {<<i, "steer-uncertain">>}
  /\ outbox' = outbox \cup {<<i, "steer-uncertain">>}
  /\ closing' = closing \cup {target[i]}
  /\ flush' = flush \ {target[i]}
  /\ UNCHANGED <<attempt, dangerous, target, apprVars, overdue, turn,
                 steering, waiter, stopping, restarts>>

-----------------------------------------------------------------------------
(* Approval requests and questions.                                        *)

(* The agent asks: ApprovalService.create stores the request and parks the *)
(* task in one transaction.  Request numbers are given in that order, so   *)
(* they also expire in that order.                                         *)
Ask(t, r) ==
  /\ Live(t) /\ status[t] = "active"
  /\ appr[r] = "absent"
  /\ \A q \in Request : q < r => appr[q] # "absent"
  /\ appr' = [appr EXCEPT ![r] = "pending"]
  /\ owner' = [owner EXCEPT ![r] = t]
  /\ waiter' = [waiter EXCEPT ![r] = "live"]
  /\ status' = [status EXCEPT ![t] = "waiting_approval"]
  /\ UNCHANGED <<attempt, dangerous, steerVars, overdue, late, rowVars, turnVars,
                 stopping, restarts>>

(* The same while the task is not active: create throws, and execute's     *)
(* catch interrupts the turn and gives it up as TASK_EXECUTION_FAILED.     *)
AskRefused(t) ==
  /\ Live(t) /\ status[t] # "active"
  /\ turn' = [turn EXCEPT ![t] = "unknown"]
  /\ closing' = closing \cup {t}
  /\ UNCHANGED <<taskVars, steerVars, apprVars, overdue, rowVars, flush,
                 steering, waiter, stopping, restarts>>

ResumeNot(r, s) == UNCHANGED status

(* transitionTask from waiting_approval for the owner of request r.        *)
Resume(r, s) ==
  status' = [status EXCEPT ![owner[r]] = IF @ = "waiting_approval" THEN s ELSE @]

(* Time passes the expires_at of r: every request lives equally long.      *)
Earlier(r) == {q \in Request : q < r}

Lapse(r) ==
  /\ appr[r] # "absent" /\ r \notin overdue /\ Earlier(r) \subseteq overdue
  /\ overdue' = overdue \cup {r}
  /\ UNCHANGED <<taskVars, steerVars, apprVars, rowVars, turnVars, waiter,
                 stopping, restarts>>

(* The principal answers a pending request in time (deliverAnswer): allow  *)
(* marks the task before the driver is told, then the driver accepts the   *)
(* answer if it still waits for it, and decide records it.  The request    *)
(* may expire between inspect and decide.                                  *)
Verdict == [allow |-> "allowed", answer |-> "allowed", deny |-> "denied"]

Answer(r, d) ==
  /\ appr[r] = "pending" /\ r \notin overdue
  /\ dangerous' = [dangerous EXCEPT ![owner[r]] = @ \/ d = "allow"]
  /\ late' = IF d = "allow" /\ waiter[r] # "live" THEN late \cup {r} ELSE late
  /\ \/ /\ waiter[r] = "none"       \* APPROVAL_NOT_FOUND: stays pending
        /\ UNCHANGED <<status, appr, waiter, overdue>>
     \/ /\ waiter[r] # "none"
        /\ waiter' = [waiter EXCEPT ![r] = "none"]
        /\ \/ /\ appr' = [appr EXCEPT ![r] = Verdict[d]]
              /\ Resume(r, "active")
              /\ UNCHANGED overdue
           \/ /\ Earlier(r) \subseteq overdue
              /\ overdue' = overdue \cup {r}
              /\ appr' = [appr EXCEPT ![r] = "expired"]
              /\ Resume(r, "failed")
  /\ UNCHANGED <<attempt, steerVars, owner, rowVars, turnVars, stopping,
                 restarts>>

(* An answer that comes after expires_at only expires the request.         *)
AnswerLate(r) ==
  /\ appr[r] = "pending" /\ r \in overdue
  /\ appr' = [appr EXCEPT ![r] = "expired"]
  /\ Resume(r, "failed")
  /\ UNCHANGED <<attempt, dangerous, steerVars, owner, overdue, late, rowVars,
                 turnVars, waiter, stopping, restarts>>

(* The driver's own timer: it tells the agent "denied" and forgets r.      *)
DriverTimeout(r) ==
  /\ r \in overdue /\ waiter[r] # "none"
  /\ waiter' = [waiter EXCEPT ![r] = "none"]
  /\ UNCHANGED <<taskVars, steerVars, apprVars, overdue, rowVars, turnVars,
                 stopping, restarts>>

ExpiredUnchecked == overdue
ExpiredIfAsked == {r \in overdue : appr[r] = "pending" /\ waiter[r] # "none"}
OrphansAll(ap) == {t \in Task : status[t] = "waiting_approval"}

(* expirePending, run by the maintenance timer: expired requests fail the  *)
(* tasks that wait for them, and so do waits without any pending request.  *)
Expired == {r \in Request : appr[r] = "pending" /\ r \in overdue}

Orphans(ap) ==
  {t \in Task : /\ status[t] = "waiting_approval"
                /\ ~ \E r \in Request : owner[r] = t /\ ap[r] = "pending"}

ExpirePending ==
  /\ Expired # {} \/ Orphans(appr) # {}
  /\ appr' = [r \in Request |-> IF r \in Expired THEN "expired" ELSE appr[r]]
  /\ status' = [t \in Task |->
                  IF /\ status[t] = "waiting_approval"
                     /\ \/ \E r \in Expired : owner[r] = t
                        \/ t \in Orphans(appr')
                  THEN "failed" ELSE status[t]]
  /\ UNCHANGED <<attempt, dangerous, steerVars, owner, overdue, late, rowVars,
                 turnVars, waiter, stopping, restarts>>

-----------------------------------------------------------------------------
(* The end of a turn.                                                      *)

(* The driver's event stream ends with outcome o.  An agent that waits for *)
(* an answer does not complete, a driver that steers reports the start of  *)
(* a turn before its success, and a turn that was not interrupted is not   *)
(* cancelled.                                                              *)
TurnEnds(t, o) ==
  /\ Live(t)
  /\ o = "success" =>
       /\ \A r \in Request : ~ (owner[r] = t /\ waiter[r] = "live")
       /\ t \in Steerable => turn[t] = "running"
  /\ o = "cancelled" => stopping[t] = "sent"
  /\ turn' = [turn EXCEPT ![t] = o]
  /\ closing' = closing \cup {t}
  /\ UNCHANGED <<taskVars, steerVars, apprVars, overdue, rowVars, flush,
                 steering, waiter, stopping, restarts>>

SettledAlone(t, s, st) == st

(* settleSteeredInputs: the accepted inputs of t share its terminal state. *)
Settled(t, s, st) ==
  [i \in Task |-> IF s \in Terminal /\ i \in Joined(t) /\ st[i] = "active"
                  THEN s ELSE st[i]]

(* Steer acknowledgments are awaited first; then execute moves t to s and  *)
(* the finally of runTask settles and deregisters, but only the turn that  *)
(* steeringTurns holds.  completeTaskWithOutbound settles by itself.       *)
Finish(t, s) ==
  /\ Submitting(t) = {}
  /\ LET registered == steering[KeyOf[t]] = t
         st == [status EXCEPT ![t] = s]
     IN /\ status' = IF registered \/ s = "succeeded" THEN Settled(t, s, st) ELSE st
        /\ steering' = IF registered
                       THEN [steering EXCEPT ![KeyOf[t]] = None] ELSE steering
  /\ turn' = [turn EXCEPT ![t] = "none"]
  /\ closing' = closing \ {t}
  /\ flush' = flush \ {t}
  /\ stopping' = [stopping EXCEPT ![t] = "no"]
  /\ waiter' = [r \in Request |-> IF owner[r] = t /\ waiter[r] = "live"
                                  THEN "stale" ELSE waiter[r]]
  /\ UNCHANGED <<attempt, dangerous, steerVars, apprVars, overdue, restarts>>

InFlightToUnchecked(t, s) == s

(* transitionTask from active or waiting_approval.                         *)
InFlightTo(t, s) == IF status[t] \in InFlight THEN s ELSE status[t]

Complete(t) ==
  /\ turn[t] = "success" /\ status[t] = "active"
  /\ Finish(t, "succeeded")
  /\ outbox' = outbox \cup {<<t, "final">>}
                     \cup (IF t \in Scheduled THEN {} ELSE {<<t, "memory">>})
  /\ UNCHANGED deadLetters

(* The task is not active any more: completeTaskWithOutbound changes       *)
(* nothing and the answer is dropped.                                      *)
CompleteUnheard(t) ==
  /\ turn[t] = "success" /\ status[t] # "active"
  /\ Finish(t, status[t])
  /\ UNCHANGED rowVars

CompleteCancelled(t) ==
  /\ turn[t] = "cancelled"
  /\ Finish(t, InFlightTo(t, "cancelled"))
  /\ UNCHANGED rowVars

(* handleDriverError: retry, dead-letter or fail.                          *)
Errored(t) == turn[t] \in {"transient", "definite", "unknown"}

CanRetry(t) ==
  turn[t] = "transient" /\ ~dangerous[t] /\ attempt[t] < MaxAttempts

Unsafe(t) == turn[t] = "unknown" \/ dangerous[t]

Retry(t) ==
  /\ Errored(t) /\ CanRetry(t)
  /\ Finish(t, InFlightTo(t, "retry_wait"))
  /\ UNCHANGED rowVars

DeadLetter(t) ==
  /\ Errored(t) /\ ~CanRetry(t) /\ Unsafe(t)
  /\ Finish(t, InFlightTo(t, "dead_letter"))
  /\ deadLetters' = deadLetters \cup {<<t, "unsafe-replay">>}
  /\ outbox' = outbox \cup {<<t, "error">>}

Fail(t) ==
  /\ Errored(t) /\ ~CanRetry(t) /\ ~Unsafe(t)
  /\ Finish(t, InFlightTo(t, "failed"))
  /\ outbox' = outbox \cup {<<t, "error">>}
  /\ UNCHANGED deadLetters

EndTurn(t) ==
  \/ Complete(t) \/ CompleteUnheard(t) \/ CompleteCancelled(t)
  \/ Retry(t) \/ DeadLetter(t) \/ Fail(t)

-----------------------------------------------------------------------------
(* Cancellation and restarts.                                              *)

(* /imgent cancel in conversation c by principal p: waiting tasks are      *)
(* cancelled in the transaction and the drivers of the others are asked to *)
(* interrupt.  Codex, the driver that steers, ignores that until the       *)
(* vendor has named the turn ("lost"), Claude Code never does.             *)
Cancel(c, p) ==
  LET mine == {t \in Task : ConvOf[t] = c /\ SpeakerOf[t] = p}
      open == {t \in mine : status[t] \in Waiting}
      busy == {t \in mine : status[t] \in InFlight /\ Live(t)}
  IN /\ open # {} \/ \E t \in busy : stopping[t] # "sent"
     /\ status' = [t \in Task |-> IF t \in open THEN "cancelled" ELSE status[t]]
     /\ \E early \in SUBSET ({t \in busy : turn[t] = "starting"} \ Steerable) :
          stopping' = [t \in Task |->
                         IF t \notin busy \/ stopping[t] = "sent" THEN stopping[t]
                         ELSE IF turn[t] = "starting" /\ t \notin early THEN "lost"
                         ELSE "sent"]
     /\ UNCHANGED <<attempt, dangerous, steerVars, apprVars, overdue, rowVars,
                    turnVars, waiter, restarts>>

RecoveredAll(t) ==
  IF status[t] = "active" THEN "retry_wait" ELSE InFlightTo(t, "dead_letter")

(* A task in flight is given back if it is not marked, and else given up.  *)
Recovered(t) ==
  IF status[t] = "active" /\ ~dangerous[t] THEN "retry_wait"
  ELSE InFlightTo(t, "dead_letter")

(* The process dies and a new one calls recoverAfterRestart.               *)
Restart ==
  /\ restarts < MaxRestarts
  /\ restarts' = restarts + 1
  /\ appr' = [r \in Request |->
                IF appr[r] = "pending" /\ status[owner[r]] = "waiting_approval"
                THEN "expired" ELSE appr[r]]
  /\ steer' = [i \in Task |->
                 IF steer[i] = "submitting" THEN "uncertain" ELSE steer[i]]
  /\ status' = [t \in Task |-> Recovered(t)]
  /\ turn' = [t \in Task |-> "none"]
  /\ closing' = {}
  /\ flush' = {}
  /\ steering' = [k \in Keys |-> None]
  /\ waiter' = [r \in Request |-> "none"]
  /\ stopping' = [t \in Task |-> "no"]
  /\ UNCHANGED <<attempt, dangerous, target, owner, overdue, late, rowVars>>

-----------------------------------------------------------------------------
Next ==
  \/ \E t \in Task :
       \/ Enqueue(t) \/ StartTurn(t) \/ RefuseTurn(t) \/ TurnStarted(t)
       \/ FlushIdle(t) \/ EndTurn(t) \/ AskRefused(t)
       \/ SteerAccepted(t) \/ SteerRejected(t) \/ SteerUncertain(t)
       \/ \E i \in Task : BeginSteer(t, i)
       \/ \E r \in Request : Ask(t, r)
       \/ \E o \in Outcome : TurnEnds(t, o)
  \/ \E r \in Request :
       \/ Lapse(r) \/ AnswerLate(r) \/ DriverTimeout(r)
       \/ \E d \in DOMAIN Verdict : Answer(r, d)
  \/ ExpirePending
  \/ \E c \in Keys, p \in Speakers : Cancel(c, p)
  \/ Restart

Spec == Init /\ [][Next]_vars

-----------------------------------------------------------------------------
(* Safety.                                                                 *)

(* A parked task can always be released: whatever mixture of answers,      *)
(* expiry, retries and restarts happened, a task in waiting_approval has a *)
(* request of its own that is still pending.                               *)
WaitingHasPending ==
  \A t \in Task : status[t] = "waiting_approval" =>
    \E r \in Request : owner[r] = t /\ appr[r] = "pending"

(* The tasks table serves one turn of a key at a time: of two tasks of one *)
(* key in flight, at least one is an input steered into another turn.      *)
Steered(t) == steer[t] \in {"submitting", "accepted"}

OneRootPerKey ==
  \A t, u \in Task :
    /\ t # u /\ KeyOf[t] = KeyOf[u]
    /\ {status[t], status[u]} \subseteq InFlight
    => Steered(t) \/ Steered(u)

(* Turns of one key overlap in only one way: the task of one of them has   *)
(* already been failed because a request of it expired.                    *)
OverlapOnlyAfterExpiry ==
  \A t, u \in Task :
    /\ t # u /\ KeyOf[t] = KeyOf[u] /\ {t, u} \subseteq Running
    => \E x \in {t, u} : /\ status[x] = "failed"
                         /\ \E r \in Request : owner[r] = x /\ appr[r] = "expired"

(* FIFO with retries at the head: while a task waits, first or again, no   *)
(* later task of its key has been started, and if one left the queue it    *)
(* was cancelled.                                                          *)
NoOvertaking ==
  \A t, u \in Task :
    /\ t < u /\ KeyOf[t] = KeyOf[u] /\ status[t] \in Waiting
    => /\ status[u] \in {"absent", "queued", "cancelled"}
       /\ attempt[u] = 0

(* Nothing that may have had effects runs again by itself: a task that a   *)
(* request was allowed for while its agent still waited never waits again, *)
(* for the only marked task that does was marked by an answer that came    *)
(* after the attempt that asked; and an input that an agent has or may     *)
(* have taken never waits again, nor does the turn it was steered into.    *)
NoUnsafeReplay ==
  \A t \in Task :
    /\ status[t] \in Waiting /\ dangerous[t] => \E r \in late : owner[r] = t
    /\ steer[t] \in {"submitting", "accepted", "uncertain"} =>
         status[t] \notin Waiting /\ status[target[t]] \notin Waiting

(* One final answer for a turn and everything steered into it: it exists   *)
(* exactly when the turn's own task succeeded, an accepted input succeeds  *)
(* only together with that task, and none is left behind by its success.   *)
OneFinalAnswer ==
  \A t \in Task :
    /\ <<t, "final">> \in outbox <=> status[t] = "succeeded" /\ steer[t] # "accepted"
    /\ steer[t] = "accepted" =>
         (status[t] = "succeeded" <=> status[target[t]] = "succeeded")

(* What became of a task is decided once: no late answer, expiry, settled  *)
(* steer, end of turn or recovery moves a task out of a terminal state.    *)
TerminalIsFinal ==
  [][\A t \in Task : status[t] \in Terminal => status'[t] = status[t]]_status

(* A request is decided once, and a decision is never undone by recovery.  *)
DecidedOnce ==
  [][\A r \in Request :
       appr[r] \notin {"absent", "pending"} => appr'[r] = appr[r]]_appr

-----------------------------------------------------------------------------
(* The inductive invariant behind NoOvertaking and OneRootPerKey.          *)

(* Messages are stored in the order of their numbers, and one that is not  *)
(* stored yet has no history.                                              *)
AbsentIsFresh ==
  \A t \in Task : status[t] = "absent" =>
    /\ attempt[t] = 0
    /\ \A u \in Task : t < u => status[u] = "absent"

(* A task with a turn has left the queue; only turns are being flushed.    *)
TurnsHaveStarted ==
  \A t \in Task :
    /\ turn[t] # "none" => status[t] \notin Waiting \cup {"absent"}
    /\ t \in flush => turn[t] # "none"

(* A steered input has no turn of its own but is in one of its key, is     *)
(* marked, and is active or settled; while its steer is being submitted it *)
(* is active.                                                              *)
SteeredShape ==
  \A i \in Task : Steered(i) =>
    /\ turn[i] = "none" /\ dangerous[i]
    /\ target[i] # None /\ KeyOf[target[i]] = KeyOf[i]
    /\ status[i] \in {"active"} \cup Terminal
    /\ steer[i] = "submitting" => status[i] = "active" /\ attempt[i] >= 1

(* The task of a key that is in flight and not steered, if any, is the     *)
(* only one, and it is the turn that inputs are being submitted to.        *)
OneRoot ==
  \A t, u \in Task :
    /\ t # u /\ KeyOf[t] = KeyOf[u]
    /\ status[t] \in InFlight /\ ~Steered(t)
    => /\ status[u] \in InFlight => Steered(u)
       /\ steer[u] = "submitting" => target[u] = t

(* A task that waits, or may yet return to the queue, is ahead of          *)
(* everything in its key that has been started.                            *)
MayReturn(t) ==
  \/ status[t] \in Waiting
  \/ status[t] \in InFlight /\ ~dangerous[t]
  \/ steer[t] = "submitting"

ReturnsInOrder ==
  \A t, u \in Task :
    t < u /\ KeyOf[t] = KeyOf[u] /\ MayReturn(t) =>
      status[u] \in {"absent", "queued", "cancelled"} /\ attempt[u] = 0

IInv == /\ TypeOK /\ AbsentIsFresh /\ TurnsHaveStarted /\ SteeredShape
        /\ OneRoot /\ ReturnsInOrder

-----------------------------------------------------------------------------
(* The promise to the people in a conversation.                            *)

PlaceOf(s) ==
  IF s \in Waiting THEN "waiting"
  ELSE IF s \in InFlight THEN "serving"
  ELSE IF s \in Terminal THEN "done" ELSE "absent"

Queue == INSTANCE ConversationQueue WITH
  Joinable <- Steerable,
  place <- [t \in Task |-> PlaceOf(status[t])],
  answered <- {t \in Task : <<t, "final">> \in outbox}

(* The scheduler serves every conversation in order, joins only messages   *)
(* of one speaker and answers each served message at most once.            *)
ServesInOrder == Queue!QSpec

-----------------------------------------------------------------------------
(* Liveness.                                                               *)

(* An agent that does not wait for an answer ends its turn.                *)
AgentEnds(t) ==
  /\ \A r \in Request : ~ (owner[r] = t /\ waiter[r] = "live")
  /\ \E o \in Outcome : TurnEnds(t, o)

(* The 100 ms pump, the promise chain of a turn, the 30 s timeout of a     *)
(* steer call, the 15 min timer of a request, the 60 s maintenance timer   *)
(* and the passing of time; nothing is assumed of the users.               *)
Fairness ==
  /\ WF_vars(\E t \in Task : StartTurn(t))
  /\ \A t \in Task :
       /\ WF_vars(AgentEnds(t))
       /\ WF_vars(EndTurn(t))
       /\ WF_vars(SteerAccepted(t) \/ SteerRejected(t) \/ SteerUncertain(t))
  /\ \A r \in Request : WF_vars(Lapse(r)) /\ WF_vars(DriverTimeout(r))
  /\ WF_vars(ExpirePending)

FairSpec == Spec /\ Fairness

(* An input of key k is stranded: the turn that took it has ended while    *)
(* the task of the turn waited for an answer, so the end did not settle    *)
(* the two; when the request expires, only the task of the turn is failed. *)
StrandedIn(i, k) ==
  /\ KeyOf[i] = k /\ steer[i] = "accepted" /\ status[i] = "active"
  /\ turn[target[i]] = "none"
  /\ \E r \in Request : owner[r] = target[i] /\ appr[r] \in {"pending", "expired"}

(* Every stored message is eventually settled, although its agent may take *)
(* others in, stop and ask, nobody may answer, and the process may crash;  *)
(* unless an input is stranded in its conversation, which it then blocks   *)
(* until a restart.                                                        *)
EveryTaskSettles ==
  \A t \in Task :
    status[t] # "absent" ~>
      status[t] \in Terminal \/ \E i \in Task : StrandedIn(i, KeyOf[t])
=============================================================================
