-------------------------- MODULE OutboundDispatcher --------------------------
(***************************************************************************)
(* OutboundDispatcher of IMGent (src/runtime/outbound.ts) over the table   *)
(* outbound_messages: every answer, approval request, error and schedule   *)
(* notice is stored first and sent by a drain.  Drains are started by      *)
(* every enqueue and by the maintenance timer, and run concurrently: each  *)
(* reads the due rows once and then sends them one after the other,        *)
(* awaiting the platform between them.  Between two answers of a platform  *)
(* the event loop runs nothing else: a drain that has read its rows, or    *)
(* been answered, goes on to its next send or to its end.                  *)
(*                                                                         *)
(* Messages are numbered in the order of created_at.                       *)
(***************************************************************************)
EXTENDS Integers, FiniteSets

CONSTANTS
  NumMessages,   \* how many messages are enqueued (bound)
  Drain,         \* drains that may run at the same time (bound)
  MaxAttempts,   \* sends of one row: 3 in the code
  BatchSize,     \* rows read by one drain: LIMIT 100 in the code
  Unconnected,   \* messages whose bot has no adapter
  Unreadable,    \* messages whose stored payload or reply context is damaged
  MaxCrashes     \* how often the process crashes and restarts (bound)

Message == 1..NumMessages
None == 0

ASSUME OutboundAssumption ==
  /\ NumMessages \in Nat
  /\ MaxAttempts \in Nat \ {0}
  /\ BatchSize \in Nat \ {0}
  /\ Unconnected \subseteq Message
  /\ Unreadable \subseteq Message
  /\ MaxCrashes \in Nat

VARIABLES
  \* table outbound_messages: status, attempt, and next_attempt_at <= now
  status, attempt, due,
  \* rows of dead_letters for a message
  deadRows,
  \* the drains: rows read and not looked at yet, and the row being sent
  batch, sending,
  \* the drain, if there is one, that goes on to its next send
  running,
  \* the platform: copies of a message it has taken, and how many of them
  \* the process has not been told of
  copies, unheard,
  crashes

rowVars == <<status, attempt, due, deadRows>>
drainVars == <<batch, sending, running>>
platformVars == <<copies, unheard>>
vars == <<rowVars, drainVars, platformVars, crashes>>

Sendable == {"pending", "retry_wait"}
Settled == {"sent", "dead_letter"}
Idle == {d \in Drain : batch[d] = {} /\ sending[d] = None}

TypeOK ==
  /\ status \in [Message -> {"absent", "sending"} \cup Sendable \cup Settled]
  /\ attempt \in [Message -> Nat]
  /\ due \subseteq Message
  /\ deadRows \in [Message -> Nat]
  /\ batch \in [Drain -> SUBSET Message]
  /\ sending \in [Drain -> Message \cup {None}]
  /\ running \subseteq Drain
  /\ copies \in [Message -> Nat]
  /\ unheard \in [Message -> Nat]
  /\ crashes \in 0..MaxCrashes

Init ==
  /\ status = [m \in Message |-> "absent"]
  /\ attempt = [m \in Message |-> 0]
  /\ due = {}
  /\ deadRows = [m \in Message |-> 0]
  /\ batch = [d \in Drain |-> {}]
  /\ sending = [d \in Drain |-> None]
  /\ running = {}
  /\ copies = [m \in Message |-> 0]
  /\ unheard = [m \in Message |-> 0]
  /\ crashes = 0

-----------------------------------------------------------------------------
(* The query at the head of drain: the oldest BatchSize of the due rows    *)
(* that have attempts left.  CanSendAlways and FinalLate below are faulty   *)
(* versions of what follows them; nothing refers to them, they show what    *)
(* the properties detect.                                                  *)
DueRows(st, dueNow) ==
  {m \in dueNow : st[m] \in Sendable /\ attempt[m] < MaxAttempts}

Oldest(S) == {m \in S : Cardinality({u \in S : u < m}) < BatchSize}

(* Drain d goes on with its batch, or is done.                             *)
GoOn(d) == running' = IF batch'[d] = {} THEN {} ELSE {d}

Read(d, rows) == batch' = [batch EXCEPT ![d] = rows] /\ GoOn(d)

(* enqueueOutbound and the drain that every caller starts with it.         *)
Enqueue(m, d) ==
  /\ running = {}
  /\ status[m] = "absent" /\ d \in Idle
  /\ \A u \in Message : u < m => status[u] # "absent"
  /\ status' = [status EXCEPT ![m] = "pending"]
  /\ due' = due \cup {m}
  /\ Read(d, Oldest(DueRows(status', due')))
  /\ UNCHANGED <<attempt, deadRows, sending, platformVars, crashes>>

(* A drain of the maintenance timer.                                       *)
BeginDrain(d) ==
  /\ running = {}
  /\ d \in Idle
  /\ DueRows(status, due) # {}
  /\ Read(d, Oldest(DueRows(status, due)))
  /\ UNCHANGED <<rowVars, sending, platformVars, crashes>>

(* Drain d looks at row m next.                                            *)
AtHead(d, m) ==
  /\ running \subseteq {d}
  /\ sending[d] = None
  /\ m \in batch[d] /\ \A u \in batch[d] : m <= u

DropHead(d, m) == batch' = [batch EXCEPT ![d] = @ \ {m}]

(* The compare-and-set of dispatch.                                        *)
CanSendAlways(m) == status[m] # "sent"

CanSend(m) == status[m] \in Sendable

Claim(d, m) ==
  /\ AtHead(d, m) /\ m \notin Unconnected \cup Unreadable
  /\ CanSend(m)
  /\ DropHead(d, m)
  /\ running' = {}
  /\ sending' = [sending EXCEPT ![d] = m]
  /\ status' = [status EXCEPT ![m] = "sending"]
  /\ attempt' = [attempt EXCEPT ![m] = @ + 1]
  /\ UNCHANGED <<due, deadRows, platformVars, crashes>>

(* The row is claimed and cannot be decoded or decrypted.  The exception    *)
(* is thrown ahead of the try block of dispatch, and drain, which takes it   *)
(* for a failure that is on record, goes on: the row stays "sending".       *)
Choke(d, m) ==
  /\ AtHead(d, m) /\ m \in Unreadable \ Unconnected
  /\ CanSend(m)
  /\ DropHead(d, m) /\ GoOn(d)
  /\ status' = [status EXCEPT ![m] = "sending"]
  /\ attempt' = [attempt EXCEPT ![m] = @ + 1]
  /\ UNCHANGED <<due, deadRows, sending, platformVars, crashes>>

(* Another drain has it, or has settled it.                                *)
Skip(d, m) ==
  /\ AtHead(d, m) /\ m \notin Unconnected
  /\ ~ CanSend(m)
  /\ DropHead(d, m) /\ GoOn(d)
  /\ UNCHANGED <<rowVars, sending, platformVars, crashes>>

(* The bot of the message has no adapter: whatever the row's status is by  *)
(* now.                                                                    *)
GiveUp(d, m) ==
  /\ AtHead(d, m) /\ m \in Unconnected
  /\ DropHead(d, m) /\ GoOn(d)
  /\ status' = [status EXCEPT ![m] = "dead_letter"]
  /\ deadRows' = [deadRows EXCEPT ![m] = @ + 1]
  /\ UNCHANGED <<attempt, due, sending, platformVars, crashes>>

(* The platform confirms the message.                                      *)
Sent(d, m) ==
  /\ running = {} /\ sending[d] = m /\ m # None
  /\ sending' = [sending EXCEPT ![d] = None]
  /\ status' = [status EXCEPT ![m] = "sent"]
  /\ due' = due \cup {m}
  /\ copies' = [copies EXCEPT ![m] = @ + 1]
  /\ batch' = batch /\ GoOn(d)
  /\ UNCHANGED <<attempt, deadRows, unheard, crashes>>

(* adapter.send throws, with an error that may be retried or not.  The     *)
(* platform may have taken the message all the same.                       *)
FinalLate(m, retryable) == attempt[m] > MaxAttempts \/ ~retryable

Final(m, retryable) == attempt[m] >= MaxAttempts \/ ~retryable

Failed(d, m, retryable, taken) ==
  /\ running = {} /\ sending[d] = m /\ m # None
  /\ sending' = [sending EXCEPT ![d] = None]
  /\ \/ /\ Final(m, retryable)
        /\ status' = [status EXCEPT ![m] = "dead_letter"]
        /\ due' = due \cup {m}
        /\ deadRows' = [deadRows EXCEPT ![m] = @ + 1]
     \/ /\ ~Final(m, retryable)
        /\ status' = [status EXCEPT ![m] = "retry_wait"]
        /\ due' = due \ {m}
        /\ UNCHANGED deadRows
  /\ copies' = [copies EXCEPT ![m] = IF taken THEN @ + 1 ELSE @]
  /\ unheard' = [unheard EXCEPT ![m] = IF taken THEN @ + 1 ELSE @]
  /\ batch' = batch /\ GoOn(d)
  /\ UNCHANGED <<attempt, crashes>>

(* The delay of a retry passes: 1 s, 5 s, or what the platform asked for.  *)
Elapse(m) ==
  /\ status[m] = "retry_wait" /\ m \notin due
  /\ due' = due \cup {m}
  /\ UNCHANGED <<status, attempt, deadRows, drainVars, platformVars, crashes>>

(* The process dies, perhaps after a platform took what was being sent;    *)
(* the constructor of the next one makes sending rows due again.           *)
Crash ==
  LET open == {m \in Message : status[m] = "sending"} IN
    /\ crashes < MaxCrashes
    /\ crashes' = crashes + 1
    /\ status' = [m \in Message |-> IF m \in open THEN "retry_wait" ELSE status[m]]
    /\ due' = due \cup open
    /\ batch' = [d \in Drain |-> {}]
    /\ sending' = [d \in Drain |-> None]
    /\ running' = {}
    /\ \E taken \in SUBSET (open \ Unreadable) :
         /\ copies' = [m \in Message |-> IF m \in taken THEN copies[m] + 1
                                         ELSE copies[m]]
         /\ unheard' = [m \in Message |-> IF m \in taken THEN unheard[m] + 1
                                          ELSE unheard[m]]
    /\ UNCHANGED <<attempt, deadRows>>

Next ==
  \/ \E d \in Drain :
       \/ BeginDrain(d)
       \/ \E m \in Message :
            \/ Enqueue(m, d) \/ Claim(d, m) \/ Choke(d, m) \/ Skip(d, m)
            \/ GiveUp(d, m) \/ Sent(d, m)
            \/ \E retryable, taken \in BOOLEAN : Failed(d, m, retryable, taken)
  \/ \E m \in Message : Elapse(m)
  \/ Crash

Spec == Init /\ [][Next]_vars

-----------------------------------------------------------------------------
(* However many drains hold a row in their stale batches, one at a time    *)
(* sends it, and a row is marked "sending" exactly while one does, or when *)
(* it could not be read.                                                   *)
OneSender ==
  /\ \A d, e \in Drain : sending[d] = sending[e] /\ sending[d] # None => d = e
  /\ \A d \in Drain : sending[d] \notin Unreadable
  /\ \A m \in Message \ Unreadable :
       status[m] = "sending" <=> \E d \in Drain : sending[d] = m

(* A row is sent at most MaxAttempts times, crashes and stale batches      *)
(* included.                                                               *)
AttemptsBounded == \A m \in Message : attempt[m] <= MaxAttempts

(* The platform gets a second copy only if the process could not know of   *)
(* the first, and the message counts as sent only if it was confirmed.     *)
DuplicatesExplained ==
  \A m \in Message :
    copies[m] = unheard[m] + (IF status[m] = "sent" THEN 1 ELSE 0)

(* A message that is given up leaves a dead letter, one that is not given  *)
(* up leaves none, and none leaves two unless its bot has no adapter.      *)
DeadLetterKept ==
  \A m \in Message :
    /\ status[m] = "dead_letter" <=> deadRows[m] > 0
    /\ m \notin Unconnected => deadRows[m] <= 1

(* What became of a message is not changed by a drain that read the row    *)
(* earlier, nor by a restart.                                              *)
SettledIsFinal ==
  [][\A m \in Message : status[m] \in Settled => status'[m] = status[m]]_status

(* A row in a batch is stored, and has attempts left as long as it may     *)
(* still be claimed.                                                       *)
BatchHasAttempts ==
  \A d \in Drain : \A m \in batch[d] :
    /\ status[m] # "absent"
    /\ status[m] \in Sendable => attempt[m] < MaxAttempts

(* The inductive invariant behind OneSender and AttemptsBounded: GiveUp    *)
(* settles a row without looking at it, so nobody may send it or have sent *)
(* it.                                                                     *)
IInv ==
  /\ TypeOK
  /\ OneSender
  /\ AttemptsBounded
  /\ BatchHasAttempts
  /\ \A m \in Unconnected : status[m] \notin {"sending", "sent"}

-----------------------------------------------------------------------------
(* Time passes, the maintenance timer fires, a drain goes on, and a call   *)
(* to the platform ends.                                                   *)
Step(d) ==
  \E m \in Message :
    \/ Claim(d, m) \/ Choke(d, m) \/ Skip(d, m) \/ GiveUp(d, m) \/ Sent(d, m)
    \/ \E retryable, taken \in BOOLEAN : Failed(d, m, retryable, taken)

Fairness ==
  /\ WF_vars(\E d \in Drain : BeginDrain(d))
  /\ \A d \in Drain : WF_vars(Step(d))
  /\ \A m \in Message : WF_vars(Elapse(m))

FairSpec == Spec /\ Fairness

(* Every stored message that can be read is sent or given up, whatever the *)
(* batch size and whatever cannot be read before it, unless a crash        *)
(* interrupted its last attempt.                                           *)
EveryMessageSettles ==
  \A m \in Message \ Unreadable :
    status[m] = "pending" ~>
      status[m] \in Settled \/ (crashes > 0 /\ attempt[m] = MaxAttempts)
=============================================================================
