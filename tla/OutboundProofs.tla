---------------------------- MODULE OutboundProofs ----------------------------
(***************************************************************************)
(* What OutboundDispatcher guarantees for any number of messages, drains,  *)
(* attempts and crashes: one sender at a time, bounded attempts, outcomes  *)
(* that are final, and an account of duplicates and dead letters.          *)
(***************************************************************************)
EXTENDS OutboundDispatcher, TLAPS

USE DEF Sendable, Settled

(* 0 names no message.                                                     *)
LEMMA NoneIsNoMessage == None \notin Message
  BY DEF None, Message

(* The initial state satisfies the inductive invariant.                    *)
LEMMA Initially == Init => IInv
  BY OutboundAssumption, NoneIsNoMessage
     DEF Init, IInv, TypeOK, OneSender, AttemptsBounded, BatchHasAttempts

(* A drain reads rows that wait to be sent and have attempts left.         *)
LEMMA RowsHaveAttempts ==
  ASSUME NEW st, NEW dueNow \in SUBSET Message, NEW m \in Oldest(DueRows(st, dueNow))
  PROVE  m \in Message /\ st[m] \in Sendable /\ attempt[m] < MaxAttempts
  BY DEF Oldest, DueRows

(* Storing a message and reading its row preserves the invariant.          *)
LEMMA EnqueueStep ==
  ASSUME IInv, NEW m \in Message, NEW d \in Drain, Enqueue(m, d)
  PROVE  IInv'
<1> USE OutboundAssumption, NoneIsNoMessage DEF IInv, TypeOK
<1> DEFINE rows == Oldest(DueRows(status', due'))
<1>1. due' \in SUBSET Message BY DEF Enqueue
<1>2. \A u \in rows :
        u \in Message /\ status'[u] \in Sendable /\ attempt[u] < MaxAttempts
  BY <1>1, RowsHaveAttempts
<1>3. batch' = [batch EXCEPT ![d] = rows] BY DEF Enqueue, Read
<1> HIDE DEF rows
<1>4. TypeOK'
  BY <1>1, <1>2, <1>3 DEF Enqueue, Read, GoOn, platformVars
<1>5. OneSender' BY DEF OneSender, Enqueue
<1>6. AttemptsBounded' BY DEF AttemptsBounded, Enqueue
<1>7. BatchHasAttempts'
  <2> SUFFICES ASSUME NEW e \in Drain, NEW u \in batch'[e]
               PROVE  /\ status'[u] # "absent"
                      /\ status'[u] \in Sendable => attempt'[u] < MaxAttempts
    BY DEF BatchHasAttempts
  <2>1. CASE e = d BY <2>1, <1>2, <1>3 DEF Enqueue
  <2>2. CASE e # d
    <3>1. u \in batch[e] /\ u \in Message BY <2>2, <1>3
    <3>2. u # m BY <3>1 DEF Enqueue, BatchHasAttempts
    <3> QED BY <3>1, <3>2 DEF Enqueue, BatchHasAttempts
  <2> QED BY <2>1, <2>2
<1> QED BY <1>4, <1>5, <1>6, <1>7 DEF Enqueue

(* Reading the due rows preserves the invariant.                           *)
LEMMA BeginDrainStep ==
  ASSUME IInv, NEW d \in Drain, BeginDrain(d)
  PROVE  IInv'
<1> USE OutboundAssumption, NoneIsNoMessage DEF IInv, TypeOK
<1> DEFINE rows == Oldest(DueRows(status, due))
<1>1. \A u \in rows :
        u \in Message /\ status[u] \in Sendable /\ attempt[u] < MaxAttempts
  BY RowsHaveAttempts
<1>2. batch' = [batch EXCEPT ![d] = rows] BY DEF BeginDrain, Read
<1> HIDE DEF rows
<1>3. TypeOK'
  BY <1>1, <1>2 DEF BeginDrain, Read, GoOn, rowVars, platformVars
<1>4. OneSender' BY DEF OneSender, BeginDrain, rowVars
<1>5. AttemptsBounded' BY DEF AttemptsBounded, BeginDrain, rowVars
<1>6. BatchHasAttempts'
  BY <1>1, <1>2 DEF BeginDrain, BatchHasAttempts, rowVars
<1>7. (\A u \in Unconnected : status[u] \notin {"sending", "sent"})'
  BY DEF BeginDrain, rowVars
<1> QED BY <1>3, <1>4, <1>5, <1>6, <1>7

(* Taking the next row out of a batch leaves the others as they are.       *)
LEMMA HeadDropped ==
  ASSUME TypeOK, NEW m \in Message, NEW d \in Drain, DropHead(d, m)
  PROVE  /\ batch' \in [Drain -> SUBSET Message]
         /\ \A e \in Drain : batch'[e] \subseteq batch[e]
         /\ m \notin batch'[d]
  BY DEF TypeOK, DropHead

(* Claiming a row: it has an attempt left, and no drain is sending it.     *)
LEMMA ClaimStep ==
  ASSUME IInv, NEW m \in Message, NEW d \in Drain, Claim(d, m)
  PROVE  IInv'
<1> USE OutboundAssumption, NoneIsNoMessage DEF IInv, TypeOK
<1>1. /\ batch' \in [Drain -> SUBSET Message]
      /\ \A e \in Drain : batch'[e] \subseteq batch[e]
  BY HeadDropped DEF Claim
<1>2. status[m] \in Sendable /\ attempt[m] < MaxAttempts
  BY DEF Claim, AtHead, CanSend, BatchHasAttempts
<1>3. TypeOK'
  <2>1. /\ status' \in [Message -> {"absent", "sending"} \cup Sendable \cup Settled]
        /\ attempt' \in [Message -> Nat]
    BY DEF Claim
  <2>2. sending' \in [Drain -> Message \cup {None}] /\ running' \subseteq Drain
    BY DEF Claim
  <2> QED BY <1>1, <2>1, <2>2 DEF Claim, platformVars
<1>4. OneSender'
  BY <1>2 DEF OneSender, Claim, AtHead
<1>5. AttemptsBounded' BY <1>2 DEF AttemptsBounded, Claim
<1>6. BatchHasAttempts' BY <1>1 DEF BatchHasAttempts, Claim
<1>7. (\A u \in Unconnected : status[u] \notin {"sending", "sent"})' BY DEF Claim
<1> QED BY <1>3, <1>4, <1>5, <1>6, <1>7

(* Choking on a row: no drain is sending it, and it has an attempt left.    *)
LEMMA ChokeStep ==
  ASSUME IInv, NEW m \in Message, NEW d \in Drain, Choke(d, m)
  PROVE  IInv'
<1> USE OutboundAssumption, NoneIsNoMessage DEF IInv, TypeOK
<1>1. /\ batch' \in [Drain -> SUBSET Message]
      /\ \A e \in Drain : batch'[e] \subseteq batch[e]
  BY HeadDropped DEF Choke
<1>2. status[m] \in Sendable /\ attempt[m] < MaxAttempts
  BY DEF Choke, AtHead, CanSend, BatchHasAttempts
<1>3. TypeOK' BY <1>1 DEF Choke, GoOn, platformVars
<1>4. OneSender' BY DEF OneSender, Choke
<1>5. AttemptsBounded' BY <1>2 DEF AttemptsBounded, Choke
<1>6. BatchHasAttempts' BY <1>1 DEF BatchHasAttempts, Choke
<1>7. (\A u \in Unconnected : status[u] \notin {"sending", "sent"})' BY DEF Choke
<1> QED BY <1>3, <1>4, <1>5, <1>6, <1>7

(* Passing over a row preserves the invariant.                             *)
LEMMA SkipStep ==
  ASSUME IInv, NEW m \in Message, NEW d \in Drain, Skip(d, m)
  PROVE  IInv'
<1> USE OutboundAssumption, NoneIsNoMessage DEF IInv, TypeOK
<1>1. /\ batch' \in [Drain -> SUBSET Message]
      /\ \A e \in Drain : batch'[e] \subseteq batch[e]
  BY HeadDropped DEF Skip
<1>2. TypeOK' BY <1>1 DEF Skip, GoOn, rowVars, platformVars
<1> QED
  BY <1>1, <1>2 DEF OneSender, AttemptsBounded, BatchHasAttempts, Skip, rowVars

(* Giving up a row whose bot has no adapter: no drain is sending it.       *)
LEMMA GiveUpStep ==
  ASSUME IInv, NEW m \in Message, NEW d \in Drain, GiveUp(d, m)
  PROVE  IInv'
<1> USE OutboundAssumption, NoneIsNoMessage DEF IInv, TypeOK
<1>1. /\ batch' \in [Drain -> SUBSET Message]
      /\ \A e \in Drain : batch'[e] \subseteq batch[e]
  BY HeadDropped DEF GiveUp
<1>2. TypeOK' BY <1>1 DEF GiveUp, GoOn, platformVars
<1>3. OneSender' BY DEF OneSender, GiveUp
<1>4. AttemptsBounded' BY DEF AttemptsBounded, GiveUp
<1>5. BatchHasAttempts' BY <1>1 DEF BatchHasAttempts, GiveUp
<1> QED BY <1>2, <1>3, <1>4, <1>5 DEF GiveUp

(* A platform confirms a message.                                          *)
LEMMA SentStep ==
  ASSUME IInv, NEW m \in Message, NEW d \in Drain, Sent(d, m)
  PROVE  IInv'
<1> USE OutboundAssumption, NoneIsNoMessage DEF IInv, TypeOK
<1>1. TypeOK' BY DEF Sent, GoOn
<1>2. OneSender' BY DEF OneSender, Sent
<1>3. AttemptsBounded' BY DEF AttemptsBounded, Sent
<1>4. BatchHasAttempts' BY DEF BatchHasAttempts, Sent
<1>5. (\A u \in Unconnected : status[u] \notin {"sending", "sent"})'
  BY DEF Sent, OneSender
<1> QED BY <1>1, <1>2, <1>3, <1>4, <1>5

(* A send fails: the row is given up, or has an attempt left.              *)
LEMMA FailedStep ==
  ASSUME IInv, NEW m \in Message, NEW d \in Drain,
         NEW retryable \in BOOLEAN, NEW taken \in BOOLEAN,
         Failed(d, m, retryable, taken)
  PROVE  IInv'
<1> USE OutboundAssumption, NoneIsNoMessage DEF IInv, TypeOK
<1>1. TypeOK' BY DEF Failed, GoOn
<1>2. OneSender' BY DEF OneSender, Failed
<1>3. AttemptsBounded' BY DEF AttemptsBounded, Failed
<1>4. BatchHasAttempts' BY DEF BatchHasAttempts, Failed, Final
<1>5. (\A u \in Unconnected : status[u] \notin {"sending", "sent"})' BY DEF Failed
<1> QED BY <1>1, <1>2, <1>3, <1>4, <1>5

(* The process starts anew with no drain, and with the rows it left.       *)
LEMMA CrashStep ==
  ASSUME IInv, Crash
  PROVE  IInv'
<1> USE OutboundAssumption, NoneIsNoMessage DEF IInv, TypeOK
<1> DEFINE open == {m \in Message : status[m] = "sending"}
<1>1. PICK taken \in SUBSET (open \ Unreadable) :
        /\ copies' = [m \in Message |-> IF m \in taken THEN copies[m] + 1
                                        ELSE copies[m]]
        /\ unheard' = [m \in Message |-> IF m \in taken THEN unheard[m] + 1
                                         ELSE unheard[m]]
  BY DEF Crash
<1>2. TypeOK' BY <1>1 DEF Crash
<1>3. OneSender' BY DEF OneSender, Crash
<1>4. AttemptsBounded' BY DEF AttemptsBounded, Crash
<1>5. BatchHasAttempts' BY DEF BatchHasAttempts, Crash
<1>6. (\A u \in Unconnected : status[u] \notin {"sending", "sent"})' BY DEF Crash
<1> QED BY <1>2, <1>3, <1>4, <1>5, <1>6

(* Time passes.                                                            *)
LEMMA ElapseStep ==
  ASSUME IInv, NEW m \in Message, Elapse(m)
  PROVE  IInv'
  BY OutboundAssumption
     DEF IInv, TypeOK, OneSender, AttemptsBounded, BatchHasAttempts, Elapse,
         drainVars, platformVars

(* A step that changes nothing.                                            *)
LEMMA StutterStep ==
  ASSUME IInv, UNCHANGED vars
  PROVE  IInv'
  BY DEF IInv, TypeOK, OneSender, AttemptsBounded, BatchHasAttempts, vars,
         rowVars, drainVars, platformVars

(* Every step preserves the inductive invariant.                           *)
LEMMA InductiveStep == IInv /\ [Next]_vars => IInv'
<1> SUFFICES ASSUME IInv, [Next]_vars PROVE IInv'
  OBVIOUS
<1>1. ASSUME NEW d \in Drain, BeginDrain(d) PROVE IInv'
  BY <1>1, BeginDrainStep
<1>2. ASSUME NEW d \in Drain, NEW m \in Message, Enqueue(m, d) PROVE IInv'
  BY <1>2, EnqueueStep
<1>3. ASSUME NEW d \in Drain, NEW m \in Message, Claim(d, m) PROVE IInv'
  BY <1>3, ClaimStep
<1>4. ASSUME NEW d \in Drain, NEW m \in Message, Skip(d, m) PROVE IInv'
  BY <1>4, SkipStep
<1>5. ASSUME NEW d \in Drain, NEW m \in Message, GiveUp(d, m) PROVE IInv'
  BY <1>5, GiveUpStep
<1>6. ASSUME NEW d \in Drain, NEW m \in Message, Sent(d, m) PROVE IInv'
  BY <1>6, SentStep
<1>7. ASSUME NEW d \in Drain, NEW m \in Message,
             NEW retryable \in BOOLEAN, NEW taken \in BOOLEAN,
             Failed(d, m, retryable, taken)
      PROVE IInv'
  BY <1>7, FailedStep
<1>8. ASSUME NEW m \in Message, Elapse(m) PROVE IInv'
  BY <1>8, ElapseStep
<1>9. ASSUME Crash PROVE IInv'
  BY <1>9, CrashStep
<1>10. ASSUME UNCHANGED vars PROVE IInv'
  BY <1>10, StutterStep
<1>11. ASSUME NEW d \in Drain, NEW m \in Message, Choke(d, m) PROVE IInv'
  BY <1>11, ChokeStep
<1> QED
  BY <1>1, <1>2, <1>3, <1>4, <1>5, <1>6, <1>7, <1>8, <1>9, <1>10, <1>11 DEF Next

(* The inductive invariant of OutboundDispatcher holds in every state.     *)
THEOREM Inductive == Spec => []IInv
<1>1. Init => IInv BY Initially
<1>2. IInv /\ [Next]_vars => IInv' BY InductiveStep
<1> QED BY <1>1, <1>2, PTL DEF Spec

(* However many drains overlap, a row is being sent by one of them at      *)
(* most, and is marked as being sent exactly then.                         *)
THEOREM SingleSender == Spec => []OneSender
<1>1. IInv => OneSender BY DEF IInv
<1> QED BY <1>1, Inductive, PTL

(* Stale batches, retries and restarts never send a row more often than    *)
(* MaxAttempts times.                                                      *)
THEOREM BoundedAttempts == Spec => []AttemptsBounded
<1>1. IInv => AttemptsBounded BY DEF IInv
<1> QED BY <1>1, Inductive, PTL

(* A drain that read a row before it was settled does not send it again,   *)
(* and a restart leaves it settled.                                        *)
THEOREM SettledStays == Spec => SettledIsFinal
<1>1. ASSUME IInv, [Next]_vars, NEW m \in Message, status[m] \in Settled
      PROVE  status'[m] = status[m]
  <2> USE NoneIsNoMessage DEF IInv, TypeOK
  <2>1. ASSUME NEW d \in Drain, BeginDrain(d) PROVE status' = status
    BY <2>1 DEF BeginDrain, rowVars
  <2>2. ASSUME NEW d \in Drain, NEW u \in Message, Enqueue(u, d)
        PROVE  status'[m] = status[m]
    BY <1>1, <2>2 DEF Enqueue
  <2>3. ASSUME NEW d \in Drain, NEW u \in Message, Claim(d, u)
        PROVE  status'[m] = status[m]
    BY <1>1, <2>3 DEF Claim, CanSend
  <2>4. ASSUME NEW d \in Drain, NEW u \in Message, Skip(d, u) PROVE status' = status
    BY <2>4 DEF Skip, rowVars
  <2>5. ASSUME NEW d \in Drain, NEW u \in Message, GiveUp(d, u)
        PROVE  status'[m] = status[m]
    BY <1>1, <2>5 DEF GiveUp
  <2>6. ASSUME NEW d \in Drain, NEW u \in Message, Sent(d, u)
        PROVE  status'[m] = status[m]
    BY <1>1, <2>6 DEF Sent, OneSender
  <2>7. ASSUME NEW d \in Drain, NEW u \in Message,
               NEW retryable \in BOOLEAN, NEW taken \in BOOLEAN,
               Failed(d, u, retryable, taken)
        PROVE  status'[m] = status[m]
    BY <1>1, <2>7 DEF Failed, OneSender
  <2>8. ASSUME NEW u \in Message, Elapse(u) PROVE status' = status
    BY <2>8 DEF Elapse
  <2>9. ASSUME Crash PROVE status'[m] = status[m]
    BY <1>1, <2>9 DEF Crash
  <2>10. ASSUME UNCHANGED vars PROVE status' = status
    BY <2>10 DEF vars, rowVars
  <2>11. ASSUME NEW d \in Drain, NEW u \in Message, Choke(d, u)
         PROVE  status'[m] = status[m]
    BY <1>1, <2>11 DEF Choke, CanSend
  <2> QED
    BY <1>1, <2>1, <2>2, <2>3, <2>4, <2>5, <2>6, <2>7, <2>8, <2>9, <2>10, <2>11 DEF Next
<1>2. IInv /\ [Next]_vars =>
        [\A m \in Message : status[m] \in Settled => status'[m] = status[m]]_status
  BY <1>1
<1> QED BY <1>2, Inductive, PTL DEF Spec, SettledIsFinal

(* The platform has a message twice only when a send was cut off by a      *)
(* crash or failed after the platform had taken the message.               *)
THEOREM CopiesExplained == Spec => []DuplicatesExplained
<1>1. Init => DuplicatesExplained BY DEF Init, DuplicatesExplained
<1>2. ASSUME IInv, DuplicatesExplained, [Next]_vars
      PROVE  DuplicatesExplained'
  <2> USE OutboundAssumption, NoneIsNoMessage DEF IInv, TypeOK, DuplicatesExplained
  <2>1. ASSUME NEW d \in Drain, BeginDrain(d) PROVE DuplicatesExplained'
    BY <1>2, <2>1 DEF BeginDrain, rowVars, platformVars
  <2>2. ASSUME NEW d \in Drain, NEW m \in Message, Enqueue(m, d)
        PROVE  DuplicatesExplained'
    BY <1>2, <2>2 DEF Enqueue, platformVars
  <2>3. ASSUME NEW d \in Drain, NEW m \in Message, Claim(d, m)
        PROVE  DuplicatesExplained'
    BY <1>2, <2>3 DEF Claim, CanSend, platformVars
  <2>4. ASSUME NEW d \in Drain, NEW m \in Message, Skip(d, m)
        PROVE  DuplicatesExplained'
    BY <1>2, <2>4 DEF Skip, rowVars, platformVars
  <2>5. ASSUME NEW d \in Drain, NEW m \in Message, GiveUp(d, m)
        PROVE  DuplicatesExplained'
    BY <1>2, <2>5 DEF GiveUp, AtHead, platformVars
  <2>6. ASSUME NEW d \in Drain, NEW m \in Message, Sent(d, m)
        PROVE  DuplicatesExplained'
    BY <1>2, <2>6 DEF Sent, OneSender
  <2>7. ASSUME NEW d \in Drain, NEW m \in Message,
               NEW retryable \in BOOLEAN, NEW taken \in BOOLEAN,
               Failed(d, m, retryable, taken)
        PROVE  DuplicatesExplained'
    BY <1>2, <2>7 DEF Failed, OneSender
  <2>8. ASSUME NEW m \in Message, Elapse(m) PROVE DuplicatesExplained'
    BY <1>2, <2>8 DEF Elapse, platformVars
  <2>9. ASSUME Crash PROVE DuplicatesExplained'
    BY <1>2, <2>9 DEF Crash
  <2>10. ASSUME UNCHANGED vars PROVE DuplicatesExplained'
    BY <1>2, <2>10 DEF vars, rowVars, platformVars
  <2>11. ASSUME NEW d \in Drain, NEW m \in Message, Choke(d, m)
         PROVE  DuplicatesExplained'
    BY <1>2, <2>11 DEF Choke, CanSend, platformVars
  <2> QED
    BY <1>2, <2>1, <2>2, <2>3, <2>4, <2>5, <2>6, <2>7, <2>8, <2>9, <2>10, <2>11 DEF Next
<1> QED BY <1>1, <1>2, Inductive, PTL DEF Spec

(* Every message that is given up is in dead_letters, and no other is.     *)
THEOREM DeadLetters == Spec => []DeadLetterKept
<1>1. Init => DeadLetterKept BY DEF Init, DeadLetterKept
<1>2. ASSUME IInv, DeadLetterKept, [Next]_vars
      PROVE  DeadLetterKept'
  <2> USE OutboundAssumption, NoneIsNoMessage DEF IInv, TypeOK, DeadLetterKept
  <2>1. ASSUME NEW d \in Drain, BeginDrain(d) PROVE DeadLetterKept'
    BY <1>2, <2>1 DEF BeginDrain, rowVars
  <2>2. ASSUME NEW d \in Drain, NEW m \in Message, Enqueue(m, d)
        PROVE  DeadLetterKept'
    BY <1>2, <2>2 DEF Enqueue
  <2>3. ASSUME NEW d \in Drain, NEW m \in Message, Claim(d, m)
        PROVE  DeadLetterKept'
    BY <1>2, <2>3 DEF Claim, CanSend
  <2>4. ASSUME NEW d \in Drain, NEW m \in Message, Skip(d, m)
        PROVE  DeadLetterKept'
    BY <1>2, <2>4 DEF Skip, rowVars
  <2>5. ASSUME NEW d \in Drain, NEW m \in Message, GiveUp(d, m)
        PROVE  DeadLetterKept'
    BY <1>2, <2>5 DEF GiveUp
  <2>6. ASSUME NEW d \in Drain, NEW m \in Message, Sent(d, m)
        PROVE  DeadLetterKept'
    BY <1>2, <2>6 DEF Sent, OneSender
  <2>7. ASSUME NEW d \in Drain, NEW m \in Message,
               NEW retryable \in BOOLEAN, NEW taken \in BOOLEAN,
               Failed(d, m, retryable, taken)
        PROVE  DeadLetterKept'
    BY <1>2, <2>7 DEF Failed, OneSender
  <2>8. ASSUME NEW m \in Message, Elapse(m) PROVE DeadLetterKept'
    BY <1>2, <2>8 DEF Elapse
  <2>9. ASSUME Crash PROVE DeadLetterKept'
    BY <1>2, <2>9 DEF Crash
  <2>10. ASSUME UNCHANGED vars PROVE DeadLetterKept'
    BY <1>2, <2>10 DEF vars, rowVars
  <2>11. ASSUME NEW d \in Drain, NEW m \in Message, Choke(d, m)
         PROVE  DeadLetterKept'
    BY <1>2, <2>11 DEF Choke, CanSend, platformVars
  <2> QED
    BY <1>2, <2>1, <2>2, <2>3, <2>4, <2>5, <2>6, <2>7, <2>8, <2>9, <2>10, <2>11 DEF Next
<1> QED BY <1>1, <1>2, Inductive, PTL DEF Spec
=============================================================================
