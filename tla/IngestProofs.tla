---------------------------- MODULE IngestProofs ----------------------------
(***************************************************************************)
(* Proofs about module Ingest, for any number of messages, sessions,       *)
(* downloads and faults, and any size of a batch.                          *)
(*                                                                         *)
(* A position is safe when it lies in its stream and all it passes is      *)
(* dealt with (Covered).  What makes that inductive is where the next      *)
(* position comes from: from a frame of the gateway, of which everything   *)
(* before it must be dealt with or stand ahead of it on the wire           *)
(* (Replayed); from the batch of the loop, whose place in the stream must  *)
(* be known (Loop); from a command that has been waiting, whose place was  *)
(* safe when it was stored (Positions).  Streams only grow and what is     *)
(* dealt with stays so (Kept), which carries all of them over a step.      *)
(***************************************************************************)
EXTENDS Ingest, SequenceTheorems, TLAPS

-----------------------------------------------------------------------------
(* The inductive invariant.                                                *)

Sent(m) == kind[m] # "unsent"

(* Users write in order; a stream holds messages that were sent, and the   *)
(* i-th of them is not numbered lower than i.                              *)
Streams ==
  /\ \A m, o \in Message : o < m /\ Sent(m) => Sent(o)
  /\ \A s \in Session : \A i \in 1 .. Len(log[s]) : i <= log[s][i] /\ Sent(log[s][i])
  /\ \A m \in db.events : Sent(m)

(* A behaviour has one platform, and the gateway delivers no media.        *)
OnePlatform ==
  /\ conn = "off" <=> phase # "off"
  /\ conn # "off" => \A m \in Message : kind[m] # "media"

(* What is not yet an event has not been executed.                         *)
Once ==
  \A m \in Message :
    /\ ran[m] <= 1
    /\ m \notin db.events => ran[m] = 0 /\ db.task[m] = "none"

Awaited(m) == db.task[m] = "open" /\ kind[m] = "media"

(* The cleanup holds on to events that no task waits for, and the sweep    *)
(* leaves alone what an open task or the message in hand refers to.        *)
Media ==
  /\ copy # 0 =>
       /\ batch # <<>>
       /\ Head(batch) \notin db.events => <<Head(batch), copy>> \in files \ old
  /\ \A m \in cleaner.events \cup cleaner.current :
       m \in db.events /\ db.task[m] # "open"
  /\ \A m \in Message : Awaited(m) => <<m, db.path[m]>> \in files
  /\ cleaner.phase = "sweeping" =>
       \A m \in Message : Awaited(m) =>
         <<m, db.path[m]>> \in cleaner.kept \/ <<m, db.path[m]>> \notin old

(* A place in a stream that passes only what is dealt with.                *)
Safe(m) == Settled(m) \/ m \in thrown
Covered(s, n) == n <= Len(log[s]) /\ \A i \in 1 .. n : Safe(log[s][i])

(* Every position that is kept is such a place: the stored one, the one of *)
(* the adapter, and those the waiting commands will set.                   *)
Positions ==
  ~ strayed =>
    /\ db.checkpoint.session # 0 => Covered(db.checkpoint.session, db.checkpoint.seq)
    /\ session # 0 /\ sequence # Unknown => Covered(session, sequence)
    /\ \A c \in commands : Covered(c[2].session, c[2].seq)

(* The message at place j is on the wire ahead of the i-th frame.          *)
Ahead(i, j) == \E k \in 1 .. i - 1 : wire[k].op = "message" /\ wire[k].s = j
Passes(frame) == IF frame.op = "message" THEN frame.s - 1 ELSE frame.s

(* Everything that is kept names a session the gateway has opened, and only *)
(* those have a stream.                                                    *)
SessionsOpened ==
  /\ session <= opened
  /\ alive => opened # 0
  /\ db.checkpoint.session <= opened
  /\ \A c \in commands : c[2].session \in 1 .. opened
  /\ \A s \in Session : s > opened => log[s] = <<>>

(* What is asked for is the session of the adapter, from a place that is   *)
(* safe.                                                                   *)
AskedFor ==
  conn = "asked" /\ ask.session # 0 =>
    /\ ask.session = session
    /\ ~ strayed => Covered(session, ask.seq)

(* A connection belongs to the session that was opened last, and its frames *)
(* carry places of it.                                                     *)
Framed ==
  conn \in {"open", "failing"} =>
    /\ opened # 0
    /\ wire = <<>> \/ Head(wire).op # "ready" => session = opened
    /\ \A i \in 1 .. Len(wire) :
         /\ wire[i].s <= Len(log[opened])
         /\ wire[i].op = "message" => wire[i].s # 0

(* What a frame passes is dealt with or on the wire ahead of it, and so is *)
(* all of the stream once the wire is read.                                *)
Replayed ==
  conn = "open" /\ ~ strayed =>
    /\ \A i \in 1 .. Len(wire) : \A j \in 1 .. Passes(wire[i]) :
         Safe(log[opened][j]) \/ Ahead(i, j)
    /\ \A j \in 1 .. Len(log[opened]) :
         Safe(log[opened][j]) \/ Ahead(Len(wire) + 1, j)

Gateway == SessionsOpened /\ AskedFor /\ Framed /\ Replayed

(* The batch is the part of the stream that ends at end, and what precedes *)
(* it is dealt with.                                                       *)
Loop ==
  /\ phase = "poll" => batch = <<>>
  /\ phase \in {"batch", "command"} =>
       /\ batch # <<>>
       /\ Len(batch) <= end /\ end <= Len(log[1])
       /\ \A i \in 1 .. Len(batch) : batch[i] = log[1][end - Len(batch) + i]
       /\ ~ strayed => Covered(1, end - Len(batch))
  /\ phase = "command" => Head(batch) \in db.events
  /\ db.checkpoint.session \in {0, 1}
  /\ db.checkpoint.session = 0 => db.checkpoint.seq = 0
  /\ \A c \in commands : c[2].session = 1
  /\ ~ strayed => Covered(1, cursor)

Tables == Streams /\ OnePlatform /\ Once /\ Media

IInv ==
  /\ TypeOK
  /\ Tables
  /\ Positions
  /\ conn # "off" => Gateway
  /\ phase # "off" => Loop

-----------------------------------------------------------------------------
(* Types.                                                                  *)

USE DEF Message, Session

LEMMA SavingType ==
  ASSUME NEW d \in Database, NEW p \in Position
  PROVE  /\ Saving(d, p) \in Database
         /\ Saving(d, p).events = d.events
         /\ Saving(d, p).task = d.task
         /\ Saving(d, p).path = d.path
         /\ Saving(d, p).dead = d.dead
         /\ Saving(d, p).answered = d.answered
         /\ Saving(d, p).checkpoint = IF p = NoPosition THEN d.checkpoint ELSE p
BY DEF Saving, Database

Untouched ==
  db'.events = db.events /\ db'.task = db.task /\ db'.path = db.path /\ ran' = ran

(* The message becomes an event.                                           *)
Enters(m, c) ==
  /\ m \notin db.events
  /\ db'.events = db.events \cup {m}
  /\ db'.task = [db.task EXCEPT ![m] = FirstStatus(m)]
  /\ db'.path = [db.path EXCEPT ![m] = c]
  /\ ran' = ran \/ ran' = [ran EXCEPT ![m] = @ + 1]

(* What handleInbound does to the tables, and to the list of commands that *)
(* wait.                                                                   *)
LEMMA InboundEffect ==
  ASSUME TypeOKInbound, NEW m \in Message, NEW delivery \in Position,
         NEW position \in Position, NEW c \in 0 .. MaxCopies,
         HandleInbound(m, delivery, position, c)
  PROVE  /\ db' \in Database
         /\ db'.dead = db.dead
         /\ ignored \subseteq ignored' /\ ignored' \subseteq Message
         /\ db'.checkpoint = IF position = NoPosition THEN db.checkpoint ELSE position
         /\ \/ /\ m \in db.events \/ (kind[m] = "ordinary" /\ m \in ignored')
               /\ Untouched
               /\ commands' = commands
            \/ /\ Enters(m, c)
               /\ commands' = IF Executes(m) THEN commands \cup {<<m, delivery>>}
                              ELSE commands
<1> USE DEF TypeOKInbound, Untouched, Enters
<1>1. CASE ~ Stores(m)
  BY <1>1, SavingType DEF HandleInbound, Stores
<1>2. CASE Stores(m) /\ m \in db.events
  BY <1>2, SavingType DEF HandleInbound, Ingested, Executes
<1>3. CASE Stores(m) /\ m \notin db.events
  <2> DEFINE d == [db EXCEPT !.events = @ \cup {m}, !.task[m] = FirstStatus(m),
                             !.path[m] = c]
  <2>1. FirstStatus(m) \in {"none", "open", "done"}
    BY DEF FirstStatus
  <2>2. /\ d \in Database
        /\ d.events = db.events \cup {m}
        /\ d.task = [db.task EXCEPT ![m] = FirstStatus(m)]
        /\ d.path = [db.path EXCEPT ![m] = c]
        /\ d.dead = db.dead
        /\ d.checkpoint = db.checkpoint
    BY <2>1 DEF Database
  <2>3. Ingested(m, position, c) = Saving(d, position)
    BY <1>3 DEF Ingested
  <2> HIDE DEF d
  <2> DEFINE e == Saving(d, position)
             f == [e EXCEPT !.answered = @ \cup {m}]
  <2>4. /\ e \in Database /\ e.events = d.events /\ e.task = d.task
        /\ e.path = d.path /\ e.dead = d.dead
        /\ e.checkpoint = IF position = NoPosition THEN d.checkpoint ELSE position
    <3>1. d \in Database
      BY <2>2
    <3> QED
      BY <3>1, SavingType
  <2>5. db' \in {e, f}
    BY <1>3, <2>3 DEF HandleInbound
  <2> HIDE DEF e
  <2>6. /\ db' \in Database /\ db'.events = e.events /\ db'.task = e.task
        /\ db'.path = e.path /\ db'.dead = e.dead /\ db'.checkpoint = e.checkpoint
    <3>1. /\ f \in Database /\ f.events = e.events /\ f.task = e.task
          /\ f.path = e.path /\ f.dead = e.dead /\ f.checkpoint = e.checkpoint
      BY <2>4 DEF Database
    <3> HIDE DEF f
    <3> QED
      BY <2>4, <2>5, <3>1
  <2>7. /\ ran' = ran \/ ran' = [ran EXCEPT ![m] = @ + 1]
        /\ commands' = IF Executes(m) THEN commands \cup {<<m, delivery>>} ELSE commands
        /\ ignored' = ignored
    BY <1>3 DEF HandleInbound
  <2> QED
    BY <1>3, <2>2, <2>4, <2>6, <2>7
<1> QED
  BY <1>1, <1>2, <1>3

(* A stream never holds more messages than there are.                      *)
LEMMA StreamLength ==
  ASSUME TypeOK, Streams, NEW s \in Session
  PROVE  /\ log[s] \in Seq(1 .. MaxMessages)
         /\ Len(log[s]) \in 0 .. MaxMessages
         /\ \A i \in 1 .. Len(log[s]) : log[s][i] \in Message
<1>1. log[s] \in Seq(1 .. MaxMessages)
  BY DEF TypeOK, TypeOKInbound
<1>2. Len(log[s]) \in Nat /\ \A i \in 1 .. Len(log[s]) : log[s][i] \in Message
  BY <1>1, LenProperties, ElementOfSeq
<1>3. Len(log[s]) # 0 => Len(log[s]) <= log[s][Len(log[s])]
  BY <1>2 DEF Streams
<1> QED
  BY <1>1, <1>2, <1>3, InboundAssumption

LEMMA LogGrows ==
  ASSUME TypeOK, Streams, NEW m \in Message, NEW s \in Session, NextToSend(m),
         NEW k \in Kinds, kind' = [kind EXCEPT ![m] = k],
         log' = [log EXCEPT ![s] = Append(@, m)], db' = db
  PROVE  /\ Streams'
         /\ kind' \in [Message -> Kinds \cup {"unsent"}]
         /\ log' \in [Session -> Seq(Message)]
         /\ Len(log[s]) < MaxMessages
         /\ log'[s] = Append(log[s], m)
         /\ Len(log'[s]) = Len(log[s]) + 1
<1> USE DEF Sent
<1>1. Len(log[s]) + 1 <= m
  <2>1. CASE Len(log[s]) = 0
    BY <2>1
  <2>2. CASE Len(log[s]) # 0
    <3>1. /\ Len(log[s]) \in 1 .. Len(log[s])
          /\ log[s][Len(log[s])] \in Message
      BY <2>2, StreamLength
    <3>2. /\ Len(log[s]) <= log[s][Len(log[s])]
          /\ Sent(log[s][Len(log[s])])
      BY <3>1 DEF Streams
    <3>3. log[s][Len(log[s])] # m /\ ~ (log[s][Len(log[s])] > m)
      BY <3>1, <3>2 DEF Streams, NextToSend, Sent
    <3> QED
      BY <3>1, <3>2, <3>3
  <2> QED
    BY <2>1, <2>2
<1>2. /\ kind' \in [Message -> Kinds \cup {"unsent"}]
      /\ log' \in [Session -> Seq(Message)]
      /\ log'[s] = Append(log[s], m)
      /\ \A t \in Session \ {s} : log'[t] = log[t]
      /\ k # "unsent"
      /\ \A o \in Message : kind'[o] = IF o = m THEN k ELSE kind[o]
  <2>1. /\ kind \in [Message -> Kinds \cup {"unsent"}]
        /\ log \in [Session -> Seq(Message)]
    BY DEF TypeOK, TypeOKInbound
  <2>2. log[s] \in Seq(Message)
    BY <2>1
  <2>3. Append(log[s], m) \in Seq(Message)
    BY <2>2, AppendProperties
  <2>4. k # "unsent"
    BY DEF Kinds
  <2> QED
    BY <2>1, <2>3, <2>4
<1>3. /\ Len(log'[s]) = Len(log[s]) + 1
      /\ \A i \in 1 .. Len(log'[s]) :
           log'[s][i] = IF i = Len(log[s]) + 1 THEN m ELSE log[s][i]
  BY <1>2, StreamLength
<1>4. \A o \in Message : Sent(o)' <=> Sent(o) \/ o = m
  BY <1>2 DEF Sent
<1>5. \A o, p \in Message : p < o /\ Sent(o)' => Sent(p)'
  BY <1>4 DEF Streams, NextToSend, Sent
<1>6. \A t \in Session : \A i \in 1 .. Len(log'[t]) : i <= log'[t][i] /\ kind'[log'[t][i]] # "unsent"
  <2>1. ASSUME NEW t \in Session \ {s}
        PROVE  \A i \in 1 .. Len(log'[t]) : i <= log'[t][i] /\ kind'[log'[t][i]] # "unsent"
    <3>1. log'[t] = log[t]
      BY <1>2
    <3> QED
      BY <1>4, <3>1, StreamLength DEF Streams
  <2>2. \A i \in 1 .. Len(log'[s]) : i <= log'[s][i] /\ kind'[log'[s][i]] # "unsent"
    <3>1. ASSUME NEW i \in 1 .. Len(log'[s]), i # Len(log[s]) + 1
          PROVE  i <= log'[s][i] /\ kind'[log'[s][i]] # "unsent"
      <4>1. i \in 1 .. Len(log[s]) /\ log'[s][i] = log[s][i]
        BY <1>3, <3>1, StreamLength
      <4> QED
        BY <1>4, <4>1, StreamLength DEF Streams
    <3>2. log'[s][Len(log[s]) + 1] = m /\ Sent(m)'
      BY <1>3, <1>4, StreamLength
    <3> QED
      BY <1>1, <1>3, <3>1, <3>2
  <2> QED
    BY <2>1, <2>2
<1>7. \A o \in db'.events : Sent(o)'
  BY <1>4 DEF Streams, TypeOK, TypeOKInbound, Database
<1> QED
  <2>1. Streams'
    BY <1>5, <1>6, <1>7 DEF Streams
  <2>2. Len(log[s]) < MaxMessages
    <3>1. Len(log[s]) \in Nat
      BY StreamLength
    <3> QED
      BY <1>1, <3>1, InboundAssumption
  <2> QED
    BY <1>2, <1>3, <2>1, <2>2

(* The message a gateway frame stands for.                                 *)
LEMMA OnTheWire ==
  ASSUME IInv, conn \in {"open", "failing"}, wire # <<>>, Head(wire).op = "message"
  PROVE  /\ Head(wire) \in Frame
         /\ opened \in Session /\ session = opened
         /\ Head(wire).s \in 1 .. Len(log[opened])
         /\ Delivered \in Message /\ Sent(Delivered) /\ kind[Delivered] # "media"
         /\ Delivery \in Position /\ Checkpoint = Delivery /\ Delivery # NoPosition
<1>1. TypeOK /\ Streams /\ OnePlatform /\ Gateway
  BY DEF IInv, Tables
<1>2. Head(wire) \in Frame /\ Len(wire) \in Nat \ {0} /\ Head(wire) = wire[1]
  BY <1>1 DEF TypeOK, TypeOKQq
<1>3. opened \in Session /\ session = opened
  BY <1>1 DEF Gateway, Framed, TypeOK, TypeOKQq
<1>4. /\ Len(log[opened]) \in 0 .. MaxMessages
      /\ \A i \in 1 .. Len(log[opened]) : log[opened][i] \in Message
  BY <1>1, <1>3, StreamLength
<1>5. Head(wire).s \in 1 .. Len(log[opened])
  BY <1>1, <1>2, <1>4 DEF Gateway, Framed, Frame
<1>6. Delivered \in Message /\ Sent(Delivered) /\ kind[Delivered] # "media"
  BY <1>1, <1>3, <1>4, <1>5 DEF Delivered, Streams, OnePlatform
<1>7. Delivery \in Position /\ Checkpoint = Delivery /\ Delivery # NoPosition
  BY <1>3, <1>4, <1>5, InboundAssumption DEF Delivery, Checkpoint, At, Position, NoPosition
<1> QED
  BY <1>2, <1>3, <1>5, <1>6, <1>7

(* The message at the head of a batch.                                     *)
LEMMA InTheBatch ==
  ASSUME IInv, phase \in {"batch", "command"}
  PROVE  /\ 1 \in Session
         /\ Len(batch) \in 1 .. end /\ end \in 1 .. Len(log[1])
         /\ Len(log[1]) \in 1 .. MaxMessages
         /\ Head(batch) = log[1][end - Len(batch) + 1]
         /\ Head(batch) \in Message /\ Sent(Head(batch))
         /\ Place \in Position /\ BatchCheckpoint \in Position
         /\ Tail(batch) \in Seq(Message)
         /\ Len(Tail(batch)) = Len(batch) - 1
         /\ \A i \in 1 .. Len(Tail(batch)) : Tail(batch)[i] = batch[i + 1]
<1>1. TypeOK /\ Streams /\ OnePlatform /\ Loop
  BY DEF IInv, Tables
<1>2. 1 \in Session /\ batch \in Seq(Message) /\ batch # <<>> /\ end \in Nat
  BY <1>1, InboundAssumption DEF Loop, TypeOK, TypeOKWechat
<1>3. /\ Len(log[1]) \in 0 .. MaxMessages
      /\ \A i \in 1 .. Len(log[1]) : log[1][i] \in Message
  BY <1>1, <1>2, StreamLength
<1>4. /\ Head(batch) = batch[1] /\ Len(batch) \in Nat \ {0}
      /\ Tail(batch) \in Seq(Message)
      /\ Len(Tail(batch)) = Len(batch) - 1
      /\ \A i \in 1 .. Len(Tail(batch)) : Tail(batch)[i] = batch[i + 1]
  BY <1>2, HeadTailProperties, EmptySeq
<1>5. Len(batch) \in 1 .. end /\ end \in 1 .. Len(log[1]) /\ Len(log[1]) # 0
  BY <1>1, <1>2, <1>3, <1>4 DEF Loop
<1>6. Head(batch) = log[1][end - Len(batch) + 1]
  BY <1>1, <1>4 DEF Loop
<1>7. Head(batch) \in Message /\ Sent(Head(batch))
  BY <1>1, <1>2, <1>3, <1>5, <1>6 DEF Streams
<1>8. Place \in Position /\ BatchCheckpoint \in Position
  BY <1>2, <1>3, <1>5, InboundAssumption DEF Place, Final, BatchCheckpoint, At, Position, NoPosition
<1> QED
  BY <1>2, <1>3, <1>4, <1>5, <1>6, <1>7, <1>8

LEMMA InboundTypes ==
  ASSUME TypeOKInbound, NEW m \in Message, NEW delivery \in Position,
         NEW position \in Position, NEW c \in 0 .. MaxCopies,
         HandleInbound(m, delivery, position, c)
  PROVE  /\ db' \in Database
         /\ ran' \in [Message -> Nat]
         /\ ignored' \subseteq Message
         /\ commands' \subseteq Message \X Position
<1>1. /\ db' \in Database /\ ignored' \subseteq Message
      /\ ran' = ran \/ ran' = [ran EXCEPT ![m] = @ + 1]
      /\ commands' = commands \/ commands' = commands \cup {<<m, delivery>>}
  BY InboundEffect DEF Untouched, Enters
<1> QED
  BY <1>1 DEF TypeOKInbound

(* Everything else in the tables stays.                                    *)
OnlyFaults ==
  /\ faults < MaxFaults /\ faults' = faults + 1
  /\ UNCHANGED <<kind, log, db, admitted, mode, commands, mediaVars, ran, ignored, thrown>>

LEMMA InboundTypeStep ==
  ASSUME IInv, Next
  PROVE  TypeOKInbound'
<1> USE InboundAssumption
<1>0. TypeOK /\ TypeOKInbound /\ Streams
  BY DEF IInv, Tables, TypeOK
<1>1. CASE UNCHANGED inboundVars
  BY <1>0, <1>1 DEF TypeOKInbound, inboundVars
<1>2. CASE OnlyFaults
  <2>1. faults' \in 0 .. MaxFaults
    BY <1>0, <1>2 DEF OnlyFaults, TypeOKInbound
  <2> QED
    BY <1>0, <1>2, <2>1, Zenon DEF OnlyFaults, TypeOKInbound, mediaVars
<1>3. ASSUME NEW m \in Message, NEW k \in Kinds, GatewaySends(m, k)
      PROVE  TypeOKInbound'
  BY <1>0, <1>3, LogGrows DEF GatewaySends, TypeOKInbound, mediaVars
<1>4. ASSUME NEW m \in Message, NEW k \in Kinds, ContactSends(m, k)
      PROVE  TypeOKInbound'
  <2>1. /\ kind' \in [Message -> Kinds \cup {"unsent"}]
        /\ log' \in [Session -> Seq(Message)]
    <3>1. /\ 1 \in Session /\ NextToSend(m) /\ kind' = [kind EXCEPT ![m] = k]
          /\ log' = [log EXCEPT ![1] = Append(@, m)] /\ db' = db
      BY <1>4 DEF ContactSends
    <3> QED
      BY <1>0, <3>1, LogGrows
  <2> QED
    BY <1>0, <1>4, <2>1 DEF ContactSends, TypeOKInbound, mediaVars
<1>5. CASE HandleDispatch
  <2> DEFINE m == Delivered
  <2>1. m \in Message /\ Delivery \in Position /\ Checkpoint \in Position
    BY <1>5, OnTheWire DEF HandleDispatch
  <2> HIDE DEF m
  <2>2. /\ db' \in Database /\ ran' \in [Message -> Nat] /\ ignored' \subseteq Message
        /\ commands' \subseteq Message \X Position
    <3>1. CASE kind[m] = "system"
      BY <1>0, <1>5, <3>1 DEF HandleDispatch, TypeOKInbound, m, database
    <3>2. CASE kind[m] = "odd"
      <4>1. [db EXCEPT !.dead = @ \cup {m}] \in Database
        BY <1>0, <2>1 DEF TypeOKInbound, Database
      <4> QED
        BY <1>0, <1>5, <2>1, <3>2, <4>1, SavingType
           DEF HandleDispatch, DeadLettered, TypeOKInbound, m
    <3>3. CASE kind[m] \notin {"system", "odd"}
      <4>1. HandleInbound(m, Delivery, Checkpoint, 0)
        BY <1>5, <3>3 DEF HandleDispatch, m
      <4>2. 0 \in 0 .. MaxCopies
        OBVIOUS
      <4> QED
        BY <1>0, <2>1, <4>1, <4>2, InboundTypes
    <3> QED
      BY <3>1, <3>2, <3>3
  <2>3. thrown' \subseteq Message
    <3>1. opened \in Session /\ Head(wire).s \in 1 .. Len(log[opened])
      BY <1>5, OnTheWire DEF HandleDispatch
    <3>2. Failed \subseteq Message
      <4>1. \A j \in 1 .. Head(wire).s - 1 : j \in 1 .. Len(log[opened])
        BY <1>0, <3>1, StreamLength
      <4>2. \A j \in 1 .. Len(log[opened]) : log[opened][j] \in Message
        BY <1>0, <3>1, StreamLength
      <4> QED
        BY <4>1, <4>2, Zenon DEF Failed
    <3> QED
      BY <1>0, <1>5, <3>2 DEF HandleDispatch, TypeOKInbound
  <2> QED
    BY <1>0, <1>5, <2>2, <2>3 DEF HandleDispatch, TypeOKInbound, mediaVars
<1>6. ASSUME NEW c \in commands, CommandEnds(c) \/ HandleCommandEnds(c)
      PROVE  TypeOKInbound'
  <2>1. Answered(c[1]) \in Database
    BY <1>0 DEF Answered, TypeOKInbound, Database
  <2> QED
    BY <1>0, <1>6, <2>1 DEF CommandEnds, HandleCommandEnds, TypeOKInbound, mediaVars
<1>7. CASE QqRestarts
  <2>1. /\ faults < MaxFaults /\ faults' = faults + 1 /\ commands' = {}
        /\ UNCHANGED <<kind, log, db, admitted, mode, files, old, cleaner, ran, ignored,
                    thrown>>
    BY <1>7 DEF QqRestarts, mediaVars
  <2>2. faults' \in 0 .. MaxFaults /\ commands' \subseteq Message \X Position
    BY <1>0, <2>1 DEF TypeOKInbound
  <2> QED
    BY <1>0, <2>1, <2>2, Zenon DEF TypeOKInbound
<1>8. CASE WechatRestarts
  <2>1. /\ faults' \in 0 .. MaxFaults /\ commands' \subseteq Message \X Position
        /\ cleaner' \in [phase : {"idle", "releasing", "removed", "sweeping"},
                        events : SUBSET Message, kept : SUBSET File,
                        current : SUBSET Message]
    BY <1>0, <1>8 DEF WechatRestarts, TypeOKInbound, Idle
  <2> QED
    BY <1>0, <1>8, <2>1, Zenon DEF WechatRestarts, TypeOKInbound
<1>9. CASE HandleSystem \/ HandleOdd \/ DownloadFails
  <2> DEFINE d == [db EXCEPT !.dead = @ \cup {Head(batch)}]
             e == Saving(d, BatchCheckpoint)
  <2>1. Head(batch) \in Message /\ BatchCheckpoint \in Position
    BY <1>9, InTheBatch DEF HandleSystem, HandleOdd, DownloadFails
  <2>2. d \in Database /\ db \in Database
    BY <1>0, <2>1 DEF TypeOKInbound, Database
  <2>3. e \in Database /\ Saving(db, BatchCheckpoint) \in Database
    BY <2>1, <2>2, SavingType
  <2>4. [e EXCEPT !.answered = @ \cup {Head(batch)}] \in Database
    BY <2>1, <2>3 DEF Database
  <2>5. db' \in Database
    BY <1>9, <2>3, <2>4 DEF HandleSystem, HandleOdd, DownloadFails, DeadLettered
  <2> QED
    BY <1>0, <1>9, <2>5 DEF HandleSystem, HandleOdd, DownloadFails, TypeOKInbound, mediaVars
<1>10. CASE Download
  <2>1. Head(batch) \in Message
    BY <1>10, InTheBatch DEF Download
  <2>2. files' \subseteq File /\ old' \subseteq files'
    <3>1. PICK n \in 1 .. MaxCopies : files' = files \cup {<<Head(batch), n>>}
      BY <1>10 DEF Download
    <3>2. <<Head(batch), n>> \in File
      BY <2>1 DEF File
    <3> QED
      BY <1>0, <1>10, <3>1, <3>2 DEF Download, TypeOKInbound
  <2> QED
    BY <1>0, <1>10, <2>2 DEF Download, TypeOKInbound
<1>11. CASE HandleMessage
  <2>1. Head(batch) \in Message /\ Place \in Position /\ BatchCheckpoint \in Position
    BY <1>11, InTheBatch DEF HandleMessage
  <2>2. copy \in 0 .. MaxCopies
    BY <1>0 DEF TypeOK, TypeOKWechat
  <2>3. HandleInbound(Head(batch), Place, BatchCheckpoint, copy)
    BY <1>11 DEF HandleMessage
  <2>4. /\ db' \in Database /\ ran' \in [Message -> Nat] /\ ignored' \subseteq Message
        /\ commands' \subseteq Message \X Position
    BY <1>0, <2>1, <2>2, <2>3, InboundTypes
  <2> QED
    BY <1>0, <1>11, <2>4 DEF HandleMessage, TypeOKInbound, mediaVars
<1>12. ASSUME NEW f \in File, Ages(f)
       PROVE  TypeOKInbound'
  BY <1>0, <1>12 DEF Ages, TypeOKInbound
<1>13. CASE Admit \/ SwitchMode
  BY <1>0, <1>13 DEF Admit, SwitchMode, TypeOKInbound, mediaVars
<1>14. ASSUME NEW m \in Message, TaskEnds(m)
       PROVE  TypeOKInbound'
  <2>1. db' \in Database
    BY <1>0, <1>14 DEF TaskEnds, TypeOKInbound, Database
  <2> QED
    BY <1>0, <1>14, <2>1 DEF TaskEnds, TypeOKInbound, mediaVars
<1>15. CASE StartCleanup
  <2>1. Releasable \subseteq Message
    BY <1>0 DEF Releasable, TypeOKInbound, Database
  <2> QED
    BY <1>0, <1>15, <2>1 DEF StartCleanup, TypeOKInbound
<1>16. ASSUME NEW m \in Message, RemoveFile(m)
       PROVE  TypeOKInbound'
  <2>1. cleaner' \in [phase : {"idle", "releasing", "removed", "sweeping"},
                      events : SUBSET Message, kept : SUBSET File,
                      current : SUBSET Message]
    <3>1. cleaner' = [cleaner EXCEPT !.phase = "removed", !.events = @ \ {m}, !.current = {m}]
      BY <1>16 DEF RemoveFile
    <3>2. cleaner.events \ {m} \in SUBSET Message /\ {m} \in SUBSET Message
      BY <1>0 DEF TypeOKInbound
    <3> QED
      BY <1>0, <3>1, <3>2 DEF TypeOKInbound
  <2>2. files' \subseteq File /\ old' \subseteq files'
    BY <1>0, <1>16 DEF RemoveFile, TypeOKInbound
  <2> QED
    BY <1>0, <1>16, <2>1, <2>2 DEF RemoveFile, TypeOKInbound
<1>17. ASSUME NEW m \in Message, ClearLocalMediaPaths(m)
       PROVE  TypeOKInbound'
  <2>1. db' \in Database
    <3>1. [db.path EXCEPT ![m] = 0] \in [Message -> 0 .. MaxCopies]
      BY <1>0 DEF TypeOKInbound, Database
    <3>2. db' = [db EXCEPT !.path = [db.path EXCEPT ![m] = 0]]
      BY <1>17 DEF ClearLocalMediaPaths
    <3> QED
      BY <1>0, <3>1, <3>2 DEF TypeOKInbound, Database
  <2> QED
    BY <1>0, <1>17, <2>1 DEF ClearLocalMediaPaths, TypeOKInbound
<1>18. CASE StartSweep
  <2>1. Referenced \subseteq File
    BY <1>0 DEF Referenced, TypeOKInbound, Database, File
  <2> QED
    BY <1>0, <1>18, <2>1 DEF StartSweep, TypeOKInbound
<1>19. ASSUME NEW f \in File, Sweep(f)
       PROVE  TypeOKInbound'
  BY <1>0, <1>19 DEF Sweep, TypeOKInbound
<1>20. CASE EndSweep
  BY <1>0, <1>20 DEF EndSweep, TypeOKInbound, Idle
<1>21. CASE Connect \/ Hello \/ Resumed \/ Invalidated \/ Identified \/ InvalidSession
            \/ Control \/ Fail \/ Poll
  BY <1>1, <1>21 DEF Connect, Hello, Resumed, Invalidated, Identified, InvalidSession,
                     Control, Fail, Poll
<1>22. CASE Refused \/ Disconnect \/ Expire \/ DispatchFails \/ SessionInvalid \/ BatchFails
  BY <1>2, <1>22 DEF OnlyFaults, Refused, Disconnect, Expire, DispatchFails,
                     SessionInvalid, BatchFails
<1> QED
  BY <1>3, <1>4, <1>5, <1>6, <1>7, <1>8, <1>9, <1>10, <1>11, <1>12, <1>13, <1>14,
     <1>15, <1>16, <1>17, <1>18, <1>19, <1>20, <1>21, <1>22
  DEF Next, QqStep, GatewayStep, QqFault, WechatStep, WechatFault, ServiceStep, CleanupStep

(* A function on 1 .. n is a sequence of length n.                         *)
LEMMA FunctionIsSequence ==
  ASSUME NEW S, NEW n \in Nat, NEW f \in [1 .. n -> S]
  PROVE  f \in Seq(S)
OBVIOUS

(* What a resumed session is sent.                                         *)
LEMMA ResumedWire ==
  ASSUME TypeOK, Streams, opened \in Session, NEW n \in Nat
  PROVE  LET w == Replay(n) \o <<[op |-> "resumed", s |-> Len(log[opened])]>>
             k == IF n <= Len(log[opened]) THEN Len(log[opened]) - n ELSE 0
         IN  /\ w \in Seq(Frame)
             /\ Len(w) = k + 1
             /\ \A i \in 1 .. k : w[i].op = "message" /\ w[i].s = n + i
             /\ w[k + 1].op = "resumed" /\ w[k + 1].s = Len(log[opened])
<1> DEFINE l == Len(log[opened])
           k == IF n <= l THEN l - n ELSE 0
           e(i) == [op |-> "message", s |-> n + i]
           last == [op |-> "resumed", s |-> l]
<1>1. l \in 0 .. MaxMessages
  BY StreamLength
<1> HIDE DEF l
<1>2. k \in Nat /\ 1 .. l - n = 1 .. k
  BY <1>1
<1>3. \A i \in 1 .. k : e(i) \in Frame
  BY <1>1, <1>2, InboundAssumption DEF Frame
<1> DEFINE r == [i \in 1 .. k |-> e(i)]
<1>4. r \in Seq(Frame) /\ Len(r) = k /\ \A i \in 1 .. k : r[i] = e(i)
  <2>1. r \in [1 .. k -> Frame]
    BY <1>3
  <2>2. r \in Seq(Frame)
    BY <1>2, <2>1, FunctionIsSequence
  <2> QED
    BY <1>2, <2>1, <2>2, LenProperties
<1>5. last \in Frame
  BY <1>1, InboundAssumption DEF Frame
<1>6. Replay(n) = r
  BY <1>2 DEF Replay, l
<1>8. /\ \A i \in 1 .. k : e(i).op = "message" /\ e(i).s = n + i
      /\ last.op = "resumed" /\ last.s = l
  OBVIOUS
<1> HIDE DEF e, r, last, k
<1>7. /\ r \o <<last>> \in Seq(Frame)
      /\ Len(r \o <<last>>) = k + 1
      /\ \A i \in 1 .. k : (r \o <<last>>)[i] = r[i]
      /\ (r \o <<last>>)[k + 1] = last
  BY <1>2, <1>4, <1>5
<1> DEFINE w == Replay(n) \o <<[op |-> "resumed", s |-> Len(log[opened])]>>
<1>9. w = r \o <<last>>
  BY <1>6 DEF last, l
<1> HIDE DEF w
<1>10. /\ w \in Seq(Frame)
       /\ Len(w) = k + 1
       /\ \A i \in 1 .. k : w[i].op = "message" /\ w[i].s = n + i
       /\ w[k + 1].op = "resumed" /\ w[k + 1].s = l
  BY <1>4, <1>7, <1>8, <1>9
<1> QED
  BY <1>10 DEF w, k, l

LEMMA QqTypeStep ==
  ASSUME IInv, Next
  PROVE  TypeOKQq'
<1> USE InboundAssumption
<1>0. TypeOK /\ TypeOKQq /\ Streams /\ (conn # "off" => Gateway)
  BY DEF IInv, Tables, TypeOK
<1>1. CASE UNCHANGED qqVars
  BY <1>0, <1>1 DEF TypeOKQq, qqVars
<1>2. CASE Connect
  BY <1>0, <1>2 DEF Connect, TypeOKQq, Phases
<1>3. CASE Refused \/ Disconnect \/ Fail
  <2>1. /\ conn' \in {"blocked", "down"} /\ wire' = <<>>
        /\ UNCHANGED <<session, sequence, ask, opened, alive, strayed>>
    BY <1>3 DEF Refused, Disconnect, Fail
  <2> QED
    BY <1>0, <2>1 DEF TypeOKQq, Phases
<1>4. CASE Hello
  <2>1. ask' \in Position
    BY <1>0, <1>4 DEF Hello, TypeOKQq, Position, At, NoPosition
  <2> QED
    BY <1>0, <1>4, <2>1 DEF Hello, TypeOKQq, Phases
<1>5. CASE Resumed
  <2>1. opened \in Session /\ ask.seq \in Nat
    BY <1>0, <1>5 DEF Resumed, TypeOKQq, Position
  <2>2. wire' \in Seq(Frame)
    BY <1>0, <1>5, <2>1, ResumedWire DEF Resumed
  <2> QED
    BY <1>0, <1>5, <2>2 DEF Resumed, TypeOKQq, Phases
<1>6. CASE Invalidated
  BY <1>0, <1>6 DEF Invalidated, TypeOKQq, Phases
<1>7. CASE Identified
  <2>1. wire' \in Seq(Frame)
    BY <1>7 DEF Identified, Frame
  <2> QED
    BY <1>0, <1>7, <2>1 DEF Identified, TypeOKQq, Phases
<1>8. CASE InvalidSession
  <2>1. NoPosition \in Position
    BY DEF NoPosition, Position
  <2> QED
    BY <1>0, <1>8, <2>1 DEF InvalidSession, TypeOKQq, Phases
<1>9. CASE Expire
  BY <1>0, <1>9 DEF Expire, TypeOKQq
<1>10. ASSUME NEW m \in Message, NEW k \in Kinds, GatewaySends(m, k)
       PROVE  TypeOKQq'
  <2>1. opened \in Session
    BY <1>0, <1>10 DEF GatewaySends, Gateway, SessionsOpened, TypeOKQq
  <2>2. /\ NextToSend(m) /\ kind' = [kind EXCEPT ![m] = k]
        /\ log' = [log EXCEPT ![opened] = Append(@, m)] /\ db' = db
    BY <1>10 DEF GatewaySends
  <2>3. Len(log[opened]) + 1 \in 0 .. MaxMessages
    <3>1. Len(log[opened]) < MaxMessages
      BY <1>0, <2>1, <2>2, LogGrows
    <3> QED
      BY <1>0, <2>1, <3>1, StreamLength
  <2>4. [op |-> "message", s |-> Len(log[opened]) + 1] \in Frame
    BY <2>3 DEF Frame
  <2>5. wire' \in Seq(Frame)
    BY <1>0, <1>10, <2>4, AppendProperties DEF GatewaySends, TypeOKQq
  <2> QED
    BY <1>0, <1>10, <2>5 DEF GatewaySends, TypeOKQq
<1>11. CASE Control \/ HandleDispatch \/ DispatchFails
  <2>1. wire # <<>> /\ wire' = Tail(wire)
    BY <1>11 DEF Control, HandleDispatch, DispatchFails
  <2>2. wire' \in Seq(Frame) /\ Head(wire) \in Frame
    BY <1>0, <2>1, HeadTailProperties DEF TypeOKQq
  <2>3. sequence' \in {sequence, Head(wire).s} /\ session' \in {session, opened}
    BY <1>11 DEF Control, HandleDispatch, DispatchFails
  <2>4. sequence' \in {Unknown} \cup (0 .. MaxMessages) /\ session' \in 0 .. MaxSessions
    BY <1>0, <2>2, <2>3 DEF TypeOKQq, Frame
  <2> QED
    BY <1>0, <1>11, <2>2, <2>4 DEF Control, HandleDispatch, DispatchFails, TypeOKQq, Phases
<1>12. ASSUME NEW c \in commands, CommandEnds(c)
       PROVE  TypeOKQq'
  <2>1. c[2].seq \in 0 .. MaxMessages
    BY <1>0 DEF TypeOK, TypeOKInbound, Position
  <2> QED
    BY <1>0, <1>12, <2>1 DEF CommandEnds, TypeOKQq
<1>13. CASE QqRestarts
  <2>1. db.checkpoint.session \in 0 .. MaxSessions /\ db.checkpoint.seq \in 0 .. MaxMessages
    BY <1>0 DEF TypeOK, TypeOKInbound, Database, Position
  <2> QED
    BY <1>0, <1>13, <2>1 DEF QqRestarts, TypeOKQq, Phases
<1> QED
  BY <1>1, <1>2, <1>3, <1>4, <1>5, <1>6, <1>7, <1>8, <1>9, <1>10, <1>11, <1>12, <1>13
  DEF Next, QqStep, GatewayStep, QqFault

LEMMA WechatTypeStep ==
  ASSUME IInv, Next
  PROVE  TypeOKWechat'
<1> USE InboundAssumption
<1>0. TypeOK /\ TypeOKWechat /\ Streams
  BY DEF IInv, Tables, TypeOK
<1>1. CASE UNCHANGED wechatVars
  BY <1>0, <1>1 DEF TypeOKWechat, wechatVars
<1>2. CASE Poll
  <2>1. PICK n \in 1 .. MaxBatch :
          /\ cursor + n <= Len(log[1])
          /\ batch' = SubSeq(log[1], cursor + 1, cursor + n)
          /\ end' = cursor + n
    BY <1>2 DEF Poll
  <2>2. cursor \in Nat /\ n \in Nat \ {0} /\ 1 \in Session
    BY <1>0 DEF TypeOKWechat
  <2>3. /\ Len(log[1]) \in 0 .. MaxMessages
        /\ \A i \in 1 .. Len(log[1]) : log[1][i] \in Message
    BY <1>0, <2>2, StreamLength
  <2>4. \A i \in cursor + 1 .. cursor + n : log[1][i] \in Message
    BY <2>1, <2>2, <2>3
  <2>5. batch' \in Seq(Message)
    BY <2>1, <2>2, <2>4, SubSeqProperties
  <2> QED
    BY <1>0, <1>2, <2>1, <2>2, <2>3, <2>5 DEF Poll, TypeOKWechat
<1>3. CASE SessionInvalid
  BY <1>0, <1>3 DEF SessionInvalid, TypeOKWechat
<1>4. CASE Advance /\ phase \in {"batch", "command"}
  BY <1>0, <1>4, InTheBatch DEF Advance, TypeOKWechat
<1>5. CASE Download
  BY <1>0, <1>5 DEF Download, TypeOKWechat
<1>6. CASE HandleMessage
  BY <1>0, <1>4, <1>6 DEF HandleMessage, TypeOKWechat
<1>7. CASE BatchFails
  BY <1>0, <1>7 DEF BatchFails, TypeOKWechat
<1>8. CASE WechatRestarts
  <2>1. db.checkpoint.seq \in 0 .. MaxMessages
    BY <1>0 DEF TypeOK, TypeOKInbound, Database, Position
  <2> QED
    BY <1>0, <1>8, <2>1 DEF WechatRestarts, TypeOKWechat
<1>9. ASSUME NEW m \in Message, NEW k \in Kinds, ContactSends(m, k)
      PROVE  TypeOKWechat'
  BY <1>1, <1>9 DEF ContactSends
<1>10. ASSUME NEW f \in File, Ages(f)
       PROVE  TypeOKWechat'
  BY <1>1, <1>10 DEF Ages
<1>11. CASE HandleSystem \/ HandleOdd \/ DownloadFails \/ \E c \in commands : HandleCommandEnds(c)
  BY <1>4, <1>11 DEF HandleSystem, HandleOdd, DownloadFails, HandleCommandEnds
<1> QED
  BY <1>1, <1>2, <1>3, <1>5, <1>6, <1>7, <1>8, <1>9, <1>10, <1>11
  DEF Next, WechatStep, WechatFault

LEMMA TypeStep ==
  ASSUME IInv, [Next]_vars
  PROVE  TypeOK'
<1>1. CASE Next
  BY <1>1, InboundTypeStep, QqTypeStep, WechatTypeStep DEF TypeOK
<1>2. CASE UNCHANGED vars
  <2>1. UNCHANGED inboundVars /\ UNCHANGED qqVars /\ UNCHANGED wechatVars
    BY <1>2 DEF vars
  <2>2. TypeOKInbound'
    BY <2>1 DEF inboundVars, IInv, TypeOK, TypeOKInbound
  <2>3. TypeOKQq'
    BY <2>1 DEF inboundVars, qqVars, IInv, TypeOK, TypeOKQq
  <2>4. TypeOKWechat'
    BY <2>1 DEF inboundVars, wechatVars, IInv, TypeOK, TypeOKWechat
  <2> QED
    BY <2>2, <2>3, <2>4 DEF TypeOK
<1> QED
  BY <1>1, <1>2

-----------------------------------------------------------------------------
(* What a step does to the tables.                                         *)

(* With a file that is there and fresh, if it refers to one.               *)
Stored(m, c) ==
  /\ Sent(m) /\ Enters(m, c)
  /\ kind[m] = "media" => <<m, c>> \in files \ old

(* Of a message that is dealt with, afterwards.                            *)
Settles(m) == m \in db'.events \cup db'.dead \cup ignored' \/ kind[m] = "system"

LEMMA DispatchEffect ==
  ASSUME IInv, HandleDispatch
  PROVE  /\ db.dead \subseteq db'.dead /\ ignored \subseteq ignored'
         /\ db'.checkpoint \in {db.checkpoint, Delivery}
         /\ Untouched \/ Stored(Delivered, 0)
         /\ commands' \subseteq commands \cup {<<Delivered, Delivery>>}
         /\ Settles(Delivered)
<1>1. /\ conn \in {"open", "failing"} /\ wire # <<>> /\ Head(wire).op = "message"
  BY DEF HandleDispatch
<1>2. TypeOKInbound
  BY DEF IInv, TypeOK
<1> DEFINE m == Delivered
<1>3. /\ m \in Message /\ Sent(m) /\ kind[m] # "media"
      /\ Delivery \in Position /\ Checkpoint = Delivery /\ Delivery # NoPosition
  BY <1>1, OnTheWire
<1> HIDE DEF m
<1>4. CASE kind[m] = "system"
  BY <1>4 DEF HandleDispatch, m, Untouched, Settles, database
<1>5. CASE kind[m] = "odd"
  <2> DEFINE d == [db EXCEPT !.dead = @ \cup {m}]
  <2>1. /\ d \in Database /\ d.dead = db.dead \cup {m} /\ d.events = db.events
        /\ d.task = db.task /\ d.path = db.path /\ d.checkpoint = db.checkpoint
    BY <1>2, <1>3 DEF TypeOKInbound, Database
  <2>2. db' = Saving(d, Delivery) /\ UNCHANGED <<ran, ignored, commands>>
    BY <1>3, <1>5 DEF HandleDispatch, DeadLettered, m
  <2> HIDE DEF d
  <2> QED
    BY <1>3, <1>5, <2>1, <2>2, SavingType DEF Untouched, Settles, m
<1>6. CASE kind[m] \notin {"system", "odd"}
  <2>1. HandleInbound(m, Delivery, Delivery, 0)
    BY <1>3, <1>6 DEF HandleDispatch, m
  <2>2. 0 \in 0 .. MaxCopies
    BY InboundAssumption
  <2> QED
    BY <1>2, <1>3, <2>1, <2>2, InboundEffect DEF Untouched, Enters, Stored, Settles, m
<1> QED
  BY <1>4, <1>5, <1>6

(* The handlers of a batch: each deals with the message at its head.       *)
Handles == HandleSystem \/ HandleOdd \/ DownloadFails \/ HandleMessage

LEMMA BatchEffect ==
  ASSUME IInv, Handles
  PROVE  /\ phase = "batch"
         /\ db.dead \subseteq db'.dead /\ ignored \subseteq ignored'
         /\ db'.checkpoint = IF Final THEN At(1, end) ELSE db.checkpoint
         /\ Untouched \/ Stored(Head(batch), copy)
         /\ commands' \subseteq commands \cup {<<Head(batch), Place>>}
         /\ Settles(Head(batch))
         /\ \/ Advance
            \/ /\ HandleMessage /\ phase' = "command" /\ UNCHANGED <<cursor, batch, end, copy>>
               /\ Head(batch) \in db'.events
<1> DEFINE m == Head(batch)
<1>1. phase = "batch"
  BY DEF Handles, HandleSystem, HandleOdd, DownloadFails, HandleMessage
<1>2. TypeOKInbound /\ Media /\ copy \in 0 .. MaxCopies
  BY DEF IInv, Tables, TypeOK, TypeOKWechat
<1>3. /\ m \in Message /\ Sent(m) /\ Place \in Position /\ BatchCheckpoint \in Position
      /\ Len(batch) \in 1 .. end
  BY <1>1, InTheBatch
<1>4. ASSUME NEW x
      PROVE  (IF BatchCheckpoint = NoPosition THEN x ELSE BatchCheckpoint)
               = IF Final THEN At(1, end) ELSE x
  BY DEF BatchCheckpoint, At, NoPosition
<1> HIDE DEF m
<1> DEFINE d == [db EXCEPT !.dead = @ \cup {m}]
<1>5. /\ d \in Database /\ d.dead = db.dead \cup {m} /\ d.events = db.events
      /\ d.task = db.task /\ d.path = db.path /\ d.checkpoint = db.checkpoint
  BY <1>2, <1>3 DEF TypeOKInbound, Database
<1> HIDE DEF d
<1>6. ASSUME HandleSystem
      PROVE  /\ db.dead \subseteq db'.dead /\ ignored \subseteq ignored'
             /\ db'.checkpoint = IF Final THEN At(1, end) ELSE db.checkpoint
             /\ Untouched /\ Settles(m) /\ Advance /\ commands' = commands
  <2>1. db' = Saving(db, BatchCheckpoint) /\ db \in Database
    BY <1>2, <1>6 DEF HandleSystem, TypeOKInbound
  <2>2. /\ db'.events = db.events /\ db'.task = db.task /\ db'.path = db.path
        /\ db'.dead = db.dead
        /\ db'.checkpoint = IF Final THEN At(1, end) ELSE db.checkpoint
    BY <1>3, <1>4, <2>1, SavingType
  <2>3. kind[m] = "system" /\ UNCHANGED <<ran, ignored>> /\ Advance /\ commands' = commands
    BY <1>6 DEF HandleSystem, m
  <2> QED
    BY <2>2, <2>3 DEF Untouched, Settles
<1>7. ASSUME HandleOdd \/ DownloadFails
      PROVE  /\ db.dead \subseteq db'.dead /\ ignored \subseteq ignored'
             /\ db'.checkpoint = IF Final THEN At(1, end) ELSE db.checkpoint
             /\ Untouched /\ Settles(m) /\ Advance /\ commands' = commands
  <2> DEFINE e == Saving(d, BatchCheckpoint)
  <2>1. /\ e \in Database /\ e.dead = d.dead /\ e.events = d.events
        /\ e.task = d.task /\ e.path = d.path
        /\ e.checkpoint = IF Final THEN At(1, end) ELSE d.checkpoint
    BY <1>3, <1>4, <1>5, SavingType
  <2>2. db' \in {e, [e EXCEPT !.answered = @ \cup {m}]}
    BY <1>7 DEF HandleOdd, DownloadFails, DeadLettered, m, d
  <2> HIDE DEF e
  <2>3. /\ db'.events = e.events /\ db'.task = e.task /\ db'.path = e.path
        /\ db'.dead = e.dead /\ db'.checkpoint = e.checkpoint
    BY <2>1, <2>2 DEF Database
  <2>4. UNCHANGED <<ran, ignored>> /\ Advance /\ commands' = commands
    BY <1>7 DEF HandleOdd, DownloadFails
  <2> QED
    BY <1>5, <2>1, <2>3, <2>4 DEF Untouched, Settles
<1>8. ASSUME HandleMessage
      PROVE  /\ db.dead \subseteq db'.dead /\ ignored \subseteq ignored'
             /\ db'.checkpoint = IF Final THEN At(1, end) ELSE db.checkpoint
             /\ Untouched \/ Stored(m, copy)
             /\ Settles(m)
             /\ commands' \subseteq commands \cup {<<m, Place>>}
             /\ \/ Advance
                \/ /\ phase' = "command" /\ UNCHANGED <<cursor, batch, end, copy>>
                   /\ m \in db'.events
  <2>1. HandleInbound(m, Place, BatchCheckpoint, copy)
    BY <1>8 DEF HandleMessage, m
  <2>2. kind[m] = "media" /\ m \notin db.events => <<m, copy>> \in files \ old
    BY <1>2, <1>8 DEF HandleMessage, Media, m
  <2>3. /\ db.dead \subseteq db'.dead /\ ignored \subseteq ignored'
        /\ db'.checkpoint = IF Final THEN At(1, end) ELSE db.checkpoint
    BY <1>2, <1>3, <1>4, <2>1, InboundEffect
  <2>6. Untouched \/ Stored(m, copy)
    <3>1. Untouched \/ Enters(m, copy)
      BY <1>2, <1>3, <2>1, InboundEffect
    <3> QED
      BY <1>3, <2>2, <3>1 DEF Enters, Stored
  <2>7. Settles(m)
    BY <1>2, <1>3, <2>1, InboundEffect DEF Settles, Untouched, Enters
  <2>4. commands' \subseteq commands \cup {<<m, Place>>}
    BY <1>2, <1>3, <2>1, InboundEffect
  <2>5. kind[m] # "ordinary" => m \in db'.events
    BY <1>2, <1>3, <2>1, InboundEffect DEF Enters, Untouched
  <2> QED
    BY <1>8, <2>3, <2>4, <2>5, <2>6, <2>7 DEF HandleMessage, m
<1> QED
  BY <1>1, <1>6, <1>7, <1>8 DEF Handles, m

-----------------------------------------------------------------------------
(* What is sent stays sent, what is dealt with stays dealt with.           *)

Grows ==
  /\ \A s \in Session :
       /\ Len(log[s]) <= Len(log'[s])
       /\ \A i \in 1 .. Len(log[s]) : log'[s][i] = log[s][i]
  /\ \A m \in Message : Sent(m) => kind'[m] = kind[m]
  /\ db.events \subseteq db'.events
  /\ db.dead \subseteq db'.dead
  /\ ignored \subseteq ignored'
  /\ thrown \subseteq thrown'

(* A message is sent, in the stream of session s.                          *)
Sends(m, s, k) ==
  /\ NextToSend(m)
  /\ kind' = [kind EXCEPT ![m] = k]
  /\ log' = [log EXCEPT ![s] = Append(@, m)]
  /\ db' = db

LEMMA StepEffect ==
  ASSUME IInv, Next
  PROVE  /\ db.dead \subseteq db'.dead
         /\ ignored \subseteq ignored' /\ thrown \subseteq thrown'
         /\ UNCHANGED <<kind, log>>
              \/ \E m \in Message, s \in Session, k \in Kinds : Sends(m, s, k)
         /\ \/ Untouched
            \/ /\ \E m \in Message, c \in 0 .. MaxCopies : Stored(m, c)
               /\ UNCHANGED mediaVars
            \/ \E m \in Message : TaskEnds(m) \/ ClearLocalMediaPaths(m)
<1>0. TypeOKInbound /\ (conn # "off" => Gateway) /\ copy \in 0 .. MaxCopies
  BY DEF IInv, TypeOK, TypeOKWechat
<1>1. CASE UNCHANGED <<kind, log, db, ran, ignored>> /\ thrown \subseteq thrown'
  BY <1>1 DEF Untouched
<1>2. ASSUME NEW m \in Message, NEW k \in Kinds, GatewaySends(m, k)
      PROVE  /\ \E s \in Session : Sends(m, s, k)
             /\ Untouched /\ db' = db /\ ignored' = ignored /\ thrown' = thrown
  <2>1. opened \in Session
    BY <1>0, <1>2 DEF GatewaySends, Gateway, SessionsOpened, IInv, TypeOK, TypeOKQq
  <2> QED
    BY <1>2, <2>1 DEF GatewaySends, Sends, Untouched
<1>3. ASSUME NEW m \in Message, NEW k \in Kinds, ContactSends(m, k)
      PROVE  /\ \E s \in Session : Sends(m, s, k)
             /\ Untouched /\ db' = db /\ ignored' = ignored /\ thrown' = thrown
  <2>1. 1 \in Session
    BY InboundAssumption
  <2> QED
    BY <1>3, <2>1 DEF ContactSends, Sends, Untouched
<1>4. CASE HandleDispatch
  <2>1. Delivered \in Message /\ 0 \in 0 .. MaxCopies
    BY <1>4, OnTheWire, InboundAssumption DEF HandleDispatch
  <2>2. UNCHANGED <<kind, log, mediaVars>> /\ thrown \subseteq thrown'
    BY <1>4 DEF HandleDispatch
  <2> QED
    BY <1>4, <2>1, <2>2, DispatchEffect
<1>5. CASE Handles
  <2>1. Head(batch) \in Message
    BY <1>5, BatchEffect, InTheBatch
  <2>2. UNCHANGED <<kind, log, mediaVars, thrown>>
    BY <1>5 DEF Handles, HandleSystem, HandleOdd, DownloadFails, HandleMessage
  <2> QED
    BY <1>0, <1>5, <2>1, <2>2, BatchEffect
<1>6. ASSUME NEW c \in commands, CommandEnds(c) \/ HandleCommandEnds(c)
      PROVE  UNCHANGED <<kind, log, ignored, thrown>> /\ db'.dead = db.dead /\ Untouched
  <2>1. db' = Answered(c[1]) /\ UNCHANGED <<kind, log, ignored, thrown, ran>>
    BY <1>6 DEF CommandEnds, HandleCommandEnds
  <2> QED
    BY <1>0, <2>1 DEF Answered, Untouched, TypeOKInbound, Database
<1>7. ASSUME NEW m \in Message, TaskEnds(m) \/ ClearLocalMediaPaths(m)
      PROVE  UNCHANGED <<kind, log, ignored, thrown>> /\ db'.dead = db.dead
  BY <1>0, <1>7 DEF TaskEnds, ClearLocalMediaPaths, TypeOKInbound, Database
<1>8. CASE QqFault \/ WechatFault
  BY <1>1, <1>8 DEF QqFault, WechatFault, Refused, Disconnect, Expire, DispatchFails,
                    QqRestarts, SessionInvalid, BatchFails, WechatRestarts
<1>9. CASE Connect \/ Hello \/ InvalidSession \/ Control \/ Fail \/ Resumed \/ Invalidated
           \/ Identified \/ Poll \/ Download
  BY <1>1, <1>9 DEF Connect, Hello, InvalidSession, Control, Fail, Resumed, Invalidated,
                    Identified, Poll, Download, inboundVars
<1>10. CASE Admit \/ SwitchMode \/ StartCleanup \/ StartSweep \/ EndSweep
            \/ \E f \in File : Sweep(f) \/ Ages(f)
  BY <1>1, <1>10 DEF Admit, SwitchMode, StartCleanup, StartSweep, EndSweep, Sweep, Ages
<1>11. CASE \E m \in Message : RemoveFile(m)
  BY <1>1, <1>11 DEF RemoveFile
<1> QED
  BY <1>2, <1>3, <1>4, <1>5, <1>6, <1>7, <1>8, <1>9, <1>10, <1>11
  DEF Next, QqStep, GatewayStep, WechatStep, ServiceStep, CleanupStep, Handles

LEMMA Growing ==
  ASSUME IInv, Next
  PROVE  Grows /\ Streams'
<1>1. TypeOK /\ TypeOKInbound /\ Streams
  BY DEF IInv, Tables, TypeOK
<1>2. /\ db.dead \subseteq db'.dead
      /\ ignored \subseteq ignored' /\ thrown \subseteq thrown'
      /\ db.events \subseteq db'.events
  <2>1. ASSUME NEW m \in Message, TaskEnds(m) \/ ClearLocalMediaPaths(m)
        PROVE  db'.events = db.events
    BY <1>1, <2>1 DEF TaskEnds, ClearLocalMediaPaths, TypeOKInbound, Database
  <2> QED
    BY <2>1, StepEffect DEF Untouched, Stored, Enters
<1>3. CASE UNCHANGED <<kind, log>>
  <2>1. Grows
    BY <1>1, <1>2, <1>3, StreamLength DEF Grows
  <2>2. \A m \in db'.events : m \in db.events \/ Sent(m)
    <3>1. ASSUME NEW m \in Message, TaskEnds(m) \/ ClearLocalMediaPaths(m)
          PROVE  db'.events = db.events
      BY <1>1, <3>1 DEF TaskEnds, ClearLocalMediaPaths, TypeOKInbound, Database
    <3> QED
      BY <3>1, StepEffect DEF Untouched, Stored, Enters
  <2> QED
    <3>1. \A m \in db'.events : kind[m] # "unsent"
      BY <1>1, <2>2 DEF Streams, Sent
    <3>2. \A m, o \in Message : o < m /\ kind[m] # "unsent" => kind[o] # "unsent"
      BY <1>1 DEF Streams, Sent
    <3>3. \A s \in Session : \A i \in 1 .. Len(log[s]) :
            i <= log[s][i] /\ kind[log[s][i]] # "unsent"
      BY <1>1 DEF Streams, Sent
    <3> QED
      BY <1>3, <2>1, <3>1, <3>2, <3>3 DEF Streams, Sent
<1>4. ASSUME NEW m \in Message, NEW s \in Session, NEW k \in Kinds, Sends(m, s, k)
      PROVE  Grows /\ Streams'
  <2>1. Streams' /\ log'[s] = Append(log[s], m) /\ Len(log'[s]) = Len(log[s]) + 1
    BY <1>1, <1>4, LogGrows DEF Sends
  <2>2. \A t \in Session : t # s => log'[t] = log[t]
    BY <1>1, <1>4 DEF Sends, TypeOKInbound
  <2>3. log[s] \in Seq(Message) /\ \A t \in Session : Len(log[t]) \in Nat
    BY <1>1, StreamLength
  <2>4. \A i \in 1 .. Len(log[s]) : log'[s][i] = log[s][i]
    BY <2>1, <2>3
  <2>5. \A o \in Message : Sent(o) => kind'[o] = kind[o]
    BY <1>1, <1>4 DEF Sends, NextToSend, Sent, TypeOKInbound
  <2> QED
    <3>1. ASSUME NEW t \in Session
          PROVE  /\ Len(log[t]) <= Len(log'[t])
                 /\ \A i \in 1 .. Len(log[t]) : log'[t][i] = log[t][i]
      <4>1. CASE t = s
        <5>1. Len(log[s]) <= Len(log'[s])
          BY <2>1, <2>3
        <5> QED
          BY <2>4, <4>1, <5>1, Zenon
      <4>2. CASE t # s
        BY <2>2, <2>3, <4>2
      <4> QED
        BY <4>1, <4>2
    <3> QED
      BY <1>2, <2>1, <2>5, <3>1 DEF Grows
<1> QED
  BY <1>3, <1>4, StepEffect

-----------------------------------------------------------------------------
(* The tables.                                                             *)

LEMMA PlatformStays ==
  ASSUME Next
  PROVE  (conn' = "off" <=> conn = "off") /\ (phase' = "off" <=> phase = "off")
<1>1. CASE (QqStep \/ GatewayStep \/ QqFault) /\ UNCHANGED wechatVars
  <2>1. phase' = phase
    BY <1>1 DEF wechatVars
  <2>2. conn' = "off" <=> conn = "off"
    BY <1>1 DEF QqStep, GatewayStep, QqFault, Connect, Hello, InvalidSession, Control,
                HandleDispatch, Fail, CommandEnds, Resumed, Invalidated, Identified,
                GatewaySends, Refused, Disconnect, Expire, DispatchFails, QqRestarts
  <2> QED
    BY <2>1, <2>2
<1>2. CASE (WechatStep \/ WechatFault) /\ UNCHANGED qqVars
  <2>1. conn' = conn
    BY <1>2 DEF qqVars
  <2>2. phase' = "off" <=> phase = "off"
    BY <1>2 DEF WechatStep, WechatFault, Poll, HandleSystem, HandleOdd, Download,
                DownloadFails, HandleMessage, HandleCommandEnds, SessionInvalid,
                BatchFails, WechatRestarts, Advance
  <2> QED
    BY <2>1, <2>2
<1>3. CASE UNCHANGED <<qqVars, wechatVars>>
  BY <1>3 DEF qqVars, wechatVars
<1>4. ASSUME UNCHANGED qqVars,
             (\E m \in Message, k \in Kinds : ContactSends(m, k)) \/ \E f \in File : Ages(f)
      PROVE  UNCHANGED <<qqVars, wechatVars>>
  BY <1>4 DEF ContactSends, Ages
<1> QED
  BY <1>1, <1>2, <1>3, <1>4 DEF Next

LEMMA PlatformStep ==
  ASSUME IInv, Next
  PROVE  OnePlatform'
<1>1. OnePlatform /\ TypeOKInbound
  BY DEF IInv, Tables, TypeOK
<1>2. conn' = "off" <=> phase' # "off"
  BY <1>1, PlatformStays DEF OnePlatform
<1>3. ASSUME conn' # "off"
      PROVE  \A m \in Message : kind'[m] # "media"
  <2>1. \A m \in Message : kind[m] # "media"
    BY <1>1, <1>3, PlatformStays DEF OnePlatform
  <2>2. CASE UNCHANGED kind
    BY <2>1, <2>2
  <2>3. ASSUME NEW m \in Message, NEW k \in Kinds, GatewaySends(m, k)
        PROVE  \A o \in Message : kind'[o] # "media"
    BY <1>1, <2>1, <2>3 DEF GatewaySends, TypeOKInbound
  <2>4. ASSUME NEW m \in Message, NEW k \in Kinds, ContactSends(m, k)
        PROVE  FALSE
    BY <1>1, <1>3, <2>4, PlatformStays DEF ContactSends, OnePlatform
  <2>5. CASE (QqStep \/ Resumed \/ Invalidated \/ Identified \/ QqFault)
    BY <2>2, <2>5 DEF QqStep, QqFault, Connect, Hello, InvalidSession, Control,
                HandleDispatch, Fail, CommandEnds, Resumed, Invalidated, Identified,
                Refused, Disconnect, Expire, DispatchFails, QqRestarts, inboundVars
  <2>6. CASE WechatStep \/ WechatFault
    BY <2>2, <2>6 DEF WechatStep, WechatFault, Poll, HandleSystem, HandleOdd, Download,
                DownloadFails, HandleMessage, HandleCommandEnds, SessionInvalid,
                BatchFails, WechatRestarts, inboundVars
  <2>7. CASE ServiceStep \/ CleanupStep \/ \E f \in File : Ages(f)
    BY <2>2, <2>7 DEF ServiceStep, CleanupStep, Admit, SwitchMode, TaskEnds, StartCleanup,
                RemoveFile, ClearLocalMediaPaths, StartSweep, Sweep, EndSweep, Ages
  <2> QED
    BY <2>3, <2>4, <2>5, <2>6, <2>7 DEF Next, GatewayStep
<1> QED
  BY <1>2, <1>3 DEF OnePlatform

LEMMA OnceStep ==
  ASSUME IInv, Next
  PROVE  Once'
<1>1. Once /\ TypeOKInbound
  BY DEF IInv, Tables, TypeOK
<1>2. CASE Untouched
  BY <1>1, <1>2 DEF Once, Untouched
<1>3. ASSUME NEW m \in Message, NEW c \in 0 .. MaxCopies, Stored(m, c)
      PROVE  Once'
  <2>1. /\ m \notin db.events /\ db'.events = db.events \cup {m}
        /\ \A o \in Message : db'.task[o] = IF o = m THEN FirstStatus(m) ELSE db.task[o]
    BY <1>1, <1>3 DEF Stored, Enters, TypeOKInbound, Database
  <2>2. /\ ran[m] = 0
        /\ \A o \in Message : ran'[o] = ran[o] \/ (o = m /\ ran'[o] = ran[o] + 1)
    <3>1. ran[m] = 0 /\ ran \in [Message -> Nat]
      BY <1>1, <1>3 DEF Once, Stored, Enters, TypeOKInbound
    <3>2. ran' = ran \/ ran' = [ran EXCEPT ![m] = @ + 1]
      BY <1>3 DEF Stored, Enters
    <3> QED
      BY <3>1, <3>2
  <2> QED
    BY <1>1, <2>1, <2>2 DEF Once
<1>4. ASSUME NEW m \in Message, TaskEnds(m)
      PROVE  Once'
  BY <1>1, <1>4 DEF Once, TaskEnds, TypeOKInbound, Database
<1>5. ASSUME NEW m \in Message, ClearLocalMediaPaths(m)
      PROVE  Once'
  BY <1>1, <1>5 DEF Once, ClearLocalMediaPaths, TypeOKInbound, Database
<1> QED
  BY <1>2, <1>3, <1>4, <1>5, StepEffect

-----------------------------------------------------------------------------
(* The media files.                                                        *)

(* Only a message that was no event gets an open task, or another path     *)
(* while its task is open.                                                 *)
LEMMA AwaitedStep ==
  ASSUME IInv, Next, NEW m \in Message
  PROVE  /\ m \in db.events /\ db.task[m] # "open" => db'.task[m] # "open"
         /\ Awaited(m)' =>
              \/ Awaited(m) /\ db'.path[m] = db.path[m]
              \/ <<m, db'.path[m]>> \in files \ old /\ UNCHANGED mediaVars
<1>1. TypeOKInbound /\ Streams /\ Once /\ Media
  BY DEF IInv, Tables, TypeOK
<1>2. db'.task[m] = "open" /\ db.task[m] = "open" => kind'[m] = kind[m]
  <2>1. db.task[m] = "open" => m \in db.events /\ Sent(m)
    BY <1>1 DEF Once, Streams
  <2> QED
    BY <2>1, Growing DEF Grows
<1>3. CASE Untouched
  BY <1>2, <1>3 DEF Untouched, Awaited
<1>4. ASSUME NEW n \in Message, NEW c \in 0 .. MaxCopies, Stored(n, c), UNCHANGED mediaVars
      PROVE  /\ m \in db.events /\ db.task[m] # "open" => db'.task[m] # "open"
             /\ Awaited(m)' =>
                  \/ Awaited(m) /\ db'.path[m] = db.path[m]
                  \/ <<m, db'.path[m]>> \in files \ old
  <2>1. CASE m = n
    <3>1. kind'[m] = kind[m]
      BY <1>4, <2>1, Growing DEF Grows, Stored
    <3> QED
      BY <1>1, <1>4, <2>1, <3>1 DEF Stored, Enters, Awaited, TypeOKInbound, Database
  <2>2. CASE m # n
    <3>1. db'.task[m] = db.task[m] /\ db'.path[m] = db.path[m]
      BY <1>1, <1>4, <2>2 DEF Stored, Enters, TypeOKInbound, Database
    <3> QED
      BY <1>2, <3>1 DEF Awaited
  <2> QED
    BY <2>1, <2>2
<1>5. ASSUME NEW n \in Message, TaskEnds(n)
      PROVE  /\ db'.task[m] = "open" => db.task[m] = "open"
             /\ db'.path[m] = db.path[m]
  BY <1>1, <1>5 DEF TaskEnds, TypeOKInbound, Database
<1>6. ASSUME NEW n \in Message, ClearLocalMediaPaths(n)
      PROVE  /\ db'.task[m] = db.task[m]
             /\ db.task[m] = "open" => db'.path[m] = db.path[m]
  <2>1. /\ db' = [db EXCEPT !.path[n] = 0] /\ db.task[n] # "open"
    BY <1>1, <1>6 DEF ClearLocalMediaPaths, Media
  <2> QED
    BY <1>1, <2>1 DEF TypeOKInbound, Database
<1>7. ASSUME NEW n \in Message, TaskEnds(n) \/ ClearLocalMediaPaths(n)
      PROVE  /\ m \in db.events /\ db.task[m] # "open" => db'.task[m] # "open"
             /\ Awaited(m)' => Awaited(m) /\ db'.path[m] = db.path[m]
  BY <1>2, <1>5, <1>6, <1>7 DEF Awaited
<1> QED
  BY <1>3, <1>4, <1>7, StepEffect

(* The file the loop has downloaded for the message at the head.           *)
InHand == copy # 0 => /\ batch # <<>>
                      /\ Head(batch) \notin db.events => <<Head(batch), copy>> \in files \ old

LEMMA InHandStep ==
  ASSUME IInv, Next
  PROVE  InHand'
<1>0. /\ TypeOK /\ TypeOKInbound /\ TypeOKWechat /\ Media /\ InHand
      /\ phase # "off" => Loop
  BY DEF IInv, Tables, TypeOK, Media, InHand
<1>1. db.events \subseteq db'.events
  BY Growing DEF Grows
<1>2. CASE UNCHANGED <<batch, copy, files, old>>
  BY <1>0, <1>1, <1>2 DEF InHand
<1>3. CASE copy' = 0
  BY <1>3 DEF InHand
<1>4. CASE Download
  <2>1. PICK n \in 1 .. MaxCopies : /\ <<Head(batch), n>> \notin files
                                    /\ copy' = n /\ files' = files \cup {<<Head(batch), n>>}
    BY <1>4 DEF Download
  <2>2. UNCHANGED <<batch, old>> /\ batch # <<>>
    BY <1>0, <1>4 DEF Download, Loop
  <2> QED
    BY <1>0, <2>1, <2>2 DEF InHand, TypeOKInbound
<1>5. CASE Poll
  BY <1>0, <1>3, <1>5 DEF Poll, Loop, InHand
<1>6. CASE Handles
  <2>1. Advance \/ UNCHANGED <<batch, copy>>
    BY <1>6, BatchEffect
  <2>2. UNCHANGED <<files, old>>
    BY <1>6 DEF Handles, HandleSystem, HandleOdd, DownloadFails, HandleMessage, mediaVars
  <2> QED
    BY <1>2, <1>3, <2>1, <2>2 DEF Advance
<1>7. CASE WechatFault \/ \E c \in commands : HandleCommandEnds(c)
  BY <1>2, <1>3, <1>7 DEF WechatFault, HandleCommandEnds, SessionInvalid, BatchFails,
                          WechatRestarts, Advance, mediaVars
<1>8. ASSUME NEW f \in File, Ages(f)
      PROVE  InHand'
  BY <1>0, <1>8 DEF Ages, InHand, wechatVars
<1>9. CASE (QqStep \/ GatewayStep \/ QqFault) /\ UNCHANGED wechatVars
  <2>1. UNCHANGED <<files, old>>
    BY <1>9 DEF QqStep, GatewayStep, QqFault, Connect, Hello, InvalidSession, Control,
                HandleDispatch, Fail, CommandEnds, Resumed, Invalidated, Identified, GatewaySends,
                Refused, Disconnect, Expire, DispatchFails, QqRestarts, inboundVars, mediaVars
  <2> QED
    BY <1>2, <1>9, <2>1 DEF wechatVars
<1>10. ASSUME NEW m \in Message, NEW k \in Kinds, ContactSends(m, k)
       PROVE  InHand'
  BY <1>2, <1>10 DEF ContactSends, mediaVars, wechatVars
<1>11. CASE UNCHANGED wechatVars /\ UNCHANGED <<files, old>>
  BY <1>2, <1>11 DEF wechatVars
<1>12. ASSUME NEW m \in Message, RemoveFile(m), UNCHANGED wechatVars
       PROVE  InHand'
  <2>1. /\ m \in db.events /\ db' = db
        /\ files' = files \ {<<m, db.path[m]>>} /\ old' \subseteq old
    BY <1>0, <1>12 DEF RemoveFile, Media
  <2> QED
    BY <1>0, <1>12, <2>1 DEF InHand, wechatVars
<1>13. ASSUME NEW f \in File, Sweep(f), UNCHANGED wechatVars
       PROVE  InHand'
  <2>1. /\ f \in old /\ db' = db /\ files' = files \ {f} /\ old' \subseteq old
    BY <1>13 DEF Sweep, Sweepable
  <2> QED
    BY <1>0, <1>13, <2>1 DEF InHand, wechatVars
<1>14. CASE /\ \/ ServiceStep \/ StartCleanup \/ StartSweep \/ EndSweep
               \/ \E m \in Message : ClearLocalMediaPaths(m)
            /\ UNCHANGED wechatVars
  <2>1. UNCHANGED <<files, old>>
    BY <1>14 DEF ServiceStep, Admit, SwitchMode, TaskEnds, StartCleanup, StartSweep, EndSweep,
                 ClearLocalMediaPaths, mediaVars
  <2> QED
    BY <1>11, <1>14, <2>1
<1> QED
  BY <1>4, <1>5, <1>6, <1>7, <1>8, <1>9, <1>10, <1>12, <1>13, <1>14
  DEF Next, WechatStep, CleanupStep, Handles

LEMMA MediaStep ==
  ASSUME IInv, Next
  PROVE  Media'
<1>0. TypeOK /\ TypeOKInbound /\ Media
  BY DEF IInv, Tables, TypeOK
<1>1. \A m \in Message :
        /\ m \in db.events /\ db.task[m] # "open" => db'.task[m] # "open"
        /\ Awaited(m)' =>
             \/ Awaited(m) /\ db'.path[m] = db.path[m]
             \/ <<m, db'.path[m]>> \in files \ old /\ UNCHANGED <<files, old, cleaner>>
  BY AwaitedStep DEF mediaVars
<1>2. db.events \subseteq db'.events
  BY Growing DEF Grows
<1>3. db.events \subseteq Message /\ cleaner.events \cup cleaner.current \subseteq Message
  BY <1>0 DEF TypeOKInbound, Database
<1>4. ASSUME \A m \in cleaner'.events \cup cleaner'.current :
               m \in db.events /\ db.task[m] # "open",
             \A m \in Message : Awaited(m) => <<m, db.path[m]>> \in files',
             cleaner'.phase = "sweeping" =>
               \A m \in Message : Awaited(m) =>
                 <<m, db.path[m]>> \in cleaner'.kept \/ <<m, db.path[m]>> \notin old'
      PROVE  Media'
  <2>1. \A m \in cleaner'.events \cup cleaner'.current :
          m \in db'.events /\ db'.task[m] # "open"
    BY <1>1, <1>2, <1>3, <1>4
  <2>2. \A m \in Message : Awaited(m)' => <<m, db'.path[m]>> \in files'
    BY <1>1, <1>4
  <2>3. cleaner'.phase = "sweeping" =>
          \A m \in Message : Awaited(m)' =>
            <<m, db'.path[m]>> \in cleaner'.kept \/ <<m, db'.path[m]>> \notin old'
    BY <1>1, <1>4
  <2> QED
    BY <2>1, <2>2, <2>3, InHandStep DEF Media, InHand
<1>5. CASE UNCHANGED mediaVars
  BY <1>0, <1>4, <1>5 DEF Media, mediaVars
<1>6. CASE Download
  BY <1>0, <1>4, <1>6 DEF Media, Download
<1>7. CASE WechatRestarts
  BY <1>0, <1>4, <1>7 DEF Media, WechatRestarts, Idle
<1>8. ASSUME NEW f \in File, Ages(f)
      PROVE  Media'
  BY <1>0, <1>4, <1>8 DEF Media, Ages
<1>9. CASE StartCleanup
  <2>1. cleaner'.phase = "releasing" /\ cleaner'.events = Releasable
        /\ cleaner'.current = cleaner.current
    BY <1>0, <1>9 DEF StartCleanup, TypeOKInbound
  <2> QED
    BY <1>0, <1>4, <1>9, <2>1 DEF Media, StartCleanup, Releasable
<1>10. ASSUME NEW n \in Message, RemoveFile(n)
       PROVE  Media'
  <2>1. /\ n \in db.events /\ db.task[n] # "open" /\ n \in cleaner.events
        /\ cleaner'.phase = "removed" /\ cleaner'.events = cleaner.events \ {n}
        /\ cleaner'.current = {n}
        /\ files' = files \ {<<n, db.path[n]>>}
    BY <1>0, <1>10 DEF RemoveFile, TypeOKInbound, Media
  <2> QED
    BY <1>0, <1>4, <2>1 DEF Media, Awaited
<1>11. ASSUME NEW n \in Message, ClearLocalMediaPaths(n)
       PROVE  Media'
  <2>1. /\ cleaner'.phase = "releasing" /\ cleaner'.events = cleaner.events
        /\ cleaner'.current = {} /\ files' = files
    BY <1>0, <1>11 DEF ClearLocalMediaPaths, TypeOKInbound
  <2> QED
    BY <1>0, <1>4, <2>1 DEF Media
<1>12. CASE StartSweep
  <2>1. /\ cleaner'.phase = "sweeping" /\ cleaner'.events = cleaner.events
        /\ cleaner'.current = cleaner.current /\ cleaner'.kept = Referenced /\ files' = files
    BY <1>0, <1>12 DEF StartSweep, TypeOKInbound
  <2>2. \A m \in Message : Awaited(m) => <<m, db.path[m]>> \in Referenced
    <3>1. \A m \in Message : Awaited(m) => <<m, db.path[m]>> \in File
      BY <1>0 DEF Media, TypeOKInbound
    <3>2. \A m \in Message : Awaited(m) => m \in db.events /\ db.path[m] # 0
      <4>1. ASSUME NEW m \in Message, Awaited(m)
            PROVE  m \in db.events
        BY <4>1 DEF IInv, Tables, Once, Awaited
      <4>2. ASSUME NEW m \in Message, <<m, db.path[m]>> \in File
            PROVE  db.path[m] # 0
        BY <4>2, InboundAssumption DEF File
      <4> QED
        BY <3>1, <4>1, <4>2
    <3> QED
      BY <3>2 DEF Referenced
  <2> QED
    BY <1>0, <1>4, <2>1, <2>2 DEF Media
<1>13. ASSUME NEW f \in File, Sweep(f)
       PROVE  Media'
  <2>1. /\ cleaner' = cleaner /\ cleaner.phase = "sweeping"
        /\ files' = files \ {f} /\ old' = old \ {f} /\ f \in old /\ f \notin cleaner.kept
    BY <1>13 DEF Sweep, Sweepable
  <2>2. \A m \in Message : Awaited(m) => f # <<m, db.path[m]>>
    BY <1>0, <2>1 DEF Media
  <2> QED
    BY <1>0, <1>4, <2>1, <2>2 DEF Media
<1>14. CASE EndSweep
  BY <1>0, <1>4, <1>14 DEF Media, EndSweep, Idle
<1>15. CASE QqStep \/ GatewayStep \/ QqFault
  BY <1>5, <1>15 DEF QqStep, GatewayStep, QqFault, Connect, Hello, InvalidSession, Control,
       HandleDispatch, Fail, CommandEnds, Resumed, Invalidated, Identified, GatewaySends,
       Refused, Disconnect, Expire, DispatchFails, QqRestarts, inboundVars, mediaVars
<1>16. CASE \/ Poll \/ Handles \/ \E c \in commands : HandleCommandEnds(c)
            \/ SessionInvalid \/ BatchFails
            \/ \E m \in Message, k \in Kinds : ContactSends(m, k)
  BY <1>5, <1>16 DEF Poll, Handles, HandleSystem, HandleOdd, DownloadFails, HandleMessage,
       HandleCommandEnds, SessionInvalid, BatchFails, ContactSends, inboundVars, mediaVars
<1>17. CASE ServiceStep
  BY <1>5, <1>17 DEF ServiceStep, Admit, SwitchMode, TaskEnds
<1> QED
  BY <1>6, <1>7, <1>8, <1>9, <1>10, <1>11, <1>12, <1>13, <1>14, <1>15, <1>16, <1>17
  DEF Next, WechatStep, WechatFault, CleanupStep, Handles

LEMMA TablesStep ==
  ASSUME IInv, Next
  PROVE  Tables'
BY Growing, PlatformStep, OnceStep, MediaStep DEF Tables

-----------------------------------------------------------------------------
(* The positions.                                                          *)

(* After the step, at a place that is named before it.                     *)
SafeThen(m) ==
  \/ m \in db'.events \cup db'.dead \cup ignored' \cup thrown'
  \/ kind'[m] \in {"unsent", "system"}
CoveredThen(s, n) == n <= Len(log'[s]) /\ \A i \in 1 .. n : SafeThen(log'[s][i])

LEMMA Kept ==
  ASSUME IInv, Next
  PROVE  /\ \A s \in Session : \A i \in 1 .. Len(log[s]) :
              Safe(log[s][i]) => SafeThen(log'[s][i])
         /\ \A s \in Session, n \in Nat : Covered(s, n) => CoveredThen(s, n)
<1>0. TypeOK /\ Streams /\ Grows
  BY Growing DEF IInv, Tables
<1>1. ASSUME NEW s \in Session, NEW i \in 1 .. Len(log[s]), Safe(log[s][i])
      PROVE  SafeThen(log'[s][i])
  <2>1. log[s][i] \in Message /\ Sent(log[s][i]) /\ log'[s][i] = log[s][i]
    BY <1>0, StreamLength DEF Streams, Grows
  <2> QED
    BY <1>0, <1>1, <2>1 DEF Safe, Settled, SafeThen, Grows
<1>2. ASSUME NEW s \in Session, NEW n \in Nat, Covered(s, n)
      PROVE  CoveredThen(s, n)
  <2>1. Len(log[s]) \in Nat /\ Len(log'[s]) >= Len(log[s])
    BY <1>0, StreamLength DEF Grows
  <2>2. n <= Len(log[s])
    BY <1>2 DEF Covered
  <2>3. Len(log'[s]) \in Nat
    <3>1. log' \in [Session -> Seq(Message)]
      BY TypeStep DEF TypeOK, TypeOKInbound
    <3> QED
      BY <3>1, LenProperties
  <2>4. \A i \in 1 .. n : SafeThen(log'[s][i])
    BY <1>1, <1>2, <2>1, <2>2 DEF Covered
  <2> QED
    BY <2>1, <2>2, <2>3, <2>4 DEF CoveredThen
<1> QED
  BY <1>1, <1>2

(* A frame that is handled leaves everything up to it dealt with.          *)
LEMMA DispatchCovers ==
  ASSUME IInv, Next, HandleDispatch, ~ strayed
  PROVE  CoveredThen(opened, Head(wire).s)
<1> DEFINE h == Head(wire).s
<1>1. /\ conn \in {"open", "failing"} /\ wire # <<>> /\ Head(wire).op = "message"
      /\ kind' = kind /\ log' = log
      /\ conn = "failing" => Failed \subseteq thrown'
  BY DEF HandleDispatch
<1>2. /\ TypeOK /\ Streams /\ Gateway
  BY <1>1 DEF IInv, Tables
<1>3. /\ opened \in Session /\ h \in 1 .. Len(log[opened]) /\ Delivered = log[opened][h]
      /\ Head(wire) = wire[1] /\ 1 \in 1 .. Len(wire)
  <2>1. wire \in Seq(Frame) /\ wire # <<>>
    BY <1>1, <1>2 DEF TypeOK, TypeOKQq
  <2> QED
    BY <1>1, <2>1, OnTheWire, HeadTailProperties, EmptySeq DEF Delivered
<1>4. Len(log[opened]) \in Nat
  BY <1>2, <1>3, StreamLength
<1>5. SafeThen(log'[opened][h])
  BY <1>1, <1>3, DispatchEffect DEF Settles, SafeThen
<1>6. ASSUME NEW j \in 1 .. h - 1
      PROVE  SafeThen(log'[opened][j])
  <2>1. j \in 1 .. Len(log[opened]) /\ j \in 1 .. h /\ h - 1 \in Int
    BY <1>3, <1>4
  <2>2. CASE conn = "open"
    <3>1. Passes(wire[1]) = h - 1
      BY <1>1, <1>3 DEF Passes
    <3>2. Safe(log[opened][j]) \/ Ahead(1, j)
      BY <1>2, <1>3, <2>2, <3>1 DEF Gateway, Replayed
    <3>3. ~ Ahead(1, j)
      BY DEF Ahead
    <3> QED
      BY <1>3, <2>1, <3>2, <3>3, Kept
  <2>3. CASE conn = "failing"
    <3>1. Safe(log[opened][j]) \/ log[opened][j] \in thrown'
      <4>1. \/ kind[log[opened][j]] = "system"
            \/ log[opened][j] \in db.events \cup db.dead \cup ignored
            \/ log[opened][j] \in Failed
        BY DEF Failed
      <4> QED
        BY <1>1, <2>3, <4>1 DEF Safe, Settled
    <3> QED
      BY <1>1, <1>3, <2>1, <3>1, Kept DEF SafeThen
  <2> QED
    BY <1>1, <2>2, <2>3
<1> HIDE DEF h
<1>7. \A j \in 1 .. h : SafeThen(log'[opened][j])
  BY <1>3, <1>4, <1>5, <1>6
<1> QED
  BY <1>1, <1>3, <1>4, <1>7 DEF CoveredThen, h

(* So does a message of a batch.                                           *)
LEMMA BatchCovers ==
  ASSUME IInv, Next, ~ strayed,
         Handles \/ \E c \in commands : HandleCommandEnds(c)
  PROVE  CoveredThen(1, end - Len(batch) + 1)
<1> DEFINE n == end - Len(batch)
<1>1. phase \in {"batch", "command"} /\ kind' = kind /\ log' = log
  BY DEF Handles, HandleSystem, HandleOdd, DownloadFails, HandleMessage, HandleCommandEnds
<1>2. TypeOK /\ Streams /\ (phase # "off" => Loop)
  BY DEF IInv, Tables
<1>3. /\ 1 \in Session /\ n \in Nat /\ n + 1 \in 1 .. Len(log[1])
      /\ Len(log[1]) \in Nat /\ Head(batch) = log[1][n + 1]
  BY <1>1, InTheBatch
<1>4. CoveredThen(1, n)
  BY <1>1, <1>2, <1>3, Kept DEF Loop
<1>5. SafeThen(log'[1][n + 1])
  <2>1. CASE Handles
    BY <1>1, <1>3, <2>1, BatchEffect DEF Settles, SafeThen
  <2>2. ASSUME NEW c \in commands, HandleCommandEnds(c)
        PROVE  SafeThen(log'[1][n + 1])
    <3>1. Head(batch) \in db.events
      BY <1>2, <2>2 DEF HandleCommandEnds, Loop
    <3>2. db.events \subseteq db'.events
      BY Growing DEF Grows
    <3> QED
      BY <1>1, <1>3, <3>1, <3>2 DEF SafeThen
  <2> QED
    BY <2>1, <2>2
<1> HIDE DEF n
<1>6. \A i \in 1 .. n + 1 : SafeThen(log'[1][i])
  BY <1>3, <1>4, <1>5 DEF CoveredThen
<1> QED
  BY <1>1, <1>3, <1>6 DEF CoveredThen, n

LEMMA PositionsStep ==
  ASSUME IInv, Next
  PROVE  Positions'
<1>0. /\ TypeOK /\ TypeOKInbound /\ TypeOKQq /\ Positions
      /\ (conn # "off" => Gateway) /\ (phase # "off" => Loop)
  BY DEF IInv, TypeOK
<1>1. ASSUME ~ strayed' =>
               /\ db'.checkpoint.session # 0 =>
                    CoveredThen(db'.checkpoint.session, db'.checkpoint.seq)
               /\ session' # 0 /\ sequence' # Unknown => CoveredThen(session', sequence')
               /\ \A c \in commands' : CoveredThen(c[2].session, c[2].seq)
      PROVE  Positions'
  BY <1>1 DEF Positions, Covered, CoveredThen, Safe, Settled, SafeThen
<1>2. ASSUME ~ strayed
      PROVE  /\ db.checkpoint.session # 0 =>
                  CoveredThen(db.checkpoint.session, db.checkpoint.seq)
             /\ session # 0 /\ sequence # Unknown => CoveredThen(session, sequence)
             /\ \A c \in commands : CoveredThen(c[2].session, c[2].seq)
  <2>1. db.checkpoint.session # 0 => CoveredThen(db.checkpoint.session, db.checkpoint.seq)
    <3>1. db.checkpoint \in Position
      BY <1>0 DEF TypeOKInbound, Database
    <3> QED
      BY <1>0, <1>2, <3>1, Kept DEF Positions, Position
  <2>2. session # 0 /\ sequence # Unknown => CoveredThen(session, sequence)
    BY <1>0, <1>2, Kept DEF Positions, TypeOKQq
  <2>3. ASSUME NEW c \in commands
        PROVE  CoveredThen(c[2].session, c[2].seq)
    <3>1. c[2] \in Position
      BY <1>0 DEF TypeOKInbound
    <3>2. c[2].session \in Session
      <4>1. c[2].session # 0
        BY <1>0 DEF Gateway, SessionsOpened, Loop, IInv, Tables, OnePlatform
      <4> QED
        BY <3>1, <4>1 DEF Position
    <3> QED
      BY <1>0, <1>2, <3>1, <3>2, Kept DEF Positions, Position
  <2> QED
    BY <2>1, <2>2, <2>3
<1>3. ASSUME db'.checkpoint = db.checkpoint, commands' \subseteq commands,
             strayed' = strayed,
             session' = 0 \/ UNCHANGED <<session, sequence>>
      PROVE  Positions'
  BY <1>1, <1>2, <1>3
<1>4. CASE Control
  <2>1. wire # <<>> /\ conn = "open" /\ Head(wire).op # "message" /\ sequence' = Head(wire).s
    BY <1>4 DEF Control
  <2>2. /\ opened # 0 /\ session' = opened
    BY <1>0, <1>4, <2>1 DEF Control, Gateway, Framed
  <2>3. Head(wire) = wire[1] /\ 1 \in 1 .. Len(wire) /\ wire[1] \in Frame
    <3>1. wire \in Seq(Frame)
      BY <1>0 DEF TypeOKQq
    <3> QED
      BY <2>1, <3>1, HeadTailProperties, EmptySeq, ElementOfSeq
  <2>4. ASSUME ~ strayed
        PROVE  Covered(opened, Head(wire).s)
    <3>1. Passes(wire[1]) = Head(wire).s
      BY <2>1, <2>3 DEF Passes
    <3>2. \A j \in 1 .. Head(wire).s : Safe(log[opened][j]) \/ Ahead(1, j)
      BY <1>0, <2>1, <2>3, <2>4, <3>1 DEF Gateway, Replayed
    <3>3. \A j : ~ Ahead(1, j)
      BY DEF Ahead
    <3>4. Head(wire).s <= Len(log[opened])
      BY <1>0, <2>1, <2>3 DEF Gateway, Framed
    <3> QED
      BY <3>2, <3>3, <3>4 DEF Covered
  <2>5. ~ strayed => CoveredThen(opened, Head(wire).s)
    <3>1. opened \in Session /\ Head(wire).s \in Nat
      BY <1>0, <2>2, <2>3 DEF TypeOKQq, Frame
    <3> QED
      BY <2>4, <3>1, Kept
  <2>6. db' = db /\ commands' = commands /\ strayed' = strayed
    BY <1>4 DEF Control, inboundVars
  <2> QED
    BY <1>1, <1>2, <2>1, <2>2, <2>5, <2>6
<1>5. CASE HandleDispatch
  <2>1. ~ strayed => CoveredThen(opened, Head(wire).s)
    BY <1>5, DispatchCovers
  <2>2. /\ session' = session /\ session = opened /\ strayed' = strayed
        /\ sequence' \in {sequence, Head(wire).s}
    BY <1>5, OnTheWire DEF HandleDispatch
  <2>3. /\ db'.checkpoint \in {db.checkpoint, Delivery}
        /\ commands' \subseteq commands \cup {<<Delivered, Delivery>>}
        /\ Delivery.session = opened /\ Delivery.seq = Head(wire).s
    BY <1>5, DispatchEffect DEF Delivery, At
  <2>4. ASSUME ~ strayed, NEW c \in commands'
        PROVE  CoveredThen(c[2].session, c[2].seq)
    <3>1. c \in commands \/ c[2] = Delivery
      BY <2>3
    <3> QED
      BY <1>2, <2>1, <2>3, <2>4, <3>1
  <2> QED
    BY <1>1, <1>2, <2>1, <2>2, <2>3, <2>4
<1>6. ASSUME NEW c \in commands, CommandEnds(c)
      PROVE  Positions'
  <2>1. db'.checkpoint = db.checkpoint
    BY <1>0, <1>6 DEF CommandEnds, Answered, TypeOKInbound, Database
  <2>2. /\ commands' \subseteq commands /\ session' = session /\ sequence' = c[2].seq
        /\ ~ strayed' => ~ strayed /\ session \in {0, c[2].session}
    BY <1>6 DEF CommandEnds
  <2> QED
    BY <1>1, <1>2, <2>1, <2>2
<1>7. CASE QqRestarts
  <2>1. /\ db' = db /\ commands' = {} /\ strayed' = strayed
        /\ session' = db.checkpoint.session
        /\ session' # 0 => sequence' = db.checkpoint.seq
    BY <1>7 DEF QqRestarts
  <2> QED
    BY <1>1, <1>2, <2>1
<1>8. CASE Handles /\ UNCHANGED qqVars
  <2>1. ~ strayed => CoveredThen(1, end - Len(batch) + 1)
    BY <1>8, BatchCovers
  <2>2. UNCHANGED <<session, sequence, strayed>>
    BY <1>8 DEF qqVars
  <2>3. /\ db'.checkpoint = IF Final THEN At(1, end) ELSE db.checkpoint
        /\ commands' \subseteq commands \cup {<<Head(batch), Place>>}
        /\ Place.session = 1 /\ Place.seq = end - Len(batch) + 1
        /\ Final => end - Len(batch) + 1 = end
        /\ At(1, end).session = 1 /\ At(1, end).seq = end
    <3>1. end \in Nat
      BY <1>8, BatchEffect, InTheBatch
    <3>2. /\ db'.checkpoint = IF Final THEN At(1, end) ELSE db.checkpoint
          /\ commands' \subseteq commands \cup {<<Head(batch), Place>>}
      BY <1>8, BatchEffect
    <3>3. Place.session = 1 /\ Place.seq = end - Len(batch) + 1
      BY DEF Place, At
    <3>4. Final => end - Len(batch) + 1 = end
      BY <3>1 DEF Final
    <3>5. At(1, end).session = 1 /\ At(1, end).seq = end
      BY DEF At
    <3> QED
      BY <3>2, <3>3, <3>4, <3>5
  <2>4. ASSUME ~ strayed, NEW c \in commands'
        PROVE  CoveredThen(c[2].session, c[2].seq)
    <3>1. c \in commands \/ c[2] = Place
      BY <2>3
    <3> QED
      BY <1>2, <2>1, <2>3, <2>4, <3>1
  <2> QED
    BY <1>1, <1>2, <2>1, <2>2, <2>3, <2>4
<1>9. CASE UNCHANGED qqVars /\ \E c \in commands : HandleCommandEnds(c)
  <2>1. db'.checkpoint = db.checkpoint /\ commands' \subseteq commands
    BY <1>0, <1>9 DEF HandleCommandEnds, Answered, TypeOKInbound, Database
  <2> QED
    BY <1>3, <1>9, <2>1 DEF qqVars
<1>10. CASE \/ Connect \/ Hello \/ InvalidSession \/ Fail \/ Resumed \/ Invalidated \/ Identified
            \/ Refused \/ Disconnect \/ Expire \/ DispatchFails
            \/ \E m \in Message, k \in Kinds : GatewaySends(m, k)
  BY <1>3, <1>10 DEF Connect, Hello, InvalidSession, Fail, Resumed, Invalidated, Identified,
       Refused, Disconnect, Expire, DispatchFails, GatewaySends, inboundVars
<1>11. CASE /\ \/ Poll \/ Download \/ WechatFault
               \/ \E m \in Message, k \in Kinds : ContactSends(m, k)
               \/ \E f \in File : Ages(f)
            /\ UNCHANGED qqVars
  <2>1. db' = db /\ commands' \subseteq commands
    BY <1>11 DEF Poll, Download, WechatFault, SessionInvalid, BatchFails, WechatRestarts,
         ContactSends, Ages, inboundVars
  <2> QED
    BY <1>3, <1>11, <2>1 DEF qqVars
<1>12. CASE (ServiceStep \/ CleanupStep) /\ UNCHANGED qqVars
  <2>1. db'.checkpoint = db.checkpoint /\ commands' = commands
    BY <1>0, <1>12 DEF ServiceStep, CleanupStep, Admit, SwitchMode, TaskEnds, StartCleanup,
         RemoveFile, ClearLocalMediaPaths, StartSweep, Sweep, EndSweep, TypeOKInbound, Database
  <2> QED
    BY <1>3, <1>12, <2>1 DEF qqVars
<1> QED
  BY <1>4, <1>5, <1>6, <1>7, <1>8, <1>9, <1>10, <1>11, <1>12
  DEF Next, QqStep, GatewayStep, QqFault, WechatStep, Handles

-----------------------------------------------------------------------------
(* The loop of WeChat.                                                     *)

LEMMA OnlyQq ==
  ASSUME QqStep \/ GatewayStep \/ QqFault
  PROVE  conn # "off"
BY DEF QqStep, GatewayStep, QqFault, Connect, Hello, InvalidSession, Control, HandleDispatch,
       Fail, CommandEnds, Resumed, Invalidated, Identified, GatewaySends, Refused, Disconnect,
       Expire, DispatchFails, QqRestarts

LEMMA OnlyWechat ==
  ASSUME WechatStep \/ WechatFault \/ \E m \in Message, k \in Kinds : ContactSends(m, k)
  PROVE  phase # "off"
BY DEF WechatStep, WechatFault, Poll, HandleSystem, HandleOdd, Download, DownloadFails,
       HandleMessage, HandleCommandEnds, SessionInvalid, BatchFails, WechatRestarts, ContactSends

(* The batch as the step leaves it.                                        *)
BatchThen ==
  phase' \in {"batch", "command"} =>
    /\ batch' # <<>>
    /\ Len(batch') <= end' /\ end' <= Len(log'[1])
    /\ \A i \in 1 .. Len(batch') : batch'[i] = log'[1][end' - Len(batch') + i]
    /\ ~ strayed' => CoveredThen(1, end' - Len(batch'))

(* After a message: the rest of the batch, or the next poll.               *)
LEMMA AdvanceStep ==
  ASSUME IInv, Next, Advance, UNCHANGED qqVars,
         Handles \/ \E c \in commands : HandleCommandEnds(c)
  PROVE  /\ phase' \in {"poll", "batch"}
         /\ phase' = "poll" => batch' = <<>>
         /\ BatchThen
         /\ ~ strayed => CoveredThen(1, cursor')
<1>1. phase \in {"batch", "command"} /\ log' = log
  BY DEF Handles, HandleSystem, HandleOdd, DownloadFails, HandleMessage, HandleCommandEnds
<1>2. /\ 1 \in Session /\ Len(batch) \in 1 .. end /\ end \in 1 .. Len(log[1])
      /\ Len(log[1]) \in 1 .. MaxMessages
      /\ Tail(batch) \in Seq(Message)
      /\ Len(Tail(batch)) = Len(batch) - 1
      /\ \A i \in 1 .. Len(Tail(batch)) : Tail(batch)[i] = batch[i + 1]
  BY <1>1, InTheBatch
<1>3. TypeOKWechat /\ Loop
  BY <1>1 DEF IInv, TypeOK
<1>4. ~ strayed => CoveredThen(1, end - Len(batch) + 1)
  BY BatchCovers
<1>5. strayed' = strayed
  BY DEF qqVars
<1>6. CASE Final
  <2>1. /\ phase' = "poll" /\ cursor' = end /\ batch' = Tail(batch) /\ Len(batch) = 1
    BY <1>6 DEF Advance, Final
  <2>2. batch' = <<>>
    BY <1>2, <2>1, EmptySeq
  <2> QED
    BY <1>2, <1>4, <2>1, <2>2 DEF BatchThen
<1>7. CASE ~ Final
  <2>1. /\ phase' = "batch" /\ cursor' = cursor /\ batch' = Tail(batch) /\ end' = end
        /\ Len(batch) # 1
    BY <1>7 DEF Advance, Final
  <2>2. ~ strayed => CoveredThen(1, cursor)
    BY <1>2, <1>3, Kept DEF Loop, TypeOKWechat
  <2>3. Len(batch') \in Nat \ {0} /\ batch' # <<>> /\ end - Len(batch') = end - Len(batch) + 1
    <3>1. Len(batch') = Len(batch) - 1 /\ Len(batch') \in Nat \ {0}
      BY <1>2, <2>1
    <3>2. Len(<<>>) = 0
      OBVIOUS
    <3> QED
      BY <1>2, <3>1, <3>2
  <2>4. \A i \in 1 .. Len(batch') : batch'[i] = log[1][end - Len(batch') + i]
    <3>1. ASSUME NEW i \in 1 .. Len(batch')
          PROVE  batch'[i] = log[1][end - Len(batch') + i]
      <4>1. i + 1 \in 1 .. Len(batch) /\ end - Len(batch') + i = end - Len(batch) + (i + 1)
        BY <1>2, <2>1
      <4>2. batch[i + 1] = log[1][end - Len(batch) + (i + 1)]
        BY <1>1, <1>3, <4>1 DEF Loop
      <4> QED
        BY <1>2, <2>1, <4>1, <4>2
    <3> QED
      BY <3>1
  <2>5. ~ strayed => CoveredThen(1, end - Len(batch'))
    BY <1>4, <2>3
  <2> QED
    BY <1>1, <1>2, <1>5, <2>1, <2>2, <2>3, <2>4, <2>5 DEF BatchThen
<1> QED
  BY <1>6, <1>7

LEMMA LoopStep ==
  ASSUME IInv, Next, phase' # "off"
  PROVE  Loop'
<1>0. /\ TypeOK /\ TypeOKInbound /\ TypeOKWechat /\ Streams /\ Positions /\ Loop
      /\ phase # "off" /\ conn = "off" /\ 1 \in Session
  BY PlatformStays, InboundAssumption DEF IInv, Tables, TypeOK, OnePlatform
<1>1. ASSUME phase' = "poll" => batch' = <<>>,
             BatchThen,
             phase' = "command" => Head(batch') \in db'.events,
             db'.checkpoint \in {db.checkpoint, At(1, end)},
             \A c \in commands' : c[2].session = 1,
             ~ strayed' => CoveredThen(1, cursor')
      PROVE  Loop'
  <2>1. /\ db'.checkpoint.session \in {0, 1}
        /\ db'.checkpoint.session = 0 => db'.checkpoint.seq = 0
    BY <1>0, <1>1 DEF Loop, At
  <2> QED
    BY <1>1, <2>1 DEF Loop, BatchThen, Covered, CoveredThen, Safe, Settled, SafeThen
<1>2. ~ strayed => CoveredThen(1, cursor)
  BY <1>0, Kept DEF Loop, TypeOKWechat
<1>3. /\ Len(log[1]) \in Nat /\ Len(log'[1]) \in Nat /\ Len(log'[1]) >= Len(log[1])
      /\ \A i \in 1 .. Len(log[1]) : log'[1][i] = log[1][i]
  <2>1. log' \in [Session -> Seq(Message)]
    BY TypeStep DEF TypeOK, TypeOKInbound
  <2> QED
    BY <1>0, <2>1, StreamLength, Growing, LenProperties DEF Grows
<1>4. ASSUME UNCHANGED <<batch, end>>, phase' \in {phase, "command"}, strayed' = strayed,
             phase \in {"batch", "command"}
      PROVE  BatchThen
  <2>1. /\ Len(batch) \in 1 .. end /\ end \in 1 .. Len(log[1]) /\ batch # <<>>
    BY <1>0, <1>4, InTheBatch DEF Loop
  <2>2. ASSUME NEW i \in 1 .. Len(batch)
        PROVE  batch[i] = log'[1][end - Len(batch) + i]
    <3>1. end - Len(batch) + i \in 1 .. Len(log[1])
      BY <1>3, <2>1
    <3>2. batch[i] = log[1][end - Len(batch) + i]
      BY <1>0, <1>4 DEF Loop
    <3> QED
      BY <1>3, <3>1, <3>2
  <2>3. ~ strayed => CoveredThen(1, end - Len(batch))
    BY <1>0, <1>4, <2>1, Kept DEF Loop
  <2> QED
    BY <1>3, <1>4, <2>1, <2>2, <2>3 DEF BatchThen
<1>5. ASSUME UNCHANGED wechatVars, strayed' = strayed, db'.checkpoint = db.checkpoint,
             commands' = commands
      PROVE  Loop'
  <2>1. phase' \in {"batch", "command"} => BatchThen
    BY <1>4, <1>5 DEF wechatVars
  <2>2. BatchThen
    BY <2>1 DEF BatchThen
  <2>3. db.events \subseteq db'.events
    BY Growing DEF Grows
  <2> QED
    BY <1>0, <1>1, <1>2, <1>5, <2>2, <2>3 DEF wechatVars, Loop
<1>6. CASE Poll /\ UNCHANGED qqVars
  <2>1. PICK n \in 1 .. MaxBatch :
          /\ cursor + n <= Len(log[1])
          /\ batch' = SubSeq(log[1], cursor + 1, cursor + n)
          /\ end' = cursor + n
    BY <1>6 DEF Poll
  <2>2. /\ phase' = "batch" /\ UNCHANGED <<db, log, commands, cursor, strayed>>
    BY <1>6 DEF Poll, inboundVars, qqVars
  <2>3. cursor \in Nat /\ n \in Nat \ {0}
    BY <1>0 DEF TypeOKWechat
  <2>4. log[1] \in Seq(1 .. MaxMessages)
    BY <1>0, StreamLength
  <2>5. /\ Len(batch') = n
        /\ \A i \in 1 .. n : batch'[i] = log[1][cursor + i]
    <3>1. cursor + 1 \in 1 .. Len(log[1]) + 1 /\ cursor + n \in cursor .. Len(log[1])
      BY <1>3, <2>1, <2>3
    <3>2. /\ Len(batch') = (cursor + n) - (cursor + 1) + 1
          /\ \A i \in 1 .. (cursor + n) - (cursor + 1) + 1 :
               batch'[i] = log[1][(cursor + 1) + i - 1]
      BY <2>1, <2>3, <2>4, <3>1, SubSeqProperties
    <3> QED
      BY <2>3, <3>2
  <2>6. batch' # <<>> /\ end' - Len(batch') = cursor
    BY <2>1, <2>3, <2>5
  <2>7. BatchThen
    BY <1>2, <2>1, <2>2, <2>3, <2>5, <2>6 DEF BatchThen
  <2> QED
    BY <1>0, <1>1, <1>2, <2>2, <2>7 DEF Loop
<1>7. ASSUME phase' \in {"poll", "blocked"}, phase' = "poll" => batch' = <<>>, db' = db,
             commands' \subseteq commands, strayed' = strayed,
             ~ strayed => CoveredThen(1, cursor')
      PROVE  Loop'
  BY <1>0, <1>1, <1>7 DEF Loop, BatchThen
<1>8. CASE (SessionInvalid \/ BatchFails) /\ UNCHANGED qqVars
  BY <1>2, <1>7, <1>8 DEF SessionInvalid, BatchFails, qqVars
<1>9. CASE WechatRestarts /\ UNCHANGED qqVars
  <2>1. ~ strayed => Covered(1, db.checkpoint.seq)
    <3>1. CASE db.checkpoint.session = 0
      BY <1>0, <1>3, <3>1 DEF Loop, Covered
    <3>2. CASE db.checkpoint.session = 1
      BY <1>0, <3>2 DEF Positions
    <3> QED
      BY <1>0, <3>1, <3>2 DEF Loop
  <2>2. db.checkpoint.seq \in Nat
    BY <1>0 DEF TypeOKInbound, Database, Position
  <2>3. ~ strayed => CoveredThen(1, db.checkpoint.seq)
    BY <1>0, <2>1, <2>2, Kept
  <2> QED
    BY <1>7, <1>9, <2>3 DEF WechatRestarts, qqVars
<1>10. CASE Download /\ UNCHANGED qqVars
  <2>1. /\ phase = "batch" /\ phase' = phase /\ strayed' = strayed
        /\ UNCHANGED <<batch, end, cursor, db, commands>>
    BY <1>10 DEF Download, qqVars
  <2> QED
    BY <1>0, <1>1, <1>2, <1>4, <2>1 DEF Loop
<1>11. CASE Handles /\ UNCHANGED qqVars
  <2>1. /\ db'.checkpoint \in {db.checkpoint, At(1, end)}
        /\ \A c \in commands' : c[2].session = 1
        /\ phase = "batch"
    <3>1. Place.session = 1
      BY DEF Place, At
    <3>2. /\ db'.checkpoint \in {db.checkpoint, At(1, end)} /\ phase = "batch"
          /\ commands' \subseteq commands \cup {<<Head(batch), Place>>}
      BY <1>11, BatchEffect
    <3> QED
      BY <1>0, <3>1, <3>2 DEF Loop
  <2>2. CASE Advance
    BY <1>1, <1>11, <2>1, <2>2, AdvanceStep DEF qqVars
  <2>3. CASE phase' = "command" /\ UNCHANGED <<cursor, batch, end, copy>> /\ Head(batch) \in db'.events
    BY <1>1, <1>2, <1>4, <1>11, <2>1, <2>3 DEF qqVars
  <2> QED
    BY <1>11, <2>2, <2>3, BatchEffect
<1>12. ASSUME NEW c \in commands, HandleCommandEnds(c), UNCHANGED qqVars
       PROVE  Loop'
  <2>1. db'.checkpoint = db.checkpoint /\ commands' \subseteq commands /\ Advance
    BY <1>0, <1>12 DEF HandleCommandEnds, Answered, TypeOKInbound, Database
  <2> QED
    BY <1>0, <1>1, <1>12, <2>1, AdvanceStep DEF Loop, qqVars
<1>13. ASSUME NEW m \in Message, NEW k \in Kinds, ContactSends(m, k), UNCHANGED qqVars
       PROVE  Loop'
  BY <1>5, <1>13 DEF ContactSends, qqVars
<1>14. ASSUME NEW f \in File, Ages(f), UNCHANGED qqVars
       PROVE  Loop'
  BY <1>5, <1>14 DEF Ages, qqVars
<1>15. CASE (ServiceStep \/ CleanupStep) /\ UNCHANGED <<qqVars, wechatVars>>
  <2>1. db'.checkpoint = db.checkpoint /\ commands' = commands
    BY <1>0, <1>15 DEF ServiceStep, CleanupStep, Admit, SwitchMode, TaskEnds, StartCleanup,
         RemoveFile, ClearLocalMediaPaths, StartSweep, Sweep, EndSweep, TypeOKInbound, Database
  <2> QED
    BY <1>5, <1>15, <2>1 DEF qqVars
<1> QED
  BY <1>0, <1>6, <1>8, <1>9, <1>10, <1>11, <1>12, <1>13, <1>14, <1>15, OnlyQq
  DEF Next, WechatStep, WechatFault, Handles

-----------------------------------------------------------------------------
(* The gateway's connection.                                               *)

LEMMA SessionsStep ==
  ASSUME IInv, Next, conn # "off"
  PROVE  SessionsOpened'
<1>0. /\ TypeOK /\ TypeOKInbound /\ TypeOKQq /\ SessionsOpened /\ Gateway /\ phase = "off"
  BY DEF IInv, Tables, TypeOK, Gateway, OnePlatform
<1>1. ASSUME opened' = opened, session' \in {0, session, opened, db.checkpoint.session},
             alive' => alive, db'.checkpoint = db.checkpoint, commands' \subseteq commands,
             log' = log
      PROVE  SessionsOpened'
  BY <1>0, <1>1 DEF SessionsOpened, TypeOKQq
<1>2. ASSUME NEW m \in Message, NEW k \in Kinds, GatewaySends(m, k)
      PROVE  SessionsOpened'
  <2>1. /\ \A s \in Session : s # opened => log'[s] = log[s]
        /\ UNCHANGED <<db, commands, session, opened, alive>>
    BY <1>0, <1>2 DEF GatewaySends, TypeOKInbound
  <2> QED
    BY <1>0, <2>1 DEF SessionsOpened, TypeOKQq
<1>3. CASE Identified
  <2>1. opened' = opened + 1 /\ UNCHANGED <<db, commands, session, log>>
    BY <1>3 DEF Identified, inboundVars
  <2>2. /\ opened \in Nat /\ session \in Nat /\ db.checkpoint.session \in Nat
        /\ \A c \in commands : c[2].session \in Nat
    BY <1>0 DEF TypeOKQq, TypeOKInbound, Database, Position
  <2> QED
    BY <1>0, <2>1, <2>2 DEF SessionsOpened
<1>4. CASE HandleDispatch
  <2>1. /\ db'.checkpoint \in {db.checkpoint, Delivery}
        /\ commands' \subseteq commands \cup {<<Delivered, Delivery>>}
        /\ Delivery.session = opened /\ opened \in Session
    BY <1>4, DispatchEffect, OnTheWire DEF HandleDispatch, Delivery, At
  <2>2. UNCHANGED <<session, opened, alive, log>>
    BY <1>4 DEF HandleDispatch
  <2> QED
    BY <1>0, <2>1, <2>2 DEF SessionsOpened
<1>5. ASSUME NEW c \in commands, CommandEnds(c)
      PROVE  SessionsOpened'
  BY <1>0, <1>1, <1>5 DEF CommandEnds, Answered, TypeOKInbound, Database
<1>6. CASE QqRestarts \/ Control
  BY <1>1, <1>6 DEF QqRestarts, Control, inboundVars
<1>7. CASE \/ Connect \/ Hello \/ InvalidSession \/ Fail \/ Resumed \/ Invalidated
           \/ Refused \/ Disconnect \/ Expire \/ DispatchFails
  BY <1>1, <1>7 DEF Connect, Hello, InvalidSession, Fail, Resumed, Invalidated,
       Refused, Disconnect, Expire, DispatchFails, inboundVars
<1>8. ASSUME NEW f \in File, Ages(f), UNCHANGED qqVars
      PROVE  SessionsOpened'
  BY <1>1, <1>8 DEF Ages, qqVars
<1>9. CASE (ServiceStep \/ CleanupStep) /\ UNCHANGED qqVars
  <2>1. db'.checkpoint = db.checkpoint /\ commands' = commands /\ log' = log
    BY <1>0, <1>9 DEF ServiceStep, CleanupStep, Admit, SwitchMode, TaskEnds, StartCleanup,
         RemoveFile, ClearLocalMediaPaths, StartSweep, Sweep, EndSweep, TypeOKInbound, Database
  <2> QED
    BY <1>1, <1>9, <2>1 DEF qqVars
<1> QED
  BY <1>0, <1>2, <1>3, <1>4, <1>5, <1>6, <1>7, <1>8, <1>9, OnlyWechat
  DEF Next, QqStep, GatewayStep, QqFault

LEMMA AskedStep ==
  ASSUME IInv, Next, conn # "off"
  PROVE  AskedFor'
<1>0. /\ TypeOK /\ TypeOKQq /\ Positions /\ SessionsOpened /\ AskedFor /\ phase = "off"
  BY DEF IInv, Tables, TypeOK, Gateway, OnePlatform
<1>1. ASSUME conn' = "asked" /\ ask'.session # 0 =>
               ask'.session = session' /\ (~ strayed' => CoveredThen(session', ask'.seq))
      PROVE  AskedFor'
  BY <1>1 DEF AskedFor, Covered, CoveredThen, Safe, Settled, SafeThen
<1>2. ASSUME UNCHANGED <<conn, ask, session>>, strayed => strayed'
      PROVE  AskedFor'
  <2>1. ASSUME conn = "asked", ask.session # 0
        PROVE  ask.session = session /\ (~ strayed => CoveredThen(session, ask.seq))
    <3>1. session \in Session /\ ask.seq \in Nat
      BY <1>0, <2>1 DEF AskedFor, TypeOKQq, Position
    <3> QED
      BY <1>0, <2>1, <3>1, Kept DEF AskedFor
  <2> QED
    BY <1>1, <1>2, <2>1
<1>3. CASE Hello
  <2>1. /\ ask' = IF session # 0 /\ sequence # Unknown THEN At(session, sequence) ELSE NoPosition
        /\ UNCHANGED <<session, strayed>>
    BY <1>3 DEF Hello
  <2>2. session # 0 /\ sequence # Unknown /\ ~ strayed => CoveredThen(session, sequence)
    BY <1>0, Kept DEF Positions, TypeOKQq
  <2> QED
    BY <1>1, <2>1, <2>2 DEF At, NoPosition
<1>4. CASE InvalidSession
  BY <1>1, <1>4 DEF InvalidSession, NoPosition
<1>5. CASE conn' # "asked"
  BY <1>1, <1>5
<1>6. CASE \/ Connect \/ Control \/ HandleDispatch \/ Fail \/ Resumed \/ Invalidated \/ Identified
           \/ Refused \/ Disconnect \/ Expire \/ DispatchFails \/ QqRestarts
  BY <1>5, <1>6 DEF Connect, Control, HandleDispatch, Fail, Resumed, Invalidated, Identified,
       Refused, Disconnect, Expire, DispatchFails, QqRestarts
<1>7. ASSUME NEW c \in commands, CommandEnds(c)
      PROVE  AskedFor'
  BY <1>2, <1>7 DEF CommandEnds
<1>8. ASSUME NEW m \in Message, NEW k \in Kinds, GatewaySends(m, k)
      PROVE  AskedFor'
  BY <1>2, <1>8 DEF GatewaySends
<1>9. CASE UNCHANGED qqVars
  BY <1>2, <1>9 DEF qqVars
<1> QED
  BY <1>0, <1>3, <1>4, <1>6, <1>7, <1>8, <1>9, OnlyWechat
  DEF Next, QqStep, GatewayStep, QqFault

-----------------------------------------------------------------------------
(* The frames.                                                             *)

AheadThen(i, j) == \E k \in 1 .. i - 1 : wire'[k].op = "message" /\ wire'[k].s = j
ReplayedThen ==
  /\ \A i \in 1 .. Len(wire') : \A j \in 1 .. Passes(wire'[i]) :
       SafeThen(log'[opened'][j]) \/ AheadThen(i, j)
  /\ \A j \in 1 .. Len(log'[opened']) :
       SafeThen(log'[opened'][j]) \/ AheadThen(Len(wire') + 1, j)

LEMMA ThenReplayed ==
  ASSUME conn' = "open" /\ ~ strayed' => ReplayedThen
  PROVE  Replayed'
BY DEF Replayed, ReplayedThen, Safe, Settled, SafeThen, Ahead, AheadThen, Passes

(* The first frame is taken; a message among them is dealt with.           *)
LEMMA FrameTaken ==
  ASSUME IInv, Next, conn = "open", wire # <<>>, wire' = Tail(wire), log' = log,
         opened' = opened, ~ strayed,
         Head(wire).op = "message" => SafeThen(log'[opened][Head(wire).s])
  PROVE  ReplayedThen
<1>0. TypeOK /\ Streams /\ Framed /\ Replayed
  BY DEF IInv, Tables, Gateway
<1>1. /\ wire \in Seq(Frame) /\ opened \in Session
  BY <1>0 DEF TypeOK, TypeOKQq, Framed
<1>2. /\ Len(wire) \in Nat \ {0} /\ Len(wire') = Len(wire) - 1
      /\ Head(wire) = wire[1]
      /\ \A i \in 1 .. Len(wire') : wire'[i] = wire[i + 1]
      /\ \A i \in 1 .. Len(wire) : wire[i] \in Frame
  BY <1>1, HeadTailProperties, EmptySeq, ElementOfSeq
<1>3. Len(log[opened]) \in Nat
  BY <1>0, <1>1, StreamLength
<1>4. ASSUME NEW i \in 1 .. Len(wire') + 1, NEW j \in Int, Ahead(i + 1, j)
      PROVE  SafeThen(log'[opened][j]) \/ AheadThen(i, j)
  <2>1. PICK k \in 1 .. i : wire[k].op = "message" /\ wire[k].s = j
    BY <1>4 DEF Ahead
  <2>2. CASE k = 1
    BY <1>2, <2>1, <2>2
  <2>3. CASE k # 1
    <3>1. k - 1 \in 1 .. i - 1 /\ k - 1 \in 1 .. Len(wire') /\ (k - 1) + 1 = k
      BY <1>2, <2>3
    <3>2. wire'[k - 1] = wire[k]
      BY <1>2, <3>1
    <3> QED
      BY <2>1, <3>1, <3>2 DEF AheadThen
  <2> QED
    BY <2>2, <2>3
<1>5. ASSUME NEW i \in 1 .. Len(wire'), NEW j \in 1 .. Passes(wire'[i])
      PROVE  SafeThen(log'[opened][j]) \/ AheadThen(i, j)
  <2>1. i + 1 \in 1 .. Len(wire) /\ wire'[i] = wire[i + 1] /\ wire[i + 1] \in Frame
    BY <1>2
  <2>2. Safe(log[opened][j]) \/ Ahead(i + 1, j)
    BY <1>0, <2>1 DEF Replayed
  <2>3. j \in 1 .. Len(log[opened])
    <3>1. wire[i + 1].s <= Len(log[opened]) /\ wire[i + 1].s \in Nat
      BY <1>0, <2>1 DEF Framed, Frame
    <3> QED
      BY <1>3, <2>1, <3>1 DEF Passes
  <2>4. Safe(log[opened][j]) => SafeThen(log'[opened][j])
    BY <1>1, <2>3, Kept
  <2> QED
    BY <1>2, <1>4, <2>2, <2>3, <2>4
<1>6. ASSUME NEW j \in 1 .. Len(log[opened])
      PROVE  SafeThen(log'[opened][j]) \/ AheadThen(Len(wire') + 1, j)
  <2>1. Safe(log[opened][j]) \/ Ahead(Len(wire) + 1, j)
    BY <1>0 DEF Replayed
  <2>2. Safe(log[opened][j]) => SafeThen(log'[opened][j])
    BY <1>1, Kept
  <2>3. Len(wire) + 1 = (Len(wire') + 1) + 1 /\ Len(wire') + 1 \in 1 .. Len(wire') + 1
    BY <1>2
  <2> QED
    BY <1>3, <1>4, <2>1, <2>2, <2>3
<1> QED
  BY <1>5, <1>6 DEF ReplayedThen

(* A resumed session sends what follows the place that was asked for.      *)
LEMMA ResumedStep ==
  ASSUME IInv, Next, Resumed
  PROVE  Framed' /\ Replayed'
<1> DEFINE n == ask.seq
           l == Len(log[opened])
           k == IF n <= l THEN l - n ELSE 0
<1>0. TypeOK /\ TypeOKQq /\ Streams /\ SessionsOpened /\ AskedFor
  BY DEF IInv, Tables, TypeOK, Gateway, Resumed
<1>1. /\ opened \in Session /\ session = opened /\ n \in Nat
      /\ ~ strayed => Covered(opened, n)
  BY <1>0 DEF Resumed, SessionsOpened, AskedFor, TypeOKQq, Position
<1>2. l \in Nat
  BY <1>0, <1>1, StreamLength
<1>3. /\ wire' \in Seq(Frame)
      /\ Len(wire') = k + 1
      /\ \A i \in 1 .. k : wire'[i].op = "message" /\ wire'[i].s = n + i
      /\ wire'[k + 1].op = "resumed" /\ wire'[k + 1].s = l
  BY <1>0, <1>1, ResumedWire DEF Resumed
<1>4. UNCHANGED <<log, opened, session, strayed>> /\ conn' = "open"
  BY DEF Resumed, inboundVars
<1> HIDE DEF n, l
<1>5. k \in Nat
  BY <1>1, <1>2
<1> HIDE DEF k
<1>6. Framed'
  <2>1. Head(wire') = wire'[1] /\ wire' # <<>>
    BY <1>3, <1>5, HeadTailProperties, EmptySeq
  <2>2. wire'[1].op # "ready"
    <3>1. CASE k = 0
      BY <1>3, <3>1
    <3>2. CASE k # 0
      BY <1>3, <1>5, <3>2
    <3> QED
      BY <3>1, <3>2
  <2>3. ASSUME NEW i \in 1 .. Len(wire')
        PROVE  /\ wire'[i].s <= l
               /\ wire'[i].op = "message" => wire'[i].s # 0
    <3>1. CASE i = k + 1
      BY <1>2, <1>3, <3>1
    <3>2. CASE i # k + 1
      <4>1. i \in 1 .. k /\ wire'[i].s = n + i
        BY <1>3, <1>5, <3>2
      <4> QED
        BY <1>1, <1>2, <4>1 DEF k
    <3> QED
      BY <3>1, <3>2
  <2>4. opened' # 0 /\ session' = opened' /\ Len(log'[opened']) = l
    BY <1>1, <1>4 DEF l
  <2> QED
    BY <2>1, <2>2, <2>3, <2>4 DEF Framed
<1>7. ASSUME ~ strayed
      PROVE  ReplayedThen
  <2>1. n <= l /\ \A j \in 1 .. n : SafeThen(log'[opened][j])
    BY <1>1, <1>7, Kept DEF Covered, CoveredThen, l
  <2>2. k = l - n
    BY <2>1 DEF k
  <2>3. ASSUME NEW i \in 1 .. k + 1, NEW j \in 1 .. n + i - 1
        PROVE  SafeThen(log'[opened][j]) \/ AheadThen(i, j)
    <3>1. CASE j <= n
      BY <1>1, <2>1, <3>1
    <3>2. CASE ~ (j <= n)
      <4>1. j - n \in 1 .. i - 1 /\ j - n \in 1 .. k /\ n + (j - n) = j
        BY <1>1, <1>5, <3>2
      <4>2. wire'[j - n].op = "message" /\ wire'[j - n].s = j
        BY <1>3, <4>1
      <4> QED
        BY <4>1, <4>2 DEF AheadThen
    <3> QED
      BY <3>1, <3>2
  <2>4. \A i \in 1 .. Len(wire') : Passes(wire'[i]) = n + i - 1
    <3>1. ASSUME NEW i \in 1 .. k
          PROVE  Passes(wire'[i]) = n + i - 1
      BY <1>1, <1>3, <3>1 DEF Passes
    <3>2. Passes(wire'[k + 1]) = n + (k + 1) - 1
      BY <1>1, <1>2, <1>3, <2>2 DEF Passes
    <3> QED
      BY <1>3, <1>5, <3>1, <3>2
  <2>5. \A i \in 1 .. Len(wire') : \A j \in 1 .. Passes(wire'[i]) :
          SafeThen(log'[opened'][j]) \/ AheadThen(i, j)
    BY <1>3, <1>4, <2>3, <2>4
  <2>6. \A j \in 1 .. Len(log'[opened']) :
          SafeThen(log'[opened'][j]) \/ AheadThen(Len(wire') + 1, j)
    <3>1. ASSUME NEW j \in 1 .. l
          PROVE  SafeThen(log'[opened][j]) \/ AheadThen(Len(wire') + 1, j)
      <4>1. k + 1 \in 1 .. k + 1 /\ n + (k + 1) - 1 = l
        BY <1>1, <1>2, <1>5, <2>2
      <4>2. SafeThen(log'[opened][j]) \/ AheadThen(k + 1, j)
        BY <2>3, <4>1
      <4>3. AheadThen(k + 1, j) => AheadThen(Len(wire') + 1, j)
        BY <1>3, <1>5 DEF AheadThen
      <4> QED
        BY <4>2, <4>3
    <3>2. Len(log'[opened']) = l
      BY <1>4 DEF l
    <3> QED
      BY <1>4, <3>1, <3>2
  <2> QED
    BY <2>5, <2>6 DEF ReplayedThen
<1> QED
  BY <1>4, <1>6, <1>7, ThenReplayed

(* A message is dispatched behind everything that is on the wire.          *)
LEMMA SendsStep ==
  ASSUME IInv, Next, NEW m \in Message, NEW k \in Kinds, GatewaySends(m, k)
  PROVE  Framed' /\ Replayed'
<1> DEFINE l == Len(log[opened])
           frame == [op |-> "message", s |-> l + 1]
<1>0. TypeOK /\ TypeOKQq /\ Streams /\ SessionsOpened /\ Framed /\ Replayed
  BY DEF IInv, Tables, TypeOK, Gateway, GatewaySends
<1>1. /\ opened \in Session /\ UNCHANGED <<conn, session, opened, strayed>>
      /\ NextToSend(m) /\ kind' = [kind EXCEPT ![m] = k]
      /\ log' = [log EXCEPT ![opened] = Append(@, m)] /\ db' = db
  BY <1>0 DEF GatewaySends, SessionsOpened, TypeOKQq
<1>2. Len(log'[opened]) = l + 1 /\ l \in Nat
  <2>1. Len(log'[opened]) = Len(log[opened]) + 1
    BY <1>0, <1>1, LogGrows
  <2> QED
    BY <1>0, <1>1, <2>1, StreamLength
<1>3. wire \in Seq(Frame) /\ Len(wire) \in Nat /\ \A i \in 1 .. Len(wire) : wire[i] \in Frame
  BY <1>0, LenProperties, ElementOfSeq DEF TypeOKQq
<1> HIDE DEF l, frame
<1>4. ASSUME NEW j \in 1 .. l, Safe(log[opened][j])
      PROVE  SafeThen(log'[opened][j])
  BY <1>1, <1>4, Kept DEF l
<1>5. CASE conn = "open"
  <2>1. wire' = Append(wire, frame)
    BY <1>5 DEF GatewaySends, frame, l
  <2>2. /\ Len(wire') = Len(wire) + 1
        /\ \A i \in 1 .. Len(wire) : wire'[i] = wire[i]
        /\ wire'[Len(wire) + 1] = frame
        /\ frame.op = "message" /\ frame.s = l + 1
    BY <1>3, <2>1 DEF frame
  <2>3. Framed'
    <3>1. wire' # <<>> /\ Head(wire') = wire'[1]
      BY <1>3, <2>1, <2>2
    <3>2. Head(wire').op # "ready" => session = opened
      <4>1. CASE wire = <<>>
        BY <1>0, <1>5, <4>1 DEF Framed
      <4>2. CASE wire # <<>>
        <5>1. 1 \in 1 .. Len(wire) /\ Head(wire) = wire[1]
          BY <1>3, <4>2, EmptySeq
        <5> QED
          BY <1>0, <1>5, <2>2, <3>1, <4>2, <5>1 DEF Framed
      <4> QED
        BY <4>1, <4>2
    <3>3. ASSUME NEW i \in 1 .. Len(wire')
          PROVE  /\ wire'[i].s <= l + 1
                 /\ wire'[i].op = "message" => wire'[i].s # 0
      <4>1. CASE i = Len(wire) + 1
        BY <1>2, <2>2, <4>1
      <4>2. CASE i # Len(wire) + 1
        <5>1. i \in 1 .. Len(wire) /\ wire'[i] = wire[i] /\ wire[i].s \in Nat
          BY <1>3, <2>2, <4>2 DEF Frame
        <5>2. wire[i].s <= l /\ (wire[i].op = "message" => wire[i].s # 0)
          BY <1>0, <1>5, <5>1 DEF Framed, l
        <5> QED
          BY <1>2, <5>1, <5>2
      <4> QED
        BY <4>1, <4>2
    <3>4. opened # 0
      BY <1>0, <1>5 DEF Framed
    <3>5. opened' = opened /\ session' = session
      BY <1>1
    <3>6. \A i \in 1 .. Len(wire') :
            /\ wire'[i].s <= Len(log'[opened'])
            /\ wire'[i].op = "message" => wire'[i].s # 0
      BY <1>2, <3>3, <3>5
    <3> QED
      BY <3>1, <3>2, <3>4, <3>5, <3>6 DEF Framed
  <2>4. ASSUME ~ strayed
        PROVE  ReplayedThen
    <3>1. \A i \in 1 .. Len(wire) + 1, j \in Int : Ahead(i, j) => AheadThen(i, j)
      BY <1>3, <2>2 DEF Ahead, AheadThen
    <3>2. ASSUME NEW j \in 1 .. l
          PROVE  SafeThen(log'[opened][j]) \/ AheadThen(Len(wire) + 1, j)
      <4>1. Safe(log[opened][j]) \/ Ahead(Len(wire) + 1, j)
        BY <1>0, <1>5, <2>4 DEF Replayed, l
      <4> QED
        BY <1>2, <1>3, <1>4, <3>1, <4>1
    <3>3. ASSUME NEW i \in 1 .. Len(wire'), NEW j \in 1 .. Passes(wire'[i])
          PROVE  SafeThen(log'[opened][j]) \/ AheadThen(i, j)
      <4>1. CASE i = Len(wire) + 1
        <5>1. wire'[i] = frame
          BY <2>2, <4>1
        <5>2. Passes(frame) = l
          <6>1. frame.op = "message" /\ frame.s = l + 1
            BY <2>2
          <6> QED
            BY <1>2, <6>1 DEF Passes
        <5> QED
          BY <3>2, <4>1, <5>1, <5>2
      <4>2. CASE i # Len(wire) + 1
        <5>1. i \in 1 .. Len(wire) /\ wire'[i] = wire[i] /\ wire[i] \in Frame
          BY <1>3, <2>2, <4>2
        <5>2. Safe(log[opened][j]) \/ Ahead(i, j)
          BY <1>0, <1>5, <2>4, <5>1 DEF Replayed
        <5>3. wire[i].s <= l /\ wire[i].s \in Nat
          BY <1>0, <1>5, <5>1 DEF Framed, Frame, l
        <5>4. j \in 1 .. l
          BY <1>2, <5>1, <5>3 DEF Passes
        <5> QED
          BY <1>3, <1>4, <3>1, <5>1, <5>2, <5>4
      <4> QED
        BY <4>1, <4>2
    <3>4. ASSUME NEW j \in 1 .. l + 1
          PROVE  SafeThen(log'[opened][j]) \/ AheadThen(Len(wire') + 1, j)
      <4>1. CASE j = l + 1
        <5>1. Len(wire) + 1 \in 1 .. (Len(wire') + 1) - 1
          BY <1>3, <2>2
        <5> QED
          BY <2>2, <4>1, <5>1 DEF AheadThen
      <4>2. CASE j # l + 1
        <5>1. j \in 1 .. l
          BY <1>2, <4>2
        <5>2. AheadThen(Len(wire) + 1, j) => AheadThen(Len(wire') + 1, j)
          BY <1>3, <2>2 DEF AheadThen
        <5> QED
          BY <3>2, <5>1, <5>2
      <4> QED
        BY <4>1, <4>2
    <3> QED
      BY <1>1, <1>2, <3>3, <3>4 DEF ReplayedThen
  <2> QED
    BY <1>1, <2>3, <2>4, ThenReplayed
<1>6. CASE conn # "open"
  <2>1. wire' = wire
    BY <1>6 DEF GatewaySends
  <2>2. Framed'
    <3>1. ASSUME conn = "failing", NEW i \in 1 .. Len(wire)
          PROVE  wire[i].s <= l + 1 /\ (wire[i].op = "message" => wire[i].s # 0)
      <4>1. wire[i].s <= l /\ wire[i].s \in Nat
        BY <1>0, <1>3, <3>1 DEF Framed, Frame, l
      <4> QED
        BY <1>0, <1>2, <3>1, <4>1 DEF Framed
    <3> QED
      BY <1>0, <1>1, <1>2, <1>6, <2>1, <3>1 DEF Framed
  <2> QED
    BY <1>1, <1>6, <2>2 DEF Replayed
<1> QED
  BY <1>5, <1>6

LEMMA FramesStep ==
  ASSUME IInv, Next, conn # "off"
  PROVE  Framed' /\ Replayed'
<1>0. /\ TypeOK /\ TypeOKQq /\ Streams /\ Gateway /\ SessionsOpened /\ Framed /\ Replayed
      /\ phase = "off"
  BY DEF IInv, Tables, TypeOK, Gateway, OnePlatform
<1>1. CASE conn' \notin {"open", "failing"}
  BY <1>1 DEF Framed, Replayed
<1>2. ASSUME conn \in {"open", "failing"}
      PROVE  opened \in Session /\ Len(log[opened]) \in Nat /\ wire \in Seq(Frame)
  BY <1>0, <1>2, StreamLength DEF Framed, TypeOKQq
<1>3. ASSUME UNCHANGED <<conn, wire, opened, session, log>>, strayed => strayed'
      PROVE  Framed' /\ Replayed'
  <2>1. Framed'
    BY <1>0, <1>3 DEF Framed
  <2>2. ASSUME conn = "open", ~ strayed
        PROVE  ReplayedThen
    <3>1. \A j \in 1 .. Len(log[opened]) : Safe(log[opened][j]) => SafeThen(log'[opened][j])
      BY <1>2, <2>2, Kept
    <3>2. ASSUME NEW i \in 1 .. Len(wire), NEW j \in 1 .. Passes(wire[i])
          PROVE  SafeThen(log'[opened][j]) \/ Ahead(i, j)
      <4>1. wire[i].s <= Len(log[opened]) /\ wire[i].s \in Nat
        <5>1. wire[i] \in Frame
          BY <1>2, <2>2, ElementOfSeq
        <5> QED
          BY <1>0, <2>2, <5>1 DEF Framed, Frame
      <4>2. j \in 1 .. Len(log[opened])
        BY <1>2, <2>2, <4>1 DEF Passes
      <4> QED
        BY <1>0, <2>2, <3>1, <4>2 DEF Replayed
    <3>3. \A j \in 1 .. Len(log[opened]) : SafeThen(log'[opened][j]) \/ Ahead(Len(wire) + 1, j)
      BY <1>0, <2>2, <3>1 DEF Replayed
    <3>4. \A i, j : Ahead(i, j) => AheadThen(i, j)
      BY <1>3 DEF Ahead, AheadThen
    <3> QED
      BY <1>3, <3>2, <3>3, <3>4 DEF ReplayedThen
  <2> QED
    BY <1>3, <2>1, <2>2, ThenReplayed
<1>4. CASE Identified
  <2>1. /\ wire' = <<[op |-> "ready", s |-> 0]>> /\ opened' = opened + 1 /\ opened < MaxSessions
        /\ log' = log
    BY <1>4 DEF Identified, inboundVars
  <2>2. /\ wire' # <<>> /\ Len(wire') = 1 /\ Head(wire') = wire'[1]
        /\ wire'[1].op = "ready" /\ wire'[1].s = 0
    BY <2>1
  <2>3. opened' \in Session /\ log'[opened'] = <<>> /\ opened' # 0
    <3>1. opened + 1 \in Session /\ opened + 1 > opened
      <4>1. opened \in 0 .. MaxSessions /\ opened < MaxSessions
        BY <1>0, <2>1 DEF TypeOKQq
      <4> QED
        BY <4>1, InboundAssumption
    <3>2. log[opened + 1] = <<>>
      BY <1>0, <3>1 DEF SessionsOpened
    <3> QED
      BY <2>1, <3>1, <3>2
  <2>4. Len(log'[opened']) = 0
    BY <2>3
  <2>5. Framed'
    BY <2>2, <2>3, <2>4 DEF Framed
  <2>6. ReplayedThen
    <3>1. Passes(wire'[1]) = 0
      BY <2>2 DEF Passes
    <3> QED
      BY <2>2, <2>4, <3>1 DEF ReplayedThen
  <2> QED
    BY <2>5, <2>6, ThenReplayed
<1>5. ASSUME conn \in {"open", "failing"}, wire # <<>>, wire' = Tail(wire),
             UNCHANGED <<log, opened>>, session' = opened
      PROVE  Framed'
  <2>1. /\ Len(wire) \in Nat \ {0} /\ Len(wire') = Len(wire) - 1
        /\ \A i \in 1 .. Len(wire') : wire'[i] = wire[i + 1]
    BY <1>2, <1>5, HeadTailProperties, EmptySeq
  <2>2. ASSUME NEW i \in 1 .. Len(wire')
        PROVE  /\ wire'[i].s <= Len(log'[opened'])
               /\ wire'[i].op = "message" => wire'[i].s # 0
    <3>1. i + 1 \in 1 .. Len(wire) /\ wire'[i] = wire[i + 1]
      BY <2>1
    <3> QED
      BY <1>0, <1>5, <3>1 DEF Framed
  <2>3. opened' # 0 /\ session' = opened'
    BY <1>0, <1>5 DEF Framed
  <2> QED
    BY <2>2, <2>3 DEF Framed
<1>6. CASE Control
  <2>1. /\ conn = "open" /\ wire # <<>> /\ wire' = Tail(wire) /\ Head(wire).op # "message"
        /\ UNCHANGED <<log, opened, strayed>>
        /\ session' = IF Head(wire).op = "ready" THEN opened ELSE session
    BY <1>6 DEF Control, inboundVars
  <2>2. session' = opened
    BY <1>0, <2>1 DEF Framed
  <2>3. ~ strayed => ReplayedThen
    BY <2>1, FrameTaken
  <2> QED
    BY <1>5, <2>1, <2>2, <2>3, ThenReplayed
<1>7. CASE HandleDispatch \/ DispatchFails
  <2>1. /\ conn \in {"open", "failing"} /\ wire # <<>> /\ wire' = Tail(wire)
        /\ Head(wire).op = "message"
        /\ UNCHANGED <<log, opened, strayed, session>>
    BY <1>7 DEF HandleDispatch, DispatchFails
  <2>2. session = opened /\ Head(wire).s \in 1 .. Len(log[opened])
    BY <2>1, OnTheWire
  <2>3. ASSUME conn' = "open", ~ strayed
        PROVE  ReplayedThen
    <3>1. HandleDispatch /\ conn = "open"
      BY <1>7, <2>3 DEF HandleDispatch, DispatchFails
    <3>2. CoveredThen(opened, Head(wire).s)
      BY <2>3, <3>1, DispatchCovers
    <3>3. SafeThen(log'[opened][Head(wire).s])
      BY <1>2, <2>1, <2>2, <3>2 DEF CoveredThen
    <3> QED
      BY <2>1, <2>3, <3>1, <3>3, FrameTaken
  <2> QED
    BY <1>5, <2>1, <2>2, <2>3, ThenReplayed
<1>8. CASE Resumed
  BY <1>8, ResumedStep
<1>9. ASSUME NEW m \in Message, NEW k \in Kinds, GatewaySends(m, k)
      PROVE  Framed' /\ Replayed'
  BY <1>9, SendsStep
<1>10. ASSUME NEW c \in commands, CommandEnds(c)
       PROVE  Framed' /\ Replayed'
  BY <1>3, <1>10 DEF CommandEnds
<1>11. CASE \/ Connect \/ Hello \/ InvalidSession \/ Fail \/ Invalidated
            \/ Refused \/ Disconnect \/ Expire \/ QqRestarts
  BY <1>1, <1>11 DEF Connect, Hello, InvalidSession, Fail, Invalidated, Refused, Disconnect,
       Expire, QqRestarts
<1>12. ASSUME NEW f \in File, Ages(f), UNCHANGED qqVars
       PROVE  Framed' /\ Replayed'
  BY <1>3, <1>12 DEF Ages, qqVars
<1>13. CASE (ServiceStep \/ CleanupStep) /\ UNCHANGED qqVars
  <2>1. log' = log
    BY <1>13 DEF ServiceStep, CleanupStep, Admit, SwitchMode, TaskEnds, StartCleanup,
         RemoveFile, ClearLocalMediaPaths, StartSweep, Sweep, EndSweep
  <2> QED
    BY <1>3, <1>13, <2>1 DEF qqVars
<1> QED
  BY <1>0, <1>4, <1>6, <1>7, <1>8, <1>9, <1>10, <1>11, <1>12, <1>13, OnlyWechat
  DEF Next, QqStep, GatewayStep, QqFault

-----------------------------------------------------------------------------
(* The theorems.                                                           *)

LEMMA Initially ==
  ASSUME Init
  PROVE  IInv
<1> USE InboundAssumption DEF Init, InitInbound, InitQq, InitWechat
<1>1. TypeOKInbound
  BY DEF TypeOKInbound, Database, Position, NoPosition, Idle
<1>2. TypeOKQq
  <2>1. wire \in Seq(Frame) /\ ask \in Position
    BY DEF Position, NoPosition
  <2>2. conn \in Phases
    BY DEF Phases
  <2>3. session \in 0 .. MaxSessions /\ opened \in 0 .. MaxSessions
    OBVIOUS
  <2>4. sequence \in {Unknown} \cup (0 .. MaxMessages)
    OBVIOUS
  <2>5. alive \in BOOLEAN /\ strayed \in BOOLEAN
    OBVIOUS
  <2> QED
    BY <2>1, <2>2, <2>3, <2>4, <2>5, Zenon DEF TypeOKQq
<1>3. TypeOKWechat
  BY DEF TypeOKWechat
<1>4. Streams
  BY DEF Streams, Sent
<1>5. OnePlatform
  BY DEF OnePlatform
<1>6. Once /\ Media
  BY DEF Once, Media, Awaited, Idle
<1>7. Positions
  BY DEF Positions, NoPosition
<1>8. Gateway
  BY DEF Gateway, SessionsOpened, AskedFor, Framed, Replayed, NoPosition
<1>9. Loop
  BY DEF Loop, NoPosition, Covered
<1> QED
  BY <1>1, <1>2, <1>3, <1>4, <1>5, <1>6, <1>7, <1>8, <1>9 DEF IInv, Tables, TypeOK

LEMMA Inductive ==
  ASSUME IInv, [Next]_vars
  PROVE  IInv'
<1>1. CASE Next
  <2>1. conn' # "off" => Gateway'
    BY <1>1, PlatformStays, SessionsStep, AskedStep, FramesStep DEF Gateway
  <2>2. phase' # "off" => Loop'
    BY <1>1, LoopStep
  <2> QED
    BY <1>1, <2>1, <2>2, TypeStep, TablesStep, PositionsStep DEF IInv
<1>2. CASE UNCHANGED vars
  <2> USE <1>2 DEF vars, inboundVars, qqVars, wechatVars
  <2>1. TypeOK'
    BY TypeStep
  <2>2. Tables'
    BY DEF IInv, Tables, Streams, OnePlatform, Once, Media, Sent, Awaited
  <2>3. Positions'
    BY DEF IInv, Positions, Covered, Safe, Settled
  <2>4. conn' # "off" => Gateway'
    BY DEF IInv, Gateway, SessionsOpened, AskedFor, Framed, Replayed, Covered, Safe, Settled,
           Ahead, Passes
  <2>5. phase' # "off" => Loop'
    BY DEF IInv, Loop, Covered, Safe, Settled
  <2> QED
    BY <2>1, <2>2, <2>3, <2>4, <2>5 DEF IInv
<1> QED
  BY <1>1, <1>2

THEOREM Invariant == Spec => []IInv
<1>1. Init => IInv
  BY Initially
<1>2. IInv /\ [Next]_vars => IInv'
  BY Inductive
<1> QED
  BY <1>1, <1>2, PTL DEF Spec

(* The variables of the tables, the cleanup and both adapters keep their   *)
(* types; in particular no stream and no position outgrows the number of   *)
(* messages that were sent.                                                *)
THEOREM WellTyped == Spec => []TypeOK
<1>1. IInv => TypeOK
  BY DEF IInv
<1> QED
  BY <1>1, Invariant, PTL

(* store.ingest knows a message by its dedupe key: resumed, replayed or    *)
(* fetched again, it is one task at most, and its command runs at most     *)
(* once.                                                                   *)
THEOREM RunsOnce == Spec => []AtMostOnce
<1>1. IInv => AtMostOnce
  BY DEF IInv, Tables, Once, AtMostOnce
<1> QED
  BY <1>1, Invariant, PTL

(* cleanupReleasedMedia and cleanupOrphanedMedia never remove the file of  *)
(* a task that is not finished, at whichever of their waits the message    *)
(* was stored.                                                             *)
THEOREM TaskKeepsMedia == Spec => []MediaForTask
<1>1. IInv => MediaForTask
  BY DEF IInv, Tables, Media, Awaited, MediaForTask
<1> QED
  BY <1>1, Invariant, PTL

LEMMA AllAcknowledged ==
  ASSUME NEW p \in Position, p.session # 0, Covered(p.session, p.seq)
  PROVE  \A m \in Acknowledged(p) : Settled(m) \/ m \in thrown
BY DEF Acknowledged, Covered, Safe

(* The checkpoint in the database passes only messages that are stored,    *)
(* dead-lettered or without trace, so that a restart from it loses none;   *)
(* with the exceptions CheckpointCovers names.                             *)
THEOREM CheckpointLosesNothing == Spec => []CheckpointCovers
<1>1. ASSUME IInv, ~ strayed
      PROVE  /\ db.checkpoint.session = 0 \/ db.checkpoint.seq <= Len(log[db.checkpoint.session])
             /\ \A m \in Acknowledged(db.checkpoint) : Settled(m) \/ m \in thrown
  <2>1. db.checkpoint \in Position
    BY <1>1 DEF IInv, TypeOK, TypeOKInbound, Database
  <2>2. CASE db.checkpoint.session = 0
    BY <2>2 DEF Acknowledged
  <2>3. CASE db.checkpoint.session # 0
    <3>1. Covered(db.checkpoint.session, db.checkpoint.seq)
      BY <1>1, <2>3 DEF IInv, Positions
    <3> QED
      BY <2>1, <2>3, <3>1, AllAcknowledged DEF Covered
  <2> QED
    BY <2>2, <2>3
<1>2. IInv => CheckpointCovers
  BY <1>1 DEF CheckpointCovers
<1> QED
  BY <1>2, Invariant, PTL

(* So does the position in memory with which the gateway is asked to       *)
(* resume.                                                                 *)
THEOREM ResumeLosesNothing == Spec => []PositionCovers
<1>1. ASSUME IInv, session # 0, sequence # Unknown, ~ strayed
      PROVE  /\ sequence <= Len(log[session])
             /\ \A m \in Acknowledged(At(session, sequence)) : Settled(m) \/ m \in thrown
  <2>1. Covered(session, sequence)
    BY <1>1 DEF IInv, Positions
  <2>2. At(session, sequence) \in Position
    BY <1>1 DEF IInv, TypeOK, TypeOKQq, At, Position
  <2>3. At(session, sequence).session = session /\ At(session, sequence).seq = sequence
    BY DEF At
  <2> QED
    BY <1>1, <2>1, <2>2, <2>3, AllAcknowledged DEF Covered
<1>2. IInv => PositionCovers
  BY <1>1 DEF PositionCovers
<1> QED
  BY <1>2, Invariant, PTL

=============================================================================
