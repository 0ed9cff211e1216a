----------------------------- MODULE QqAdapter -----------------------------
\* QqAdapter: the gateway connection of a QQ bot (run, connectOnce,
\* handlePayload).  The frames of a connection are handled one after the other
\* but not one at a time: a handler that waits (a command) goes on while later
\* frames, and later connections, are handled, and sets the resume position
\* when it ends.  The gateway itself is external.
EXTENDS Inbound

CONSTANT Unknown  \* this.sequence before the first frame

VARIABLES
    conn,      \* the socket: see Phases
    session,   \* this.sessionId, 0 when undefined
    sequence,  \* this.sequence
    ask,       \* what HELLO was answered with: RESUME of a position, or IDENTIFY
    wire,      \* frames sent to this connection and not yet handled
    opened,    \* gateway: sessions opened so far; the last is the current one
    alive,     \* gateway: the current session can be resumed
    strayed    \* history: a handler of an older session has set the position

qqVars == <<conn, session, sequence, ask, wire, opened, alive, strayed>>

Phases == {"down", "greeted", "asked", "invalid", "open", "failing", "blocked", "off"}
Frame == [op : {"ready", "resumed", "message"}, s : 0 .. MaxMessages]

TypeOKQq ==
    /\ conn \in Phases
    /\ session \in 0 .. MaxSessions
    /\ sequence \in {Unknown} \cup (0 .. MaxMessages)
    /\ ask \in Position
    /\ wire \in Seq(Frame)
    /\ opened \in 0 .. MaxSessions
    /\ alive \in BOOLEAN
    /\ strayed \in BOOLEAN

InitQq ==
    /\ session = 0
    /\ sequence = Unknown
    /\ ask = NoPosition
    /\ wire = <<>>
    /\ opened = 0
    /\ alive = FALSE
    /\ strayed = FALSE

\* The frames of the session's messages after position n.
Replay(n) == [i \in 1 .. Len(log[opened]) - n |-> [op |-> "message", s |-> n + i]]

-----------------------------------------------------------------------------
(* The connection. *)

\* run and connectOnce: token, gateway address, socket.  A transient failure is
\* followed by a delay and another attempt, which changes nothing here.
Connect ==
    /\ conn = "down"
    /\ conn' = "greeted"
    /\ UNCHANGED <<inboundVars, session, sequence, ask, wire, opened, alive, strayed>>

\* An error without backoff (credentials, permission, protocol) ends run.
Refused ==
    /\ conn \in {"down", "greeted", "asked", "open"}
    /\ faults < MaxFaults
    /\ conn' = "blocked"
    /\ wire' = <<>>
    /\ faults' = faults + 1
    /\ UNCHANGED <<kind, log, db, admitted, mode, commands, mediaVars, ran, ignored, thrown,
                   session, sequence, ask, opened, alive, strayed>>

\* HELLO: resume when both parts of the position are known, else identify.
Hello ==
    /\ conn = "greeted"
    /\ conn' = "asked"
    /\ ask' = IF session # 0 /\ sequence # Unknown THEN At(session, sequence)
              ELSE NoPosition
    /\ UNCHANGED <<inboundVars, session, sequence, wire, opened, alive, strayed>>

\* The gateway resumes its current session and sends what follows the position.
Resumed ==
    /\ conn = "asked"
    /\ ask.session # 0 /\ ask.session = opened /\ alive
    /\ conn' = "open"
    /\ wire' = Replay(ask.seq) \o <<[op |-> "resumed", s |-> Len(log[opened])]>>
    /\ UNCHANGED <<inboundVars, session, sequence, ask, opened, alive, strayed>>

\* ... or refuses: the session is gone, or the position is not one of its own.
Invalidated ==
    /\ conn = "asked"
    /\ ask.session # 0
    /\ ~(ask.session = opened /\ alive)
    /\ conn' = "invalid"
    /\ UNCHANGED <<inboundVars, session, sequence, ask, wire, opened, alive, strayed>>

\* ... or opens a session for IDENTIFY; an earlier one cannot be resumed again.
Identified ==
    /\ conn = "asked"
    /\ ask.session = 0
    /\ opened < MaxSessions
    /\ opened' = opened + 1
    /\ alive' = TRUE
    /\ conn' = "open"
    /\ wire' = <<[op |-> "ready", s |-> 0]>>
    /\ UNCHANGED <<inboundVars, session, sequence, ask, strayed>>

\* INVALID_SESSION: forget the position and identify on the same socket.
InvalidSession ==
    /\ conn = "invalid"
    /\ conn' = "asked"
    /\ session' = 0
    /\ sequence' = Unknown
    /\ ask' = NoPosition
    /\ UNCHANGED <<inboundVars, wire, opened, alive, strayed>>

\* The socket closes: RECONNECT, a missed heartbeat acknowledgement, the network.
Disconnect ==
    /\ conn \in {"greeted", "asked", "invalid", "open"}
    /\ faults < MaxFaults
    /\ faults' = faults + 1
    /\ conn' = "down"
    /\ wire' = <<>>
    /\ UNCHANGED <<kind, log, db, admitted, mode, commands, mediaVars, ran, ignored, thrown,
                   session, sequence, ask, opened, alive, strayed>>

\* The gateway drops the session of a client that is away.
Expire ==
    /\ conn = "down"
    /\ alive
    /\ faults < MaxFaults
    /\ faults' = faults + 1
    /\ alive' = FALSE
    /\ UNCHANGED <<kind, log, db, admitted, mode, commands, mediaVars, ran, ignored, thrown,
                   conn, session, sequence, ask, wire, opened, strayed>>

\* A user writes: the gateway dispatches the message in its current session.
GatewaySends(m, k) ==
    /\ conn # "off"
    /\ NextToSend(m)
    /\ k \in Kinds \ {"media"}
    /\ alive
    /\ kind' = [kind EXCEPT ![m] = k]
    /\ log' = [log EXCEPT ![opened] = Append(@, m)]
    /\ wire' = IF conn = "open"
               THEN Append(wire, [op |-> "message", s |-> Len(log[opened]) + 1])
               ELSE wire
    /\ UNCHANGED <<db, admitted, mode, commands, mediaVars, ran, ignored, thrown, faults,
                   conn, session, sequence, ask, opened, alive, strayed>>

-----------------------------------------------------------------------------
(* handlePayload of a DISPATCH. *)

\* READY names the session; READY and RESUMED carry no message, and their
\* position is kept in memory only.
Control ==
    /\ conn = "open"
    /\ wire # <<>>
    /\ Head(wire).op # "message"
    /\ session' = IF Head(wire).op = "ready" THEN opened ELSE session
    /\ sequence' = Head(wire).s
    /\ wire' = Tail(wire)
    /\ UNCHANGED <<inboundVars, conn, ask, opened, alive, strayed>>

\* The message at the head of the wire, its place and the checkpoint it carries.
Delivery == At(opened, Head(wire).s)
Delivered == log[opened][Head(wire).s]
Checkpoint == IF session = 0 THEN NoPosition ELSE At(session, Head(wire).s)

\* Messages before the head of the wire whose handler has failed.
Failed ==
    {log[opened][i] : i \in {j \in 1 .. Head(wire).s - 1 :
        /\ kind[log[opened][j]] # "system"
        /\ log[opened][j] \notin db.events \cup db.dead \cup ignored}}

\* The handlers that end before the next frame: an event that is normalised to
\* nothing, one that is rejected, and a message that only touches the tables.
\* A frame that was read together with one whose handler has just failed is
\* still handled, although the socket is about to be terminated.
HandleDispatch ==
    /\ conn \in {"open", "failing"}
    /\ wire # <<>>
    /\ Head(wire).op = "message"
    /\ wire' = Tail(wire)
    /\ LET m == Delivered IN
       CASE kind[m] = "system" ->
                UNCHANGED <<database, commands>> /\ sequence' = Head(wire).s
         [] kind[m] = "odd" ->
                /\ db' = DeadLettered(m, Checkpoint)
                /\ sequence' = Head(wire).s
                /\ UNCHANGED <<ran, ignored, commands>>
         [] OTHER ->
                /\ HandleInbound(m, Delivery, Checkpoint, 0)
                /\ sequence' = IF Executes(m) THEN sequence ELSE Head(wire).s
    /\ thrown' = IF conn = "failing" THEN thrown \cup Failed ELSE thrown
    /\ UNCHANGED <<kind, log, admitted, mode, mediaVars, faults,
                   conn, session, ask, opened, alive, strayed>>

\* Mutant: the position is set although the handler fails.
DispatchFailsPassing ==
    /\ conn = "open"
    /\ wire # <<>>
    /\ Head(wire).op = "message"
    /\ kind[Delivered] # "system"
    /\ faults < MaxFaults
    /\ faults' = faults + 1
    /\ sequence' = Head(wire).s
    /\ wire' = Tail(wire)
    /\ conn' = "failing"
    /\ UNCHANGED <<kind, log, db, admitted, mode, commands, mediaVars, ran, ignored, thrown,
                   session, ask, opened, alive, strayed>>

\* The transaction of the message fails: its handler rejects, and fail runs
\* after the handlers of the frames that were read with it.
DispatchFails ==
    /\ conn = "open"
    /\ wire # <<>>
    /\ Head(wire).op = "message"
    /\ kind[Delivered] # "system"
    /\ faults < MaxFaults
    /\ faults' = faults + 1
    /\ wire' = Tail(wire)
    /\ conn' = "failing"
    /\ UNCHANGED <<kind, log, db, admitted, mode, commands, mediaVars, ran, ignored, thrown,
                   session, sequence, ask, opened, alive, strayed>>

\* Mutant: the failure of a handler is swallowed.
FailSwallowed ==
    /\ conn = "failing"
    /\ conn' = "open"
    /\ UNCHANGED <<inboundVars, session, sequence, ask, wire, opened, alive, strayed>>

Fail ==
    /\ conn = "failing"
    /\ conn' = "down"
    /\ wire' = <<>>
    /\ UNCHANGED <<inboundVars, session, sequence, ask, opened, alive, strayed>>

\* A waiting command ends, on whatever connection and session there is by then.
CommandEnds(c) ==
    /\ conn # "off"
    /\ c \in commands
    /\ commands' = commands \ {c}
    /\ db' = Answered(c[1])
    /\ sequence' = c[2].seq
    /\ strayed' = (strayed \/ session \notin {0, c[2].session})
    /\ UNCHANGED <<kind, log, admitted, mode, mediaVars, ran, ignored, thrown, faults,
                   conn, session, ask, wire, opened, alive>>

\* The process ends and starts again from the stored checkpoint.
QqRestarts ==
    /\ conn # "off"
    /\ faults < MaxFaults
    /\ faults' = faults + 1
    /\ conn' = "down"
    /\ wire' = <<>>
    /\ session' = db.checkpoint.session
    /\ sequence' = IF db.checkpoint.session = 0 THEN Unknown ELSE db.checkpoint.seq
    /\ commands' = {}
    /\ UNCHANGED <<kind, log, db, admitted, mode, mediaVars, ran, ignored, thrown,
                   ask, opened, alive, strayed>>

QqStep ==
    \/ Connect \/ Hello \/ InvalidSession \/ Control \/ HandleDispatch
    \/ Fail
    \/ \E c \in commands : CommandEnds(c)

GatewayStep ==
    \/ Resumed \/ Invalidated \/ Identified
    \/ \E m \in Message, k \in Kinds : GatewaySends(m, k)

QqFault == Refused \/ Disconnect \/ Expire \/ DispatchFails \/ QqRestarts
=============================================================================
