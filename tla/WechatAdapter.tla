--------------------------- MODULE WechatAdapter ---------------------------
\* WechatIlinkAdapter.run: the long-poll loop of a WeChat bot, with the
\* download of media.  The loop awaits every handler; the checkpoint travels
\* with the last message of a batch.  The service it polls is external: it
\* keeps the messages and returns those after the cursor.
EXTENDS Inbound

CONSTANT MaxBatch  \* bound: messages in one response

VARIABLES
    phase,   \* where the loop is
    cursor,  \* this.cursor, as a position in the stream
    batch,   \* the messages of the response that are not yet handled
    end,     \* get_updates_buf of the response
    copy     \* the file the message at the head was downloaded to, 0 if none

wechatVars == <<phase, cursor, batch, end, copy>>

TypeOKWechat ==
    /\ phase \in {"poll", "batch", "command", "blocked", "off"}
    /\ cursor \in 0 .. MaxMessages
    /\ batch \in Seq(Message)
    /\ end \in 0 .. MaxMessages
    /\ copy \in 0 .. MaxCopies

InitWechat ==
    /\ cursor = 0
    /\ batch = <<>>
    /\ end = 0
    /\ copy = 0

\* A contact writes.
ContactSends(m, k) ==
    /\ phase # "off"
    /\ NextToSend(m)
    /\ k \in Kinds \ {"ordinary"}
    /\ kind' = [kind EXCEPT ![m] = k]
    /\ log' = [log EXCEPT ![1] = Append(@, m)]
    /\ UNCHANGED <<db, admitted, mode, commands, mediaVars, ran, ignored, thrown, faults,
                   wechatVars>>

\* getupdates returns messages after the cursor.  An empty response saves the
\* cursor it returns, which is where the bot stands already.
Poll ==
    /\ phase = "poll"
    /\ cursor < Len(log[1])
    /\ \E n \in 1 .. MaxBatch :
        /\ cursor + n <= Len(log[1])
        /\ batch' = SubSeq(log[1], cursor + 1, cursor + n)
        /\ end' = cursor + n
    /\ phase' = "batch"
    /\ UNCHANGED <<inboundVars, cursor, copy>>

\* errcode -14: the session is invalid until the bot is authorized again.
SessionInvalid ==
    /\ phase = "poll"
    /\ faults < MaxFaults
    /\ faults' = faults + 1
    /\ phase' = "blocked"
    /\ UNCHANGED <<kind, log, db, admitted, mode, commands, mediaVars, ran, ignored, thrown,
                   cursor, batch, end, copy>>

\* Mutant: every message of the batch carries the checkpoint.
BatchCheckpointAlways == At(1, end)

\* The checkpoint goes with the last message of the batch.
Final == Len(batch) = 1
BatchCheckpoint == IF Final THEN At(1, end) ELSE NoPosition
Place == At(1, end - Len(batch) + 1)

\* After a message: the next one, or the next poll with the new cursor.
Advance ==
    /\ batch' = Tail(batch)
    /\ copy' = 0
    /\ cursor' = IF Final THEN end ELSE cursor
    /\ end' = IF Final THEN 0 ELSE end
    /\ phase' = IF Final THEN "poll" ELSE "batch"

\* A message of the bot itself is normalised to nothing: onCheckpoint.
HandleSystem ==
    /\ phase = "batch"
    /\ kind[Head(batch)] = "system"
    /\ db' = Saving(db, BatchCheckpoint)
    /\ Advance
    /\ UNCHANGED <<kind, log, admitted, mode, commands, mediaVars, ran, ignored, thrown, faults>>

\* WechatCompatibilityError: onCompatibilityError.
HandleOdd ==
    /\ phase = "batch"
    /\ kind[Head(batch)] = "odd"
    /\ db' = DeadLettered(Head(batch), BatchCheckpoint)
    /\ Advance
    /\ UNCHANGED <<kind, log, admitted, mode, commands, mediaVars, ran, ignored, thrown, faults>>

\* materializeWechatInboundMedia has saved the attachment under a fresh name.
Download ==
    /\ phase = "batch"
    /\ kind[Head(batch)] = "media"
    /\ copy = 0
    /\ \E n \in 1 .. MaxCopies :
        /\ n = 1 + Cardinality({f \in files : f[1] = Head(batch)})
        /\ <<Head(batch), n>> \notin files
        /\ copy' = n
        /\ files' = files \cup {<<Head(batch), n>>}
    /\ UNCHANGED <<kind, log, db, admitted, mode, commands, old, cleaner, ran, ignored, thrown,
                   faults, phase, cursor, batch, end>>

\* The download fails: onMediaError records it, tells a paired sender, and
\* passes the message over.
DownloadFails ==
    /\ phase = "batch"
    /\ kind[Head(batch)] = "media"
    /\ copy = 0
    /\ db' = LET d == DeadLettered(Head(batch), BatchCheckpoint)
             IN  IF admitted THEN [d EXCEPT !.answered = @ \cup {Head(batch)}] ELSE d
    /\ Advance
    /\ UNCHANGED <<kind, log, admitted, mode, commands, mediaVars, ran, ignored, thrown, faults>>

\* onMessage; the loop waits for a command to end.
HandleMessage ==
    /\ phase = "batch"
    /\ kind[Head(batch)] \in {"direct", "command", "media"}
    /\ kind[Head(batch)] = "media" => copy # 0
    /\ HandleInbound(Head(batch), Place, BatchCheckpoint, copy)
    /\ IF Executes(Head(batch))
       THEN phase' = "command" /\ UNCHANGED <<cursor, batch, end, copy>>
       ELSE Advance
    /\ UNCHANGED <<kind, log, admitted, mode, mediaVars, thrown, faults>>

HandleCommandEnds(c) ==
    /\ phase = "command"
    /\ c \in commands
    /\ commands' = commands \ {c}
    /\ db' = Answered(c[1])
    /\ Advance
    /\ UNCHANGED <<kind, log, admitted, mode, mediaVars, ran, ignored, thrown, faults>>

\* A transaction fails: the rest of the batch is given up and, after a delay,
\* fetched again from the old cursor.
BatchFails ==
    /\ phase = "batch"
    /\ faults < MaxFaults
    /\ faults' = faults + 1
    /\ phase' = "poll"
    /\ batch' = <<>>
    /\ end' = 0
    /\ copy' = 0
    /\ UNCHANGED <<kind, log, db, admitted, mode, commands, mediaVars, ran, ignored, thrown,
                   cursor>>

\* The process ends and starts again from the stored cursor; the cleanup that
\* was running is lost, the files stay.
WechatRestarts ==
    /\ phase # "off"
    /\ faults < MaxFaults
    /\ faults' = faults + 1
    /\ phase' = "poll"
    /\ cursor' = db.checkpoint.seq
    /\ batch' = <<>>
    /\ end' = 0
    /\ copy' = 0
    /\ commands' = {}
    /\ cleaner' = Idle
    /\ UNCHANGED <<kind, log, db, admitted, mode, files, old, ran, ignored, thrown>>

\* An hour passes over a file that no message being handled waits for.  A
\* cleanup takes less than an hour: what it found fresh stays fresh under it.
Ages(f) ==
    /\ f \in files \ old
    /\ ~(batch # <<>> /\ f = <<Head(batch), copy>>)
    /\ cleaner.phase = "idle"
    /\ old' = old \cup {f}
    /\ UNCHANGED <<kind, log, db, admitted, mode, commands, files, cleaner, ran, ignored,
                   thrown, faults, wechatVars>>

WechatStep ==
    \/ Poll \/ HandleSystem \/ HandleOdd \/ Download \/ DownloadFails \/ HandleMessage
    \/ \E c \in commands : HandleCommandEnds(c)

WechatFault == SessionInvalid \/ BatchFails \/ WechatRestarts
=============================================================================
