------------------------------ MODULE Ingest ------------------------------
\* Ingestion of one bot, by either platform's adapter: QqAdapter or
\* WechatAdapter delivering to Inbound.  Bots share nothing here but tables
\* whose rows carry the bot's id, so each behaviour has one bot.
EXTENDS QqAdapter, WechatAdapter

vars == <<inboundVars, qqVars, wechatVars>>

Init ==
    /\ InitInbound
    /\ InitQq
    /\ InitWechat
    /\ \/ conn = "down" /\ phase = "off"
       \/ conn = "off" /\ phase = "poll"

\* What the service does besides receiving.
ServiceStep ==
    \/ Admit
    \/ SwitchMode
    \/ \E m \in Message : TaskEnds(m)

CleanupStep ==
    \/ StartCleanup
    \/ \E m \in Message : RemoveFile(m) \/ ClearLocalMediaPaths(m)
    \/ StartSweep
    \/ \E f \in File : Sweep(f)
    \/ EndSweep

Next ==
    \/ (QqStep \/ GatewayStep \/ QqFault) /\ UNCHANGED wechatVars
    \/ (WechatStep \/ WechatFault) /\ UNCHANGED qqVars
    \/ \E m \in Message, k \in Kinds : ContactSends(m, k) /\ UNCHANGED qqVars
    \/ \E f \in File : Ages(f) /\ UNCHANGED qqVars
    \/ (ServiceStep \/ CleanupStep) /\ UNCHANGED <<qqVars, wechatVars>>

Spec == Init /\ [][Next]_vars

\* The adapters' loops and handlers, the gateway's answers, the tasks and the
\* 60 s maintenance timer go on; nothing is assumed of users, faults or time.
Fairness ==
    /\ WF_vars(QqStep /\ UNCHANGED wechatVars)
    /\ WF_vars((Resumed \/ Invalidated \/ Identified) /\ UNCHANGED wechatVars)
    /\ WF_vars(WechatStep /\ UNCHANGED qqVars)
    /\ \A m \in Message : WF_vars(TaskEnds(m) /\ UNCHANGED <<qqVars, wechatVars>>)
    /\ WF_vars(CleanupStep /\ UNCHANGED <<qqVars, wechatVars>>)

FairSpec == Spec /\ Fairness

-----------------------------------------------------------------------------
(* Properties. *)

TypeOK == TypeOKInbound /\ TypeOKQq /\ TypeOKWechat

\* A message has been dealt with for good: stored, dead-lettered, handled while
\* its group was not collected, or nothing a handler could keep.
Settled(m) ==
    \/ m \in db.events \cup db.dead \cup ignored
    \/ kind[m] \in {"unsent", "system"}

\* The messages a position acknowledges.
Acknowledged(p) ==
    IF p.session = 0 THEN {}
    ELSE {log[p.session][i] : i \in 1 .. p.seq}

\* However often a message is delivered - resumed, fetched again, after a
\* restart - it becomes at most one task and its command runs at most once.
AtMostOnce == \A m \in Message : ran[m] <= 1

\* The stored checkpoint never passes a message that was neither stored nor
\* dead-lettered, except one whose transaction failed while a later frame of
\* the same read was still handled: a crash at any point loses nothing else,
\* until a handler of an older session has set the position of the current one,
\* from which the adapter may resume past messages.
CheckpointCovers ==
    ~strayed =>
        /\ db.checkpoint.session = 0 \/ db.checkpoint.seq <= Len(log[db.checkpoint.session])
        /\ \A m \in Acknowledged(db.checkpoint) : Settled(m) \/ m \in thrown

\* The position the gateway is asked to resume from is one of that session and
\* covers only settled messages, under the same exceptions.
PositionCovers ==
    (session # 0 /\ sequence # Unknown /\ ~strayed) =>
        /\ sequence <= Len(log[session])
        /\ \A m \in Acknowledged(At(session, sequence)) : Settled(m) \/ m \in thrown

\* A task that can still run finds its downloaded file, whatever the cleanup
\* does meanwhile.
MediaForTask ==
    \A m \in Message :
        db.task[m] = "open" /\ kind[m] = "media" => <<m, db.path[m]>> \in files

\* A message of the session the adapter holds, not settled and not passed.
Due(m) ==
    \/ /\ conn \notin {"off", "blocked"} /\ ~strayed
       /\ session # 0
       /\ \E i \in 1 .. Len(log[session]) : log[session][i] = m /\ (sequence = Unknown \/ i > sequence)
       /\ alive /\ session = opened
       /\ ~Settled(m)
    \/ /\ phase \notin {"off", "blocked"}
       /\ \E i \in 1 .. Len(log[1]) : log[1][i] = m
       /\ ~Settled(m)

\* As long as the adapter holds the session and is not blocked, every message
\* of it is settled, across reconnections, failed batches and restarts.
EveryMessageSettles == \A m \in Message : Due(m) ~> ~Due(m)
=============================================================================
