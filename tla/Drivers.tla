------------------------------ MODULE Drivers ------------------------------
\* The two agent drivers under the scheduler's rule of one task in flight per
\* conversation, which is not quite a rule of one run.
\* They share no state, so a behaviour has one of them.
EXTENDS CodexDriver, ClaudeDriver

VARIABLE driver

vars == <<turnVars, codexVars, claudeVars, driver>>

TypeOK ==
    /\ driver \in {"codex", "claude-code"}
    /\ TypeOKTurns
    /\ TypeOKCodex
    /\ TypeOKClaude

Init ==
    /\ driver \in {"codex", "claude-code"}
    /\ InitTurns
    /\ InitCodex
    /\ InitClaude

Codex(A) == driver = "codex" /\ ~crashed /\ A /\ UNCHANGED <<claudeVars, driver>>
Claude(A) == driver = "claude-code" /\ A /\ UNCHANGED <<codexVars, driver>>

Next ==
    \/ driver = "codex" /\ ~crashed /\ (CodexStep \/ CodexFault)
          /\ UNCHANGED <<claudeVars, driver>>
    \/ driver = "claude-code" /\ ClaudeStep /\ UNCHANGED <<codexVars, driver>>

Spec == Init /\ [][Next]_vars

-----------------------------------------------------------------------------
(* The vendors serve what they are sent: they answer calls, end the turns they
   run and close the streams they have ended; the timers fire; the scheduler
   reads the queues.  None of it is promised of what may go wrong. *)

Completes(r) == \E s \in {"success", "cancelled", "error"} : TurnCompletes(r, s)
Resulted(r) == SdkSucceeds(r) \/ SdkFails(r)

Fairness ==
    \A r \in Run :
        /\ WF_vars(Codex(Initialized(r)))
        /\ WF_vars(Codex(ThreadResumed(r)))
        /\ WF_vars(Codex(ThreadStarted(r)))
        /\ WF_vars(Codex(Unserved /\ (ResumeFails(r) \/ ThreadFails(r))))
        /\ WF_vars(Codex(TurnStarts(r)))
        /\ WF_vars(Codex(StartAnswered(r)))
        /\ WF_vars(Codex(Completes(r)))
        /\ WF_vars(Codex(CodexConsumes(r)))
        /\ WF_vars(Claude(SdkSession(r)))
        /\ WF_vars(Claude(Resulted(r)))
        /\ WF_vars(Claude(SdkEnds(r)))
        /\ WF_vars(Claude(ClaudeConsumes(r)))

Timers ==
    \A q \in Request :
        /\ WF_vars(Codex(CodexExpires(q)))
        /\ WF_vars(Claude(ClaudeExpires(q)))

FairSpec == Spec /\ Fairness /\ Timers

-----------------------------------------------------------------------------
(* Properties. *)

\* A thread in which IMGent has given up a run may have a turn nobody waits for.
Loosened(r) == \E o \in loose : run[o].thread = run[r].thread

\* The vendor never has two turns running in one thread, however cancellations,
\* completions and the next run of the conversation interleave.
OneVendorTurn ==
    \A r, o \in Run :
        /\ r # o
        /\ turn[r] = "running"
        /\ turn[o] = "running"
        /\ run[r].thread = run[o].thread
        => Loosened(r)

\* A run that succeeds answers with the output of a single vendor turn, its own:
\* nothing of the turn before it in the thread, and nothing of a resumed query
\* that was replaced.
AnswersItself ==
    \A r \in Run :
        run[r].outcome = "success" /\ ~Loosened(r) =>
            /\ by[r][1] = r
            /\ Cardinality(text[r]) <= 1
            /\ \A t \in text[r] : t[1] = r

\* The task of the run has failed under it, because a request expired.
Lapsed(r) == r \in loose /\ task[taskOf[r]] = "over"

\* Another run was registered in its thread, before or after it, since the task of
\* one of them lapsed; now nothing the app-server says reaches this one.
Overtaken(r) ==
    /\ \E o \in Run \ {r} : run[o].thread = run[r].thread /\ (Lapsed(r) \/ Lapsed(o))
    /\ run[r].state = "stream"
    /\ active[run[r].thread] # r

\* Every run ends, unless the app-server has exited under it or it was overtaken.
TurnsEnd == \A r \in Run : Live(r) ~> ~Live(r) \/ exits \/ Overtaken(r)

\* docs/references/agent-driver-protocols.md:127, "app-server 异常退出时，当前 turn
\* 标记 interrupted；重启后先尝试恢复 thread。": when the app-server exits, the turn
\* under way is marked interrupted.  A run that never ends after the exit is not.
TurnsEndAlways == \A r \in Run : Live(r) ~> ~Live(r)
=============================================================================
