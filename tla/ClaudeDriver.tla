---------------------------- MODULE ClaudeDriver ----------------------------
\* ClaudeCodeDriver: one SDK query, a process of its own, per run; the loop of
\* consume copies its messages to the queue of the run.  A resumed session that
\* fails before it says anything is tried once more as a fresh one.  The SDK is
\* external.
EXTENDS AgentTurns

CONSTANTS
    MaxThrows,    \* bound: queries that throw although nobody cancelled
    ClaudeSpaces  \* the conversations it serves: its runs share no process

ASSUME ClaudeDriverAssumption ==
    /\ MaxThrows \in Nat
    /\ ClaudeSpaces \subseteq Conversation

VARIABLES
    query,      \* run -> state of its current SDK query
    canFresh,   \* runs whose resumed query may still be replaced
    second,     \* runs whose current query is the fresh one
    emitted,    \* runs whose current query has named its session
    throws

claudeVars == <<query, canFresh, second, emitted, throws>>

TypeOKClaude ==
    /\ query \in [Run -> {"none", "running", "result", "done"}]
    /\ canFresh \subseteq Run
    /\ second \subseteq Run
    /\ emitted \subseteq Run
    /\ throws \in 0 .. MaxThrows

InitClaude ==
    /\ query = [r \in Run |-> "none"]
    /\ canFresh = {}
    /\ second = {}
    /\ emitted = {}
    /\ throws = 0

\* The vendor turn of the current query.
Current(r) == <<r, IF r \in second THEN 2 ELSE 1>>

\* runTurn starts the query and streams at once.
ClaudeStarts(r, c) ==
    /\ Startable(r, c)
    /\ Claims(r, c)
    /\ run' = [run EXCEPT ![r] = [state |-> "stream", conv |-> c, thread |-> session[c],
                                  outcome |-> "none"]]
    /\ query' = [query EXCEPT ![r] = "running"]
    /\ canFresh' = IF session[c] # 0 THEN canFresh \cup {r} ELSE canFresh
    /\ UNCHANGED <<queue, ended, session, sessions, request, text, by, cancelled, second,
                   emitted, throws>>

\* The first message of a query carries the session: the one resumed, or new.
SdkSession(r) ==
    /\ query[r] = "running"
    /\ r \notin emitted
    /\ LET new == run[r].thread = 0
           s == IF new THEN sessions + 1 ELSE run[r].thread
       IN /\ queue' = PushedTo(r, <<"session", s>>)
          /\ run' = [run EXCEPT ![r].thread = s]
          /\ sessions' = IF new THEN s ELSE sessions
    /\ emitted' = emitted \cup {r}
    /\ UNCHANGED <<taskOf, task, ended, session, request, text, by, cancelled, query, canFresh, second, throws>>

\* Deltas and assistant messages.
SdkOutput(r) ==
    /\ query[r] = "running"
    /\ r \in emitted
    /\ text' = [text EXCEPT ![r] = @ \cup {Current(r)}]
    /\ UNCHANGED <<run, taskOf, task, queue, ended, session, sessions, request, by, cancelled, claudeVars>>

\* No request of the run is open: the vendor goes on.
Unasked(r) == \A q \in Request : request[q].run = r => request[q].state # "asked"

\* A success result; a deferred tool makes no terminal event of it.
SdkSucceeds(r) ==
    /\ query[r] = "running"
    /\ r \in emitted
    /\ Unasked(r)
    /\ query' = [query EXCEPT ![r] = "result"]
    /\ \/ /\ queue' = Pushed(r, "success")
          /\ by' = [by EXCEPT ![r] = Current(r)]
       \/ UNCHANGED <<queue, by>>
    /\ UNCHANGED <<run, taskOf, task, ended, session, sessions, request, text, cancelled, canFresh, second,
                   emitted, throws>>

\* Another query, without resume.
\* Mutant: also when the first query has spoken.
ReplaceableAnyway(r) == r \in canFresh

Replaceable(r) == r \in canFresh /\ text[r] = {}
Replaced(r) ==
    /\ run' = [run EXCEPT ![r].thread = 0]
    /\ query' = [query EXCEPT ![r] = "running"]
    /\ canFresh' = canFresh \ {r}
    /\ second' = second \cup {r}
    /\ emitted' = emitted \ {r}

\* A result of any other subtype.
SdkFails(r) ==
    /\ query[r] = "running"
    /\ Unasked(r)
    /\ IF Replaceable(r)
       THEN Replaced(r) /\ UNCHANGED queue
       ELSE /\ queue' = Pushed(r, "error")
            /\ query' = [query EXCEPT ![r] = "result"]
            /\ UNCHANGED <<run, canFresh, second, emitted>>
    /\ UNCHANGED <<taskOf, task, ended, session, sessions, request, text, by, cancelled, throws>>

\* The messages end: the finally block ends the queue.
SdkEnds(r) ==
    /\ query[r] = "result"
    /\ query' = [query EXCEPT ![r] = "done"]
    /\ ended' = ended \cup {r}
    /\ UNCHANGED <<run, taskOf, task, queue, session, sessions, request, text, by, cancelled, canFresh,
                   second, emitted, throws>>

\* The query throws: because it was aborted, or for a reason of its own.
SdkThrows(r) ==
    /\ query[r] \in {"running", "result"}
    /\ r \in cancelled \/ throws < MaxThrows
    /\ throws' = IF r \in cancelled THEN throws ELSE throws + 1
    /\ IF Replaceable(r) /\ r \notin cancelled
       THEN Replaced(r) /\ UNCHANGED <<queue, ended>>
       ELSE /\ queue' = Pushed(r, IF r \in cancelled THEN "cancelled" ELSE "error")
            /\ ended' = ended \cup {r}
            /\ query' = [query EXCEPT ![r] = "done"]
            /\ UNCHANGED <<run, canFresh, second, emitted>>
    /\ UNCHANGED <<taskOf, task, session, sessions, request, text, by, cancelled>>

\* canUseTool: a promise that answerRequest or the timer resolves; the ceiling
\* of the profile refuses at once.
SdkAsks(q, r) ==
    /\ query[r] = "running"
    /\ Asked(q, r, r) \/ Refused(q, r)
    /\ UNCHANGED <<run, taskOf, task, ended, session, sessions, text, by, cancelled, claudeVars>>

ClaudeAnswers(q) == AnswerRequest(q) /\ UNCHANGED claudeVars

ClaudeExpires(q) == RequestTimesOut(q) /\ UNCHANGED claudeVars

ClaudeLapses(q) == TaskExpires(q) /\ UNCHANGED claudeVars

\* interrupt: the run's abort controller, and the query's own interrupt.
ClaudeCancels(r) ==
    /\ Cancellable(r)
    /\ r \notin cancelled
    /\ cancelled' = cancelled \cup {r}
    /\ UNCHANGED <<run, taskOf, task, queue, ended, session, sessions, request, text, by, claudeVars>>

ClaudeConsumes(r) ==
    /\ Consume(r) \/ EndStream(r)
    /\ UNCHANGED claudeVars

ClaudeStep ==
    \/ \E r \in Run, c \in ClaudeSpaces : ClaudeStarts(r, c)
    \/ \E r \in Run : SdkSession(r) \/ SdkOutput(r) \/ SdkSucceeds(r) \/ SdkFails(r)
    \/ \E r \in Run : SdkEnds(r) \/ SdkThrows(r) \/ ClaudeConsumes(r) \/ ClaudeCancels(r)
    \/ \E q \in Request, r \in Run : SdkAsks(q, r)
    \/ \E q \in Request : ClaudeAnswers(q) \/ ClaudeExpires(q) \/ ClaudeLapses(q)
=============================================================================
