---------------------------- MODULE CodexDriver ----------------------------
\* CodexDriver and JsonRpcProcess: one app-server process for all turns, JSON-RPC
\* calls with a 30 s timeout, notifications routed to turns by thread.  The
\* app-server is external: it executes what it is sent, in any of the ways its
\* answers and notifications allow, and may exit.
EXTENDS AgentTurns

CONSTANT MaxFaults  \* bound: timeouts, error notifications and exits

ASSUME CodexDriverAssumption == MaxFaults \in Nat

VARIABLES
    proc,        \* this.rpc and its child process
    active,      \* activeByThread: thread -> run, 0 for none
    turn,        \* app-server: run -> state of the turn it asked for
    interrupts,  \* turn/interrupt requests on their way
    loose,       \* history: runs IMGent has given up while their turn may run on: after
                 \* an error or a time-out, or because their task has failed
    exits,       \* history: the app-server has exited after it was initialized
    crashed,     \* history: an exception nobody catches has ended the service
    faults

codexVars == <<proc, active, turn, interrupts, loose, exits, crashed, faults>>

Thread == 1 .. 2 * MaxRuns

TypeOKCodex ==
    /\ proc \in {"none", "starting", "up", "gone"}
    /\ active \in [Thread -> Run \cup {0}]
    /\ turn \in [Run -> {"none", "asked", "running", "done"}]
    /\ interrupts \subseteq Run
    /\ loose \subseteq Run
    /\ exits \in BOOLEAN
    /\ crashed \in BOOLEAN
    /\ faults \in 0 .. MaxFaults

InitCodex ==
    /\ proc = "none"
    /\ active = [t \in Thread |-> 0]
    /\ turn = [r \in Run |-> "none"]
    /\ interrupts = {}
    /\ loose = {}
    /\ exits = FALSE
    /\ crashed = FALSE
    /\ faults = 0

\* runTurn throws or yields an error before it streams: the run is over, and
\* its entry in activeByThread is deleted.
Over(r, outcome) == [run EXCEPT ![r].state = "over", ![r].outcome = outcome]
Unregistered(r) == [t \in Thread |-> IF t = run[r].thread THEN 0 ELSE active[t]]

-----------------------------------------------------------------------------
(* runTurn. *)

\* ensureReady: the first run spawns the process and waits for initialize; a
\* run that finds this.rpc set goes on at once, even if it is not ready.
NextCall(c) == IF session[c] # 0 THEN "resume" ELSE "thread"

CodexStarts(r, c) ==
    /\ Startable(r, c)
    /\ Claims(r, c)
    /\ run' = [run EXCEPT ![r].conv = c,
                          ![r].state = IF proc = "none" THEN "initialize" ELSE NextCall(c)]
    /\ proc' = IF proc = "none" THEN "starting" ELSE proc
    /\ UNCHANGED <<queue, ended, session, sessions, request, text, by, cancelled,
                   active, turn, interrupts, loose, exits, crashed, faults>>

Initialized(r) ==
    /\ run[r].state = "initialize"
    /\ proc = "starting"
    /\ proc' = "up"
    /\ run' = [run EXCEPT ![r].state = NextCall(run[r].conv)]
    /\ UNCHANGED <<taskOf, task, queue, ended, session, sessions, request, text, by, cancelled,
                   active, turn, interrupts, loose, exits, crashed, faults>>

\* A call finds no process and is rejected at once.
Unserved == proc \in {"none", "gone"}

\* The calls that wait for an answer fail.  A failed thread/resume goes on with
\* thread/start, a failed thread/start makes runTurn throw, and a failed
\* turn/start makes it yield an error.
CallsFail ==
    /\ run' = [r \in Run |->
                 CASE run[r].state \in {"initialize", "thread"} ->
                        [run[r] EXCEPT !.state = "over", !.outcome = "failed"]
                   [] run[r].state = "resume" -> [run[r] EXCEPT !.state = "thread"]
                   [] run[r].state = "start" ->
                        [run[r] EXCEPT !.state = "over", !.outcome = "error"]
                   [] OTHER -> run[r]]
    /\ active' = [t \in Thread |->
                    IF \E r \in Run : run[r].state = "start" /\ run[r].thread = t
                    THEN 0 ELSE active[t]]
    /\ task' = Failed({r \in Run : run[r].state \in {"initialize", "thread", "start"}})

\* start fails: this.rpc is unset and the next run spawns again.  The process is
\* left alone, and so are the calls of the runs that did not wait for it: they
\* may still be answered, or time out.
InitializeFails(r) ==
    /\ run[r].state = "initialize"
    /\ faults < MaxFaults
    /\ faults' = faults + 1
    /\ proc' = "none"
    /\ run' = Over(r, "failed")
    /\ task' = Failed({r})
    /\ UNCHANGED <<taskOf, queue, ended, session, sessions, request, text, by, cancelled,
                   active, turn, interrupts, loose, exits, crashed>>

\* The thread is known: the run is registered under it and sends turn/start.
Registered(r, t) ==
    /\ run' = [run EXCEPT ![r].thread = t, ![r].state = "start"]
    /\ active' = [active EXCEPT ![t] = r]
    /\ queue' = PushedTo(r, <<"session", t>>)
    /\ turn' = [turn EXCEPT ![r] = "asked"]

ThreadResumed(r) ==
    /\ run[r].state = "resume"
    /\ proc = "up"
    /\ Registered(r, session[run[r].conv])
    /\ UNCHANGED <<taskOf, task, ended, session, sessions, request, text, by, cancelled, proc, interrupts, loose, exits, crashed, faults>>

\* thread/resume is refused, times out or finds no process: thread/start.
ResumeFails(r) ==
    /\ run[r].state = "resume"
    /\ Unserved \/ faults < MaxFaults
    /\ faults' = IF Unserved THEN faults ELSE faults + 1
    /\ run' = [run EXCEPT ![r].state = "thread"]
    /\ UNCHANGED <<taskOf, task, queue, ended, session, sessions, request, text, by, cancelled,
                   proc, active, turn, interrupts, loose, exits, crashed>>

ThreadStarted(r) ==
    /\ run[r].state = "thread"
    /\ proc = "up"
    /\ sessions' = sessions + 1
    /\ Registered(r, sessions + 1)
    /\ UNCHANGED <<taskOf, task, ended, session, request, text, by, cancelled, proc, interrupts, loose, exits, crashed, faults>>

\* thread/start fails: runTurn throws.
ThreadFails(r) ==
    /\ run[r].state = "thread"
    /\ Unserved \/ faults < MaxFaults
    /\ faults' = IF Unserved THEN faults ELSE faults + 1
    /\ run' = Over(r, "failed")
    /\ task' = Failed({r})
    /\ UNCHANGED <<taskOf, queue, ended, session, sessions, request, text, by, cancelled,
                   proc, active, turn, interrupts, loose, exits, crashed>>

\* The app-server executes turn/start, and its answer names the turn.
TurnStarts(r) ==
    /\ turn[r] = "asked"
    /\ proc = "up"
    /\ turn' = [turn EXCEPT ![r] = "running"]
    /\ UNCHANGED <<turnVars, proc, active, interrupts, loose, exits, crashed, faults>>

StartAnswered(r) ==
    /\ run[r].state = "start"
    /\ turn[r] \in {"running", "done"}
    /\ proc = "up"
    /\ run' = [run EXCEPT ![r].state = "stream"]
    /\ UNCHANGED <<taskOf, task, queue, ended, session, sessions, request, text, by, cancelled,
                   proc, active, turn, interrupts, loose, exits, crashed, faults>>

StartRejected(r) ==
    /\ run[r].state = "start"
    /\ turn[r] = "asked"
    /\ proc = "up"
    /\ faults < MaxFaults
    /\ faults' = faults + 1
    /\ turn' = [turn EXCEPT ![r] = "none"]
    /\ run' = Over(r, "error")
    /\ task' = Failed({r})
    /\ active' = Unregistered(r)
    /\ UNCHANGED <<taskOf, queue, ended, session, sessions, request, text, by, cancelled,
                   proc, interrupts, loose, exits, crashed>>

\* No answer within 30 s: the run ends with AGENT_TURN_START_FAILED, which is
\* retried, although the app-server may have started the turn or still will.
StartTimesOut(r) ==
    /\ run[r].state = "start"
    /\ faults < MaxFaults
    /\ faults' = faults + 1
    /\ run' = Over(r, "error")
    /\ task' = Failed({r})
    /\ active' = Unregistered(r)
    /\ loose' = loose \cup {r}
    /\ UNCHANGED <<taskOf, queue, ended, session, sessions, request, text, by, cancelled,
                   proc, turn, interrupts, exits, crashed>>

\* The consumer's step; its end unregisters the run, or whichever run has its
\* thread by then.  An exception of the consumer leaves the turn running.
CodexConsumes(r) ==
    /\ Consume(r) \/ EndStream(r)
    /\ active' = IF run'[r].state = "over" THEN Unregistered(r) ELSE active
    /\ loose' = IF run[r].state = "stream" /\ queue[r] # <<>> /\ Throws(r)
                THEN loose \cup {r} ELSE loose
    /\ UNCHANGED <<proc, turn, interrupts, exits, crashed, faults>>

-----------------------------------------------------------------------------
(* Notifications and requests of the app-server, routed by thread. *)

Receiver(r) == active[run[r].thread]

\* item/agentMessage/delta, item/completed
TurnSpeaks(r) ==
    /\ turn[r] = "running"
    /\ proc = "up"
    /\ text' = IF Receiver(r) = 0 THEN text
               ELSE [text EXCEPT ![Receiver(r)] = @ \cup {<<r, 1>>}]
    /\ UNCHANGED <<run, taskOf, task, queue, ended, session, sessions, request, by, cancelled, codexVars>>

\* turn/completed: the terminal event of whichever run the thread has.
\* Mutant: dropped, as steering is, until the turn has its name.
RoutedIfNamed(r) == Receiver(r) # 0 /\ run[Receiver(r)].state = "stream"

Routed(r) == Receiver(r) # 0

TurnCompletes(r, status) ==
    /\ turn[r] = "running"
    /\ proc = "up"
    /\ status = "cancelled" => r \in interrupts
    /\ \A q \in Request : request[q].run = r => request[q].state # "asked"
    /\ turn' = [turn EXCEPT ![r] = "done"]
    /\ interrupts' = interrupts \ {r}
    /\ IF Routed(r)
       THEN /\ queue' = Pushed(Receiver(r), status)
            /\ ended' = ended \cup {Receiver(r)}
            /\ by' = [by EXCEPT ![Receiver(r)] = <<r, 1>>]
       ELSE UNCHANGED <<queue, ended, by>>
    /\ UNCHANGED <<run, taskOf, task, session, sessions, request, text, cancelled, proc, active, loose, exits, crashed, faults>>

\* An error notification: the consumer stops, whatever the turn does next.
ErrorNotified(r) ==
    /\ turn[r] = "running"
    /\ proc = "up"
    /\ faults < MaxFaults
    /\ faults' = faults + 1
    /\ queue' = IF Receiver(r) = 0 THEN queue ELSE Pushed(Receiver(r), "error")
    /\ loose' = loose \cup {r}
    /\ UNCHANGED <<run, taskOf, task, ended, session, sessions, request, text, by, cancelled, proc,
                   active, turn, interrupts, exits, crashed>>

\* onServerRequest: pending until it is answered; refused at once when no run
\* has the thread, or by the permission ceiling.
CodexAsks(q, r) ==
    /\ turn[r] = "running"
    /\ proc = "up"
    /\ \/ Receiver(r) # 0 /\ Asked(q, r, Receiver(r))
       \/ Refused(q, r)
    /\ UNCHANGED <<run, taskOf, task, ended, session, sessions, text, by, cancelled, codexVars>>

\* Without the process, write throws: the request has left the pending map.
Dropped(q) ==
    /\ request[q].state = "asked"
    /\ request' = [request EXCEPT ![q].state = "closed"]
    /\ UNCHANGED <<run, taskOf, task, queue, ended, session, sessions, text, by, cancelled>>

CodexAnswers(q) ==
    /\ IF proc = "up" THEN AnswerRequest(q) ELSE Dropped(q)
    /\ UNCHANGED codexVars

\* The timer responds to the process; if that has exited, write throws in the
\* timer's callback, where nothing catches it.
CodexExpires(q) ==
    /\ IF proc = "up" THEN RequestTimesOut(q) ELSE Dropped(q)
    /\ crashed' = (proc # "up")
    /\ UNCHANGED <<proc, active, turn, interrupts, loose, exits, faults>>

\* The task fails while its turn waits for the answer, if it still does.
CodexLapses(q) ==
    /\ TaskExpires(q)
    /\ loose' = loose \cup {r \in Run : Live(r) /\ taskOf[r] = request[q].row
                                        /\ task[request[q].row] = "waiting"}
    /\ UNCHANGED <<proc, active, turn, interrupts, exits, crashed, faults>>

-----------------------------------------------------------------------------
(* Cancellation, exit, close. *)

\* Mutant: the run is ended at once, without waiting for the vendor.
CodexCancelsAtOnce(r) ==
    /\ Cancellable(r)
    /\ r \notin cancelled
    /\ cancelled' = cancelled \cup {r}
    /\ interrupts' = IF run[r].state = "stream" /\ turn[r] = "running"
                     THEN interrupts \cup {r} ELSE interrupts
    /\ queue' = IF run[r].state = "stream" THEN Pushed(r, "cancelled") ELSE queue
    /\ ended' = IF run[r].state = "stream" THEN ended \cup {r} ELSE ended
    /\ UNCHANGED <<run, taskOf, task, session, sessions, request, text, by, proc, active, turn, loose,
                   exits, crashed, faults>>

\* cancelConversation: interrupt, which does nothing for a turn the app-server
\* has not named yet.
CodexCancels(r) ==
    /\ Cancellable(r)
    /\ r \notin cancelled
    /\ cancelled' = cancelled \cup {r}
    /\ interrupts' = IF run[r].state = "stream" /\ turn[r] = "running"
                     THEN interrupts \cup {r} ELSE interrupts
    /\ UNCHANGED <<run, taskOf, task, queue, ended, session, sessions, request, text, by, proc, active,
                   turn, loose, exits, crashed, faults>>

\* The process exits: failAll rejects the calls; the queues are not touched.
ProcessExits ==
    /\ proc \in {"starting", "up"}
    /\ faults < MaxFaults
    /\ faults' = faults + 1
    /\ proc' = IF proc = "starting" THEN "none" ELSE "gone"
    /\ exits' = (proc = "up")
    /\ CallsFail
    /\ turn' = [r \in Run |-> IF turn[r] = "none" THEN "none" ELSE "done"]
    /\ interrupts' = {}
    /\ UNCHANGED <<taskOf, queue, ended, session, sessions, request, text, by, cancelled,
                   loose, crashed>>

CodexStep ==
    \/ \E r \in Run, c \in Conversation : CodexStarts(r, c)
    \/ \E r \in Run : ThreadResumed(r) \/ ThreadStarted(r) \/ CodexConsumes(r)
    \/ \E r \in Run : Initialized(r) \/ TurnStarts(r) \/ StartAnswered(r)
    \/ \E r \in Run : TurnSpeaks(r)
    \/ \E r \in Run, s \in {"success", "cancelled", "error"} : TurnCompletes(r, s)
    \/ \E q \in Request, r \in Run : CodexAsks(q, r)
    \/ \E q \in Request : CodexAnswers(q) \/ CodexExpires(q) \/ CodexLapses(q)
    \/ \E r \in Run : CodexCancels(r)

\* What may go wrong, each at most MaxFaults times; without a process the calls
\* fail for free.
CodexFault ==
    \/ \E r \in Run : InitializeFails(r) \/ ResumeFails(r) \/ ThreadFails(r)
    \/ \E r \in Run : StartRejected(r) \/ StartTimesOut(r) \/ ErrorNotified(r)
    \/ ProcessExits
=============================================================================
