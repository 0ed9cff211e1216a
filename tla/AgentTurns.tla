---------------------------- MODULE AgentTurns ----------------------------
\* What the Codex and the Claude Code driver share: the turn as its consumer
\* sees it.  AgentDriver.runTurn is a generator over an AsyncQueue; the
\* scheduler's execute loop takes its events and stops at an error.  A run is
\* one call of runTurn for a task of a conversation; a retry of the task is
\* another run.  The scheduler decides by the rows of its tasks which run it
\* starts, and the row of a task may leave the turn it stands for behind.
EXTENDS Naturals, FiniteSets, Sequences

CONSTANTS
    Conversation,  \* conversations, each with its own vendor session
    MaxRuns,       \* bound: calls of runTurn
    MaxRequests,   \* bound: approval requests and questions of the vendor
    None

ASSUME AgentTurnsAssumption ==
    /\ IsFiniteSet(Conversation)
    /\ None \notin Conversation
    /\ MaxRuns \in Nat \ {0}
    /\ MaxRequests \in Nat

Run == 1 .. MaxRuns
Request == 1 .. MaxRequests
\* A vendor turn: the run that asked for it, and its attempt within the run.
VendorTurn == Run \X (1 .. 2)
\* An event of AsyncQueue; output is kept in text.
Event ==
    ({"session", "success", "cancelled", "error"} \X (0 .. 2 * MaxRuns))
    \cup ({"request"} \X Request)

VARIABLES
    run,        \* the runs: see Runs
    taskOf,     \* run -> the task it executes, named by its first run; 0 for none
    task,       \* task -> its row: see Tasks
    queue,      \* run -> AsyncQueue: the events not yet consumed
    ended,      \* runs whose queue has ended
    session,    \* conversation -> stored vendor session, 0 for none
    sessions,   \* vendor: sessions (threads) created so far
    request,    \* request -> its state: see Requests
    text,       \* run -> vendor turns whose output is in its answer
    by,         \* run -> the vendor turn whose end the driver reported
    cancelled   \* runs the user has cancelled

turnVars ==
    <<run, taskOf, task, queue, ended, session, sessions, request, text, by, cancelled>>

Runs ==
    [state : {"idle", "initialize", "resume", "thread", "start", "stream", "over"},
     conv : Conversation \cup {None},
     thread : 0 .. 2 * MaxRuns,
     outcome : {"none", "success", "cancelled", "error", "incomplete", "failed"}]

\* "waiting": for the answer to a request; "retry": failed, may be tried again;
\* "over": completed, cancelled, or failed because a request expired.
Tasks == {"none", "active", "waiting", "retry", "over"}
InFlight == {"active", "waiting"}

\* "asked": in the driver's pending map; "closed": answered, timed out, refused, or
\* dropped because the vendor's process has gone.  The row of table approvals is
\* apart from it: pending for a task, or 0.
Requests ==
    [state : {"none", "asked", "closed"},
     run : Run \cup {0},
     row : Run \cup {0}]

TypeOKTurns ==
    /\ run \in [Run -> Runs]
    /\ taskOf \in [Run -> Run \cup {0}]
    /\ task \in [Run -> Tasks]
    /\ queue \in [Run -> Seq(Event)]
    /\ ended \subseteq Run
    /\ session \in [Conversation -> 0 .. 2 * MaxRuns]
    /\ sessions \in 0 .. 2 * MaxRuns
    /\ request \in [Request -> Requests]
    /\ text \in [Run -> SUBSET VendorTurn]
    /\ by \in [Run -> VendorTurn \cup {<<>>}]
    /\ cancelled \subseteq Run

InitTurns ==
    /\ run = [r \in Run |-> [state |-> "idle", conv |-> None, thread |-> 0,
                             outcome |-> "none"]]
    /\ taskOf = [r \in Run |-> 0]
    /\ task = [r \in Run |-> "none"]
    /\ queue = [r \in Run |-> <<>>]
    /\ ended = {}
    /\ session \in [Conversation -> {0}]
    /\ sessions = 0
    /\ request = [q \in Request |-> [state |-> "none", run |-> 0, row |-> 0]]
    /\ text = [r \in Run |-> {}]
    /\ by = [r \in Run |-> <<>>]
    /\ cancelled = {}

Live(r) == run[r].state \notin {"idle", "over"}

\* claimNextTask: no task of the conversation is in flight.  It looks at the rows
\* only; the run of a task that has failed may still be live.
Startable(r, c) ==
    /\ run[r].state = "idle"
    /\ \A o \in Run : o < r => run[o].state # "idle"
    /\ \A t \in Run : run[t].conv = c => task[t] \notin InFlight

\* Run r executes a new task, or tries one of the conversation again.
Claims(r, c) ==
    \E t \in Run :
        /\ t = r \/ (run[t].conv = c /\ task[t] = "retry")
        /\ taskOf' = [taskOf EXCEPT ![r] = t]
        /\ task' = [task EXCEPT ![t] = "active"]

\* handleDriverError for the tasks of some runs: it finds them in flight, or
\* changes nothing.
Failed(R) ==
    [t \in Run |-> IF task[t] \in InFlight /\ \E r \in R : taskOf[r] = t
                   THEN "retry" ELSE task[t]]

\* AsyncQueue.push, which an ended queue ignores.
PushedTo(r, event) == IF r \in ended THEN queue ELSE [queue EXCEPT ![r] = Append(@, event)]
Pushed(r, kind) == PushedTo(r, <<kind, 0>>)

\* approvals.create throws unless the task is active: a second request, or the
\* task has failed meanwhile.
Throws(r) == Head(queue[r])[1] = "request" /\ task[taskOf[r]] # "active"

\* One event for the execute loop.  An error makes it return and an exception
\* leaves it: both end the generator, and the interrupt of the catch clause finds
\* no turn any more.  After success or cancellation it reads on to the end.
Consume(r) ==
    /\ run[r].state = "stream"
    /\ queue[r] # <<>>
    /\ queue' = [queue EXCEPT ![r] = Tail(@)]
    /\ LET event == Head(queue[r])
           kind == event[1]
           asks == kind = "request" /\ ~Throws(r)
       IN
       /\ session' = IF kind = "session"
                     THEN [session EXCEPT ![run[r].conv] = event[2]] ELSE session
       /\ run' = CASE kind = "error" ->
                        [run EXCEPT ![r].state = "over", ![r].outcome = "error"]
                   [] Throws(r) ->
                        [run EXCEPT ![r].state = "over", ![r].outcome = "failed"]
                   [] kind \in {"success", "cancelled"} ->
                        [run EXCEPT ![r].outcome = kind]
                   [] OTHER -> run
       /\ task' = CASE kind = "error" \/ Throws(r) -> Failed({r})
                    [] asks -> [task EXCEPT ![taskOf[r]] = "waiting"]
                    [] OTHER -> task
       /\ request' = IF asks THEN [request EXCEPT ![event[2]].row = taskOf[r]] ELSE request
    /\ UNCHANGED <<taskOf, ended, sessions, text, by, cancelled>>

\* The queue has ended: without a terminal event the turn is incomplete.  A
\* success completes an active task only.  (The row of a cancelled task is written
\* at its event, which is the last: nothing comes between it and the end.)
EndStream(r) ==
    /\ run[r].state = "stream"
    /\ queue[r] = <<>>
    /\ r \in ended
    /\ run' = [run EXCEPT ![r].state = "over",
                          ![r].outcome = IF @ = "none" THEN "incomplete" ELSE @]
    /\ task' = CASE run[r].outcome = "none" -> Failed({r})
                 [] \/ run[r].outcome = "success" /\ task[taskOf[r]] = "active"
                    \/ run[r].outcome = "cancelled" /\ task[taskOf[r]] \in InFlight ->
                      [task EXCEPT ![taskOf[r]] = "over"]
                 [] OTHER -> task
    /\ UNCHANGED <<taskOf, queue, ended, session, sessions, request, text, by, cancelled>>

\* The vendor turn of run r asks for an approval or an answer.
Fresh(q) ==
    /\ request[q].state = "none"
    /\ \A p \in Request : p < q => request[p].state # "none"

\* Run o is told of it.
Asked(q, r, o) ==
    /\ Fresh(q)
    /\ request' = [request EXCEPT ![q].state = "asked", ![q].run = r]
    /\ queue' = PushedTo(o, <<"request", q>>)

Refused(q, r) ==
    /\ Fresh(q)
    /\ request' = [request EXCEPT ![q].state = "closed", ![q].run = r]
    /\ UNCHANGED queue

\* deliverAnswer: the row is pending and the driver still has the request.
Answerable(q) == request[q].row # 0 /\ request[q].state = "asked"

\* The driver responds to the vendor, and the row and its task are updated.
AnswerRequest(q) ==
    /\ Answerable(q)
    /\ request' = [request EXCEPT ![q].state = "closed", ![q].row = 0]
    /\ task' = IF task[request[q].row] = "waiting"
               THEN [task EXCEPT ![request[q].row] = "active"] ELSE task
    /\ UNCHANGED <<run, taskOf, queue, ended, session, sessions, text, by, cancelled>>

\* The 15 minute timer of a pending request, which knows nothing of the row.
RequestTimesOut(q) ==
    /\ request[q].state = "asked"
    /\ request' = [request EXCEPT ![q].state = "closed"]
    /\ UNCHANGED <<run, taskOf, task, queue, ended, session, sessions, text, by, cancelled>>

\* expirePending: a waiting task fails; nobody tells its driver.
TaskExpires(q) ==
    /\ request[q].row # 0
    /\ request' = [request EXCEPT ![q].row = 0]
    /\ task' = IF task[request[q].row] = "waiting"
               THEN [task EXCEPT ![request[q].row] = "over"] ELSE task
    /\ UNCHANGED <<run, taskOf, queue, ended, session, sessions, text, by, cancelled>>

\* cancelConversation reaches the runs whose task is in flight.
Cancellable(r) == Live(r) /\ task[taskOf[r]] \in InFlight
=============================================================================
