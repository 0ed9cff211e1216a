# A TLA+ model of IMGent

IMGent connects instant messengers (QQ, WeChat iLink) with coding agents
(Codex app-server, Claude Code). One process per data directory keeps all
durable state in one SQLite database, runs agent turns for stored messages, and
sends the answers back. This directory holds TLA+ modules of the parts where
order, failure and time decide whether that works, TLC configurations that
check them on small instances, and TLAPS proofs for all sizes.

Paths below are relative to the root of the repository. All code of one process
runs in one JavaScript event loop and every SQLite transaction is synchronous
(`src/storage/store.ts`), so an action of a model is what the code does between
two awaits that really wait: for a driver event, a platform, a file, a timer,
another process or a user.

## 1. Inventory

| Component | State | Operations | What makes it hard | What makes it correct | Module |
|---|---|---|---|---|---|
| Conversation scheduler, `src/queue/scheduler.ts` | `running`, `steeringTurns`, per turn `SteeringTurn`; rows of `tasks`, `task_steers` | pump and claim, execute, steer, answer a request, cancel, retry, end, recover | a turn spans many awaits; messages, answers, expiry, cancels and crashes fall in between | order within a queue, one root turn per queue, one final answer, no unsafe replay, everything settles | `Scheduler` |
| Approvals, `src/approvals/service.ts` | rows of `approvals` | create, inspect, decide, expirePending | user, driver timer and expiry race for one request | decided once; a parked task can be released | `Scheduler` |
| Agent drivers, `packages/agent-drivers/*` | event queues, pending requests, turns by thread, the app-server process, SDK queries | runTurn, answerRequest, interrupt, notifications, timeouts | late, missing and refused answers; vendor death; the next turn of the same thread | one vendor turn per thread; an answer is its own turn's; turns end | `AgentTurns`, `CodexDriver`, `ClaudeDriver`, `Drivers` |
| Ingestion and adapters, `packages/im-adapters/*`, `handleInbound`, `ingest` | inbound events, checkpoints, sockets, resume position, cursor, media files | connect, resume, poll, normalise, deduplicate, store, checkpoint, clean up media | redelivery, reconnect, a crash between message and checkpoint, handlers that overlap | each message executed at most once, none skipped, no file of an open task removed | `Inbound`, `QqAdapter`, `WechatAdapter`, `Ingest` |
| Outbound dispatcher, `src/runtime/outbound.ts` | rows of `outbound_messages`, `dead_letters` | enqueue, drain, dispatch, recover | concurrent drains with stale batches; a platform accepts but its answer is lost; a crash in a send | one sender per row, explained duplicates, nothing given up silently | `OutboundDispatcher` |
| Schedules, `src/schedule/service.ts` | rows of `schedules`, `schedule_runs`; planner flag | create, update, resume, pause, remove, trigger, processDue | missed and overlapping occurrences, edits, restarts, one failing definition | nothing runs twice, one catch-up, a due schedule is handled | `ScheduleService` |
| Memory service and curation, `src/memory/*` | `memory_records`, full text index, `memory_outbox` | remember, recall, update, forget, curate, merge of two persons | turns and curations last while a binding merges their person; repeats after a crash | unique facts, index and rows agree, a repeat writes nothing, every job is done or given up | `Memory` |
| Identity, `src/identity/service.ts` | principals, identities, workspaces, codes, group authorizations, `agent_sessions` | pair, bind, merge, unbind, set workspace, authorize | codes overtaken by other operations, turns that store a session late | nobody orphaned, sharing implies pairing, sessions fit their workspace | `Identity` |
| Instance lock, control server, lifecycle, offline commands, backup and restore | socket path and listeners, `instance.json`, admin requests, files of the data directory | start, stop, fail, serve, lease, backup, restore, be killed | several processes; a path and the listener behind it are different things | one owner of a data directory, found where commands look for it, whole data, a shutdown ends | `Instance` |
| Application, `src/service/application.ts` | phase, timers, maps of parts | start, handleInbound, commands, maintenance | everything above meets here | as above | spread over `Inbound`, `OutboundDispatcher`, `Scheduler` |
| Database, configuration, credentials, CLI, skills, i18n, health, contracts | files, tables | read, write, format | little concurrency of their own | taken as given | none |

The components interact through the tables (a message becomes a task in
`ingest`, a task an answer in `completeTaskWithOutbound`, a turn a curation job)
and through callbacks (adapter to `handleInbound`, driver events to `execute`,
timers). Each module contains the part of its neighbours that it can observe:
`Scheduler` has a message arrive and a driver end a turn in one action each,
`Inbound` has a task end, `Memory` and `Identity` have a binding happen under a
turn. `PROJECT.json` lists every component with its sources, and the hazards
with the line where each bites.

## 2. The modules

| Module | Role |
|---|---|
| `Scheduler` | scheduler, task and steer rows, approvals, and what the scheduler sees of the drivers |
| `ConversationQueue` | abstract specification: what `Scheduler` promises to the people in a conversation |
| `SchedulerProofs` | theorems about `Scheduler`: its tables, its effects and answers, and that it implements `ConversationQueue` |
| `AgentTurns`, `CodexDriver`, `ClaudeDriver`, `Drivers`, `DriversProofs` | a turn as its consumer sees it; the two drivers; the choice of one of them; theorems |
| `Inbound`, `QqAdapter`, `WechatAdapter`, `Ingest`, `IngestProofs` | what a message does to the database; the two adapters; their composition; theorems |
| `OutboundDispatcher`, `OutboundProofs` | delivery of stored messages, and theorems |
| `ScheduleService`, `ScheduleProofs` | schedules and the planner, and theorems |
| `Memory`, `MemoryProofs` | memory tools, curation and the merge of records, and theorems |
| `Identity`, `IdentityProofs` | pairing, binding, workspaces and sessions, and theorems |
| `Instance`, `InstanceProofs` | processes that compete for a data directory, backup and restore, and theorems |
| `MCScheduler`, `MCDrivers`, `MCIngest`, `MCOutbound`, `MCSchedule`, `MCMemory`, `MCIdentity`, `MCInstance` | instances for TLC |

Some definitions are preceded by a faulty variant of themselves, marked
`Mutant` in its comment. No specification refers to them. Each replaces its
original in one mutation listed in `PROJECT.json`, and TLC then finds the named
property violated: they record which mistake each property would catch.

### Scheduler

Tasks are numbers in the order (`created_at`, rowid). `status`, `attempt` and
`dangerous` are columns of `tasks`; `steer` and `target` are `task_steers`;
`appr`, `owner` and `overdue` are `approvals`; `outbox` and `deadLetters` are
the rows that name a task in `outbound_messages`, `memory_outbox` and
`dead_letters`. `turn`, `closing`, `flush` and `steering` are the memory of the
scheduler, `waiter` and `stopping` that of the drivers; a restart clears them.

| Action | Code |
|---|---|
| `Enqueue` | `ingest`, `onTaskQueued` |
| `StartTurn`, `RefuseTurn` | `pump`, `claimNextTask`, start of `execute` |
| `BeginSteer`, `FlushIdle`, `SteerAccepted`, `SteerRejected`, `SteerUncertain` | `flushSteers`, `beginSteer`, `resolveSteer` |
| `Ask`, `AskRefused`, `Answer`, `AnswerLate`, `DriverTimeout`, `Lapse`, `ExpirePending` | approval requests: `create`, `deliverAnswer`, `decide`, the driver's timer, `expirePending` |
| `TurnEnds`, `EndTurn` | the driver's last event; the rest of `execute` with `completeTaskWithOutbound`, `handleDriverError`, `finishWithError` and `settleSteeredInputs` |
| `Cancel` | `cancelConversation` in store and scheduler |
| `Restart` | the process dies; `recoverAfterRestart` |

Errors are abstracted to what the code tells apart: retryable and safe, safe,
and not known to be safe. Messages are their speaker and keys. `late` is a
history variable: the requests that were allowed when the agent that asked had
stopped waiting for them.

### Drivers

`AgentTurns` is the consumer's side: runs of `runTurn`, the `AsyncQueue` of each
(`queue`, `ended`), the pending requests with their 15 minute timers, and the
stored session. `CodexDriver` adds `proc` (`this.rpc` and its child), `active`
(`activeByThread`), the state of each turn at the app-server and the interrupts
on their way. `ensureReady`, `thread/resume`, `thread/start` and `turn/start`
are steps of their own, each of which may be refused, time out or lose its
process; notifications go to whichever run is registered under the thread.
`ClaudeDriver` adds the state of the SDK query of a run and of its replacement.
Both vendors are external: they do whatever the answers and messages allow.
The drivers share nothing, so a behaviour has one of them. `task` and `taskOf`
are the rows the scheduler decides by: it starts a run when no task of the
conversation is in flight (`Startable`), and a request that expires fails the
task without telling the driver, so two runs of a conversation may be live at
once. `Consume` is the execute loop, with the exception `approvals.create`
throws for a task that is not active (`Throws`). `loose` collects the runs that
IMGent has given up while their turn may go on: on an error, a time-out, such an
exception or an expired request.

### Ingest

A message stands for its dedupe key; its `kind` is what the adapter and the
application branch on. `db` is the tables a message touches, in one transaction
each: events, the task, the path of its attachment, dead letters, notices and
the checkpoint. `QqAdapter` has the socket, the resume position (`session`,
`sequence`) and the frames on the `wire`; frames are handled in order, but a
command waits in its handler while later frames, and later connections, are
handled, and frames read together with one whose handler fails are still
handled. `ignored` is a history variable, the messages that were handled while
their group was not collected. `WechatAdapter` has the loop, the `batch` in hand
and the cursor, which travels with the last message of a batch. `StartCleanup`
to `EndSweep` are `cleanupReleasedMedia`, split at its waits for the disk. A
behaviour has one bot, as bots share only tables whose rows carry the bot.

### OutboundDispatcher

`status`, `attempt` and `due` are columns of `outbound_messages`; `batch` and
`sending` are the local variables of the drains in progress; `running` marks the
drain that has been resumed and has not reached its next await, because the
event loop runs nothing else meanwhile. `copies` and `unheard` are the platform
(external): copies it has taken, and those the process was not told of.
`Claim` is the compare-and-set of `dispatch`, `Skip` its failure, `Choke` the
exception of a row that was claimed and cannot be read (`Unreadable`), `GiveUp`
the row without an adapter, `Sent` and `Failed` the end of a send, `Crash` the
restart with the recovery in the constructor.

### ScheduleService

`status`, `expr`, `next`, `skipped` are columns of `schedules`, `runs` is
`schedule_runs`, `inFlight` counts unsettled tasks of `schedule:<id>`,
`pumping` is the planner's flag. Time is a tick counter; an expression is the
set of ticks at which it fires, so that one-shot times and crons are handled
alike. `ProcessDue` is one call of `processDue` by its four outcomes: `Block`,
`Skip`, `Fire` and `FailDue` (the transaction throws and the pump gives up).
`Unbind` and `Rebind` are what the identity service does to the actor of a
direct schedule. The model trusts its clock, as the code does: if the wall clock
is set back, a resume can plan an occurrence that has run, and `NextIsNew` and
`NeverRepeated` no longer apply.

### Memory

A record has a place (scope, person, conversation), a key or none, a content, a
status, a time and the task it came from; `fts` is the full text index. A turn
and a curation keep the person their task had when they began (`context`,
`curator`), while a binding may merge that person: `merging` is the transaction
of `mergePrincipal`, one step per record so that its order is visible, and
nothing else happens while it runs (`Between`). `job` is the row of
`memory_outbox`. Contents are compared, never read.

### Identity

Every operation is one transaction and one action; the duration of a turn is
what interleaves: it keeps the workspace it began with and stores its session
when the agent has started. `strayed` records the conversations that one of four
operations leaves with a session that may not fit; `refused` the principals
whose merge the database has refused.

### Instance

Processes are operating system processes: between any two awaits of one every
other may run. `path` is the socket file, `listening` the processes that listen;
`removed` records a live listener whose path a starter has taken away; the
processes in `Busy` may fail to accept a connection within 500 ms, so that
`TestEndpoint` takes them for dead. A service
goes from looking at the endpoint (`LookAtEndpoint` to `ListenControl`) over its
metadata (`WriteMetadata`, with the `wx` temporary file) and its application to
`ready`, and back by `Stop`, `DrainRequests`, `StopApplication`, `StopControl`
and `Exit`; an offline command takes the same socket as a lease. `disk`,
`archive` and `wal` are generations of the files of the data directory; a
backup and a restore go file by file. A start that fails unwinds without waiting
for the admin requests it has taken, so a backup may outlive the listener of its
process (`Outlived`).

## 3. The runs

| Run | Instance | Question |
|---|---|---|
| `MCScheduler_steering` | 3 tasks of 2 speakers, one chat, 2 attempts, 2 slots, 1 restart, fairness | does the scheduler implement `ConversationQueue`, with one root and one final answer, and does every message settle? |
| `MCScheduler_approvals` | 2 tasks, 2 requests, 2 attempts, 1 restart | can answers, late answers, driver timeouts, expiry, retry and recovery leave a task stuck, repeat dangerous work or decide twice? |
| `MCScheduler_schedule` | 2 messages of a chat that may be steered and a schedule run, 1 request, 1 slot, fairness | does everything settle if the request is never answered, also when an input was steered into the turn that asks? |
| `MCDrivers_turns` | 1 conversation, 2 runs, 1 request, 1 fault, 1 exception, fairness | does every run end, whatever cancellation, expiry, failure and the next run of the thread do? |
| `MCDrivers_requests` | the same with 2 requests, safety only | can two turns of a conversation mix, also when one asks while its task waits? |
| `MCIngest_streams` | 2 messages of any kind, 3 gateway sessions, batches of 2, 2 downloads, 2 faults, fairness | is a message lost, executed twice or left without its file? |
| `MCOutbound_delivery` | 4 messages, one without an adapter, one that cannot be read, 2 drains, batches of 2, 3 attempts, 2 crashes, fairness | concurrent drains with stale batches and crashes |
| `MCSchedule_planner` | 2 schedules, 4 commands, 4 moments, 1 restart, fairness | edits, overlaps, missed occurrences, lost identities |
| `MCMemory_merges` | 2 persons in a group, 2 tasks, 2 records, 2 contents, 1 crash | turns, curation and repeats while the persons are merged |
| `MCIdentity_binding` | 2 accounts, a direct chat, a group, 2 workspaces, 1 fresh principal | codes, bindings and turns in any order |
| `MCInstance_owners` | 2 services, 1 command process, 2 files, 2 starts, 1 command, 1 request, 1 crash, one service busy, fairness | who owns the data directory, on what data, and does every shutdown end, by a stop or by a start that fails? |
| `MCDrivers_doc_exit` | 1 conversation, 2 runs, fairness | the exit of the app-server under a turn, against the documentation (section 5) |

Bounds. Three tasks are a root, an input that joins it and one of another
speaker or of a schedule. Two attempts give a first execution, a retry and an
exhausted retry (the code has 3; the theorems cover any number). Two requests let
one of an earlier attempt stay pending while another is asked. Two runs are a
turn and the next of its conversation; two requests of one run are what makes the
execute loop throw. Two conversations that share the app-server meet in its
start and its exit only; the theorems about the drivers cover any number of them. Two messages
can be read together, be two of a batch, or lie on either side of a crash; three
sessions allow one that is refused and one that is lost. Four outbound messages,
two of them ordinary, and batches of two leave a row out of a batch; more drains
add no new pair of competitors. The cron fires at 1 and 3 and the one-shot time
is 2, so a late planner can miss one occurrence and be due for the next. Two
records in one place are what every uniqueness rule is about; the direct scopes,
which `MCMemory_merges` has no room for, are covered by the proofs. Two services
and a command are the starter that removes a path, the listener it removes and
the command that looks for it; one start of a service may be killed, and the
next fail over the temporary file it left. One crash reaches every recovery
branch from every state; delivery has two because its attempts survive them, and
ingestion has two faults because a second one may meet a position set after the
first. What `strayed` excepts from `CheckpointCovers` takes a third message,
which makes the instance too large for a standing run; the safety of `Ingest`
was checked with it once, and the exception is needed.

Deadlock is checked for the planner, which never stops. In the other runs the
system stops for good when all bounded messages, runs, commands or starts have
happened and settled.

The type invariants (`TypeOK`) and the inductive invariants of `Scheduler`,
`OutboundDispatcher`, `ScheduleService`, `Instance`, `Ingest` and `Drivers` were
model-checked before they were proved. They are proved, so no run repeats them.

Fairness. `Scheduler`: the 100 ms pump, the promise chain of a turn, the 30 s
limit of a steer call, the 15 min timer of a request, the 60 s maintenance timer
and time itself; agents that do not wait for an answer end their turn; users owe
nothing. `Drivers`: vendors answer calls, end turns and close streams, timers
fire, the scheduler reads the queues; nothing is promised of cancellations or
answers. `Ingest`: the adapters' loops and handlers, the answers of the gateway,
tasks that end and the cleanup. `OutboundDispatcher`: a drain goes on, the timer
starts one, a delay elapses, a send ends. `ScheduleService`: the planner's one
second timer and the synchronous loop behind it. `Instance`: a process that
waits for nobody goes on, a request ends; and, as an assumption that
`FairSpec` names (`TurnsEnd` of `Instance`), the application stops, for which
`scheduler.stop` waits for the turns in progress. A turn that hangs breaks it
(`MCDrivers_doc_exit`), so `StopEnds` shows what the rest of a shutdown does.
Faults and crashes are never fair.

What the properties say:

- `OneRootPerKey`, `OneFinalAnswer`, `ServesInOrder`, `EveryTaskSettles`: of the
  tasks of a queue in flight one at most is not steered; one answer per turn with
  the inputs steered into it; the queue is served in the order of
  `ConversationQueue`; every message settles, unless an input of its queue was
  stranded by a turn that ended while its task waited for an answer (`StrandedIn`,
  section 5).
- `WaitingHasPending`, `NoUnsafeReplay`, `TerminalIsFinal`, `DecidedOnce`,
  `OverlapOnlyAfterExpiry`: a parked task has a request that can release it;
  what may have had effects is not repeated by itself, where the one marked task
  that waits is one a request of which was allowed after its agent had stopped
  waiting (`late`); outcomes and decisions are final; two turns of a queue
  overlap only after the request of the first expired.
- `OneVendorTurn`, `AnswersItself`, `TurnsEnd`: no thread has two turns, and a
  success carries the output of one vendor turn, its own, except in a thread one
  run of which was given up while its turn may go on (`loose`); every run ends
  unless the app-server has exited, or another run took its place in the registry
  after a task had lapsed (`Overtaken`).
- `AtMostOnce`, `CheckpointCovers`, `PositionCovers`, `MediaForTask`,
  `EveryMessageSettles`: however often a message is delivered it is executed at
  most once; stored checkpoints and resume positions pass only what was stored,
  dead-lettered or, in a group that was not collected when it came, ignored, but
  for the exceptions named in `thrown` and `strayed`; an open
  task finds its file; what the adapter's session holds is settled in the end.
- `DuplicatesExplained`, `DeadLetterKept`, `SettledIsFinal`,
  `EveryMessageSettles`: a second copy exists only if the process was not told of
  the first; every given-up message leaves a dead letter; what can be read is
  sent or given up, except after a crash in its last attempt.
- `NextIsNew`, `OneCatchUp`, `DueIsHandled`: no occurrence runs twice whatever is
  edited; missed ones coalesce; a due schedule is handled unless one with a lost
  identity is due as well.
- `OneActive`, `OncePerTask`, `IndexFollows`, `SourceOwns`, `EndsWhatItSees`,
  `JobsServed`: the three unique indices are kept by the statements themselves,
  so none of them fails; index and rows agree; a record belongs to the person of
  its task through merges; nothing ends a record its caller cannot see; no job is
  left behind.
- `NoOrphans`, `SharedArePaired`, `RefusedOnlyForSchedules`,
  `SessionsFitUnlessStrayed`: principals are those that accounts belong to;
  sharing one implies pairing; only a schedule makes a merge fail; sessions fit
  the workspace of their principal, but for the conversations in `strayed`.
- `ExclusiveOwner`, `OwnerIsFound`, `RunsOnWholeData`, `BackupIsWhole`,
  `StopEnds`: one process uses the data directory and is found at the endpoint,
  unless a live path was removed; nothing runs on half-restored data unless a
  restore was cut short; a backup does not mix generations unless it outlives the
  endpoint of its process (`Outlived`); a shutdown ends, whichever way it began.

## 4. The proofs

From the named assumptions on the constants only.

*Scheduler.* Order and `OneRootPerKey` are not inductive: nothing in them says
that a task which comes back (a rejected steer, a retry, a recovered turn) finds
its place at the head free. `IInv` adds `ReturnsInOrder`: whatever may still
return is ahead of everything in its queue that has been started; `OneRoot` and
`SteeredShape` fix what a steered input may be, `TurnsHaveStarted` and
`AbsentIsFresh` tie memory to the tables. `Inductive` proves it, and
`FirstInFirstOut`, `SingleRoot`, `NobodyWaitsForever`, `OutcomeIsFinal`,
`DecisionIsFinal` and `TypeCorrect` follow. `Implements` proves that every
behaviour is, under the mapping of `Queue`, one of `ConversationQueue`. Part 2
of `SchedulerProofs` rests on the same invariant: action by action it shows what
one step may do to a task (`Lawful...`) and to a turn that settles
(`Settling...`). What must be known of all turns at once follows: a request
never changes its task (`OwnerKnown`), a waiting task that may have had effects
has one that was allowed late (`Marked`), because one that was allowed while its
agent waited belongs to a task that is not retried (`AskedLive`), a turn that
was given an input is marked and does not return to the queue (`HostKept`), the
input succeeds if and only if the turn does (`AnsweredTogether`), and a turn
whose task is no longer in flight has an expired request (`LiveOrLapsed`). Hence
`EffectsRunOnce`, `OneAnswer` and `OverlapExplained`.

*Dispatcher.* `OneSender` needs that a row in a stale batch has attempts left
if it may still be claimed, and that a row without an adapter was never sent.
From it: `SingleSender`, `BoundedAttempts`, `SettledStays`, `CopiesExplained`,
`DeadLetters`. Rows that cannot be read are left out of the first: they stay
`sending` without a sender.

*Schedules.* A run is enqueued no earlier than its occurrence, and the planner
then moves the schedule beyond the present; every edit that activates a
schedule plans it beyond the present too. Hence the next run of an active
schedule is later than the moment of every earlier run (`PlannedAhead`), so a
later run stands for a later occurrence (`Coalesced`), and the UNIQUE constraint
on `schedule_runs` is never met (`NeverRepeated`).

*Memory.* The uniqueness of active records, that of a task's facts, the index
and the owners support each other, because a merge decides by the first three
what happens to a record of the fourth. The invariant of `MemoryProofs` adds
that a turn's person is the one its task has or has been merged into another,
that jobs follow the phases of tasks, and that a merge in progress has left
behind only what it has not yet come to. `Consistent`, `Idempotent`,
`Searchable`, `Owned`, `NoJobStranded` and `SeenBeforeEnded` follow, for any
number of people, conversations, keys, contents and crashes.

*Identity.* Binding moves every account of a principal and asks for one only, so
`SharedArePaired` needs that a binding code is held by paired accounts only
(`CodesArePaired`), and the placement of turns is needed for the tables a merge
may leave. `FitInductive` carries sessions: outside `strayed`, sessions and
running turns fit together, because what changes a workspace either counts the
turns and clears the sessions or is named. `NobodyOrphaned`, `OnlyPairedShare`,
`RefusalsExplained`, `ResponsibleReachable`, `SessionsFitWorkspaces`.

*Instance.* The lock is a name in the file system. `IInv` says that a process
listens exactly in the phases in which it believes to hold the lock, uses the
data only then, and, while no live path has been removed, the path leads to
every listener, so there is one. A backup keeps what it copies of one generation
while its process holds the endpoint, because who replaces the files needs it.
On that rest `SingleOwner`, `OwnerReachable`, `WholeData` and `WholeBackup`, for
any number of processes, files and crashes.

*Drivers.* `OneVendorTurn` and `AnswersItself` speak of vendor turns, which the
driver knows only through its registry. For Codex, `IInv` says that a
conversation has one task in flight and a task one live run, so that of two live
runs of a conversation one was given up (`Rows`), that a thread belongs to one
conversation (`Owned`), and that its entry in the registry is the run that waits
for its events (`Registry`, `Process`). Hence, unless a run of the thread was
given up while its turn may go on (`loose`), the run of a turn that is asked for
or running still waits for it (`Attended`), so that whatever the turn says
reaches the run that asked for it (`Own`), and a second turn of the thread would
need a second run that nobody gave up. `Unthreaded` says that nothing happens in
a run before its thread is known, and `Counted` that there are no more threads
than runs that have one. For Claude Code, a query is replaced only before it has
said anything, and a session is held by one conversation from the moment it is
announced (`Apart`). `OneTurnPerThread`, `AnswersAreOwn` and `WellTyped` follow,
and `OwnSessions`: no two conversations ever store the same vendor session.

*Ingestion.* A position is safe when it lies in its stream and everything it
passes is settled or thrown (`Covered`); what is ignored stays so.
`CheckpointCovers` and `PositionCovers` say this of the two positions that are
kept; neither is inductive, because nothing in them says where the next position
comes from. It comes from a frame of the gateway, so that everything before the
frame must be dealt with or stand ahead of it on the wire (`Replayed`); from the
batch of the polling loop, so that its place in the stream must be known
(`Loop`); or from a command that has been waiting, whose place was safe when it
was stored (`Positions`). Streams only grow and what is settled stays so, which
carries all of them over a step. `Once` and `Media` tie events, tasks, files and
the two phases of the cleanup together. `CheckpointLosesNothing`,
`ResumeLosesNothing`, `RunsOnce`, `TaskKeepsMedia` and `WellTyped` follow for
any number of messages, sessions, downloads and faults and any size of a batch,
including the instances with a third message that are too large for a run.

Model-checked only: liveness (`EveryTaskSettles`, `TurnsEnd`,
`EveryMessageSettles`, `DueIsHandled`, `StopEnds`), since fairness is out of the
prover's reach.

## 5. Where code and documentation disagree

Shown by a run, `MCDrivers_doc_exit`: an app-server that exits marks the current
turn as interrupted (`docs/references/agent-driver-protocols.md:127`). The exit
handler rejects the calls in flight only
(`packages/agent-drivers/codex/src/json-rpc.ts:68`). A turn that streams never
ends, and `this.rpc` stays set, so every later turn fails.

Behind a named exception of a property of section 3; TLC refutes each of these
properties in its run when the exception is taken out:

- `README.md:102`, "Within a conversation, IMGent runs one Agent turn at a time":
  `expirePending` (`src/approvals/service.ts:161`) fails a task whose driver still
  works, and the next one is claimed beside it; `OverlapOnlyAfterExpiry` shows
  that this is the only way. Both runs are in one thread, where the second takes
  the registration of the first and the end of either deletes it, so that one
  may get what the other's turn says or wait for ever: that is what `loose` and
  `Overtaken` except.
- `docs/wechat-delivery.md:76-77`, completion commits one answer with all accepted
  task states: an input steered into a turn that ends while its task waits for an
  answer stays active (`src/storage/store.ts:887`), and blocks its conversation
  until a restart (`StrandedIn` in `EveryTaskSettles`).
- `docs/imgent-product-design.md:652`, the checkpoint of QQ advances only after
  the event has been committed: when a handler fails, a later frame of the same
  read is still handled and stores its position
  (`packages/im-adapters/qq/src/client.ts:294`), which acknowledges the failed
  event as well (`thrown` in `CheckpointCovers`).
- `src/runtime/outbound.ts:237`, a failure of a row is already on record as a
  retry or a dead letter: what is thrown between the claim and the send (`:132`)
  is on none, and the row stays `sending` until a restart (`Unreadable` in
  `EveryMessageSettles`).
- `docs/implementation-status.md:53-54`, workspace changes reset the affected
  sessions: a pairing code confirmed after a binding replaces the workspace and
  leaves the sessions (`src/identity/service.ts:166`; `strayed` in
  `SessionsFitUnlessStrayed`).
- `docs/cli-service-architecture.md:280-281`, a live endpoint is never removed: a
  starter that found the path dead removes by name whatever listens there by then
  (`src/control/server.ts:56`; `removed` in `ExclusiveOwner`).
- `docs/cli-service-architecture.md:387`, the service makes consistent backups: a
  start that fails does not wait for the admin requests it has taken
  (`src/service/lifecycle.ts:171`), and a backup goes on while a restore, which
  finds the endpoint free, replaces the files (`Outlived` in `BackupIsWhole`).

Seen while modelling:

- Scheduler. `docs/imgent-product-design.md:745` at most three executions:
  recovery does not look at `attempt` (`src/storage/store.ts:934`).
  `README.md:122` a restart expires unfinished requests: only those of tasks in
  `waiting_approval` (`:912`). `:744` only safe replay: a request of an earlier
  attempt answered late marks a task that is running again
  (`src/queue/scheduler.ts:506`), which `NoUnsafeReplay` excepts.
  `scheduler.stop` waits for a turn that hangs.
- Outbound. `src/i18n/index.ts:257-258` retried or kept as a dead letter: a
  message whose last attempt was cut off by a crash waits for a retry that no
  drain grants (`src/runtime/outbound.ts:75-83`); `EveryMessageSettles` excepts
  it. `docs/imgent-product-design.md:1351` delays of 1 s and 5 s: a drain with an
  older batch sends again without waiting.
- Schedules. `src/schedule/service.ts:704` "Drain every due definition":
  `/imgent unbind` takes the identity of a direct schedule away, its transaction
  throws every second (`:638`), and what is due after it is not started
  (`Poisoned` in `DueIsHandled`).
- Drivers. After the app-server has exited, the timer of a pending request
  responds to it and `write` throws in a timer callback that nothing catches,
  which ends the service (`crashed`); a host tool that finishes after the exit
  rejects unhandled. A `turn/start` that is not answered in 30 s is retried
  although the vendor may run the turn, and an error notification ends the run
  while the turn may go on (`loose`). `/imgent cancel` is ignored before the
  vendor has named the turn (`README.md:487`). A second run does not wait for an
  app-server that is still starting, and a failed `initialize` leaves its process
  behind, which may still answer the calls of other runs (in the model they fail
  with it). An empty success followed by an exception runs the prompt once more.
- Ingestion. `docs/imgent-product-design.md:1464` resume with session and
  sequence: a command handler of an older session sets `sequence` in a newer one,
  and the pair belongs to neither; when the newer session is resumed from it,
  messages are passed, and the next checkpoint passes them too (`strayed`). A
  command that was stored before a crash is neither executed nor answered. READY
  and events that normalise to nothing persist no checkpoint. A frame that is not
  JSON throws in the listener.
- Identity. `docs/imgent-product-design.md:205-206` and `:860` a binding merges
  two principals: `schedules.principal_id` is never rewritten
  (`src/identity/service.ts:540`), so a principal that ever had a schedule cannot
  be merged, and the whole binding is taken back. Merging overwrites a group role.
- Memory. `:1507` one active fact of a key after an update: `remember` of a
  content that is active under another key ends the facts of its own key and
  adds none. `:38` remembering is confirmed when it happened: it reports success
  for a fact of the same task that was forgotten, and for an expired duplicate.
  `:959` later wins: the curation of an earlier message can supersede a newer
  explicit fact. A fact without a key that was forgotten is written again by a
  later curation. A crash in the third curation attempt leaves `dead_letter`
  without a row in `dead_letters`. A turn whose person is merged meanwhile can
  remember nothing more.
- Instance. A listener that does not accept within 500 ms counts as dead
  (`src/control/server.ts:252`), so a busy one may lose its path (`removed`). A
  temporary metadata file left by a killed process of the same pid, or one being
  written by a readiness query, makes a start fail and a stop skip its write. A
  closing owner unlinks by name. `restore --force` is not atomic across files
  (`cut`). What `instance.json` holds is never read.

## 6. What is left

- A refinement from `Drivers` to the driver part of `Scheduler`, and one from
  `Ingest` to an abstract log in which each message is executed at most once.
- The host tool registry with the archive of fresh schedule sessions, and the
  three-way race of answers to one request (`src/queue/scheduler.ts:464`).

## 7. Not modelled

SQLite transactions are taken as atomic and durable, and vendor processes and
platforms only by what the code can observe of them. Command line, configuration
parsing, encryption, wording and formatting, skills lookup, the health page and
migrations carry no protocol between actors. Of the modelled components these
parts are left out: `archiveFreshScheduleSession`, host tools and their
registration, `resetContext`; `archiveSession`, `close` and `checkReady` of the
drivers, and `steerTurn` at the vendor's side (`Scheduler` has its outcomes); the
sending side of the adapters beyond its outcome, the WeChat login and readiness
probes; the expiry of raw events; locales, audit rows and the
`platform_full_capability` column; `routing.missing`, which a valid configuration
cannot reach, and `enqueueInboundEvent`, which nothing calls; the order in which
`Application.stop` closes its parts. `/imgent bind <code>` and `/imgent language`
by a sender who is not paired are commands like others in `Inbound`. Clock steps
are outside all modules, and so is the order of two messages of one millisecond
that a clock set back would reverse.
