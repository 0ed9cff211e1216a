------------------------------ MODULE Inbound ------------------------------
\* What an inbound platform message does to the database: IMGentStore.ingest,
\* the application's handleInbound and handleCommand, and the files of received
\* media with their cleanup.  The adapters that deliver the messages are the
\* modules QqAdapter and WechatAdapter; Ingest composes them.
\*
\* Data: a message stands for its dedupe key; its kind is what the adapter and
\* the application branch on.  All messages come from one conversation.
EXTENDS Naturals, FiniteSets, Sequences

CONSTANTS
    MaxMessages,  \* bound: the messages the platform may deliver
    MaxSessions,  \* bound: the sessions the platform may open
    MaxCopies,    \* bound: the downloads of one message's media
    MaxFaults     \* bound: crashes, broken connections, failed transactions

ASSUME InboundAssumption ==
    /\ MaxMessages \in Nat \ {0}
    /\ MaxSessions \in Nat \ {0}
    /\ MaxCopies \in Nat \ {0}
    /\ MaxFaults \in Nat

Message == 1 .. MaxMessages  \* numbered as sent

VARIABLES
    kind,      \* message -> what it is, "unsent" before the platform sends it
    log,       \* session -> the messages the platform has dispatched in it
    db,        \* inbound_events, tasks, dead_letters, transport_checkpoints
    admitted,  \* the sender is paired, or the group authorized
    mode,      \* group_policies.mode of the group
    commands,  \* commands whose handler is still waiting: message -> position
    files,     \* media files on disk: <<message, copy>>
    old,       \* the files last modified more than an hour ago
    cleaner,   \* the run of cleanupReleasedMedia in progress
    ran,       \* history: how often a message became a task or a command
    ignored,   \* history: messages handled while their group was not collected
    thrown,    \* history: failed messages that the handler of a later one passed
    faults     \* crashes, broken connections and failures so far

database == <<db, ran, ignored>>
mediaVars == <<files, old, cleaner>>
inboundVars == <<kind, log, db, admitted, mode, commands, files, old, cleaner,
                 ran, ignored, thrown, faults>>

\* "direct" is any message that triggers the agent, "ordinary" a group message
\* that does not, "system" an event normalised to nothing, "odd" one the
\* normaliser rejects, "media" a message with an attachment to download.
Kinds == {"direct", "command", "ordinary", "system", "odd", "media"}
Session == 1 .. MaxSessions
Position == [session : 0 .. MaxSessions, seq : 0 .. MaxMessages]
NoPosition == [session |-> 0, seq |-> 0]
At(session, seq) == [session |-> session, seq |-> seq]
File == Message \X (1 .. MaxCopies)

Database ==
    [events : SUBSET Message,                         \* inbound_events
     task : [Message -> {"none", "open", "done"}],    \* tasks, by event
     path : [Message -> 0 .. MaxCopies],              \* localPath of the event
     dead : SUBSET Message,                           \* dead_letters
     answered : SUBSET Message,                       \* immediate replies
     checkpoint : Position]                           \* transport_checkpoints

TypeOKInbound ==
    /\ kind \in [Message -> Kinds \cup {"unsent"}]
    /\ log \in [Session -> Seq(Message)]
    /\ db \in Database
    /\ admitted \in BOOLEAN
    /\ mode \in {"triggered", "full"}
    /\ commands \subseteq (Message \X Position)
    /\ files \subseteq File
    /\ old \subseteq files
    /\ cleaner \in [phase : {"idle", "releasing", "removed", "sweeping"},
                    events : SUBSET Message, kept : SUBSET File,
                    current : SUBSET Message]
    /\ ran \in [Message -> Nat]
    /\ ignored \subseteq Message
    /\ thrown \subseteq Message
    /\ faults \in 0 .. MaxFaults

Idle == [phase |-> "idle", events |-> {}, kept |-> {}, current |-> {}]

\* Messages are numbered in the order in which their users send them.
NextToSend(m) ==
    kind[m] = "unsent" /\ \A o \in Message : o < m => kind[o] # "unsent"

InitInbound ==
    /\ kind = [m \in Message |-> "unsent"]
    /\ log = [n \in Session |-> <<>>]
    /\ db = [events |-> {}, task |-> [m \in Message |-> "none"],
             path |-> [m \in Message |-> 0], dead |-> {}, answered |-> {},
             checkpoint |-> NoPosition]
    /\ admitted \in BOOLEAN
    /\ mode \in {"triggered", "full"}
    /\ commands = {}
    /\ files = {}
    /\ old = {}
    /\ cleaner = Idle
    /\ ran = [m \in Message |-> 0]
    /\ ignored = {}
    /\ thrown = {}
    /\ faults = 0

-----------------------------------------------------------------------------
(* Operators on the tables. *)

\* setCheckpoint; a handler without a checkpoint leaves the row alone.
Saving(d, position) ==
    IF position = NoPosition THEN d ELSE [d EXCEPT !.checkpoint = position]

\* What handleInbound does with a message that is not yet an event: an ordinary
\* group message in a group that is not collected leaves only the checkpoint.
Stores(m) == ~(kind[m] = "ordinary" /\ mode # "full")

\* The status of the task that ingest inserts with the event: an ordinary
\* message of a collected group is a finished task for the curator, a command
\* and a message of a sender who is not admitted are no task.
FirstStatus(m) ==
    IF kind[m] = "ordinary" THEN "done"
    ELSE IF kind[m] # "command" /\ admitted THEN "open"
    ELSE "none"

\* The notices handleInbound queues before it returns: pairing and group
\* authorization instructions, or that the task has to wait behind another.
Notified(m) ==
    /\ kind[m] # "ordinary"
    /\ \/ ~admitted
       \/ FirstStatus(m) = "open" /\ \E o \in Message \ {m} : db.task[o] = "open"

\* IMGentStore.ingest: one transaction stores event, task and checkpoint; a
\* known dedupe key only moves the checkpoint.
Ingested(m, position, copy) ==
    IF m \in db.events THEN Saving(db, position)
    ELSE Saving([db EXCEPT !.events = @ \cup {m}, !.task[m] = FirstStatus(m),
                           !.path[m] = copy], position)

\* addDeadLetter and setCheckpoint in one transaction.
DeadLettered(m, position) ==
    Saving([db EXCEPT !.dead = @ \cup {m}], position)

\* Mutant: a command is executed each time it is delivered.
ExecutesAgain(m) == kind[m] = "command" /\ admitted

\* A command that is new and allowed is executed, and only then answered.
Executes(m) == kind[m] = "command" /\ m \notin db.events /\ admitted

\* handleInbound up to its first wait.  delivery is where the message stood in
\* the stream, position the checkpoint it carries, copy its downloaded file.
HandleInbound(m, delivery, position, copy) ==
    IF ~Stores(m)
    THEN /\ db' = Saving(db, position)
         /\ ignored' = ignored \cup {m}
         /\ UNCHANGED <<ran, commands>>
    ELSE /\ db' = IF m \notin db.events /\ Notified(m)
                  THEN [Ingested(m, position, copy) EXCEPT !.answered = @ \cup {m}]
                  ELSE Ingested(m, position, copy)
         /\ ran' = IF Executes(m) \/ (m \notin db.events /\ FirstStatus(m) # "none")
                   THEN [ran EXCEPT ![m] = @ + 1] ELSE ran
         /\ commands' = IF Executes(m) THEN commands \cup {<<m, delivery>>}
                        ELSE commands
         /\ UNCHANGED ignored

\* handleCommand returns: the command's answer is queued.
Answered(m) == [db EXCEPT !.answered = @ \cup {m}]

-----------------------------------------------------------------------------
(* The rest of the service around a message. *)

\* The local operator pairs the sender or authorizes the group.
Admit ==
    /\ ~admitted
    /\ admitted' = TRUE
    /\ UNCHANGED <<kind, log, db, mode, commands, mediaVars, ran, ignored, thrown, faults>>

\* /imgent group full | triggered
SwitchMode ==
    /\ mode' = IF mode = "full" THEN "triggered" ELSE "full"
    /\ UNCHANGED <<kind, log, db, admitted, commands, mediaVars, ran, ignored, thrown, faults>>

\* The scheduler brings a task to its terminal status (module Scheduler).
TaskEnds(m) ==
    /\ db.task[m] = "open"
    /\ db' = [db EXCEPT !.task[m] = "done"]
    /\ UNCHANGED <<kind, log, admitted, mode, commands, mediaVars, ran, ignored, thrown, faults>>

\* releasableMediaEvents: events with a path and without an unfinished task.
Releasable == {m \in db.events : db.path[m] # 0 /\ db.task[m] # "open"}

\* referencedMediaPaths
Referenced == {<<m, db.path[m]>> : m \in {x \in db.events : db.path[x] # 0}}

\* cleanupReleasedMedia begins; mediaCleanupRunning keeps a second run out.
StartCleanup ==
    /\ cleaner.phase = "idle"
    /\ files # {} \/ Releasable # {}
    /\ cleaner' = [cleaner EXCEPT !.phase = "releasing", !.events = Releasable]
    /\ UNCHANGED <<kind, log, db, admitted, mode, commands, files, old, ran, ignored, thrown, faults>>

\* One event of the list: rm of its file, then, after the wait, its path.
RemoveFile(m) ==
    /\ cleaner.phase = "releasing"
    /\ m \in cleaner.events
    /\ files' = files \ {<<m, db.path[m]>>}
    /\ old' = old \ {<<m, db.path[m]>>}
    /\ cleaner' = [cleaner EXCEPT !.phase = "removed", !.events = @ \ {m}, !.current = {m}]
    /\ UNCHANGED <<kind, log, db, admitted, mode, commands, ran, ignored, thrown, faults>>

ClearLocalMediaPaths(m) ==
    /\ cleaner.phase = "removed"
    /\ m \in cleaner.current
    /\ db' = [db EXCEPT !.path[m] = 0]
    /\ cleaner' = [cleaner EXCEPT !.phase = "releasing", !.current = {}]
    /\ UNCHANGED <<kind, log, admitted, mode, commands, files, old, ran, ignored, thrown, faults>>

\* The list is done: the paths still referenced are collected for the sweep.
StartSweep ==
    /\ cleaner.phase = "releasing"
    /\ cleaner.events = {}
    /\ cleaner' = [cleaner EXCEPT !.phase = "sweeping", !.kept = Referenced]
    /\ UNCHANGED <<kind, log, db, admitted, mode, commands, files, old, ran, ignored, thrown, faults>>

\* Mutant: a file is swept however fresh it is.
SweepableFresh(f) == f \in files \ cleaner.kept

\* cleanupOrphanedMedia removes a file that is not referenced and an hour old.
Sweepable(f) == f \in files \ cleaner.kept /\ f \in old

Sweep(f) ==
    /\ cleaner.phase = "sweeping"
    /\ Sweepable(f)
    /\ files' = files \ {f}
    /\ old' = old \ {f}
    /\ UNCHANGED <<kind, log, db, admitted, mode, commands, cleaner, ran, ignored, thrown, faults>>

EndSweep ==
    /\ cleaner.phase = "sweeping"
    /\ \A f \in files : ~Sweepable(f)
    /\ cleaner' = Idle
    /\ UNCHANGED <<kind, log, db, admitted, mode, commands, files, old, ran, ignored, thrown, faults>>
=============================================================================
