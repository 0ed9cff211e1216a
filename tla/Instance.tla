------------------------------- MODULE Instance -------------------------------
(***************************************************************************)
(* Who may use a data directory: the resident service (IMGentService,       *)
(* src/service/lifecycle.ts, with ControlServer, src/control/server.ts) and *)
(* the offline commands (src/cli/program.ts with OfflineLease and           *)
(* restoreBackup).  All of them compete for one Unix socket: its listener   *)
(* owns the directory.                                                      *)
(*                                                                         *)
(* The processes are operating system processes: between any two awaits of  *)
(* one of them every other may run.  A path in the file system and the      *)
(* socket that listens behind it are separate things: a path can be stale   *)
(* (its listener is dead), and a listener can have lost its path.           *)
(***************************************************************************)
EXTENDS Integers, FiniteSets

CONSTANTS
  Service,      \* processes that run `imgent start`, each under its own pid
  Cli,          \* processes that run offline commands
  NumFiles,     \* files a backup consists of; the first is the database
  NoSocket,     \* the endpoint's path does not exist
  Stale,        \* it is a socket whose listener has died
  Busy,         \* processes that may fail to accept a connection within 500 ms
  MaxStarts,    \* how many starts are tried (bound)
  MaxCommands,  \* how many offline commands are given (bound)
  MaxRequests,  \* how many admin requests arrive (bound)
  MaxCrashes    \* how many processes are killed (bound)

Process == Service \cup Cli
File == 1..NumFiles

ASSUME InstanceAssumption ==
  /\ Service \cap Cli = {}
  /\ Busy \subseteq Process
  /\ NumFiles \in Nat \ {0}
  /\ NoSocket \notin Process
  /\ Stale \notin Process
  /\ NoSocket # Stale
  /\ {MaxStarts, MaxCommands, MaxRequests, MaxCrashes} \subseteq Nat

VARIABLES
  path,       \* the endpoint: NoSocket, Stale or the listener behind it
  listening,  \* processes with an open listening socket
  pc,         \* where each process stands
  lifecycle,  \* IMGentService.lifecycleState
  tmp,        \* instance.json.<pid>.tmp: its writer, "none" or "dead"
  requests,   \* ControlServer.activeAdminRequests
  owners,     \* processes that have the database open or replace it
  disk,       \* the generation of each file of the data directory
  archive,    \* the generation in the archive of the last restore
  wal,        \* "empty", "rows" (only there) or "lost" by a restore
  copied,     \* generations the backup in progress has read, file by file
  copier,     \* the process that makes it, or NoSocket
  removed,    \* live listeners whose path a starter has removed (history)
  cut,        \* a restore has stopped half way (history)
  budget      \* what is left of the bounds

socketVars == <<path, listening, removed>>
metaVars == <<lifecycle, tmp>>
dataVars == <<disk, archive, wal, cut>>
backupVars == <<copied, copier>>
vars == <<socketVars, pc, metaVars, requests, owners, dataVars, backupVars, budget>>

-----------------------------------------------------------------------------
Starting == {"found", "refused", "rechecked", "clear"}
Holding == {"owned", "naming", "opening", "serving", "readying", "ready", "parting",
            "draining", "closing", "unwinding", "leaving"}
ServicePhase == {"down", "parted"} \cup Starting \cup Holding
Leasing == {"leased", "working", "restoring", "finished"}
CliPhase == {"down", "discovered"} \cup Leasing

(* The phases in which a service's application object has its store open.  *)
Open == {"serving", "readying", "ready", "parting", "draining", "closing", "unwinding"}

TypeOK ==
  /\ path \in Process \cup {NoSocket, Stale}
  /\ listening \subseteq Process
  /\ pc \in [Process -> ServicePhase \cup CliPhase]
  /\ \A s \in Service : pc[s] \in ServicePhase
  /\ \A c \in Cli : pc[c] \in CliPhase
  /\ lifecycle \in [Service -> {"starting", "ready", "degraded", "stopping"}]
  /\ tmp \in [Service -> {"none", "main", "probe", "dead"}]
  /\ requests \in [Service -> Nat]
  /\ owners \subseteq Process
  /\ disk \in [File -> Nat]
  /\ archive \in Nat
  /\ wal \in {"empty", "rows", "lost"}
  /\ copied \in [File -> Int]
  /\ copier \in Process \cup {NoSocket}
  /\ removed \subseteq Process
  /\ cut \in BOOLEAN
  /\ budget \in [{"starts", "commands", "requests", "crashes"} -> Nat]

NotCopied == [f \in File |-> -1]

(* An earlier crash may have left its socket behind.                       *)
Init ==
  /\ path \in {NoSocket, Stale}
  /\ listening = {}
  /\ pc = [p \in Process |-> "down"]
  /\ lifecycle = [s \in Service |-> "starting"]
  /\ tmp = [s \in Service |-> "none"]
  /\ requests = [s \in Service |-> 0]
  /\ owners = {}
  /\ disk = [f \in File |-> 0]
  /\ archive = 0
  /\ wal = "empty"
  /\ copied = NotCopied
  /\ copier = NoSocket
  /\ removed = {}
  /\ cut = FALSE
  /\ budget = [starts |-> MaxStarts, commands |-> MaxCommands,
               requests |-> MaxRequests, crashes |-> MaxCrashes]

Spend(what) ==
  /\ budget[what] > 0
  /\ budget' = [budget EXCEPT ![what] = @ - 1]

Goto(p, phase) == pc' = [pc EXCEPT ![p] = phase]

-----------------------------------------------------------------------------
(* The control endpoint: ControlServer.start and OfflineLease.acquire.     *)

(* endpointEntryKind at the head of ControlServer.start.                   *)
LookAtEndpoint(s) ==
  /\ pc[s] = "down"
  /\ Spend("starts")
  /\ Goto(s, IF path = NoSocket THEN "clear" ELSE "found")
  /\ UNCHANGED <<socketVars, metaVars, requests, owners, dataVars, backupVars>>

(* endpointAcceptsConnections: whoever accepts is a service or a lease, and *)
(* the start fails.  A path that is gone or stale refuses; so does, for the *)
(* caller, a listener that has not accepted after 500 ms or whose backlog   *)
(* is full, because every error counts as a refusal.                       *)
TestEndpoint(s) ==
  /\ pc[s] = "found"
  /\ \/ path \in listening /\ Goto(s, "down")
     \/ path \notin listening \ Busy /\ Goto(s, "refused")
  /\ UNCHANGED <<socketVars, metaVars, requests, owners, dataVars, backupVars, budget>>

(* removeStaleEndpoint looks once more, and only at the kind of the entry. *)
RecheckEndpoint(s) ==
  /\ pc[s] = "refused"
  /\ Goto(s, IF path = NoSocket THEN "down" ELSE "rechecked")
  /\ UNCHANGED <<socketVars, metaVars, requests, owners, dataVars, backupVars, budget>>

(* rm fails on a path that is gone; it does not know whose socket it is.   *)
RemoveEndpoint(s) ==
  /\ pc[s] = "rechecked"
  /\ Goto(s, IF path = NoSocket THEN "down" ELSE "clear")
  /\ path' = NoSocket
  /\ removed' = removed \cup ({path} \cap listening)
  /\ UNCHANGED <<listening, metaVars, requests, owners, dataVars, backupVars, budget>>

\* Mutant: a path that is in use is taken over.
BindForcing(p, success) ==
  /\ path' = p
  /\ listening' = listening \cup {p}
  /\ Goto(p, success)

(* bind and listen: EADDRINUSE when the path exists, stale or not.  The    *)
(* process goes on to "success", or to "down" with a conflict.             *)
Bind(p, success) ==
  \/ /\ path = NoSocket
     /\ path' = p
     /\ listening' = listening \cup {p}
     /\ Goto(p, success)
  \/ /\ path # NoSocket
     /\ Goto(p, "down")
     /\ UNCHANGED <<path, listening>>

(* Closing a listening Unix socket unlinks its path by name, whoever is    *)
(* behind that name by then.                                               *)
CloseSocket(p) ==
  /\ path' = NoSocket
  /\ listening' = listening \ {p}

ListenControl(s) ==
  /\ pc[s] = "clear"
  /\ Bind(s, "owned")
  /\ UNCHANGED <<removed, metaVars, requests, owners, dataVars, backupVars, budget>>

-----------------------------------------------------------------------------
(* IMGentService.startInternal, after the endpoint is bound.               *)

(* writeInstanceMetadata creates a temporary file named after the pid with *)
(* flag "wx" and renames it.  A temporary file that is already there, of a *)
(* write in progress or left by a dead process of that pid, makes it fail. *)
CreateTemporary(s, writer) ==
  /\ tmp[s] = "none"
  /\ tmp' = [tmp EXCEPT ![s] = writer]

RenameTemporary(s) == tmp' = [tmp EXCEPT ![s] = "none"]

WriteMetadata(s) ==
  /\ pc[s] = "owned"
  /\ \/ /\ CreateTemporary(s, "main")
        /\ Goto(s, "naming")
     \/ /\ tmp[s] # "none"
        /\ Goto(s, "leaving")
        /\ UNCHANGED tmp
  /\ UNCHANGED <<socketVars, lifecycle, requests, owners, dataVars, backupVars, budget>>

AfterRename(phase) ==
  CASE phase = "naming" -> "opening"
    [] phase = "readying" -> "ready"
    [] phase = "parting" -> "draining"
    [] OTHER -> phase

RenameMetadata(s) ==
  /\ tmp[s] = "main"
  /\ RenameTemporary(s)
  /\ Goto(s, AfterRename(pc[s]))
  /\ UNCHANGED <<socketVars, lifecycle, requests, owners, dataVars, backupVars, budget>>

(* IMGentApplication.create opens the store, which takes in a write-ahead  *)
(* log a crash has left, or fails; adminValue is set at once, then start   *)
(* runs with the control plane already answering.                          *)
CreateApplication(s) ==
  /\ pc[s] = "opening"
  /\ \/ /\ Goto(s, "serving")
        /\ owners' = owners \cup {s}
        /\ wal' = IF wal = "rows" THEN "empty" ELSE wal
     \/ /\ Goto(s, "leaving")
        /\ UNCHANGED <<owners, wal>>
  /\ UNCHANGED <<socketVars, metaVars, requests, disk, archive, cut, backupVars, budget>>

(* The health server cannot listen, or another step of start throws.       *)
StartFails(s) ==
  /\ pc[s] = "serving"
  /\ Goto(s, "unwinding")
  /\ UNCHANGED <<socketVars, metaVars, requests, owners, dataVars, backupVars, budget>>

(* transition: no write when the state does not change or is stopping.     *)
StateFor(ready) == IF ready THEN "ready" ELSE "degraded"

FinishStart(s) ==
  /\ pc[s] = "serving"
  /\ \E ready \in BOOLEAN :
       /\ lifecycle' = [lifecycle EXCEPT ![s] = StateFor(ready)]
       /\ \/ /\ lifecycle[s] = StateFor(ready)
             /\ Goto(s, "ready")
             /\ UNCHANGED tmp
          \/ /\ lifecycle[s] # StateFor(ready)
             /\ CreateTemporary(s, "main")
             /\ Goto(s, "readying")
          \/ /\ lifecycle[s] # StateFor(ready)
             /\ tmp[s] # "none"
             /\ Goto(s, "unwinding")
             /\ UNCHANGED tmp
  /\ UNCHANGED <<socketVars, requests, owners, dataVars, backupVars, budget>>

(* A readiness query, of /readyz or of the control plane, is a transition  *)
(* of its own beside the main flow.  Before the first report is in, the    *)
(* report says not ready.                                                  *)
QueryReadiness(s) ==
  /\ pc[s] \in {"serving", "readying", "ready"}
  /\ \E ready \in BOOLEAN :
       /\ pc[s] = "serving" => ~ready
       /\ lifecycle[s] # StateFor(ready)
       /\ lifecycle' = [lifecycle EXCEPT ![s] = StateFor(ready)]
       /\ CreateTemporary(s, "probe") \/ (tmp[s] # "none" /\ UNCHANGED tmp)
  /\ UNCHANGED <<socketVars, pc, requests, owners, dataVars, backupVars, budget>>

AnswerReadiness(s) ==
  /\ tmp[s] = "probe"
  /\ RenameTemporary(s)
  /\ UNCHANGED <<socketVars, pc, lifecycle, requests, owners, dataVars, backupVars, budget>>

-----------------------------------------------------------------------------
(* Admin requests: ControlServer.handle counts all but /v3/meta.  Until    *)
(* beginStopping, which follows the transition to stopping, it takes them. *)
Accepting == {"serving", "readying", "ready", "parting"}

BeginRequest(s) ==
  /\ path = s
  /\ pc[s] \in Accepting
  /\ Spend("requests")
  /\ requests' = [requests EXCEPT ![s] = @ + 1]
  /\ UNCHANGED <<socketVars, pc, metaVars, owners, dataVars, backupVars>>

\* Mutant: a request that ends is still counted.
EndRequestForgetting(s) ==
  /\ requests[s] > 0
  /\ copier # s
  /\ UNCHANGED vars

EndRequest(s) ==
  /\ requests[s] > 0
  /\ copier # s
  /\ requests' = [requests EXCEPT ![s] = @ - 1]
  /\ UNCHANGED <<socketVars, pc, metaVars, owners, dataVars, backupVars, budget>>

-----------------------------------------------------------------------------
(* IMGentService.stop, after SIGINT or SIGTERM; start waits for the signal *)
(* only once the service is up.                                            *)
Stop(s) ==
  /\ pc[s] = "ready"
  /\ lifecycle' = [lifecycle EXCEPT ![s] = "stopping"]
  /\ \/ /\ CreateTemporary(s, "main")
        /\ Goto(s, "parting")
     \/ /\ tmp[s] # "none"
        /\ Goto(s, "draining")
        /\ UNCHANGED tmp
  /\ UNCHANGED <<socketVars, requests, owners, dataVars, backupVars, budget>>

\* Mutant: the socket is closed with the admission of requests.
DrainRequestsUnlocking(s) ==
  /\ pc[s] = "draining"
  /\ requests[s] = 0
  /\ tmp[s] # "probe"
  /\ Goto(s, "closing")
  /\ CloseSocket(s)
  /\ UNCHANGED <<removed, metaVars, requests, owners, dataVars, backupVars, budget>>

(* beginStopping waits for the requests it has counted, healthServer.stop  *)
(* for the readiness queries.                                              *)
DrainRequests(s) ==
  /\ pc[s] = "draining"
  /\ requests[s] = 0
  /\ tmp[s] # "probe"
  /\ Goto(s, "closing")
  /\ UNCHANGED <<socketVars, metaVars, requests, owners, dataVars, backupVars, budget>>

(* application.stop ends with store.close, and instance.json is removed.   *)
(* A failed start goes this way too, without beginStopping.                *)
StopApplication(s) ==
  /\ pc[s] \in {"closing", "unwinding"}
  /\ Goto(s, "leaving")
  /\ owners' = owners \ {s}
  /\ UNCHANGED <<socketVars, metaVars, requests, dataVars, backupVars, budget>>

StopControl(s) ==
  /\ pc[s] = "leaving"
  /\ CloseSocket(s)
  /\ Goto(s, "parted")
  /\ UNCHANGED <<removed, metaVars, requests, owners, dataVars, backupVars, budget>>

(* server.close has called back when the last connection has ended.        *)
Exit(s) ==
  /\ pc[s] = "parted"
  /\ requests[s] = 0
  /\ tmp[s] # "probe"
  /\ Goto(s, "down")
  /\ lifecycle' = [lifecycle EXCEPT ![s] = "starting"]
  /\ UNCHANGED <<socketVars, tmp, requests, owners, dataVars, backupVars, budget>>

-----------------------------------------------------------------------------
(* Offline commands: routeCommand, OfflineAdminService and restoreBackup.  *)

(* ControlClient.discover finds no endpoint; any other answer sends the    *)
(* command to the service or refuses it.                                   *)
Discover(c) ==
  /\ pc[c] = "down"
  /\ path = NoSocket
  /\ Spend("commands")
  /\ Goto(c, "discovered")
  /\ UNCHANGED <<socketVars, metaVars, requests, owners, dataVars, backupVars>>

\* Mutant: the lease is taken without looking at the socket.
AcquireLeaseIgnoring(c) ==
  /\ pc[c] = "discovered"
  /\ Goto(c, "leased")
  /\ UNCHANGED <<socketVars, metaVars, requests, owners, dataVars, backupVars, budget>>

AcquireLease(c) ==
  /\ pc[c] = "discovered"
  /\ Bind(c, "leased")
  /\ UNCHANGED <<removed, metaVars, requests, owners, dataVars, backupVars, budget>>

OpenOffline(c) ==
  /\ pc[c] = "leased"
  /\ Goto(c, "working")
  /\ owners' = owners \cup {c}
  /\ wal' = IF wal = "rows" THEN "empty" ELSE wal
  /\ UNCHANGED <<socketVars, metaVars, requests, disk, archive, cut, backupVars, budget>>

CloseOffline(c) ==
  /\ pc[c] = "working"
  /\ copier # c
  /\ Goto(c, "finished")
  /\ owners' = owners \ {c}
  /\ UNCHANGED <<socketVars, metaVars, requests, dataVars, backupVars, budget>>

\* Mutant: restore runs without the lease.
BeginRestoreUnleased(c) ==
  /\ pc[c] = "discovered"
  /\ Goto(c, "restoring")
  /\ owners' = owners \cup {c}
  /\ wal' = IF wal = "rows" THEN "lost" ELSE wal
  /\ archive' = archive + 1
  /\ UNCHANGED <<socketVars, metaVars, requests, disk, cut, backupVars, budget>>

(* restoreBackup has validated the archive; with --force it first removes  *)
(* the write-ahead log, then replaces the files one by one, the database   *)
(* first, and at the end opens what it has written.                        *)
BeginRestore(c) ==
  /\ pc[c] = "leased"
  /\ Goto(c, "restoring")
  /\ owners' = owners \cup {c}
  /\ wal' = IF wal = "rows" THEN "lost" ELSE wal
  /\ archive' = archive + 1
  /\ UNCHANGED <<socketVars, metaVars, requests, disk, cut, backupVars, budget>>

Unrestored == {f \in File : disk[f] # archive}

RestoreFile(c) ==
  /\ pc[c] = "restoring"
  /\ \E f \in Unrestored :
       /\ \A g \in Unrestored : f <= g
       /\ disk' = [disk EXCEPT ![f] = archive]
       /\ wal' = IF f = 1 THEN "empty" ELSE wal
  /\ UNCHANGED <<socketVars, pc, metaVars, requests, owners, archive, cut, backupVars, budget>>

EndRestore(c) ==
  /\ pc[c] = "restoring"
  /\ cut' = (Unrestored # {})
  /\ Goto(c, "finished")
  /\ owners' = owners \ {c}
  /\ UNCHANGED <<socketVars, metaVars, requests, disk, archive, wal, backupVars, budget>>

ReleaseLease(c) ==
  /\ pc[c] = "finished"
  /\ CloseSocket(c)
  /\ Goto(c, "down")
  /\ UNCHANGED <<removed, metaVars, requests, owners, dataVars, backupVars, budget>>

-----------------------------------------------------------------------------
(* createBackup: an admin request of the service or an offline command     *)
(* copies the database and then reads the other files one by one.  Its end *)
(* is the end of the request or of the command.                            *)
BeginBackup(p) ==
  /\ copier = NoSocket
  /\ p \in owners
  /\ p \in Service => requests[p] > 0
  /\ p \in Cli => pc[p] = "working"
  /\ copier' = p
  /\ copied' = [NotCopied EXCEPT ![1] = disk[1]]
  /\ UNCHANGED <<socketVars, pc, metaVars, requests, owners, dataVars, budget>>

CopyFile ==
  /\ copier # NoSocket
  /\ \E f \in File :
       /\ copied[f] = -1
       /\ \A g \in File : copied[g] = -1 => f <= g
       /\ copied' = [copied EXCEPT ![f] = disk[f]]
  /\ UNCHANGED <<socketVars, pc, metaVars, requests, owners, dataVars, copier, budget>>

EndBackup ==
  /\ copier # NoSocket
  /\ \A f \in File : copied[f] # -1
  /\ copier' = NoSocket
  /\ copied' = NotCopied
  /\ requests' = [s \in Service |-> IF s = copier THEN requests[s] - 1 ELSE requests[s]]
  /\ pc' = [p \in Process |-> IF p = copier /\ p \in Cli THEN "finished" ELSE pc[p]]
  /\ owners' = owners \ (Cli \cap {copier})
  /\ UNCHANGED <<socketVars, metaVars, dataVars, budget>>

-----------------------------------------------------------------------------
(* A process is killed: the kernel closes its socket, the path stays.      *)
Crash(p) ==
  /\ pc[p] # "down"
  /\ Spend("crashes")
  /\ Goto(p, "down")
  /\ path' = IF path = p THEN Stale ELSE path
  /\ listening' = listening \ {p}
  /\ owners' = owners \ {p}
  /\ wal' = IF p \in owners /\ pc[p] # "restoring" /\ wal = "empty" THEN "rows" ELSE wal
  /\ cut' = (cut \/ (pc[p] = "restoring" /\ Unrestored # {}))
  /\ lifecycle' = [s \in Service |-> IF s = p THEN "starting" ELSE lifecycle[s]]
  /\ tmp' = [s \in Service |-> IF s = p /\ tmp[s] # "none" THEN "dead" ELSE tmp[s]]
  /\ requests' = [s \in Service |-> IF s = p THEN 0 ELSE requests[s]]
  /\ copier' = IF copier = p THEN NoSocket ELSE copier
  /\ copied' = IF copier = p THEN NotCopied ELSE copied
  /\ UNCHANGED <<removed, disk, archive>>

ServiceStep(s) ==
  \/ TestEndpoint(s) \/ RecheckEndpoint(s) \/ RemoveEndpoint(s) \/ ListenControl(s)
  \/ WriteMetadata(s) \/ RenameMetadata(s) \/ CreateApplication(s)
  \/ FinishStart(s) \/ AnswerReadiness(s)
  \/ DrainRequests(s) \/ StopControl(s) \/ Exit(s)

CliStep(c) ==
  \/ AcquireLease(c) \/ OpenOffline(c) \/ CloseOffline(c)
  \/ BeginRestore(c) \/ RestoreFile(c) \/ EndRestore(c) \/ ReleaseLease(c)

Next ==
  \/ \E s \in Service :
       \/ LookAtEndpoint(s) \/ ServiceStep(s) \/ StartFails(s)
       \/ QueryReadiness(s) \/ BeginRequest(s) \/ EndRequest(s)
       \/ Stop(s) \/ StopApplication(s)
  \/ \E c \in Cli : Discover(c) \/ CliStep(c)
  \/ \E p \in Process : BeginBackup(p) \/ Crash(p)
  \/ CopyFile
  \/ EndBackup

Spec == Init /\ [][Next]_vars

(* Every process goes on until it waits for somebody, and every request is *)
(* answered.                                                               *)
Fairness ==
  /\ \A s \in Service : WF_vars(ServiceStep(s)) /\ WF_vars(EndRequest(s))
  /\ \A c \in Cli : WF_vars(CliStep(c))
  /\ WF_vars(CopyFile) /\ WF_vars(EndBackup)

(* An assumption about the application, which the code does not guarantee: *)
(* application.stop ends.  It waits for the turns in hand, and a turn whose *)
(* agent never ends its stream holds it up for good (see Drivers).         *)
TurnsEnd == \A s \in Service : WF_vars(StopApplication(s))

FairSpec == Spec /\ Fairness /\ TurnsEnd

-----------------------------------------------------------------------------
(* Safety.                                                                 *)

(* What makes the endpoint a lock: a process listens exactly in the phases *)
(* in which it believes to hold the lock, it uses the data only then, and  *)
(* as long as no live path has been removed the path leads to the one      *)
(* listener.                                                               *)
ListensWhileHolding ==
  /\ \A s \in Service : s \in listening <=> pc[s] \in Holding
  /\ \A c \in Cli : c \in listening <=> pc[c] \in Leasing

UsesWhileOpen ==
  /\ \A s \in Service : s \in owners <=> pc[s] \in Open
  /\ \A c \in Cli : c \in owners <=> pc[c] \in {"working", "restoring"}

PathLeadsToListener == removed = {} => \A p \in listening : path = p

(* A backup in progress belongs to a request or to a command at work, and  *)
(* what it has read is still what the files hold.                          *)
CopierServed ==
  /\ copier = NoSocket => copied = NotCopied
  /\ copier \in Service => requests[copier] > 0 /\ pc[copier] \in Open \cup {"leaving", "parted"}
  /\ copier \in Cli => pc[copier] = "working"

Undisturbed == removed = {} /\ ~cut

(* A backup goes on in a process that has given up the endpoint.  A stop   *)
(* waits for its admin requests first, but a start that fails after the    *)
(* control plane has begun to answer does not: it closes the store and the *)
(* socket, and the backup reads on in what is left of the process.         *)
Outlived == copier # NoSocket /\ copier \notin listening

CopiesMatch ==
  Undisturbed /\ copier # NoSocket /\ ~Outlived =>
    \A f \in File : copied[f] # -1 => copied[f] = disk[f]

(* The files are whole unless somebody is restoring them; while a restore  *)
(* runs, a lost log means that it has not yet replaced the database.       *)
Whole == wal # "lost" /\ \A f, g \in File : disk[f] = disk[g]

WholeOrRestoring ==
  /\ \A f \in File : disk[f] <= archive
  /\ Undisturbed /\ (\A c \in Cli : pc[c] # "restoring") => Whole
  /\ removed = {} /\ (\E c \in Cli : pc[c] = "restoring") /\ wal = "lost" =>
       disk[1] # archive

IInv ==
  /\ TypeOK
  /\ ListensWhileHolding
  /\ UsesWhileOpen
  /\ PathLeadsToListener
  /\ CopierServed
  /\ CopiesMatch
  /\ WholeOrRestoring

(* At most one process uses the data directory.  The endpoint is the only  *)
(* lock, and it keeps that promise through crashes and restores except     *)
(* where a starter has removed the path of a listener that came alive      *)
(* after the path had been found dead, or that was too busy to accept the  *)
(* starter's connection within 500 ms.                                     *)
ExclusiveOwner == removed = {} => \A p, q \in owners : p = q

(* Whoever uses the data directory can be found at the endpoint: commands  *)
(* are routed to the running service, never beside it.                     *)
OwnerIsFound == removed = {} => \A p \in owners : path = p

(* A service never runs on a mixture of two backups, or on a database that *)
(* has lost its log, unless a restore was cut short.                       *)
RunsOnWholeData ==
  Undisturbed =>
    \A p \in owners : pc[p] # "restoring" => Whole

(* Every backup, of the service or offline, holds files of one generation: *)
(* docs/cli-service-architecture.md:387 calls it consistent.               *)
ConsistentBackups ==
  Undisturbed =>
    \A f, g \in File : copied[f] # -1 /\ copied[g] # -1 => copied[f] = copied[g]

(* A backup holds files of one generation, except one that outlives its    *)
(* process's hold on the endpoint (Outlived).                              *)
BackupIsWhole == ~Outlived => ConsistentBackups

(* Every shutdown ends, whichever way it has begun: a stop with or without *)
(* the write of its state, a start that fails before or after the store is *)
(* open, with admin requests and readiness queries under way.              *)
ShuttingDown == {"parting", "draining", "closing", "unwinding", "leaving", "parted"}

StopEnds == \A s \in Service : pc[s] \in ShuttingDown ~> pc[s] = "down"
=============================================================================
