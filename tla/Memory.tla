-------------------------------- MODULE Memory --------------------------------
(***************************************************************************)
(* Long-term memory: MemoryService (src/memory/service.ts), the tools that   *)
(* agents call it through (src/memory/host-tools.ts), MemoryCurator          *)
(* (src/memory/curator.ts) and the part of IdentityService.mergePrincipal    *)
(* (src/identity/service.ts) that moves records from one person to another.  *)
(*                                                                         *)
(* A turn and a curation work under the person their task had when they      *)
(* began; a binding may give the task, and what it wrote, to another person  *)
(* while they run.  There is one AgentProfile: no operation crosses two.     *)
(***************************************************************************)
EXTENDS Integers, FiniteSets

CONSTANTS
  Principal,     \* people, by principal id
  Direct,        \* direct conversations
  Group,         \* group conversations
  NoOne,         \* a place that belongs to no person
  NoWhere,       \* a place that belongs to no conversation
  Key,           \* fact keys
  NoKey,         \* a record without one
  Value,         \* contents, equal or not
  NoValue,       \* of an id that is not used
  NumTasks,      \* messages that become tasks
  ConvOf,        \* the conversation of each task
  AskerOf,       \* the person a task is stored with
  Curated,       \* tasks with curate_memory: those of messages, not of schedules
  Admins,        \* tasks whose speaker administers the group
  MaxRecords,    \* how many records are ever written (bound)
  MaxTime,       \* how late a record is updated (bound)
  MaxCrashes     \* how many times the process dies (bound)

Task == 1..NumTasks
Id == 1..MaxRecords
Conversation == Direct \cup Group

ASSUME MemoryAssumption ==
  /\ NumTasks \in Nat \ {0}
  /\ MaxRecords \in Nat
  /\ {MaxTime, MaxCrashes} \subseteq Nat
  /\ Direct \cap Group = {}
  /\ NoOne \notin Principal
  /\ NoWhere \notin Conversation
  /\ NoKey \notin Key
  /\ NoValue \notin Value
  /\ ConvOf \in [Task -> Conversation]
  /\ AskerOf \in [Task -> Principal]
  /\ Curated \subseteq Task
  /\ Admins \subseteq Task

VARIABLES
  records,     \* memory_records, "unused" ids last
  fts,         \* memory_fts: which record is found under which content
  principals,  \* the people there are
  owner,       \* tasks.principal_id
  phase,       \* tasks.status: "queued", "running", "succeeded" or "failed"
  context,     \* the MemoryContext.principalId of each running turn
  job,         \* memory_outbox: status and attempt, "none" before the task ends
  curator,     \* the task being curated and the person it is curated for
  merging,     \* the binding whose transaction is under way
  crashes      \* what is left of the bound

recordVars == <<records, fts>>
taskVars == <<owner, phase, context>>
vars == <<recordVars, principals, taskVars, job, curator, merging, crashes>>

-----------------------------------------------------------------------------
(* Where a record belongs: its scope, its person and its conversation.      *)
Place == [scope: {"personal_private", "private_episode", "group_shared",
                  "group_member", "group_episode"},
          owner: Principal \cup {NoOne},
          where: Conversation \cup {NoWhere}]

Record == [place: Place, key: Key \cup {NoKey}, value: Value \cup {NoValue}, source: Task,
           status: {"unused", "active", "superseded", "forgotten"}, time: Nat]

Unused == [place |-> [scope |-> "personal_private", owner |-> NoOne, where |-> NoWhere],
           key |-> NoKey, value |-> NoValue, source |-> 1,
           status |-> "unused", time |-> 0]

Idle == [task |-> 0, principal |-> NoOne]
NotMerging == [from |-> NoOne, to |-> NoOne, next |-> 0]

Job == [status: {"none", "pending", "processing", "retry_wait", "succeeded", "dead_letter"},
        attempt: Nat]

CurationAttempts == 3

Active(i) == records[i].status = "active"
Used(i) == records[i].status # "unused"

TypeOK ==
  /\ records \in [Id -> Record]
  /\ fts \subseteq Id \X Value
  /\ principals \subseteq Principal
  /\ owner \in [Task -> Principal]
  /\ phase \in [Task -> {"queued", "running", "succeeded", "failed"}]
  /\ context \in [Task -> Principal \cup {NoOne}]
  /\ job \in [Task -> Job]
  /\ curator \in [task: Task \cup {0}, principal: Principal \cup {NoOne}]
  /\ merging \in [from: Principal \cup {NoOne}, to: Principal \cup {NoOne}, next: Nat]
  /\ crashes \in Nat

Init ==
  /\ records = [i \in Id |-> Unused]
  /\ fts = {}
  /\ principals = Principal
  /\ owner = AskerOf
  /\ phase = [t \in Task |-> "queued"]
  /\ context = [t \in Task |-> NoOne]
  /\ job = [t \in Task |-> [status |-> "none", attempt |-> 0]]
  /\ curator = Idle
  /\ merging = NotMerging
  /\ crashes = MaxCrashes

(* updated_at of an active record: only the order matters, and only then.   *)
Latest(i) == \A j \in Id : records[j].time <= records[i].time
Now == IF \E i \in Id : Latest(i) THEN 1 + records[CHOOSE i \in Id : Latest(i)].time ELSE 1

(* A record that is not active any more keeps all but its place in time.    *)
Ended(i, status) == [records[i] EXCEPT !.status = status, !.time = 0]

-----------------------------------------------------------------------------
(* MemoryService, as a host tool calls it: every operation is one           *)
(* synchronous transaction under the context [task, principal] of its turn. *)

IsDirect(c) == ConvOf[c.task] \in Direct

(* scope(): what a target means in a conversation.  A direct conversation   *)
(* has no "group".                                                         *)
Targets(c) == IF IsDirect(c) THEN {"self", "episode"} ELSE {"self", "group", "episode"}

PlaceOf(c, target) ==
  LET conv == ConvOf[c.task]
      at(scope, person, where) == [scope |-> scope, owner |-> person, where |-> where]
  IN IF IsDirect(c)
     THEN IF target = "self" THEN at("personal_private", c.principal, NoWhere)
                             ELSE at("private_episode", c.principal, conv)
     ELSE CASE target = "self"    -> at("group_member", c.principal, conv)
            [] target = "group"   -> at("group_shared", NoOne, conv)
            [] target = "episode" -> at("group_episode", NoOne, conv)

(* What search, the baseline and the recent episodes look at.               *)
Visible(c, place) ==
  LET mine == place.owner = c.principal
      here == place.where = ConvOf[c.task]
  IN IF IsDirect(c)
     THEN \/ place.scope = "personal_private" /\ mine
          \/ place.scope = "private_episode" /\ mine /\ here
     ELSE \/ place.scope \in {"group_shared", "group_episode"} /\ here
          \/ place.scope = "group_member" /\ here /\ mine

\* Mutant: any member of the group may manage a member's record.
CanManageAnyMember(c, place) ==
  LET mine == place.owner = c.principal
      here == place.where = ConvOf[c.task]
  IN CASE place.scope = "personal_private" -> mine
       [] place.scope = "private_episode"  -> mine /\ here
       [] place.scope = "group_member"     -> here
       [] OTHER                            -> here /\ c.task \in Admins

(* update and forget ask for the same, and in a group for an administrator  *)
(* when the record is nobody's.                                             *)
CanManage(c, place) ==
  LET mine == place.owner = c.principal
      here == place.where = ConvOf[c.task]
  IN CASE place.scope = "personal_private" -> IsDirect(c) /\ mine
       [] place.scope = "private_episode"  -> IsDirect(c) /\ mine /\ here
       [] place.scope = "group_member"     -> ~IsDirect(c) /\ here /\ mine
       [] OTHER                            -> ~IsDirect(c) /\ here /\ c.task \in Admins

\* Mutant: only active records count as already written by the task.
SourcedActive(c, place, key) ==
  {i \in Id : /\ Active(i)
              /\ key # NoKey
              /\ records[i].source = c.task
              /\ records[i].place = place
              /\ records[i].key = key}

(* What the same task has already written under the key, whatever became of *)
(* it: the answer to a repeated call.                                       *)
Sourced(c, place, key) ==
  {i \in Id : /\ Used(i)
              /\ key # NoKey
              /\ records[i].source = c.task
              /\ records[i].place = place
              /\ records[i].key = key}

SameFact(place, key) ==
  {i \in Id : Active(i) /\ key # NoKey /\ records[i].place = place /\ records[i].key = key}

Duplicate(place, value) ==
  {i \in Id : Active(i) /\ records[i].place = place /\ records[i].value = value}

\* Mutant: rows are written for a person that has been merged.
InsertableAlways(place) == TRUE

(* A foreign key refuses a record of a person that no longer exists.        *)
Insertable(place) == place.owner \in principals \cup {NoOne}

Without(ids) == {entry \in fts : entry[1] \notin ids}

Remember(c, target, key, value) ==
  LET place == PlaceOf(c, target)
      old == SameFact(place, key) \ Duplicate(place, value)
      settled == [i \in Id |-> IF i \in old
                               THEN Ended(i, "superseded")
                               ELSE records[i]]
  IN /\ Sourced(c, place, key) = {}
     /\ IF Duplicate(place, value) # {}
        THEN /\ records' = settled
             /\ fts' = Without(old)
        ELSE \E i \in Id :
               /\ ~Used(i)
               /\ \A j \in Id : j < i => Used(j)
               /\ Insertable(place)
               /\ records' = [settled EXCEPT ![i] =
                    [place |-> place, key |-> key, value |-> value, source |-> c.task,
                     status |-> "active", time |-> Now]]
               /\ fts' = Without(old) \cup {<<i, value>>}

Update(c, i, value) ==
  /\ Now <= MaxTime
  /\ Active(i)
  /\ CanManage(c, records[i].place)
  /\ Duplicate(records[i].place, value) \subseteq {i}
  /\ records' = [records EXCEPT ![i].value = value, ![i].time = Now]
  /\ fts' = Without({i}) \cup {<<i, value>>}

Forget(c, i) ==
  /\ Active(i)
  /\ CanManage(c, records[i].place)
  /\ records' = [records EXCEPT ![i] = Ended(i, "forgotten")]
  /\ fts' = Without({i})

-----------------------------------------------------------------------------
(* A transaction runs to its end before anything else does.                 *)
Between == merging = NotMerging

(* execute registers the memory context with the turn's host tools.         *)
BeginTurn(t) ==
  /\ Between
  /\ phase[t] = "queued"
  /\ phase' = [phase EXCEPT ![t] = "running"]
  /\ context' = [context EXCEPT ![t] = owner[t]]
  /\ UNCHANGED <<recordVars, principals, owner, job, curator, merging, crashes>>

TurnContext(t) == [task |-> t, principal |-> context[t]]

TurnRemembers(t) ==
  /\ Between
  /\ phase[t] = "running"
  /\ \E target \in Targets(TurnContext(t)), key \in Key \cup {NoKey}, value \in Value :
       Remember(TurnContext(t), target, key, value)
  /\ UNCHANGED <<principals, taskVars, job, curator, merging, crashes>>

TurnUpdates(t) ==
  /\ Between
  /\ phase[t] = "running"
  /\ \E i \in Id, value \in Value : Update(TurnContext(t), i, value)
  /\ UNCHANGED <<principals, taskVars, job, curator, merging, crashes>>

TurnForgets(t) ==
  /\ Between
  /\ phase[t] = "running"
  /\ \E i \in Id : Forget(TurnContext(t), i)
  /\ UNCHANGED <<principals, taskVars, job, curator, merging, crashes>>

(* completeTask puts the task into the outbox, in its own transaction.      *)
TurnSucceeds(t) ==
  /\ Between
  /\ phase[t] = "running"
  /\ phase' = [phase EXCEPT ![t] = "succeeded"]
  /\ context' = [context EXCEPT ![t] = NoOne]
  /\ job' = [job EXCEPT ![t].status = IF t \in Curated THEN "pending" ELSE "none"]
  /\ UNCHANGED <<recordVars, principals, owner, curator, merging, crashes>>

TurnFails(t) ==
  /\ Between
  /\ phase[t] = "running"
  /\ phase' = [phase EXCEPT ![t] = "failed"]
  /\ context' = [context EXCEPT ![t] = NoOne]
  /\ UNCHANGED <<recordVars, principals, owner, job, curator, merging, crashes>>

-----------------------------------------------------------------------------
(* MemoryCurator.processOnce: one job at a time, a few times at most.  The  *)
(* context is taken before the agent is awaited.                            *)
BeginCuration(t) ==
  /\ Between
  /\ curator = Idle
  /\ job[t].status \in {"pending", "retry_wait"}
  /\ job[t].attempt < CurationAttempts
  /\ job' = [job EXCEPT ![t] = [status |-> "processing", attempt |-> @.attempt + 1]]
  /\ curator' = [task |-> t, principal |-> owner[t]]
  /\ UNCHANGED <<recordVars, principals, taskVars, merging, crashes>>

CuratorRemembers ==
  /\ Between
  /\ curator # Idle
  /\ \E target \in Targets(curator), key \in Key \cup {NoKey}, value \in Value :
       Remember(curator, target, key, value)
  /\ UNCHANGED <<principals, taskVars, job, curator, merging, crashes>>

CurationSucceeds ==
  /\ Between
  /\ curator # Idle
  /\ job' = [job EXCEPT ![curator.task].status = "succeeded"]
  /\ curator' = Idle
  /\ UNCHANGED <<recordVars, principals, taskVars, merging, crashes>>

\* Mutant: one attempt too many before the dead letter.
AfterFailureLate(t) == IF job[t].attempt > CurationAttempts THEN "dead_letter" ELSE "retry_wait"

AfterFailure(t) == IF job[t].attempt >= CurationAttempts THEN "dead_letter" ELSE "retry_wait"

CurationFails ==
  /\ Between
  /\ curator # Idle
  /\ job' = [job EXCEPT ![curator.task].status = AfterFailure(curator.task)]
  /\ curator' = Idle
  /\ UNCHANGED <<recordVars, principals, taskVars, merging, crashes>>

-----------------------------------------------------------------------------
(* mergePrincipal: consumeBindingCode gives everything of one person to     *)
(* another, in one transaction.  Its loop over the records of the first is  *)
(* taken one record at a time, in the order they were written.              *)
BeginMerge(from, to) ==
  /\ Between
  /\ {from, to} \subseteq principals
  /\ from # to
  /\ merging' = [from |-> from, to |-> to, next |-> 1]
  /\ UNCHANGED <<recordVars, principals, taskVars, job, curator, crashes>>

\* Mutant: records are compared by their key only.
KeyConflicts(i) ==
  {j \in Id : /\ Active(j)
              /\ records[j].place = [records[i].place EXCEPT !.owner = merging.to]
              /\ records[i].key # NoKey
              /\ records[j].key = records[i].key}

(* The records of the other person that cannot be active next to record i.  *)
Conflicts(i) ==
  {j \in Id : /\ Active(j)
              /\ records[j].place = [records[i].place EXCEPT !.owner = merging.to]
              /\ \/ records[i].key # NoKey /\ records[j].key = records[i].key
                 \/ records[j].value = records[i].value}

(* The conflicts are looked at from the newest on: a record that is older   *)
(* than one of them gives way, and the others stay.                         *)
Obsolete(i) ==
  IF \E j \in Conflicts(i) : records[j].time >= records[i].time THEN {i} ELSE Conflicts(i)

\* Mutant: what a merge ends stays in the search index.
MergeRecordKeepingIndex ==
  /\ ~Between
  /\ merging.next \in Id
  /\ LET i == merging.next
         gone == IF Active(i) /\ records[i].place.owner = merging.from THEN Obsolete(i) ELSE {}
     IN records' = [j \in Id |-> IF j \in gone
                                 THEN Ended(j, "superseded")
                                 ELSE records[j]]
  /\ merging' = [merging EXCEPT !.next = @ + 1]
  /\ UNCHANGED <<fts, principals, taskVars, job, curator, crashes>>

MergeRecord ==
  /\ ~Between
  /\ merging.next \in Id
  /\ LET i == merging.next
         gone == IF Active(i) /\ records[i].place.owner = merging.from THEN Obsolete(i) ELSE {}
     IN /\ records' = [j \in Id |-> IF j \in gone
                                    THEN Ended(j, "superseded")
                                    ELSE records[j]]
        /\ fts' = Without(gone)
  /\ merging' = [merging EXCEPT !.next = @ + 1]
  /\ UNCHANGED <<principals, taskVars, job, curator, crashes>>

MovedTo(person, i) ==
  [records[i] EXCEPT !.place.owner = person, !.time = IF Active(i) THEN Now ELSE 0]

(* The rows that name the person, and the person's own row.                 *)
EndMerge ==
  /\ ~Between
  /\ merging.next \notin Id
  /\ owner' = [t \in Task |-> IF owner[t] = merging.from THEN merging.to ELSE owner[t]]
  /\ records' = [i \in Id |-> IF records[i].place.owner = merging.from
                              THEN MovedTo(merging.to, i) ELSE records[i]]
  /\ principals' = principals \ {merging.from}
  /\ merging' = NotMerging
  /\ UNCHANGED <<fts, phase, context, job, curator, crashes>>

-----------------------------------------------------------------------------
(* The process dies and the next one runs recoverAfterRestart.  An open     *)
(* transaction would be rolled back: the crash then came before it.  A turn *)
(* is repeated, unless TurnFails gives it up.                               *)
Recovered(j) ==
  IF j.status # "processing" THEN j
  ELSE [j EXCEPT !.status = IF j.attempt >= CurationAttempts THEN "dead_letter" ELSE "retry_wait"]

Crash ==
  /\ Between
  /\ crashes > 0
  /\ crashes' = crashes - 1
  /\ phase' = [t \in Task |-> IF phase[t] = "running" THEN "queued" ELSE phase[t]]
  /\ context' = [t \in Task |-> NoOne]
  /\ job' = [t \in Task |-> Recovered(job[t])]
  /\ curator' = Idle
  /\ UNCHANGED <<recordVars, principals, owner, merging>>

-----------------------------------------------------------------------------
TurnStep(t) ==
  \/ BeginTurn(t) \/ TurnRemembers(t) \/ TurnUpdates(t) \/ TurnForgets(t)
  \/ TurnSucceeds(t) \/ TurnFails(t)

Merge == MergeRecord \/ EndMerge
CurationEnds == CurationSucceeds \/ CurationFails

Next ==
  \/ \E t \in Task : TurnStep(t) \/ BeginCuration(t)
  \/ CuratorRemembers \/ CurationEnds
  \/ \E from, to \in Principal : BeginMerge(from, to)
  \/ Merge
  \/ Crash

Spec == Init /\ [][Next]_vars

-----------------------------------------------------------------------------
(* Properties.                                                             *)

(* Two of the unique indices of memory_records: in one place no two active  *)
(* records have the same fact key or the same content.  remember, update    *)
(* and mergePrincipal each keep it by statements of their own: if one of    *)
(* them did not, it would fail on the index.                                *)
OneActive ==
  \A i, j \in Id :
    (i # j /\ Active(i) /\ Active(j) /\ records[i].place = records[j].place)
      => /\ records[i].value # records[j].value
         /\ records[i].key = NoKey \/ records[i].key # records[j].key

(* The third index, whatever the status: a task writes a fact in a place    *)
(* once, however often its turn or its curation is repeated, and also when  *)
(* it is forgotten in between or its person is merged into another.         *)
OncePerTask ==
  \A i, j \in Id :
    (/\ i # j
     /\ Used(i)
     /\ Used(j)
     /\ records[i].source = records[j].source
     /\ records[i].place = records[j].place
     /\ records[i].key # NoKey)
      => records[i].key # records[j].key

(* memory_fts is kept by hand next to memory_records: a record is found     *)
(* under its present content when it is active, and not at all otherwise.   *)
IndexFollows == fts = {<<i, records[i].value>> : i \in {j \in Id : Active(j)}}

(* A record that belongs to a person belongs to the person of the task it   *)
(* came from, though that person may be merged into another while the turn  *)
(* or the curation that writes it is under way.                             *)
SourceOwns ==
  \A i \in Id :
    (Used(i) /\ records[i].place.owner # NoOne)
      => records[i].place.owner = owner[records[i].source]

(* remember, update and forget select what they change by conditions of     *)
(* their own: what one of them ends was visible to the turn or the curation *)
(* that called it.                                                          *)
Changed(i) == Active(i) /\ records'[i] # records[i]
EndsWhatItSees ==
  [][\A i \in Id :
       (Between /\ merging' = NotMerging /\ Changed(i))
         => \/ \E t \in Task : phase[t] = "running" /\ Visible(TurnContext(t), records[i].place)
            \/ curator # Idle /\ Visible(curator, records[i].place)]_vars

(* No job of the outbox is left behind: what is neither done nor given up    *)
(* is in the curator's hands or will be claimed again, whichever of the three *)
(* places that count attempts wrote it.                                       *)
JobsServed ==
  \A t \in Task :
    /\ job[t].status = "processing" => curator.task = t
    /\ job[t].status \in {"pending", "retry_wait"} => job[t].attempt < CurationAttempts
=============================================================================
