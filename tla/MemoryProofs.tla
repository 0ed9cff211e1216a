----------------------------- MODULE MemoryProofs -----------------------------
(***************************************************************************)
(* Theorems about Memory, for any number of people, conversations, tasks,  *)
(* records and crashes.                                                    *)
(*                                                                         *)
(* The argument: whoever writes does so for the person that owns the task, *)
(* or for one whom the foreign key refuses (ContextFits); a merge moves a  *)
(* record next to the other person's only after its loop has removed what  *)
(* conflicts with it (MergedClear); and a record never leaves its task, so *)
(* that SourceOwns gives two records of one task that meet after a merge   *)
(* the place they shared before it.  The lemmas are one for each statement *)
(* of the code that writes records, then one for each action.              *)
(***************************************************************************)
EXTENDS Memory, TLAPS

(* A turn and the curator work for the person their task has, or for one that *)
(* has been merged away and can write nothing more.                            *)
ContextFits ==
  /\ \A t \in Task : phase[t] = "running" =>
       /\ context[t] \in Principal
       /\ context[t] \in principals => context[t] = owner[t]
  /\ curator # Idle =>
       /\ curator.task \in Task
       /\ curator.principal \in Principal
       /\ curator.principal \in principals => curator.principal = owner[curator.task]
       /\ phase[curator.task] = "succeeded"

(* A task has no job before its turn has succeeded.                            *)
JobsFollow ==
  \A t \in Task : phase[t] # "succeeded" => job[t] = [status |-> "none", attempt |-> 0]

(* The records a merge has passed have no conflict left with the other person. *)
MergedClear ==
  ~Between =>
    /\ merging.from \in principals
    /\ merging.to \in principals
    /\ merging.from # merging.to
    /\ merging.next > 0
    /\ \A i \in Id :
         i < merging.next /\ Active(i) /\ records[i].place.owner = merging.from
           => Conflicts(i) = {}

IInv ==
  /\ TypeOK
  /\ OneActive
  /\ OncePerTask
  /\ IndexFollows
  /\ SourceOwns
  /\ JobsServed
  /\ ContextFits
  /\ JobsFollow
  /\ MergedClear

LEMMA NowType ==
  ASSUME TypeOK
  PROVE  Now \in Nat
<1>1. CASE \E i \in Id : Latest(i)
  <2>1. PICK i \in Id : i = CHOOSE j \in Id : Latest(j)
    BY <1>1
  <2> QED BY <1>1, <2>1 DEF Now, TypeOK, Record
<1>2. CASE ~ \E i \in Id : Latest(i)
  BY <1>2 DEF Now
<1> QED BY <1>1, <1>2

LEMMA PlaceType ==
  ASSUME NEW t \in Task, NEW p \in Principal, NEW target \in {"self", "group", "episode"}
  PROVE  LET c == [task |-> t, principal |-> p] IN
         /\ PlaceOf(c, target) \in Place
         /\ PlaceOf(c, target).owner \in {p, NoOne}
BY MemoryAssumption DEF PlaceOf, IsDirect, Place, Conversation

(* What ending some active records does: nothing else of them changes, and    *)
(* they leave the index.                                                       *)
LEMMA EndingKeeps ==
  ASSUME IInv, NEW gone \in SUBSET Id, NEW ended \in {"superseded", "forgotten"},
         \A i \in gone : Active(i),
         records' = [i \in Id |-> IF i \in gone THEN Ended(i, ended) ELSE records[i]],
         fts' = Without(gone), UNCHANGED owner
  PROVE  /\ records' \in [Id -> Record] /\ fts' \subseteq Id \X Value
         /\ OneActive' /\ OncePerTask' /\ IndexFollows' /\ SourceOwns'
<1> USE DEF IInv
<1>1. records' \in [Id -> Record]
  <2>1. \A i \in Id : records[i] \in Record
    BY DEF TypeOK
  <2>2. \A i \in Id : Ended(i, ended) \in Record
    BY <2>1 DEF Record, Ended
  <2> QED BY <2>1, <2>2
<1>2. \A i \in Id : /\ records'[i].place = records[i].place
                    /\ records'[i].key = records[i].key
                    /\ records'[i].value = records[i].value
                    /\ records'[i].source = records[i].source
                    /\ Active(i)' <=> Active(i) /\ i \notin gone
                    /\ Used(i)' <=> Used(i)
  BY ZenonT(30) DEF TypeOK, Record, Ended, Active, Used
<1>3. OneActive' /\ OncePerTask' /\ SourceOwns'
  BY <1>2 DEF OneActive, OncePerTask, SourceOwns
<1>4. IndexFollows'
  <2>1. fts' = {<<i, records[i].value>> : i \in {j \in Id : Active(j) /\ j \notin gone}}
    BY DEF IndexFollows, Without
  <2> QED BY <1>2, <2>1 DEF IndexFollows
<1>5. fts' \subseteq Id \X Value
  BY DEF TypeOK, Without
<1> QED BY <1>1, <1>3, <1>4, <1>5

LEMMA RememberKeeps ==
  ASSUME IInv, NEW t \in Task, NEW p \in Principal, p \in principals => p = owner[t],
         NEW target \in {"self", "group", "episode"},
         NEW key \in Key \cup {NoKey}, NEW value \in Value,
         Remember([task |-> t, principal |-> p], target, key, value), UNCHANGED owner
  PROVE  /\ records' \in [Id -> Record] /\ fts' \subseteq Id \X Value
         /\ OneActive' /\ OncePerTask' /\ IndexFollows' /\ SourceOwns'
<1> DEFINE c == [task |-> t, principal |-> p]
           place == PlaceOf(c, target)
           old == SameFact(place, key) \ Duplicate(place, value)
           settled == [i \in Id |-> IF i \in old THEN Ended(i, "superseded") ELSE records[i]]
<1>1. place \in Place /\ place.owner \in {p, NoOne}
  BY PlaceType
<1>2. old \subseteq Id /\ \A i \in old : Active(i)
  BY DEF SameFact
<1>3. CASE Duplicate(place, value) # {} /\ records' = settled /\ fts' = Without(old)
  <2> HIDE DEF old
  <2> QED BY <1>2, <1>3, EndingKeeps
<1>4. ASSUME NEW i \in Id, ~Used(i), Duplicate(place, value) = {}, Insertable(place),
             Sourced(c, place, key) = {},
             records' = [settled EXCEPT ![i] =
               [place |-> place, key |-> key, value |-> value, source |-> t,
                status |-> "active", time |-> Now]],
             fts' = Without(old) \cup {<<i, value>>}
      PROVE  /\ records' \in [Id -> Record] /\ fts' \subseteq Id \X Value
             /\ OneActive' /\ OncePerTask' /\ IndexFollows' /\ SourceOwns'
  <2> USE DEF IInv
  <2>1. i \notin old
    BY <1>2, <1>4 DEF Active, Used
  <2>2. \A j \in Id : j # i =>
          records'[j] = IF j \in old THEN Ended(j, "superseded") ELSE records[j]
    BY <1>4
  <2>3. records'[i] = [place |-> place, key |-> key, value |-> value, source |-> t,
                       status |-> "active", time |-> Now]
    BY <1>4
  <2>4. \A j \in Id : j # i => /\ records'[j].place = records[j].place
                               /\ records'[j].key = records[j].key
                               /\ records'[j].value = records[j].value
                               /\ records'[j].source = records[j].source
                               /\ Active(j)' <=> Active(j) /\ j \notin old
                               /\ Used(j)' <=> Used(j)
    <3> HIDE DEF old
    <3> QED BY ZenonT(30), <1>2, <2>2 DEF TypeOK, Record, Ended, Active, Used
  <2>5. records' \in [Id -> Record]
    <3>1. records'[i] \in Record
      <4> HIDE DEF place
      <4> QED BY <1>1, <2>3, NowType DEF Record
    <3>2. \A j \in Id : records[j] \in Record
      BY DEF TypeOK
    <3>3. \A j \in Id : Ended(j, "superseded") \in Record
      BY <3>2 DEF Record, Ended
    <3>4. DOMAIN records' = Id /\ records' = [j \in Id |-> records'[j]]
      BY <1>4
    <3> HIDE DEF old
    <3> QED BY <2>2, <3>1, <3>2, <3>3, <3>4
  <2>6. Active(i)' /\ Used(i)'
    BY <2>3 DEF Active, Used
  <2> HIDE DEF place
  <2>7. OneActive'
    <3> SUFFICES ASSUME NEW j \in Id, j # i, Active(j)', records'[j].place = place
                 PROVE  /\ records'[j].value # value
                        /\ key = NoKey \/ records'[j].key # key
      BY <2>3, <2>4 DEF OneActive
    <3>1. Active(j) /\ j \notin old /\ records[j].place = place
      BY <2>4
    <3>2. records[j].value # value
      BY <1>4, <3>1 DEF Duplicate
    <3>3. key = NoKey \/ records[j].key # key
      BY <1>4, <3>1 DEF SameFact
    <3> QED BY <2>4, <3>2, <3>3
  <2>8. OncePerTask'
    <3> SUFFICES ASSUME NEW j \in Id, j # i, Used(j)', records'[j].source = t,
                        records'[j].place = place, key # NoKey
                 PROVE  records'[j].key # key
      BY <2>3, <2>4 DEF OncePerTask
    <3> QED BY <1>4, <2>4 DEF Sourced
  <2>9. SourceOwns'
    <3>1. place.owner # NoOne => place.owner = owner[t]
      BY <1>1, <1>4 DEF Insertable
    <3> QED BY <2>3, <2>4, <3>1 DEF SourceOwns
  <2>10. IndexFollows'
    <3>1. fts' = {<<j, records[j].value>> : j \in {k \in Id : Active(k) /\ k \notin old}}
                   \cup {<<i, value>>}
      BY <1>4 DEF IndexFollows, Without
    <3>2. ~Active(i)
      BY <1>4 DEF Active, Used
    <3> HIDE DEF old
    <3>3. {j \in Id : Active(j)'} = {k \in Id : Active(k) /\ k \notin old} \cup {i}
      BY <2>4, <2>6
    <3> QED BY <2>3, <2>4, <3>1, <3>2, <3>3 DEF IndexFollows
  <2>11. fts' \subseteq Id \X Value
    BY <1>4 DEF TypeOK, Without
  <2> QED BY <2>5, <2>7, <2>8, <2>9, <2>10, <2>11
<1> HIDE DEF settled, old, place
<1> QED BY <1>3, <1>4 DEF Remember, settled, old, place

LEMMA UpdateKeeps ==
  ASSUME IInv, NEW c, NEW i \in Id, NEW value \in Value, Update(c, i, value),
         UNCHANGED owner
  PROVE  /\ records' \in [Id -> Record] /\ fts' \subseteq Id \X Value
         /\ OneActive' /\ OncePerTask' /\ IndexFollows' /\ SourceOwns'
<1> USE DEF IInv
<1>1. /\ Active(i)
      /\ Duplicate(records[i].place, value) \subseteq {i}
      /\ records' = [records EXCEPT ![i].value = value, ![i].time = Now]
      /\ fts' = Without({i}) \cup {<<i, value>>}
  BY DEF Update
<1>2. records' \in [Id -> Record]
  <2>1. records[i] \in Record
    BY DEF TypeOK
  <2>2. [records[i] EXCEPT !.value = value, !.time = Now] \in Record
    BY <2>1, NowType DEF Record
  <2> QED BY <1>1, <2>2 DEF TypeOK
<1>3. \A j \in Id : /\ records'[j].place = records[j].place
                    /\ records'[j].key = records[j].key
                    /\ records'[j].value = IF j = i THEN value ELSE records[j].value
                    /\ records'[j].source = records[j].source
                    /\ Active(j)' <=> Active(j)
                    /\ Used(j)' <=> Used(j)
  BY <1>1 DEF TypeOK, Record, Active, Used
<1>4. OneActive'
  <2>1. \A j \in Id : Active(j) /\ j # i /\ records[j].place = records[i].place
                       => records[j].value # value
    BY <1>1 DEF Duplicate
  <2> SUFFICES ASSUME NEW j \in Id, NEW k \in Id, j # k, Active(j), Active(k),
                      records[j].place = records[k].place
               PROVE  /\ records'[j].value # records'[k].value
                      /\ records[j].key = NoKey \/ records[j].key # records[k].key
    BY <1>3 DEF OneActive
  <2>2. /\ records[j].value # records[k].value
        /\ records[j].key = NoKey \/ records[j].key # records[k].key
    BY DEF OneActive
  <2> QED BY <1>3, <2>1, <2>2
<1>5. OncePerTask' /\ SourceOwns'
  BY <1>3 DEF OncePerTask, SourceOwns
<1>6. IndexFollows'
  <2>1. fts' = {<<j, records[j].value>> : j \in {k \in Id : Active(k) /\ k # i}}
                 \cup {<<i, value>>}
    <3>1. fts' = {e \in fts : e[1] # i} \cup {<<i, value>>}
      BY <1>1 DEF Without
    <3> QED BY <3>1 DEF IndexFollows
  <2>2. {k \in Id : Active(k)'} = {k \in Id : Active(k) /\ k # i} \cup {i}
    BY <1>1, <1>3
  <2> QED BY <1>3, <2>1, <2>2 DEF IndexFollows
<1>7. fts' \subseteq Id \X Value
  BY <1>1 DEF TypeOK, Without
<1> QED BY <1>2, <1>4, <1>5, <1>6, <1>7

LEMMA ForgetKeeps ==
  ASSUME IInv, NEW c, NEW i \in Id, Forget(c, i), UNCHANGED owner
  PROVE  /\ records' \in [Id -> Record] /\ fts' \subseteq Id \X Value
         /\ OneActive' /\ OncePerTask' /\ IndexFollows' /\ SourceOwns'
<1>1. /\ Active(i)
      /\ records' = [j \in Id |-> IF j \in {i} THEN Ended(j, "forgotten") ELSE records[j]]
      /\ fts' = Without({i})
  BY DEF Forget, IInv, TypeOK
<1> QED BY <1>1, EndingKeeps

LEMMA MergeRecordKeeps ==
  ASSUME IInv, MergeRecord
  PROVE  IInv'
<1> USE DEF IInv
<1>0. PICK i \in Id : i = merging.next
  BY DEF MergeRecord
<1> DEFINE gone == IF Active(i) /\ records[i].place.owner = merging.from THEN Obsolete(i) ELSE {}
<1>1. /\ ~Between
      /\ records' = [j \in Id |-> IF j \in gone THEN Ended(j, "superseded") ELSE records[j]]
      /\ fts' = Without(gone)
      /\ merging' = [merging EXCEPT !.next = i + 1]
      /\ UNCHANGED <<principals, taskVars, job, curator, crashes>>
  BY <1>0 DEF MergeRecord
<1>2. gone \subseteq Id /\ \A j \in gone : Active(j)
  BY <1>1 DEF Obsolete, Conflicts
<1>3. /\ merging'.from = merging.from
      /\ merging'.to = merging.to
      /\ merging'.next = i + 1
      /\ i \in Nat
  BY <1>0, <1>1 DEF TypeOK
<1>4. /\ records' \in [Id -> Record] /\ fts' \subseteq Id \X Value
      /\ OneActive' /\ OncePerTask' /\ IndexFollows' /\ SourceOwns'
  <2> HIDE DEF gone
  <2> QED BY <1>1, <1>2, EndingKeeps DEF taskVars
<1>5. TypeOK' /\ JobsServed' /\ ContextFits' /\ JobsFollow'
  BY <1>1, <1>3, <1>4 DEF TypeOK, JobsServed, ContextFits, JobsFollow, taskVars
<1>6. MergedClear'
  <2>1. \A j \in Id : /\ records'[j].place = records[j].place
                      /\ records'[j].key = records[j].key
                      /\ records'[j].value = records[j].value
                      /\ Active(j)' <=> Active(j) /\ j \notin gone
    <3> HIDE DEF gone
    <3> QED BY ZenonT(30), <1>1, <1>2 DEF TypeOK, Record, Ended, Active
  <2>2. ASSUME NEW j \in Id, j < i + 1, Active(j)', records'[j].place.owner = merging.from
        PROVE  Conflicts(j)' = {}
    <3>1. Active(j) /\ j \notin gone /\ records[j].place.owner = merging.from
      BY <2>1, <2>2
    <3>2. Conflicts(j)' \subseteq Conflicts(j) \ gone
      <4> HIDE DEF gone
      <4> QED BY <1>3, <2>1 DEF Conflicts
    <3>3. CASE j < i
      BY <1>0, <1>1, <3>1, <3>2, <3>3 DEF MergedClear
    <3>4. CASE j = i
      <4>1. gone = Obsolete(i) /\ i \notin Obsolete(i)
        BY <3>1, <3>4
      <4>2. gone = Conflicts(i)
        BY <4>1 DEF Obsolete
      <4>3. Conflicts(i) \ gone = {}
        BY <4>2
      <4>4. Conflicts(i)' = {}
        BY <3>2, <3>4, <4>3
      <4> QED BY <3>4, <4>4
    <3> QED BY <1>3, <2>2, <3>3, <3>4
  <2> QED BY <1>1, <1>3, <2>2 DEF MergedClear
<1> QED BY <1>4, <1>5, <1>6

LEMMA MovedPlace ==
  ASSUME NEW place \in Place, NEW to \in Principal
  PROVE  LET m == [place EXCEPT !.owner = to] IN
         /\ m \in Place /\ m.owner = to
         /\ m.scope = place.scope /\ m.where = place.where
BY DEF Place

LEMMA SamePlace ==
  ASSUME NEW p \in Place, NEW q \in Place,
         p.scope = q.scope, p.owner = q.owner, p.where = q.where
  PROVE  p = q
BY DEF Place

LEMMA MovedRecord ==
  ASSUME TypeOK, NEW i \in Id, NEW to \in Principal
  PROVE  /\ MovedTo(to, i) \in Record
         /\ MovedTo(to, i).place = [records[i].place EXCEPT !.owner = to]
         /\ MovedTo(to, i).key = records[i].key
         /\ MovedTo(to, i).value = records[i].value
         /\ MovedTo(to, i).source = records[i].source
         /\ MovedTo(to, i).status = records[i].status
<1> DEFINE place == [records[i].place EXCEPT !.owner = to]
           time == IF Active(i) THEN Now ELSE 0
<1>1. records[i] \in Record /\ records[i].place \in Place
  BY DEF TypeOK, Record
<1>2. place \in Place /\ time \in Nat
  BY <1>1, MovedPlace, NowType
<1>3. MovedTo(to, i) = [records[i] EXCEPT !.place = place, !.time = time]
  BY <1>1 DEF MovedTo, Record
<1> HIDE DEF place, time
<1>4. /\ MovedTo(to, i) \in Record
      /\ MovedTo(to, i).place = place
      /\ MovedTo(to, i).key = records[i].key
      /\ MovedTo(to, i).value = records[i].value
      /\ MovedTo(to, i).source = records[i].source
      /\ MovedTo(to, i).status = records[i].status
  BY <1>1, <1>2, <1>3 DEF Record
<1> QED BY <1>4 DEF place

LEMMA EndMergeKeeps ==
  ASSUME IInv, EndMerge
  PROVE  IInv'
<1> USE DEF IInv
<1> DEFINE from == merging.from
           to == merging.to
<1>1. /\ from \in principals /\ to \in principals /\ from # to
      /\ from # NoOne /\ to \in Principal
      /\ merging' = NotMerging
      /\ principals' = principals \ {from}
      /\ \A t \in Task : owner'[t] = IF owner[t] = from THEN to ELSE owner[t]
      /\ UNCHANGED <<fts, phase, context, job, curator, crashes>>
  BY MemoryAssumption DEF EndMerge, MergedClear, TypeOK
<1>2. \A i \in Id : records[i] \in Record /\ records[i].place \in Place
                   /\ records[i].source \in Task
  BY DEF TypeOK, Record
<1>3. \A i \in Id :
        /\ records'[i] \in Record
        /\ records'[i].place = IF records[i].place.owner = from
                               THEN [records[i].place EXCEPT !.owner = to]
                               ELSE records[i].place
        /\ records'[i].key = records[i].key
        /\ records'[i].value = records[i].value
        /\ records'[i].source = records[i].source
        /\ records'[i].status = records[i].status
  <2> TAKE i \in Id
  <2>1. CASE records[i].place.owner = from
    <3>1. records'[i] = MovedTo(to, i)
      BY <2>1 DEF EndMerge
    <3>2. PICK p \in Principal : p = to
      BY <1>1
    <3> HIDE DEF from, to
    <3> QED BY <2>1, <3>1, <3>2, MovedRecord
  <2>2. CASE records[i].place.owner # from
    BY <1>2, <2>2 DEF EndMerge
  <2> QED BY <2>1, <2>2
<1>4. \A i \in Id : /\ records'[i].place \in Place
                    /\ records'[i].place.owner = IF records[i].place.owner = from
                                                THEN to ELSE records[i].place.owner
                    /\ records'[i].place.scope = records[i].place.scope
                    /\ records'[i].place.where = records[i].place.where
                    /\ records'[i].key = records[i].key
                    /\ records'[i].value = records[i].value
                    /\ records'[i].source = records[i].source
                    /\ Active(i)' <=> Active(i)
                    /\ Used(i)' <=> Used(i)
  <2> TAKE i \in Id
  <2>1. records'[i].status = records[i].status
    BY <1>3
  <2>2. Active(i)' <=> Active(i)
    BY <2>1 DEF Active
  <2>3. Used(i)' <=> Used(i)
    <3>1. (records'[i].status # "unused") <=> (records[i].status # "unused")
      BY <2>1
    <3> QED BY <3>1 DEF Used
  <2>4. /\ records'[i].place \in Place
        /\ records'[i].place.owner = IF records[i].place.owner = from
                                     THEN to ELSE records[i].place.owner
        /\ records'[i].place.scope = records[i].place.scope
        /\ records'[i].place.where = records[i].place.where
    <3>1. PICK p \in Principal : p = to
      BY <1>1
    <3>2. PICK place \in Place : place = records[i].place
      BY <1>2
    <3>3. /\ [place EXCEPT !.owner = p] \in Place
          /\ [place EXCEPT !.owner = p].owner = p
          /\ [place EXCEPT !.owner = p].scope = place.scope
          /\ [place EXCEPT !.owner = p].where = place.where
      BY MovedPlace
    <3>4. records'[i].place = IF place.owner = from THEN [place EXCEPT !.owner = p] ELSE place
      BY <1>3, <3>1, <3>2
    <3> HIDE DEF from, to, IInv
    <3> QED BY <3>1, <3>2, <3>3, <3>4
  <2> QED BY <1>3, <2>2, <2>3, <2>4
<1>5. ASSUME NEW i \in Id, NEW j \in Id, Active(i), Active(j),
             records[i].place.owner = from, records[j].place.owner # from,
             records'[i].place = records'[j].place
      PROVE  /\ records[i].value # records[j].value
             /\ records[i].key = NoKey \/ records[i].key # records[j].key
  <2>1. merging.next \in Nat /\ merging.next \notin Id /\ merging.next > 0 /\ ~Between
    BY DEF EndMerge, MergedClear, TypeOK
  <2>2. i < merging.next
    BY <2>1, MemoryAssumption DEF Id
  <2>3. Conflicts(i) = {}
    BY <1>5, <2>1, <2>2 DEF MergedClear
  <2>4. records[j].place = [records[i].place EXCEPT !.owner = merging.to]
    BY <1>3, <1>5
  <2> QED BY <1>5, <2>3, <2>4 DEF Conflicts
<1>13. TypeOK'
  <2>1. records' \in [Id -> Record]
    <3>1. records' = [i \in Id |-> records'[i]]
      BY DEF EndMerge
    <3> QED BY <1>3, <3>1
  <2>2. owner' \in [Task -> Principal]
    BY <1>1 DEF EndMerge, TypeOK
  <2>3. merging' \in [from: Principal \cup {NoOne}, to: Principal \cup {NoOne}, next: Nat]
    BY <1>1 DEF NotMerging
  <2> QED BY <1>1, <2>1, <2>2, <2>3 DEF TypeOK
<1>6. OneActive'
  <2> SUFFICES ASSUME NEW i \in Id, NEW j \in Id, i # j, Active(i), Active(j),
                      records'[i].place = records'[j].place
               PROVE  /\ records[i].value # records[j].value
                      /\ records[i].key = NoKey \/ records[i].key # records[j].key
    BY <1>4 DEF OneActive
  <2>1. CASE records[i].place.owner = from /\ records[j].place.owner # from
    BY <1>5, <2>1
  <2>2. CASE records[j].place.owner = from /\ records[i].place.owner # from
    BY <1>5, <2>2
  <2>3. CASE records[i].place.owner = records[j].place.owner
    <3>1. records[i].place = records[j].place
      BY <1>2, <1>4, <2>3, SamePlace
    <3> QED BY <3>1 DEF OneActive
  <2> QED BY <1>4, <2>1, <2>2, <2>3
<1>7. SourceOwns'
  BY <1>1, <1>2, <1>4 DEF SourceOwns
<1>8. OncePerTask'
  <2> SUFFICES ASSUME NEW i \in Id, NEW j \in Id, i # j, Used(i), Used(j),
                      records[i].source = records[j].source,
                      records'[i].place = records'[j].place, records[i].key # NoKey
               PROVE  records[i].key # records[j].key
    BY <1>4 DEF OncePerTask
  <2>1. (records[i].place.owner = NoOne) <=> (records[j].place.owner = NoOne)
    BY <1>1, <1>4, MemoryAssumption
  <2>2. records[i].place.owner = records[j].place.owner
    BY <2>1 DEF SourceOwns
  <2>3. records[i].place = records[j].place
    BY <1>2, <1>4, <2>2, SamePlace
  <2> QED BY <2>3 DEF OncePerTask
<1>9. IndexFollows'
  BY <1>1, <1>4 DEF IndexFollows
<1>10. JobsServed'
  BY <1>1 DEF JobsServed
<1>11. ContextFits' /\ JobsFollow'
  BY <1>1 DEF ContextFits, JobsFollow, TypeOK
<1>12. MergedClear'
  BY <1>1 DEF MergedClear, Between
<1> QED BY <1>13, <1>6, <1>7, <1>8, <1>9, <1>10, <1>11, <1>12

(* The four things Remember, Update and Forget keep, and all that is left     *)
(* of IInv when only the records change.                                      *)
LEMMA RecordsKeep ==
  ASSUME IInv, Between,
         UNCHANGED <<principals, taskVars, job, curator, merging, crashes>>,
         records' \in [Id -> Record], fts' \subseteq Id \X Value,
         OneActive', OncePerTask', IndexFollows', SourceOwns'
  PROVE  IInv'
<1> USE DEF IInv
<1>1. TypeOK'
  BY DEF TypeOK, taskVars
<1>2. JobsServed' /\ ContextFits' /\ JobsFollow'
  BY DEF JobsServed, ContextFits, JobsFollow, taskVars
<1>3. MergedClear'
  BY DEF MergedClear, Between
<1> QED BY <1>1, <1>2, <1>3

(* The same when no record and no owner changes.                              *)
LEMMA TasksKeep ==
  ASSUME IInv, Between, UNCHANGED <<recordVars, principals, owner, merging>>,
         phase' \in [Task -> {"queued", "running", "succeeded", "failed"}],
         context' \in [Task -> Principal \cup {NoOne}],
         job' \in [Task -> Job],
         curator' \in [task: Task \cup {0}, principal: Principal \cup {NoOne}],
         crashes' \in Nat,
         JobsServed', ContextFits', JobsFollow'
  PROVE  IInv'
<1> USE DEF IInv
<1>1. TypeOK'
  BY DEF TypeOK, recordVars
<1>2. OneActive' /\ OncePerTask' /\ IndexFollows' /\ SourceOwns'
  BY DEF OneActive, OncePerTask, IndexFollows, SourceOwns, Active, Used, recordVars
<1>3. MergedClear'
  BY DEF MergedClear, Between
<1> QED BY <1>1, <1>2, <1>3

LEMMA TurnRecordsKeep ==
  ASSUME IInv, NEW t \in Task, TurnRemembers(t) \/ TurnUpdates(t) \/ TurnForgets(t)
  PROVE  IInv'
<1> USE DEF IInv
<1>1. Between /\ phase[t] = "running"
      /\ UNCHANGED <<principals, taskVars, job, curator, merging, crashes>>
  BY DEF TurnRemembers, TurnUpdates, TurnForgets
<1>2. context[t] \in Principal /\ (context[t] \in principals => context[t] = owner[t])
  BY <1>1 DEF ContextFits
<1>3. UNCHANGED owner
  BY <1>1 DEF taskVars
<1>4. CASE TurnRemembers(t)
  <2>1. PICK target \in Targets(TurnContext(t)), key \in Key \cup {NoKey}, value \in Value :
          Remember([task |-> t, principal |-> context[t]], target, key, value)
    BY <1>4 DEF TurnRemembers, TurnContext
  <2>2. target \in {"self", "group", "episode"}
    BY <2>1 DEF Targets
  <2>3. PICK p \in Principal : p = context[t]
    BY <1>2
  <2>4. Remember([task |-> t, principal |-> p], target, key, value)
    BY <2>1, <2>3
  <2>5. p \in principals => p = owner[t]
    BY <1>2, <2>3
  <2>6. /\ records' \in [Id -> Record] /\ fts' \subseteq Id \X Value
        /\ OneActive' /\ OncePerTask' /\ IndexFollows' /\ SourceOwns'
    BY <1>3, <2>2, <2>4, <2>5, RememberKeeps
  <2> QED BY <1>1, <2>6, RecordsKeep
<1>5. CASE TurnUpdates(t)
  <2>1. PICK i \in Id, value \in Value : Update(TurnContext(t), i, value)
    BY <1>5 DEF TurnUpdates
  <2> QED BY <1>1, <1>3, <2>1, UpdateKeeps, RecordsKeep
<1>6. CASE TurnForgets(t)
  <2>1. PICK i \in Id : Forget(TurnContext(t), i)
    BY <1>6 DEF TurnForgets
  <2> QED BY <1>1, <1>3, <2>1, ForgetKeeps, RecordsKeep
<1> QED BY <1>4, <1>5, <1>6

LEMMA CuratorRemembersKeeps ==
  ASSUME IInv, CuratorRemembers
  PROVE  IInv'
<1> USE DEF IInv
<1>1. Between /\ curator # Idle
      /\ UNCHANGED <<principals, taskVars, job, curator, merging, crashes>>
  BY DEF CuratorRemembers
<1>2. PICK t \in Task, p \in Principal : t = curator.task /\ p = curator.principal
  BY <1>1 DEF ContextFits
<1>3. curator = [task |-> t, principal |-> p] /\ (p \in principals => p = owner[t])
  BY <1>1, <1>2 DEF TypeOK, ContextFits
<1>4. PICK target \in Targets(curator), key \in Key \cup {NoKey}, value \in Value :
        Remember(curator, target, key, value)
  BY DEF CuratorRemembers
<1>5. target \in {"self", "group", "episode"}
  BY <1>4 DEF Targets
<1>6. Remember([task |-> t, principal |-> p], target, key, value)
  BY <1>3, <1>4
<1>7. UNCHANGED owner
  BY <1>1 DEF taskVars
<1>8. /\ records' \in [Id -> Record] /\ fts' \subseteq Id \X Value
      /\ OneActive' /\ OncePerTask' /\ IndexFollows' /\ SourceOwns'
  BY <1>3, <1>5, <1>6, <1>7, RememberKeeps
<1> QED BY <1>1, <1>8, RecordsKeep

LEMMA TurnKeeps ==
  ASSUME IInv, NEW t \in Task, BeginTurn(t) \/ TurnSucceeds(t) \/ TurnFails(t)
  PROVE  IInv'
<1> USE DEF IInv
<1>1. /\ Between
      /\ UNCHANGED <<recordVars, principals, owner, curator, merging, crashes>>
      /\ \A s \in Task : s # t => phase'[s] = phase[s] /\ context'[s] = context[s]
      /\ phase' \in [Task -> {"queued", "running", "succeeded", "failed"}]
      /\ context' \in [Task -> Principal \cup {NoOne}]
  BY DEF BeginTurn, TurnSucceeds, TurnFails, TypeOK
<1>2. phase'[t] = "running" => context'[t] = owner[t]
  BY DEF BeginTurn, TurnSucceeds, TurnFails, TypeOK
<1>3. ContextFits'
  <2>1. owner[t] \in Principal /\ phase[t] # "succeeded"
    BY DEF TypeOK, BeginTurn, TurnSucceeds, TurnFails
  <2> QED BY <1>1, <1>2, <2>1 DEF ContextFits
<1>4. job' \in [Task -> Job] /\ JobsServed' /\ JobsFollow'
  <2>1. CASE BeginTurn(t) \/ TurnFails(t)
    BY <2>1 DEF BeginTurn, TurnFails, TypeOK, JobsServed, JobsFollow
  <2>2. CASE TurnSucceeds(t)
    <3>1. PICK status \in {"pending", "none"} :
            job' = [job EXCEPT ![t].status = status] /\ UNCHANGED curator
      BY <2>2 DEF TurnSucceeds
    <3>2. job[t].attempt = 0 /\ phase' = [phase EXCEPT ![t] = "succeeded"]
      BY <2>2 DEF TurnSucceeds, JobsFollow
    <3>3. job' \in [Task -> Job] /\ JobsServed'
      BY <3>1, <3>2 DEF JobsServed, TypeOK, Job, CurationAttempts
    <3>4. JobsFollow'
      BY <3>1, <3>2 DEF JobsFollow, TypeOK
    <3> QED BY <3>3, <3>4
  <2> QED BY <2>1, <2>2
<1> QED BY <1>1, <1>3, <1>4, TasksKeep DEF TypeOK

LEMMA CurationKeeps ==
  ASSUME IInv, (\E t \in Task : BeginCuration(t)) \/ CurationEnds
  PROVE  IInv'
<1> USE DEF IInv
<1>1. /\ Between
      /\ UNCHANGED <<recordVars, principals, taskVars, merging, crashes>>
  BY DEF BeginCuration, CurationEnds, CurationSucceeds, CurationFails
<1>2. /\ job' \in [Task -> Job] /\ JobsServed' /\ ContextFits' /\ JobsFollow'
      /\ curator' \in [task: Task \cup {0}, principal: Principal \cup {NoOne}]
  <2>1. ASSUME NEW t \in Task, BeginCuration(t)
        PROVE  <1>2!:
    <3>1. owner[t] \in Principal /\ t # 0
      BY MemoryAssumption DEF TypeOK, Task
    <3>2. \A s \in Task : job[s].status # "processing"
      BY <2>1, MemoryAssumption DEF BeginCuration, JobsServed, Idle, Task
    <3>3. job' = [job EXCEPT ![t] = [status |-> "processing", attempt |-> job[t].attempt + 1]]
          /\ curator' = [task |-> t, principal |-> owner[t]]
      BY <2>1 DEF BeginCuration
    <3>4. job' \in [Task -> Job]
      BY <3>3 DEF TypeOK, Job
    <3>5. JobsServed'
      BY <3>2, <3>3 DEF JobsServed, TypeOK
    <3>6. phase[t] = "succeeded" /\ UNCHANGED phase
      BY <1>1, <2>1 DEF BeginCuration, JobsFollow, TypeOK, taskVars
    <3>7. ContextFits' /\ JobsFollow'
      BY <1>1, <3>1, <3>3, <3>6 DEF ContextFits, JobsFollow, taskVars, TypeOK
    <3> QED BY <3>1, <3>3, <3>4, <3>5, <3>7
  <2>2. ASSUME CurationEnds
        PROVE  <1>2!:
    <3>1. PICK t \in Task : t = curator.task
      BY <2>2 DEF CurationEnds, CurationSucceeds, CurationFails, ContextFits
    <3>2. PICK status \in {"succeeded", "dead_letter", "retry_wait"} :
            /\ job' = [job EXCEPT ![t].status = status]
            /\ status = "retry_wait" => job[t].attempt < CurationAttempts
      BY <2>2, <3>1
      DEF CurationEnds, CurationSucceeds, CurationFails, AfterFailure, TypeOK, Job,
          CurationAttempts
    <3>3. curator' = Idle
      BY <2>2 DEF CurationEnds, CurationSucceeds, CurationFails
    <3>4. job' \in [Task -> Job]
      BY <3>2 DEF TypeOK, Job
    <3>5. JobsServed'
      BY <3>1, <3>2 DEF JobsServed, TypeOK
    <3>6. ContextFits' /\ JobsFollow'
      <4>1. phase[t] = "succeeded" /\ UNCHANGED phase
        BY <1>1, <2>2, <3>1
        DEF CurationEnds, CurationSucceeds, CurationFails, ContextFits, taskVars
      <4> QED BY <1>1, <3>2, <3>3, <4>1 DEF ContextFits, JobsFollow, taskVars, TypeOK
    <3> QED BY <3>3, <3>4, <3>5, <3>6 DEF Idle
  <2> QED BY <2>1, <2>2
<1> QED BY <1>1, <1>2, TasksKeep DEF TypeOK, taskVars

LEMMA CrashKeeps ==
  ASSUME IInv, Crash
  PROVE  IInv'
<1> USE DEF IInv
<1>1. /\ Between
      /\ UNCHANGED <<recordVars, principals, owner, merging>>
      /\ curator' = Idle
      /\ crashes' \in Nat
      /\ phase' = [t \in Task |-> IF phase[t] = "running" THEN "queued" ELSE phase[t]]
      /\ context' = [t \in Task |-> NoOne]
      /\ job' = [t \in Task |-> Recovered(job[t])]
  BY DEF Crash, TypeOK
<1>2. \A t \in Task :
        /\ Recovered(job[t]) \in Job
        /\ Recovered(job[t]).status # "processing"
        /\ Recovered(job[t]).status \in {"pending", "retry_wait"}
             => Recovered(job[t]).attempt < CurationAttempts
  BY DEF Recovered, JobsServed, TypeOK, Job, CurationAttempts
<1>3. JobsServed' /\ job' \in [Task -> Job]
  BY <1>1, <1>2 DEF JobsServed
<1>4. /\ phase' \in [Task -> {"queued", "running", "succeeded", "failed"}]
      /\ \A t \in Task : phase'[t] # "running"
  BY <1>1 DEF TypeOK
<1>5. ContextFits' /\ JobsFollow'
  BY <1>1, <1>4 DEF ContextFits, JobsFollow, Recovered, TypeOK
<1> QED BY <1>1, <1>3, <1>4, <1>5, TasksKeep DEF Idle

LEMMA BeginMergeKeeps ==
  ASSUME IInv, NEW from \in Principal, NEW to \in Principal, BeginMerge(from, to)
  PROVE  IInv'
<1> USE DEF IInv
<1>1. /\ {from, to} \subseteq principals /\ from # to
      /\ merging' = [from |-> from, to |-> to, next |-> 1]
      /\ UNCHANGED <<recordVars, principals, taskVars, job, curator, crashes>>
  BY DEF BeginMerge
<1>2. TypeOK' /\ OneActive' /\ OncePerTask' /\ IndexFollows' /\ SourceOwns'
      /\ JobsServed' /\ ContextFits' /\ JobsFollow'
  BY <1>1 DEF TypeOK, OneActive, OncePerTask, IndexFollows, SourceOwns, JobsServed,
              ContextFits, JobsFollow, Active, Used, recordVars, taskVars
<1>3. MergedClear'
  BY <1>1, MemoryAssumption DEF MergedClear, Id
<1> QED BY <1>2, <1>3

LEMMA InitInv ==
  ASSUME Init
  PROVE  IInv
<1>1. \A i \in Id : ~Active(i) /\ ~Used(i) /\ Unused \in Record
  BY MemoryAssumption DEF Init, Active, Used, Unused, Record, Place, Task
<1>2. TypeOK
  BY <1>1, MemoryAssumption DEF Init, TypeOK, Job, Idle, NotMerging
<1>3. OneActive /\ OncePerTask /\ SourceOwns
  BY <1>1 DEF OneActive, OncePerTask, SourceOwns
<1>4. IndexFollows
  BY <1>1 DEF Init, IndexFollows
<1>5. JobsServed /\ ContextFits /\ JobsFollow
  BY DEF Init, JobsServed, ContextFits, JobsFollow
<1>6. MergedClear
  BY DEF Init, MergedClear, Between
<1> QED BY <1>2, <1>3, <1>4, <1>5, <1>6 DEF IInv

LEMMA StepKeeps ==
  ASSUME IInv, [Next]_vars
  PROVE  IInv'
<1>1. ASSUME NEW t \in Task, TurnStep(t)
      PROVE  IInv'
  BY <1>1, TurnRecordsKeep, TurnKeeps DEF TurnStep
<1>2. CASE UNCHANGED vars
  BY <1>2
  DEF vars, recordVars, taskVars, IInv, TypeOK, OneActive, OncePerTask, IndexFollows,
      SourceOwns, JobsServed, ContextFits, JobsFollow, MergedClear, Conflicts, Active, Used, Between
<1> QED BY <1>1, <1>2, CuratorRemembersKeeps, CurationKeeps, BeginMergeKeeps,
           MergeRecordKeeps, EndMergeKeeps, CrashKeeps
        DEF Next, Merge

-----------------------------------------------------------------------------
(* The strengthened invariant holds in every state: for any number of people, *)
(* conversations, tasks, records and crashes.                                 *)
THEOREM Inductive == Spec => []IInv
<1> QED BY InitInv, StepKeeps, PTL DEF Spec

(* Every record, task and job has one of the shapes the tables allow.         *)
THEOREM TypeCorrect == Spec => []TypeOK
<1>1. IInv => TypeOK
  BY DEF IInv
<1> QED BY <1>1, Inductive, PTL

(* The unique indices on active records never fail: not in remember, not in   *)
(* update, and not when one person's records become another's.                *)
THEOREM Consistent == Spec => []OneActive
<1>1. IInv => OneActive
  BY DEF IInv
<1> QED BY <1>1, Inductive, PTL

(* A task leaves at most one record of a fact in a place.                     *)
THEOREM Idempotent == Spec => []OncePerTask
<1>1. IInv => OncePerTask
  BY DEF IInv
<1> QED BY <1>1, Inductive, PTL

(* The full text index is what the active records say.                        *)
THEOREM Searchable == Spec => []IndexFollows
<1>1. IInv => IndexFollows
  BY DEF IInv
<1> QED BY <1>1, Inductive, PTL

(* A private record belongs to whom its task belongs to, across a binding.    *)
THEOREM Owned == Spec => []SourceOwns
<1>1. IInv => SourceOwns
  BY DEF IInv
<1> QED BY <1>1, Inductive, PTL

(* No curation job is left processing without a curator, or waiting for an    *)
(* attempt it does not have.                                                  *)
THEOREM NoJobStranded == Spec => []JobsServed
<1>1. IInv => JobsServed
  BY DEF IInv
<1> QED BY <1>1, Inductive, PTL

LEMMA ManagedIsVisible ==
  ASSUME NEW c, NEW place \in Place, CanManage(c, place)
  PROVE  Visible(c, place)
BY DEF CanManage, Visible, Place

LEMMA TargetIsVisible ==
  ASSUME NEW c, NEW target \in Targets(c)
  PROVE  Visible(c, PlaceOf(c, target))
BY DEF Targets, PlaceOf, Visible

LEMMA RememberEndsVisible ==
  ASSUME TypeOK, NEW c, NEW target \in Targets(c), NEW key, NEW value,
         Remember(c, target, key, value), NEW i \in Id, Changed(i)
  PROVE  Visible(c, records[i].place)
<1> DEFINE place == PlaceOf(c, target)
           old == SameFact(place, key) \ Duplicate(place, value)
           settled == [j \in Id |-> IF j \in old THEN Ended(j, "superseded") ELSE records[j]]
<1>1. Active(i) /\ records'[i] # records[i]
  BY DEF Changed
<1>2. \A j \in Id : ~Used(j) => j # i
  BY <1>1 DEF Active, Used
<1>3. settled[i] = IF i \in old THEN Ended(i, "superseded") ELSE records[i]
  OBVIOUS
<1>4. records'[i] = settled[i]
  <2>1. CASE records' = settled
    BY <2>1
  <2>2. ASSUME NEW j \in Id, ~Used(j), NEW r, records' = [settled EXCEPT ![j] = r]
        PROVE  records'[i] = settled[i]
    BY <1>2, <2>2
  <2> HIDE DEF settled, old, place
  <2> QED BY <2>1, <2>2 DEF Remember, settled, old, place
<1>5. i \in old
  BY <1>1, <1>3, <1>4
<1>6. records[i].place = place
  BY <1>5 DEF SameFact
<1> QED BY <1>6, TargetIsVisible

(* What a turn or the curator ends was visible to it: remember, update and     *)
(* forget never touch a record its caller cannot search for.                   *)
THEOREM SeenBeforeEnded == Spec => EndsWhatItSees
<1>1. ASSUME IInv, [Next]_vars, NEW i \in Id, Between, merging' = NotMerging, Changed(i)
      PROVE  \/ \E t \in Task : phase[t] = "running" /\ Visible(TurnContext(t), records[i].place)
             \/ curator # Idle /\ Visible(curator, records[i].place)
  <2>1. TypeOK /\ records[i].place \in Place /\ records'[i] # records[i]
    BY <1>1 DEF IInv, TypeOK, Record, Changed
  <2>2. ASSUME NEW t \in Task, TurnRemembers(t) \/ TurnUpdates(t) \/ TurnForgets(t)
        PROVE  phase[t] = "running" /\ Visible(TurnContext(t), records[i].place)
    <3>1. phase[t] = "running"
      BY <2>2 DEF TurnRemembers, TurnUpdates, TurnForgets
    <3>2. CASE TurnRemembers(t)
      BY <1>1, <2>1, <3>2, RememberEndsVisible DEF TurnRemembers
    <3>3. ASSUME NEW j \in Id, CanManage(TurnContext(t), records[j].place),
                 \A k \in Id : k # j => records'[k] = records[k]
          PROVE  Visible(TurnContext(t), records[i].place)
      BY <2>1, <3>3, ManagedIsVisible
    <3>4. CASE TurnUpdates(t)
      BY <2>1, <3>3, <3>4 DEF TurnUpdates, Update, TypeOK
    <3>5. CASE TurnForgets(t)
      BY <2>1, <3>3, <3>5 DEF TurnForgets, Forget, TypeOK
    <3> QED BY <2>2, <3>1, <3>2, <3>4, <3>5
  <2>3. ASSUME CuratorRemembers
        PROVE  curator # Idle /\ Visible(curator, records[i].place)
    BY <1>1, <2>1, <2>3, RememberEndsVisible DEF CuratorRemembers
  <2>4. ~(UNCHANGED records)
    BY <2>1
  <2>5. ~Merge /\ ~CurationEnds /\ ~Crash /\ ~UNCHANGED vars
        /\ ~(\E t \in Task : BeginTurn(t) \/ TurnSucceeds(t) \/ TurnFails(t) \/ BeginCuration(t))
        /\ ~(\E from, to \in Principal : BeginMerge(from, to))
    BY <1>1, <2>4 DEF Merge, MergeRecord, EndMerge, CurationEnds, CurationSucceeds,
       CurationFails, Crash, BeginTurn, TurnSucceeds, TurnFails, BeginCuration, BeginMerge,
       vars, recordVars
  <2> QED BY <1>1, <2>2, <2>3, <2>5 DEF Next, TurnStep
<1>2. IInv /\ [Next]_vars
        => \A i \in Id :
             (Between /\ merging' = NotMerging /\ Changed(i))
               => \/ \E t \in Task : phase[t] = "running"
                                     /\ Visible(TurnContext(t), records[i].place)
                  \/ curator # Idle /\ Visible(curator, records[i].place)
  BY <1>1
<1> QED BY <1>2, Inductive, PTL DEF Spec, EndsWhatItSees
=============================================================================
