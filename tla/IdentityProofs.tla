---------------------------- MODULE IdentityProofs ----------------------------
(***************************************************************************)
(* Theorems about Identity, for any number of accounts, groups, workspaces *)
(* and new principals.                                                     *)
(*                                                                         *)
(* The argument: a code for binding is only made by an account that is     *)
(* paired, and pairing is never taken back (CodesArePaired).  So when two  *)
(* principals become one, the account that made the code is paired, the    *)
(* one that consumes it becomes so, and every other one shared its         *)
(* principal before.  The name of a principal that unbinding creates is    *)
(* new, which NoOrphans turns into: no account has it.                     *)
(***************************************************************************)
EXTENDS Identity, TLAPS

CodesArePaired == \A a \in binding : paired[a]

(* A turn that waits has a workspace to begin in: a group is authorized before *)
(* anybody may write, and stays so.                                            *)
TurnsPlaced ==
  \A c \in Conversation : turn[c].state # "none" =>
    IF c \in Group THEN authorized[c] \in Principal ELSE turn[c].principal \in Principal

IInv ==
  /\ TypeOK
  /\ NoOrphans
  /\ SharedArePaired
  /\ CodesArePaired
  /\ TurnsPlaced
  /\ RefusedOnlyForSchedules

LEMMA Apart == \A c \in Conversation : c \in Direct <=> c \notin Group
<1>1. \A c \in Direct : c \notin Group
  <2> SUFFICES ASSUME NEW c, c \in Direct, c \in Group
               PROVE  FALSE
    OBVIOUS
  <2>1. c \in Account
    BY IdentityAssumption
  <2>2. c \in Account \cap Group
    BY <2>1
  <2> QED BY <2>2, IdentityAssumption
<1> QED BY <1>1 DEF Conversation

(* What most operations leave alone.                                          *)
LEMMA SamePeople ==
  ASSUME IInv, TypeOK', TurnsPlaced', UNCHANGED <<principals, holder>>,
         \A a \in Account : paired[a] => paired'[a],
         \A a \in binding' : paired'[a],
         planners \subseteq planners', refused' = refused
  PROVE  IInv'
BY DEF IInv, NoOrphans, SharedArePaired, CodesArePaired, RefusedOnlyForSchedules, TypeOK

LEMMA ClearedType ==
  ASSUME TypeOK, NEW cs
  PROVE  ClearedFor(cs) \in [Conversation -> Workspace \cup {NoSession}]
BY DEF TypeOK, ClearedFor

LEMMA MovedTypes ==
  ASSUME TypeOK, NEW from \in Principal, NEW to \in Principal
  PROVE  /\ [a \in Account |-> Moved(holder[a], from, to)] \in [Account -> Principal]
         /\ MovedAuthorizations(from, to) \in [Group -> Principal \cup {Nobody}]
         /\ MovedTasks(from, to) \subseteq Conversation \X (Principal \cup {Nobody})
         /\ MovedTurns(from, to) \in [Conversation ->
              [state: {"none", "queued", "active"}, principal: Principal \cup {Nobody},
               workspace: Workspace]]
<1>1. \A p \in Principal : Moved(p, from, to) \in Principal
  BY DEF Moved
<1>2. \A p \in Principal \cup {Nobody} : Moved(p, from, to) \in Principal \cup {Nobody}
  BY DEF Moved
<1>3. \A entry \in tasks : entry[1] \in Conversation /\ entry[2] \in Principal \cup {Nobody}
  BY DEF TypeOK
<1>4. MovedTasks(from, to) \subseteq Conversation \X (Principal \cup {Nobody})
  BY <1>2, <1>3 DEF MovedTasks
<1>5. \A c \in Conversation : turn[c] \in [state: {"none", "queued", "active"},
                                principal: Principal \cup {Nobody}, workspace: Workspace]
  BY DEF TypeOK
<1>6. MovedTurns(from, to) \in [Conversation ->
              [state: {"none", "queued", "active"}, principal: Principal \cup {Nobody},
               workspace: Workspace]]
  BY <1>2, <1>5 DEF MovedTurns
<1> QED BY <1>1, <1>2, <1>4, <1>6 DEF MovedAuthorizations, TypeOK

(* The second reason for a refusal never occurs: no authorization names the    *)
(* principal any more.                                                         *)
LEMMA AuthorizationsMoved ==
  ASSUME NEW from, NEW to, from # to, NEW g \in Group
  PROVE  MovedAuthorizations(from, to)[g] # from
BY DEF MovedAuthorizations, Moved

LEMMA PairingKeeps ==
  ASSUME IInv, NEW a \in Account,
         \/ CreatePairingCode(a)
         \/ \E w \in Workspace : ConfirmPairing(a, w)
         \/ CreateBindingCode(a)
  PROVE  IInv'
<1>1. TypeOK
  BY DEF IInv
<1>2. CASE CreatePairingCode(a)
  <2>1. TypeOK'
    BY <1>1, <1>2 DEF CreatePairingCode, TypeOK, turnVars
  <2>2. TurnsPlaced'
    BY <1>2 DEF CreatePairingCode, IInv, TurnsPlaced, turnVars
  <2> QED BY <2>2, <1>2, <2>1, SamePeople DEF CreatePairingCode, IInv, CodesArePaired
<1>3. ASSUME NEW w \in Workspace, ConfirmPairing(a, w)
      PROVE  IInv'
  <2>1. strayed' \subseteq Conversation
    BY <1>1, <1>3 DEF ConfirmPairing, TypeOK, Conversation
  <2>2. TypeOK'
    BY <1>1, <1>3, <2>1 DEF ConfirmPairing, TypeOK, turnVars
  <2>3. \A b \in Account : paired[b] => paired'[b]
    BY <1>1, <1>3 DEF ConfirmPairing, TypeOK
  <2>4. UNCHANGED <<principals, holder, binding, planners, refused>>
    BY <1>3 DEF ConfirmPairing
  <2>5. \A b \in binding' : paired'[b]
    BY <1>1, <2>3, <2>4 DEF IInv, CodesArePaired, TypeOK
  <2>6. TurnsPlaced'
    BY <1>3 DEF ConfirmPairing, IInv, TurnsPlaced, turnVars
  <2> QED BY <2>2, <2>3, <2>4, <2>5, <2>6, SamePeople
<1>4. CASE CreateBindingCode(a)
  <2>1. TypeOK'
    BY <1>1, <1>4 DEF CreateBindingCode, TypeOK, turnVars
  <2>2. TurnsPlaced'
    BY <1>4 DEF CreateBindingCode, IInv, TurnsPlaced, turnVars
  <2> QED BY <2>2, <1>4, <2>1, SamePeople DEF CreateBindingCode, IInv, CodesArePaired
<1> QED BY <1>2, <1>3, <1>4

LEMMA ConsumeKeeps ==
  ASSUME IInv, NEW a \in Account, NEW b \in Account, ConsumeBindingCode(a, b)
  PROVE  IInv'
<1> USE DEF IInv
<1> DEFINE from == holder[b]
           to == holder[a]
           refuses == \/ from \in planners
                      \/ \E g \in Group : MovedAuthorizations(from, to)[g] = from
<1>1. a \in binding /\ a # b /\ paired[a] /\ UNCHANGED <<pairing, planners>>
  BY DEF ConsumeBindingCode, CodesArePaired
<1>2. CASE from = to
  <2>1. /\ binding' = binding \ {a}
        /\ paired' = [paired EXCEPT ![b] = TRUE]
        /\ UNCHANGED <<principals, holder, workspace, authorized, turnVars, refused, strayed>>
    BY <1>2 DEF ConsumeBindingCode
  <2>2. TypeOK'
    BY <1>1, <2>1 DEF TypeOK, turnVars
  <2>3. \A x \in Account : paired[x] => paired'[x]
    BY <2>1 DEF TypeOK
  <2>4. \A x \in binding' : paired'[x]
    BY <2>1, <2>3 DEF CodesArePaired, TypeOK
  <2>5. TurnsPlaced'
    BY <2>1 DEF TurnsPlaced, turnVars
  <2> QED BY <1>1, <2>1, <2>2, <2>3, <2>4, <2>5, SamePeople
<1>3. CASE from # to
  <2>1. MergePrincipal(from, to, {b}) /\ binding' \subseteq binding
    BY <1>3 DEF ConsumeBindingCode
  <2>2. PICK p \in Principal, q \in Principal : p = from /\ q = to
    BY DEF TypeOK
  <2>3. CASE refuses
    <3>1. from \in planners
      BY <1>3, <2>3, AuthorizationsMoved
    <3>2. /\ refused' = refused \cup {from}
          /\ UNCHANGED <<principals, holder, paired, workspace, authorized, turnVars, strayed>>
      BY <2>1, <2>3 DEF MergePrincipal
    <3>3. TypeOK'
      BY <1>1, <2>1, <2>2, <3>2 DEF TypeOK, turnVars
    <3> QED BY <1>1, <2>1, <3>1, <3>2, <3>3
            DEF NoOrphans, SharedArePaired, CodesArePaired, TurnsPlaced,
                RefusedOnlyForSchedules, turnVars
  <2>4. CASE ~refuses
    <3>1. /\ holder' = [x \in Account |-> Moved(holder[x], from, to)]
          /\ principals' = principals \ {from}
          /\ paired' = [x \in Account |-> paired[x] \/ x \in {b}]
          /\ UNCHANGED refused
      BY <2>1, <2>4 DEF MergePrincipal
    <3>2. TypeOK'
      <4>1. /\ session' = ClearedFor(Concerns(p))
            /\ holder' = [x \in Account |-> Moved(holder[x], p, q)]
            /\ tasks' = MovedTasks(p, q)
            /\ turn' = MovedTurns(p, q)
            /\ authorized' = MovedAuthorizations(p, q)
            /\ workspace' = [workspace EXCEPT ![p] = Home]
            /\ strayed' \subseteq strayed \cup Conversation
        BY <2>1, <2>2, <2>4 DEF MergePrincipal, Conversation
      <4>2. /\ session' \in [Conversation -> Workspace \cup {NoSession}]
            /\ holder' \in [Account -> Principal]
            /\ tasks' \subseteq Conversation \X (Principal \cup {Nobody})
            /\ turn' \in [Conversation -> [state: {"none", "queued", "active"},
                           principal: Principal \cup {Nobody}, workspace: Workspace]]
            /\ authorized' \in [Group -> Principal \cup {Nobody}]
        BY <4>1, ClearedType, MovedTypes
      <4>3. workspace' \in [Principal -> Workspace]
        BY <4>1, IdentityAssumption DEF TypeOK
      <4>4. paired' \in [Account -> BOOLEAN] /\ principals' \subseteq Principal
        BY <3>1 DEF TypeOK
      <4> QED BY <1>1, <2>1, <3>1, <4>1, <4>2, <4>3, <4>4 DEF TypeOK
    <3>3. \A x \in Account : holder'[x] = IF holder[x] = from THEN to ELSE holder[x]
      BY <3>1 DEF Moved
    <3>4. NoOrphans'
      <4>1. \A x \in Account : holder'[x] \in principals'
        BY <1>3, <3>1, <3>3 DEF NoOrphans
      <4>2. ASSUME NEW r \in principals'
            PROVE  \E x \in Account : holder'[x] = r
        <5>1. PICK x \in Account : holder[x] = r /\ r # from
          BY <3>1, <4>2 DEF NoOrphans
        <5> QED BY <3>3, <5>1
      <4> QED BY <4>1, <4>2 DEF NoOrphans
    <3>5. SharedArePaired'
      <4> SUFFICES ASSUME NEW x \in Account, NEW y \in Account, x # y,
                          holder'[x] = holder'[y]
                   PROVE  paired'[x]
        BY DEF SharedArePaired
      <4>1. paired[x] \/ x = b => paired'[x]
        BY <3>1
      <4>2. CASE holder[x] = holder[y]
        BY <4>1, <4>2 DEF SharedArePaired
      <4>3. CASE holder[x] = from /\ holder[y] # from
        BY <4>1, <4>3 DEF SharedArePaired
      <4>4. CASE holder[x] # from /\ holder[y] = from
        <5>1. holder[x] = to
          BY <3>3, <4>4
        <5> QED BY <1>1, <4>1, <5>1 DEF SharedArePaired
      <4> QED BY <3>3, <4>2, <4>3, <4>4
    <3>6. CodesArePaired'
      BY <2>1, <3>1 DEF CodesArePaired, TypeOK
    <3>7. RefusedOnlyForSchedules'
      BY <1>1, <3>1 DEF RefusedOnlyForSchedules
    <3>8. TurnsPlaced'
      <4>1. \A c \in Conversation :
              /\ turn'[c].state = turn[c].state
              /\ turn'[c].principal = Moved(turn[c].principal, from, to)
        BY <2>1, <2>4 DEF MergePrincipal, MovedTurns, TypeOK
      <4>2. \A g \in Group : authorized'[g] = Moved(authorized[g], from, to)
        BY <2>1, <2>4 DEF MergePrincipal, MovedAuthorizations
      <4>3. \A r \in Principal : Moved(r, from, to) \in Principal
        BY <2>2 DEF Moved
      <4> QED BY <4>1, <4>2, <4>3 DEF TurnsPlaced
    <3> QED BY <3>2, <3>4, <3>5, <3>6, <3>7, <3>8
  <2> QED BY <2>3, <2>4
<1> QED BY <1>2, <1>3

LEMMA UnbindKeeps ==
  ASSUME IInv, NEW a \in Account, NEW new \in Fresh, UnbindPlatformIdentity(a, new)
  PROVE  IInv'
<1> USE DEF IInv
<1>1. /\ paired[a]
      /\ new \in Principal /\ new \notin principals
      /\ principals' = principals \cup {new}
      /\ holder' = [holder EXCEPT ![a] = new]
      /\ workspace' = [workspace EXCEPT ![new] = workspace[holder[a]]]
      /\ binding' = binding \ {a}
      /\ strayed' \subseteq strayed \cup Direct
      /\ UNCHANGED <<paired, pairing, authorized, planners, turnVars, refused>>
  BY DEF UnbindPlatformIdentity, Principal
<1>2. PICK b \in Account \ {a} : holder[b] = holder[a]
  BY DEF UnbindPlatformIdentity
<1>3. TypeOK'
  BY <1>1 DEF TypeOK, turnVars, Conversation
<1>4. \A x \in Account : holder[x] # new
  BY <1>1 DEF NoOrphans
<1>5. holder'[a] = new /\ \A x \in Account \ {a} : holder'[x] = holder[x]
  BY <1>1 DEF TypeOK
<1>6. NoOrphans'
  <2>1. \A x \in Account : holder'[x] \in principals'
    BY <1>1, <1>5 DEF NoOrphans
  <2>2. ASSUME NEW r \in principals'
        PROVE  \E x \in Account : holder'[x] = r
    <3>1. CASE r = new
      BY <1>5, <3>1
    <3>2. CASE r # new
      <4>1. PICK x \in Account : holder[x] = r
        BY <1>1, <2>2, <3>2 DEF NoOrphans
      <4> QED BY <1>2, <1>5, <4>1
    <3> QED BY <3>1, <3>2
  <2> QED BY <2>1, <2>2 DEF NoOrphans
<1>7. SharedArePaired'
  BY <1>1, <1>4, <1>5 DEF SharedArePaired
<1>8. CodesArePaired' /\ RefusedOnlyForSchedules' /\ TurnsPlaced'
  BY <1>1 DEF CodesArePaired, RefusedOnlyForSchedules, TurnsPlaced, turnVars
<1> QED BY <1>3, <1>6, <1>7, <1>8

LEMMA AdminKeeps ==
  ASSUME IInv, NEW p \in Principal,
         \/ \E w \in Workspace : SetWorkspace(p, w)
         \/ \E g \in Group : AuthorizeGroup(g, p)
         \/ CreateSchedule(p)
  PROVE  IInv'
<1>1. TypeOK
  BY DEF IInv
<1>2. ASSUME NEW w \in Workspace, SetWorkspace(p, w)
      PROVE  IInv'
  <2>1. TypeOK'
    BY <1>1, <1>2, ClearedType DEF SetWorkspace, TypeOK, codeVars
  <2>2. TurnsPlaced'
    BY <1>2 DEF SetWorkspace, IInv, TurnsPlaced
  <2> QED BY <2>2, <1>2, <2>1, SamePeople DEF SetWorkspace, IInv, CodesArePaired, codeVars
<1>3. ASSUME NEW g \in Group, AuthorizeGroup(g, p)
      PROVE  IInv'
  <2>1. session' \in [Conversation -> Workspace \cup {NoSession}]
        /\ strayed' \subseteq Conversation
    BY <1>1, <1>3, ClearedType DEF AuthorizeGroup, TypeOK, Conversation
  <2>2. TypeOK'
    BY <1>1, <1>3, <2>1 DEF AuthorizeGroup, TypeOK, codeVars
  <2>3. TurnsPlaced'
    BY <1>1, <1>3 DEF AuthorizeGroup, IInv, TurnsPlaced, TypeOK
  <2> QED BY <2>3, <1>3, <2>2, SamePeople DEF AuthorizeGroup, IInv, CodesArePaired, codeVars
<1>4. CASE CreateSchedule(p)
  <2>1. TypeOK'
    BY <1>1, <1>4 DEF CreateSchedule, TypeOK, codeVars, turnVars
  <2>2. TurnsPlaced'
    BY <1>4 DEF CreateSchedule, IInv, TurnsPlaced, turnVars
  <2> QED BY <2>2, <1>4, <2>1, SamePeople DEF CreateSchedule, IInv, CodesArePaired, codeVars
<1> QED BY <1>2, <1>3, <1>4

LEMMA TurnKeeps ==
  ASSUME IInv, TurnStep
  PROVE  IInv'
<1>1. TypeOK
  BY DEF IInv
<1>2. PICK c \in Conversation :
        \/ \E a \in Account : Message(a, c)
        \/ BeginTurn(c)
        \/ SessionStarted(c)
        \/ EndTurn(c)
  BY DEF TurnStep
<1>3. UNCHANGED <<principals, holder, paired, codeVars, workspace, authorized, planners,
                  refused, strayed>>
  BY <1>2 DEF Message, BeginTurn, SessionStarted, EndTurn
<1>4. TypeOK' /\ TurnsPlaced'
  <2>1. turn[c] \in [state: {"none", "queued", "active"}, principal: Principal \cup {Nobody},
                     workspace: Workspace]
    BY <1>1 DEF TypeOK
  <2>2. ASSUME NEW a \in Account, Message(a, c)
        PROVE  TypeOK' /\ TurnsPlaced'
    <3>1. PICK p \in Principal \cup {Nobody} :
            /\ turn' = [turn EXCEPT ![c] = [state |-> "queued", principal |-> p,
                                            workspace |-> Home]]
            /\ tasks' = tasks \cup {<<c, p>>}
            /\ IF c \in Group THEN authorized[c] # Nobody ELSE p \in Principal
      BY <1>1, <2>2 DEF Message, Admitted, TypeOK
    <3>2. TypeOK'
      BY <1>1, <1>3, <2>2, <3>1, IdentityAssumption DEF Message, TypeOK, codeVars
    <3>3. TurnsPlaced'
      BY <1>1, <1>3, <3>1 DEF TurnsPlaced, IInv, TypeOK
    <3> QED BY <3>2, <3>3
  <2>3. CASE BeginTurn(c)
    <3>1. WorkspaceOf(c, turn[c].principal) \in Workspace
      BY <1>1, <2>3 DEF BeginTurn, WorkspaceOf, IInv, TurnsPlaced, TypeOK
    <3>2. PICK now \in [state: {"none", "queued", "active"}, principal: Principal \cup {Nobody},
                        workspace: Workspace] :
            /\ turn' = [turn EXCEPT ![c] = now]
            /\ now.state = "none" \/ now.principal = turn[c].principal
            /\ UNCHANGED <<tasks, session>>
      <4>1. NoTurn \in [state: {"none", "queued", "active"}, principal: Principal \cup {Nobody},
                        workspace: Workspace]
        BY IdentityAssumption DEF NoTurn
      <4>2. NoTurn.state = "none"
        BY DEF NoTurn
      <4>3. CASE turn' = [turn EXCEPT ![c] = NoTurn]
        BY <2>3, <4>1, <4>2, <4>3 DEF BeginTurn
      <4>4. CASE turn' = [turn EXCEPT ![c] =
                   [state |-> "active", principal |-> turn[c].principal,
                    workspace |-> WorkspaceOf(c, turn[c].principal)]]
        BY <2>1, <2>3, <3>1, <4>4 DEF BeginTurn
      <4> QED BY <2>3, <4>3, <4>4 DEF BeginTurn
    <3>3. TypeOK'
      BY <1>1, <1>3, <3>2 DEF TypeOK, codeVars
    <3>4. TurnsPlaced'
      BY <1>1, <1>3, <2>3, <3>2 DEF BeginTurn, TurnsPlaced, IInv, TypeOK
    <3> QED BY <3>3, <3>4
  <2>4. CASE SessionStarted(c)
    <3>1. turn[c].workspace \in Workspace
      BY <2>1
    <3>2. TypeOK'
      BY <1>1, <1>3, <2>4, <3>1 DEF SessionStarted, TypeOK, codeVars
    <3> QED BY <1>3, <2>4, <3>2 DEF SessionStarted, IInv, TurnsPlaced
  <2>5. CASE EndTurn(c)
    <3>1. TypeOK'
      BY <1>1, <1>3, <2>5, IdentityAssumption DEF EndTurn, TypeOK, codeVars, NoTurn
    <3>2. TurnsPlaced'
      BY <1>1, <1>3, <2>5 DEF EndTurn, TurnsPlaced, IInv, TypeOK, NoTurn
    <3> QED BY <3>1, <3>2
  <2> QED BY <1>2, <2>2, <2>3, <2>4, <2>5
<1> QED BY <1>3, <1>4, SamePeople DEF IInv, CodesArePaired, codeVars

LEMMA InitInv ==
  ASSUME Init
  PROVE  IInv
<1>1. TypeOK
  BY IdentityAssumption DEF Init, TypeOK, NoTurn, Principal, Conversation
<1>2. NoOrphans /\ SharedArePaired
  BY DEF Init, NoOrphans, SharedArePaired
<1>3. CodesArePaired /\ RefusedOnlyForSchedules /\ TurnsPlaced
  BY DEF Init, CodesArePaired, RefusedOnlyForSchedules, TurnsPlaced, NoTurn
<1> QED BY <1>1, <1>2, <1>3 DEF IInv

LEMMA StepKeeps ==
  ASSUME IInv, [Next]_vars
  PROVE  IInv'
<1>1. CASE CodeStep
  BY <1>1, PairingKeeps, ConsumeKeeps, UnbindKeeps DEF CodeStep
<1>2. CASE AdminStep
  BY <1>2, AdminKeeps DEF AdminStep
<1>3. CASE TurnStep
  BY <1>3, TurnKeeps
<1>4. CASE UNCHANGED vars
  BY <1>4 DEF vars, codeVars, turnVars, IInv, TypeOK, NoOrphans, SharedArePaired,
              CodesArePaired, TurnsPlaced, RefusedOnlyForSchedules
<1> QED BY <1>1, <1>2, <1>3, <1>4 DEF Next

-----------------------------------------------------------------------------
(* Sessions.  A conversation that none of the four operations has touched:    *)
(* what it has stored was stored for the principal that speaks there now, so  *)
(* that whoever changes that principal's workspace finds and clears it.       *)
Speaker(c) == IF c \in Group THEN Nobody ELSE holder[c]

Fits(c) ==
  /\ SessionFits(c)
  /\ TurnFits(c)
  /\ turn[c].state # "none" => turn[c].principal = Speaker(c)
  /\ session[c] # NoSession \/ turn[c].state # "none" =>
       /\ <<c, Speaker(c)>> \in tasks
       /\ c \in Direct => paired[c]

FitInv == ResponsibleArePaired /\ \A c \in Conversation \ strayed : Fits(c)

(* What the operations on a turn, and those on codes and schedules, share.    *)
LEMMA PeopleFit ==
  ASSUME FitInv, UNCHANGED <<holder, authorized>>,
         \A a \in Account : paired[a] => paired'[a],
         \A p \in planners' \ planners : HasPaired(p)
  PROVE  ResponsibleArePaired'
<1>1. \A p : HasPaired(p) => HasPaired(p)'
  BY DEF HasPaired
<1>2. \A p \in Principal : p \in planners' \/ (\E g \in Group : authorized[g] = p) => HasPaired(p)
  BY DEF FitInv, ResponsibleArePaired
<1> QED BY <1>1, <1>2 DEF ResponsibleArePaired

LEMMA OthersFit ==
  ASSUME NEW c \in Conversation, Fits(c),
         UNCHANGED <<holder, authorized, workspace>>,
         session'[c] = session[c], turn'[c] = turn[c],
         tasks \subseteq tasks',
         \A a \in Account : paired[a] => paired'[a], Direct \subseteq Account
  PROVE  Fits(c)'
<1>1. Speaker(c)' = Speaker(c)
  BY DEF Speaker
<1>2. SessionFits(c)' /\ TurnFits(c)'
  BY DEF Fits, SessionFits, TurnFits, Settled, FittingWorkspace, Active
<1> QED BY <1>1, <1>2 DEF Fits

LEMMA TurnFitKeeps ==
  ASSUME IInv, FitInv, TurnStep
  PROVE  FitInv'
<1>1. TypeOK /\ TurnsPlaced
  BY DEF IInv
<1>2. PICK c \in Conversation :
        \/ \E a \in Account : Message(a, c)
        \/ BeginTurn(c)
        \/ SessionStarted(c)
        \/ EndTurn(c)
  BY DEF TurnStep
<1>3. UNCHANGED <<principals, holder, paired, authorized, workspace, planners, strayed>>
  BY <1>2 DEF Message, BeginTurn, SessionStarted, EndTurn
<1>4. ResponsibleArePaired'
  BY <1>3, PeopleFit
<1>5. tasks \subseteq tasks' /\ \A d \in Conversation \ {c} :
        turn'[d] = turn[d] /\ session'[d] = session[d]
  BY <1>1, <1>2 DEF Message, BeginTurn, SessionStarted, EndTurn, TypeOK
<1>6. \A d \in Conversation \ strayed : d # c => Fits(d)'
  BY <1>3, <1>5, OthersFit, IdentityAssumption DEF FitInv
<1>7. ASSUME c \notin strayed
      PROVE  Fits(c)'
  <2> USE <1>7
  <2>1. Fits(c) /\ Speaker(c)' = Speaker(c)
    BY <1>3 DEF FitInv, Speaker
  <2>2. ASSUME NEW a \in Account, Message(a, c)
        PROVE  Fits(c)'
    <3>1. /\ turn'[c] = [state |-> "queued", principal |-> Speaker(c), workspace |-> Home]
          /\ <<c, Speaker(c)>> \in tasks'
          /\ session'[c] = session[c]
      BY <1>1, <2>2, IdentityAssumption DEF Message, Admitted, Speaker, TypeOK
    <3>2. c \in Direct => paired[c]
      BY <2>2, IdentityAssumption DEF Message, Admitted
    <3>3. SessionFits(c)' /\ TurnFits(c)'
      BY <1>3, <2>1, <3>1 DEF Fits, SessionFits, TurnFits, Settled, FittingWorkspace, Active
    <3> QED BY <1>3, <2>1, <3>1, <3>2, <3>3 DEF Fits
  <2>3. CASE BeginTurn(c)
    <3>1. /\ turn[c].state # "none" /\ UNCHANGED <<tasks, session>>
          /\ turn[c].principal = Speaker(c)
      BY <2>1, <2>3 DEF BeginTurn, Fits
    <3>2. CASE turn'[c] = NoTurn
      BY <1>3, <2>1, <3>1, <3>2
      DEF Fits, SessionFits, TurnFits, Settled, FittingWorkspace, Active, NoTurn
    <3>3. CASE turn'[c] = [state |-> "active", principal |-> turn[c].principal,
                           workspace |-> WorkspaceOf(c, turn[c].principal)]
      <4>1. WorkspaceOf(c, turn[c].principal) = FittingWorkspace(c) /\ Settled(c)
        BY <1>1, <3>1, IdentityAssumption
        DEF WorkspaceOf, FittingWorkspace, Speaker, Settled, TurnsPlaced, Conversation
      <4>2. SessionFits(c)' /\ TurnFits(c)'
        BY <1>3, <2>1, <3>1, <3>3, <4>1
        DEF Fits, SessionFits, TurnFits, Settled, FittingWorkspace
      <4> QED BY <1>3, <2>1, <3>1, <3>3, <4>2 DEF Fits
    <3> QED BY <1>1, <2>3, <3>2, <3>3 DEF BeginTurn, TypeOK
  <2>4. CASE SessionStarted(c)
    <3>1. /\ session'[c] = turn[c].workspace /\ UNCHANGED <<turn, tasks>>
          /\ Active(c) /\ turn[c].state # "none"
      BY <1>1, <2>4 DEF SessionStarted, TypeOK, Active
    <3>2. SessionFits(c)' /\ TurnFits(c)'
      BY <1>3, <2>1, <3>1 DEF Fits, SessionFits, TurnFits, Settled, FittingWorkspace, Active
    <3> QED BY <1>3, <2>1, <3>1, <3>2 DEF Fits
  <2>5. CASE EndTurn(c)
    <3>1. turn'[c].state = "none" /\ UNCHANGED <<tasks, session>>
      BY <1>1, <2>5 DEF EndTurn, TypeOK, NoTurn
    <3>2. SessionFits(c)' /\ TurnFits(c)'
      BY <1>3, <2>1, <3>1 DEF Fits, SessionFits, TurnFits, Settled, FittingWorkspace, Active
    <3> QED BY <1>3, <2>1, <3>1, <3>2 DEF Fits
  <2> QED BY <1>2, <2>2, <2>3, <2>4, <2>5
<1> QED BY <1>3, <1>4, <1>6, <1>7 DEF FitInv

LEMMA CodesFitKeeps ==
  ASSUME IInv, FitInv, NEW a \in Account, CreatePairingCode(a) \/ CreateBindingCode(a)
  PROVE  FitInv'
<1>1. UNCHANGED <<holder, paired, authorized, workspace, planners, strayed, turn, session, tasks>>
  BY DEF CreatePairingCode, CreateBindingCode, turnVars
<1>2. ResponsibleArePaired'
  BY <1>1, PeopleFit
<1> QED BY <1>1, <1>2, OthersFit, IdentityAssumption DEF FitInv

LEMMA ScheduleFitKeeps ==
  ASSUME IInv, FitInv, NEW p \in Principal, CreateSchedule(p)
  PROVE  FitInv'
<1>1. UNCHANGED <<holder, paired, authorized, workspace, strayed, turn, session, tasks>>
      /\ planners' = planners \cup {p} /\ HasPaired(p)
  BY DEF CreateSchedule, turnVars
<1>2. ResponsibleArePaired'
  BY <1>1, PeopleFit
<1> QED BY <1>1, <1>2, OthersFit, IdentityAssumption DEF FitInv

(* A conversation whose workspace, speaker and turn stay as they are.         *)
LEMMA UntouchedFits ==
  ASSUME NEW c \in Conversation, Fits(c), Direct \subseteq Account,
         FittingWorkspace(c)' = FittingWorkspace(c), Settled(c) => Settled(c)',
         Speaker(c)' = Speaker(c), tasks \subseteq tasks',
         session'[c] \in {session[c], NoSession}, turn'[c] = turn[c],
         \A a \in Account : paired[a] => paired'[a]
  PROVE  Fits(c)'
<1>1. SessionFits(c)' /\ TurnFits(c)'
  BY DEF Fits, SessionFits, TurnFits, Active
<1> QED BY <1>1 DEF Fits

(* A conversation that has nothing stored and no turn under way.              *)
LEMMA QuietFits ==
  ASSUME NEW c \in Conversation, session'[c] = NoSession, turn'[c].state = "none"
  PROVE  Fits(c)'
BY DEF Fits, SessionFits, TurnFits, Active

(* A new account's principal is its own and answers for nothing.              *)
LEMMA ConfirmFitKeeps ==
  ASSUME IInv, FitInv, NEW a \in Account, NEW w \in Workspace, ConfirmPairing(a, w)
  PROVE  FitInv'
<1>1. TypeOK /\ SharedArePaired
  BY DEF IInv
<1>2. /\ paired' = [paired EXCEPT ![a] = TRUE]
      /\ workspace' = [workspace EXCEPT ![holder[a]] = w]
      /\ UNCHANGED <<holder, authorized, planners, tasks, turn, session>>
  BY DEF ConfirmPairing, turnVars
<1>3. \A b \in Account : paired[b] => paired'[b]
  BY <1>1, <1>2 DEF TypeOK
<1>4. ResponsibleArePaired'
  BY <1>2, <1>3, PeopleFit
<1>5. ASSUME NEW c \in Conversation \ strayed'
      PROVE  Fits(c)'
  <2>1. c \in Conversation \ strayed /\ Fits(c)
    BY DEF ConfirmPairing, FitInv
  <2>2. \A p \in Principal : p # holder[a] => workspace'[p] = workspace[p]
    BY <1>1, <1>2 DEF TypeOK
  <2>3. CASE c \in Direct /\ holder[c] # holder[a]
    <3>1. c \in Account /\ c \notin Group /\ holder[c] \in Principal
      BY <1>1, <2>3, IdentityAssumption DEF TypeOK
    <3>2. FittingWorkspace(c)' = FittingWorkspace(c) /\ Speaker(c)' = Speaker(c)
          /\ (Settled(c) => Settled(c)')
      BY <1>2, <2>2, <2>3, <3>1 DEF FittingWorkspace, Speaker, Settled
    <3> QED BY <1>2, <1>3, <2>1, <3>2, UntouchedFits, IdentityAssumption
  <2>4. CASE c \in Direct /\ holder[c] = holder[a]
    <3>1. ~paired[a]
      BY <2>4 DEF ConfirmPairing
    <3>2. c = a
      BY <1>1, <2>4, <3>1, IdentityAssumption DEF SharedArePaired
    <3>3. session[c] = NoSession /\ turn[c].state = "none"
      BY <2>1, <2>4, <3>1, <3>2 DEF Fits
    <3> QED BY <1>2, <3>3, QuietFits
  <2>5. CASE c \in Group
    <3>1. c \notin Direct /\ authorized[c] \in Principal \cup {Nobody}
      BY <1>1, <2>5, IdentityAssumption DEF TypeOK
    <3>2. CASE authorized[c] = Nobody
      <4>1. session[c] = NoSession /\ turn[c].state = "none"
        BY <2>1, <2>5, <3>1, <3>2, IdentityAssumption
        DEF Fits, SessionFits, Settled, IInv, TurnsPlaced
      <4> QED BY <1>2, <4>1, QuietFits
    <3>3. CASE authorized[c] \in Principal
      <4>1. authorized[c] # holder[a]
        <5>1. ASSUME authorized[c] = holder[a]
              PROVE  FALSE
          <6>1. ~paired[a]
            BY <2>5, <5>1 DEF ConfirmPairing
          <6>2. PICK b \in Account : holder[b] = holder[a] /\ paired[b]
            BY <2>5, <3>3, <5>1 DEF FitInv, ResponsibleArePaired, HasPaired
          <6> QED BY <1>1, <6>1, <6>2 DEF SharedArePaired
        <5> QED BY <5>1
      <4>2. FittingWorkspace(c)' = FittingWorkspace(c) /\ Speaker(c)' = Speaker(c)
            /\ (Settled(c) => Settled(c)')
        BY <1>2, <2>2, <2>5, <3>3, <4>1 DEF FittingWorkspace, Speaker, Settled
      <4> QED BY <1>2, <1>3, <2>1, <4>2, UntouchedFits, IdentityAssumption
    <3> QED BY <3>1, <3>2, <3>3
  <2> QED BY <2>3, <2>4, <2>5 DEF Conversation
<1> QED BY <1>4, <1>5 DEF FitInv

LEMMA WorkspaceFitKeeps ==
  ASSUME IInv, FitInv, NEW p \in Principal, NEW w \in Workspace, SetWorkspace(p, w)
  PROVE  FitInv'
<1>1. TypeOK
  BY DEF IInv
<1>2. /\ workspace' = [workspace EXCEPT ![p] = w]
      /\ session' = ClearedFor(Concerns(p))
      /\ UNCHANGED <<holder, paired, authorized, planners, tasks, turn, strayed>>
  BY DEF SetWorkspace
<1>3. ResponsibleArePaired'
  BY <1>2, PeopleFit
<1>4. \A c \in Conversation :
        session'[c] = IF c \in Concerns(p) THEN NoSession ELSE session[c]
  BY <1>2 DEF ClearedFor
<1>5. ASSUME NEW c \in Conversation \ strayed'
      PROVE  Fits(c)'
  <2>1. c \notin strayed /\ Fits(c)
    BY <1>2 DEF FitInv
  <2>2. \A q \in Principal : q # p => workspace'[q] = workspace[q]
    BY <1>1, <1>2 DEF TypeOK
  <2>3. (Settled(c) => Settled(c)') /\ Speaker(c)' = Speaker(c)
    BY <1>2 DEF Settled, Speaker
  <2>4. CASE (IF c \in Group THEN authorized[c] ELSE holder[c]) # p /\ Settled(c)
    <3>1. FittingWorkspace(c)' = FittingWorkspace(c)
      BY <1>1, <1>2, <2>2, <2>4, IdentityAssumption
      DEF FittingWorkspace, TypeOK, Settled, Conversation
    <3> QED BY <1>2, <1>4, <2>1, <2>3, <3>1, UntouchedFits, IdentityAssumption
  <2>5. CASE ~Settled(c)
    <3>1. session[c] = NoSession /\ turn[c].state = "none"
      BY <2>1, <2>5, IdentityAssumption
      DEF Fits, SessionFits, Settled, IInv, TurnsPlaced, Conversation
    <3> QED BY <1>2, <1>4, <3>1, QuietFits
  <2>6. CASE (IF c \in Group THEN authorized[c] ELSE holder[c]) = p /\ Settled(c)
    <3>1. ~Active(c)
      BY <2>1, <2>6 DEF SetWorkspace, Fits, Active, Speaker, Conversation
    <3>2. session[c] # NoSession => c \in Concerns(p)
      BY <2>1, <2>6 DEF Fits, Speaker, Concerns, Conversation
    <3>3. session'[c] = NoSession
      BY <1>4, <3>2
    <3>4. SessionFits(c)' /\ TurnFits(c)'
      BY <1>2, <3>1, <3>3 DEF SessionFits, TurnFits, Active
    <3> QED BY <1>2, <2>1, <2>3, <3>3, <3>4 DEF Fits
  <2> QED BY <2>4, <2>5, <2>6
<1> QED BY <1>3, <1>5 DEF FitInv

LEMMA AuthorizeFitKeeps ==
  ASSUME IInv, FitInv, NEW p \in Principal, NEW g \in Group, AuthorizeGroup(g, p)
  PROVE  FitInv'
<1>1. TypeOK
  BY DEF IInv
<1>2. /\ HasPaired(p)
      /\ authorized' = [authorized EXCEPT ![g] = p]
      /\ UNCHANGED <<holder, paired, workspace, planners, tasks, turn>>
  BY DEF AuthorizeGroup
<1>3. ResponsibleArePaired'
  <2>1. \A q : HasPaired(q) => HasPaired(q)'
    BY <1>2 DEF HasPaired
  <2>2. \A h \in Group : authorized'[h] = IF h = g THEN p ELSE authorized[h]
    BY <1>1, <1>2 DEF TypeOK
  <2> QED BY <1>2, <2>1, <2>2 DEF FitInv, ResponsibleArePaired
<1>4. \A c \in Conversation : c # g => session'[c] = session[c]
  BY <1>1 DEF AuthorizeGroup, ClearedFor, TypeOK
<1>5. ASSUME NEW c \in Conversation \ strayed'
      PROVE  Fits(c)'
  <2>1. c \notin strayed /\ Fits(c)
    BY DEF AuthorizeGroup, FitInv
  <2>2. CASE c # g
    <3>1. FittingWorkspace(c)' = FittingWorkspace(c) /\ Speaker(c)' = Speaker(c)
          /\ (Settled(c) => Settled(c)')
      BY <1>1, <1>2, <2>2 DEF FittingWorkspace, Speaker, Settled, TypeOK
    <3> QED BY <1>2, <1>4, <2>1, <2>2, <3>1, UntouchedFits, IdentityAssumption
  <2>3. CASE c = g
    <3>1. ~Active(g)
      BY <2>3 DEF AuthorizeGroup, Conversation
    <3>2. session'[g] = NoSession
      <4>1. CASE authorized[g] # Nobody /\ <<g, Nobody>> \in tasks
        BY <4>1 DEF AuthorizeGroup, ClearedFor, Conversation
      <4>2. CASE session[g] = NoSession
        BY <4>2 DEF AuthorizeGroup, ClearedFor, Conversation
      <4>3. CASE session[g] # NoSession
        <5>1. authorized[g] # Nobody
          BY <2>1, <2>3, <4>3, IdentityAssumption DEF Fits, SessionFits, Settled
        <5>2. <<g, Nobody>> \in tasks
          BY <2>1, <2>3, <4>3 DEF Fits, Speaker
        <5> QED BY <4>1, <5>1, <5>2
      <4> QED BY <4>2, <4>3
    <3>3. SessionFits(g)' /\ TurnFits(g)'
      BY <1>2, <3>1, <3>2 DEF SessionFits, TurnFits, Active
    <3>4. Speaker(g)' = Speaker(g)
      BY DEF Speaker
    <3> QED BY <1>2, <2>1, <2>3, <3>2, <3>3, <3>4 DEF Fits
  <2> QED BY <2>2, <2>3
<1> QED BY <1>3, <1>5 DEF FitInv

LEMMA MergeFits ==
  ASSUME IInv, FitInv, NEW a \in Account, NEW b \in Account, paired[a],
         NEW from \in Principal, NEW to \in Principal,
         from = holder[b], to = holder[a], from # to,
         MergePrincipal(from, to, {b}), UNCHANGED planners,
         from \notin planners
  PROVE  FitInv'
<1>1. TypeOK
  BY DEF IInv
<1>2. /\ session' = ClearedFor(Concerns(from))
      /\ holder' = [x \in Account |-> Moved(holder[x], from, to)]
      /\ tasks' = MovedTasks(from, to)
      /\ turn' = MovedTurns(from, to)
      /\ authorized' = MovedAuthorizations(from, to)
      /\ workspace' = [workspace EXCEPT ![from] = Home]
      /\ paired' = [x \in Account |-> paired[x] \/ x \in {b}]
      /\ strayed' = strayed \cup {c \in Conversation : Active(c) /\ turn[c].principal = from}
                            \cup {g \in Group : Active(g) /\ authorized[g] = from}
  BY AuthorizationsMoved DEF MergePrincipal
<1>3. /\ \A x \in Account : holder'[x] = Moved(holder[x], from, to)
                            /\ (paired[x] => paired'[x])
      /\ \A g \in Group : authorized'[g] = Moved(authorized[g], from, to)
      /\ \A c \in Conversation : turn'[c].state = turn[c].state
                                 /\ turn'[c].workspace = turn[c].workspace
                                 /\ turn'[c].principal = Moved(turn[c].principal, from, to)
      /\ \A q \in Principal : q # from => workspace'[q] = workspace[q]
      /\ \A c \in Conversation :
           session'[c] = IF c \in Concerns(from) THEN NoSession ELSE session[c]
      /\ \A c, q : <<c, q>> \in tasks => <<c, Moved(q, from, to)>> \in tasks'
  <2>1. \A c \in Conversation : turn'[c].state = turn[c].state
                                /\ turn'[c].workspace = turn[c].workspace
                                /\ turn'[c].principal = Moved(turn[c].principal, from, to)
    BY <1>1, <1>2 DEF MovedTurns, TypeOK
  <2>2. \A c, q : <<c, q>> \in tasks => <<c, Moved(q, from, to)>> \in tasks'
    BY <1>2 DEF MovedTasks
  <2> QED BY <1>1, <1>2, <2>1, <2>2 DEF MovedAuthorizations, ClearedFor, TypeOK
<1>4. ResponsibleArePaired'
  <2>1. \A q : HasPaired(q) /\ q # from => HasPaired(q)'
    BY <1>3 DEF HasPaired, Moved
  <2>2. HasPaired(to)'
    BY <1>3 DEF HasPaired, Moved
  <2>3. ASSUME NEW q \in Principal, q \in planners
        PROVE  HasPaired(q)'
    BY <2>1, <2>3 DEF FitInv, ResponsibleArePaired
  <2>4. ASSUME NEW q \in Principal, NEW g \in Group, authorized'[g] = q
        PROVE  HasPaired(q)'
    <3>1. CASE authorized[g] = from
      BY <1>3, <2>2, <2>4, <3>1 DEF Moved
    <3>2. CASE authorized[g] # from
      <4>1. authorized[g] = q
        BY <1>3, <2>4, <3>2 DEF Moved
      <4> QED BY <2>1, <3>2, <4>1 DEF FitInv, ResponsibleArePaired
    <3> QED BY <3>1, <3>2
  <2> QED BY <2>3, <2>4 DEF ResponsibleArePaired
<1>5. ASSUME NEW c \in Conversation \ strayed'
      PROVE  Fits(c)'
  <2>1. /\ c \notin strayed /\ Fits(c)
        /\ Active(c) => turn[c].principal # from
        /\ c \in Group /\ Active(c) => authorized[c] # from
    BY <1>2 DEF FitInv
  <2>2. c \in Direct <=> c \notin Group
    BY Apart
  <2>3. Speaker(c)' = Moved(Speaker(c), from, to)
    <3>1. Moved(Nobody, from, to) = Nobody
      BY IdentityAssumption DEF Moved
    <3>2. c \in Direct => holder'[c] = Moved(holder[c], from, to)
      BY <1>3, IdentityAssumption
    <3> QED BY <2>2, <3>1, <3>2 DEF Speaker
  <2>4. turn'[c].state # "none" => turn'[c].principal = Speaker(c)'
    BY <1>3, <2>1, <2>3 DEF Fits
  <2>5. session'[c] # NoSession \/ turn'[c].state # "none" =>
          <<c, Speaker(c)'>> \in tasks' /\ (c \in Direct => paired'[c])
    BY <1>3, <2>1, <2>3, IdentityAssumption DEF Fits
  <2>6. SessionFits(c)' /\ TurnFits(c)'
    <3>1. CASE ~Settled(c)
      <4>1. session[c] = NoSession /\ turn[c].state = "none"
        BY <2>1, <2>2, <3>1, IdentityAssumption
        DEF Fits, SessionFits, Settled, IInv, TurnsPlaced, Conversation
      <4> QED BY <1>3, <4>1 DEF SessionFits, TurnFits, Active
    <3>2. CASE Settled(c) /\ (IF c \in Group THEN authorized[c] ELSE holder[c]) = from
      <4>1. session[c] # NoSession => c \in Concerns(from)
        BY <2>1, <2>2, <3>2 DEF Fits, Speaker, Concerns
      <4>2. session'[c] = NoSession
        BY <1>3, <4>1
      <4>3. ~Active(c)
        BY <2>1, <2>2, <3>2 DEF Fits, Speaker, Active
      <4> QED BY <1>3, <4>2, <4>3 DEF SessionFits, TurnFits, Active
    <3>3. CASE Settled(c) /\ (IF c \in Group THEN authorized[c] ELSE holder[c]) # from
      <4>1. FittingWorkspace(c)' = FittingWorkspace(c)
        BY <1>1, <1>3, <2>2, <3>3, IdentityAssumption
        DEF FittingWorkspace, Moved, TypeOK, Settled
      <4>2. Settled(c)'
        BY <1>3, <2>2, <3>3 DEF Settled, Moved
      <4> QED BY <1>3, <2>1, <4>1, <4>2 DEF Fits, SessionFits, TurnFits, Active
    <3> QED BY <3>1, <3>2, <3>3
  <2> QED BY <2>4, <2>5, <2>6 DEF Fits
<1> QED BY <1>4, <1>5 DEF FitInv

LEMMA ConsumeFitKeeps ==
  ASSUME IInv, FitInv, NEW a \in Account, NEW b \in Account, ConsumeBindingCode(a, b)
  PROVE  FitInv'
<1>1. TypeOK /\ paired[a] /\ UNCHANGED planners
  BY DEF ConsumeBindingCode, IInv, CodesArePaired
<1>2. PICK from \in Principal, to \in Principal : from = holder[b] /\ to = holder[a]
  BY <1>1 DEF TypeOK
<1>3. CASE /\ UNCHANGED <<holder, workspace, authorized, turnVars, strayed>>
           /\ paired' \in {paired, [paired EXCEPT ![b] = TRUE]}
  <2>1. \A x \in Account : paired[x] => paired'[x]
    BY <1>1, <1>3 DEF TypeOK
  <2>2. ResponsibleArePaired'
    BY <1>1, <1>3, <2>1, PeopleFit
  <2> QED BY <1>3, <2>1, <2>2, OthersFit, IdentityAssumption DEF FitInv, turnVars
<1>4. CASE from = to
  BY <1>2, <1>3, <1>4 DEF ConsumeBindingCode
<1>5. CASE from # to
  <2>1. MergePrincipal(from, to, {b})
    BY <1>2, <1>5 DEF ConsumeBindingCode
  <2>2. CASE from \in planners
    BY <1>3, <2>1, <2>2 DEF MergePrincipal
  <2>3. CASE from \notin planners
    BY <1>1, <1>2, <1>5, <2>1, <2>3, MergeFits
  <2> QED BY <2>2, <2>3
<1> QED BY <1>4, <1>5

LEMMA UnbindFitKeeps ==
  ASSUME IInv, FitInv, NEW a \in Account, NEW new \in Fresh, UnbindPlatformIdentity(a, new)
  PROVE  FitInv'
<1>1. TypeOK /\ SharedArePaired /\ NoOrphans
  BY DEF IInv
<1>2. /\ paired[a] /\ new \notin principals
      /\ holder' = [holder EXCEPT ![a] = new]
      /\ workspace' = [workspace EXCEPT ![new] = workspace[holder[a]]]
      /\ strayed' = strayed \cup ({a} \cap Direct)
      /\ UNCHANGED <<paired, authorized, planners, tasks, turn, session>>
  BY DEF UnbindPlatformIdentity, turnVars
<1>3. PICK b \in Account \ {a} : holder[b] = holder[a] /\ paired[b]
  BY <1>1 DEF UnbindPlatformIdentity, SharedArePaired
<1>4. \A q : HasPaired(q) => q # new /\ HasPaired(q)'
  <2> SUFFICES ASSUME NEW q, NEW x \in Account, holder[x] = q, paired[x]
               PROVE  q # new /\ HasPaired(q)'
    BY DEF HasPaired
  <2>1. q # new
    BY <1>1, <1>2 DEF NoOrphans
  <2>2. PICK y \in Account : y # a /\ holder[y] = q /\ paired[y]
    BY <1>3
  <2>3. holder'[y] = q /\ paired'[y]
    BY <1>1, <1>2, <2>2 DEF TypeOK
  <2>4. HasPaired(q)'
    BY <2>3 DEF HasPaired
  <2> QED BY <2>1, <2>4
<1>5. ResponsibleArePaired'
  BY <1>2, <1>4 DEF FitInv, ResponsibleArePaired
<1>6. ASSUME NEW c \in Conversation \ strayed'
      PROVE  Fits(c)'
  <2>1. c \notin strayed /\ Fits(c) /\ (c \in Direct => c # a)
    BY <1>2 DEF FitInv
  <2>2. Speaker(c)' = Speaker(c) /\ (Settled(c) => Settled(c)')
    BY <1>1, <1>2, <2>1, IdentityAssumption DEF Speaker, Settled, TypeOK, Conversation
  <2>3. CASE Settled(c)
    <3>1. ASSUME NEW q \in Principal, q # new
          PROVE  workspace'[q] = workspace[q]
      BY <1>1, <1>2, <3>1 DEF TypeOK
    <3>2. CASE c \in Group
      <4>1. authorized[c] \in Principal /\ authorized[c] # new
        BY <1>1, <1>4, <2>3, <3>2, IdentityAssumption
        DEF Settled, TypeOK, FitInv, ResponsibleArePaired
      <4>2. FittingWorkspace(c)' = FittingWorkspace(c)
        BY <1>2, <3>1, <3>2, <4>1 DEF FittingWorkspace
      <4> QED BY <1>2, <2>1, <2>2, <4>2, UntouchedFits, IdentityAssumption
    <3>3. CASE c \in Direct /\ c \notin Group
      <4>1. holder[c] \in Principal /\ holder[c] # new /\ holder'[c] = holder[c]
        BY <1>1, <1>2, <2>1, <3>3, IdentityAssumption DEF TypeOK, NoOrphans
      <4>2. FittingWorkspace(c)' = FittingWorkspace(c)
        BY <1>2, <3>1, <3>3, <4>1 DEF FittingWorkspace
      <4> QED BY <1>2, <2>1, <2>2, <4>2, UntouchedFits, IdentityAssumption
    <3> QED BY <3>2, <3>3 DEF Conversation
  <2>4. CASE ~Settled(c)
    <3>1. session[c] = NoSession /\ turn[c].state = "none"
      BY <2>1, <2>4, IdentityAssumption
      DEF Fits, SessionFits, Settled, IInv, TurnsPlaced, Conversation
    <3> QED BY <1>2, <3>1, QuietFits
  <2> QED BY <2>3, <2>4
<1> QED BY <1>5, <1>6 DEF FitInv

LEMMA InitFit ==
  ASSUME Init
  PROVE  FitInv
<1>1. ResponsibleArePaired
  BY IdentityAssumption DEF Init, ResponsibleArePaired, Principal
<1>2. \A c \in Conversation : session[c] = NoSession /\ turn[c].state = "none"
  BY DEF Init, NoTurn
<1> QED BY <1>1, <1>2 DEF FitInv, Fits, SessionFits, TurnFits, Active

LEMMA StepFits ==
  ASSUME IInv, FitInv, [Next]_vars
  PROVE  FitInv'
<1>1. CASE CodeStep
  BY <1>1, CodesFitKeeps, ConfirmFitKeeps, ConsumeFitKeeps, UnbindFitKeeps DEF CodeStep
<1>2. CASE AdminStep
  BY <1>2, WorkspaceFitKeeps, AuthorizeFitKeeps, ScheduleFitKeeps DEF AdminStep
<1>3. CASE TurnStep
  BY <1>3, TurnFitKeeps
<1>4. CASE UNCHANGED vars
  BY <1>4
  DEF vars, codeVars, turnVars, FitInv, ResponsibleArePaired, HasPaired, Fits, SessionFits,
      TurnFits, Settled, FittingWorkspace, Active, Speaker
<1> QED BY <1>1, <1>2, <1>3, <1>4 DEF Next

-----------------------------------------------------------------------------
(* The strengthened invariant holds in every state.                           *)
THEOREM Inductive == Spec => []IInv
<1> QED BY InitInv, StepKeeps, PTL DEF Spec

(* Every row of the identity tables keeps its shape; a turn that begins finds *)
(* a workspace.                                                                *)
THEOREM TypeCorrect == Spec => []TypeOK
<1>1. IInv => TypeOK
  BY DEF IInv
<1> QED BY <1>1, Inductive, PTL

(* Binding and unbinding, in any order, leave no principal without an account *)
(* and no account without its principal.                                       *)
THEOREM NobodyOrphaned == Spec => []NoOrphans
<1>1. IInv => NoOrphans
  BY DEF IInv
<1> QED BY <1>1, Inductive, PTL

(* An account that shares a principal was itself admitted.                    *)
THEOREM OnlyPairedShare == Spec => []SharedArePaired
<1>1. IInv => SharedArePaired
  BY DEF IInv
<1> QED BY <1>1, Inductive, PTL

(* The database turns a merge down only because of a schedule.                *)
THEOREM RefusalsExplained == Spec => []RefusedOnlyForSchedules
<1>1. IInv => RefusedOnlyForSchedules
  BY DEF IInv
<1> QED BY <1>1, Inductive, PTL

(* Sessions fit their workspaces in every conversation that none of the four  *)
(* operations with a gap has touched.                                          *)
THEOREM FitInductive == Spec => []FitInv
<1>1. Init => FitInv
  BY InitFit
<1>2. IInv /\ FitInv /\ [Next]_vars => FitInv'
  BY StepFits
<1> QED BY <1>1, <1>2, Inductive, PTL DEF Spec

(* Whoever answers for a group or has a schedule keeps an account that is     *)
(* paired.                                                                     *)
THEOREM ResponsibleReachable == Spec => []ResponsibleArePaired
<1>1. FitInv => ResponsibleArePaired
  BY DEF FitInv
<1> QED BY <1>1, FitInductive, PTL

(* No message of such a conversation is failed with AGENT_SESSION_MISMATCH:   *)
(* its stored session has the workspace that its next turn will be given.     *)
THEOREM SessionsFitWorkspaces == Spec => []SessionsFitUnlessStrayed
<1>1. FitInv => SessionsFitUnlessStrayed
  BY DEF FitInv, Fits, SessionsFitUnlessStrayed
<1> QED BY <1>1, FitInductive, PTL
=============================================================================
