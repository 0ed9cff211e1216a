------------------------------- MODULE Identity -------------------------------
(***************************************************************************)
(* Who is who: IdentityService (src/identity/service.ts) with its callers in  *)
(* src/service/admin-service.ts and src/service/application.ts.  A platform  *)
(* identity (an account in one bot) belongs to a principal (a person);       *)
(* pairing admits an identity, binding merges two principals, unbinding      *)
(* splits one off.  A principal has a workspace, and Agent sessions are      *)
(* bound to the workspace they were started in.                              *)
(*                                                                         *)
(* Every operation is one transaction, but a turn lasts: it keeps the        *)
(* workspace it began with, and stores its session when the Agent has        *)
(* started, whatever happened to its principal in between.                   *)
(***************************************************************************)
EXTENDS Integers, FiniteSets

CONSTANTS
  Account,    \* platform identities; each begins with a principal of its own name
  Fresh,      \* names for the principals that unbinding creates
  Direct,     \* accounts that write to the bot directly: the chat has their name
  Group,      \* group conversations
  Nobody,     \* no principal
  Workspace,  \* directories
  Home,       \* the default one of the AgentProfile
  NoSession   \* a conversation without a stored Agent session

Principal == Account \cup Fresh
Conversation == Direct \cup Group

ASSUME IdentityAssumption ==
  /\ Direct \subseteq Account
  /\ Account \cap Fresh = {}
  /\ Account \cap Group = {}
  /\ Nobody \notin Principal
  /\ Home \in Workspace
  /\ NoSession \notin Workspace

VARIABLES
  principals,  \* the rows of principals
  holder,      \* platform_identities.principal_id
  paired,      \* platform_identities.paired
  pairing,     \* accounts with a pairing code that is neither used nor expired
  binding,     \* accounts with such a binding code
  workspace,   \* principals.workspace
  authorized,  \* group_authorizations.authorized_by_principal_id
  planners,    \* principals named by a row of schedules, which is never deleted
  tasks,       \* tasks: whose there are in each direct chat, and if any in a group
  turn,        \* the message each conversation is busy with
  session,     \* agent_sessions: the workspace of the stored session
  refused,     \* principals whose merge the database has refused (history)
  strayed      \* conversations left with a session that may not fit (history)

codeVars == <<pairing, binding>>
turnVars == <<tasks, turn, session>>
vars == <<principals, holder, paired, codeVars, workspace, authorized, planners,
          turnVars, refused, strayed>>

-----------------------------------------------------------------------------
NoTurn == [state |-> "none", principal |-> Nobody, workspace |-> Home]

TypeOK ==
  /\ principals \subseteq Principal
  /\ holder \in [Account -> Principal]
  /\ paired \in [Account -> BOOLEAN]
  /\ pairing \subseteq Account
  /\ binding \subseteq Account
  /\ workspace \in [Principal -> Workspace]
  /\ authorized \in [Group -> Principal \cup {Nobody}]
  /\ planners \subseteq Principal
  /\ tasks \subseteq Conversation \X (Principal \cup {Nobody})
  /\ turn \in [Conversation -> [state: {"none", "queued", "active"},
                                principal: Principal \cup {Nobody},
                                workspace: Workspace]]
  /\ session \in [Conversation -> Workspace \cup {NoSession}]
  /\ refused \subseteq Principal
  /\ strayed \subseteq Conversation

(* Every account has written once: ingest has stored it with a principal.   *)
Init ==
  /\ principals = Account
  /\ holder = [a \in Account |-> a]
  /\ paired = [a \in Account |-> FALSE]
  /\ pairing = {}
  /\ binding = {}
  /\ workspace = [p \in Principal |-> Home]
  /\ authorized = [g \in Group |-> Nobody]
  /\ planners = {}
  /\ tasks = {}
  /\ turn = [c \in Conversation |-> NoTurn]
  /\ session = [c \in Conversation |-> NoSession]
  /\ refused = {}
  /\ strayed = {}

(* workspace(): the authorizer's in a group, the speaker's in a direct chat. *)
WorkspaceOf(c, p) ==
  IF c \in Group THEN workspace[authorized[c]] ELSE workspace[p]

HasPaired(p) == \E a \in Account : holder[a] = p /\ paired[a]

Active(c) == turn[c].state = "active"

(* clearSessionsForPrincipal: the conversations in which it wrote, or that   *)
(* it answers for.                                                          *)
Concerns(p) ==
  {c \in Direct : <<c, p>> \in tasks}
    \cup {g \in Group : authorized[g] = p /\ <<g, Nobody>> \in tasks}

ClearedFor(cs) == [c \in Conversation |-> IF c \in cs THEN NoSession ELSE session[c]]

-----------------------------------------------------------------------------
(* Pairing.  A message of an account that is not paired yields a code.  A    *)
(* code that expires is one that is not used any more.                      *)
CreatePairingCode(a) ==
  /\ ~paired[a]
  /\ pairing' = pairing \cup {a}
  /\ UNCHANGED <<principals, holder, paired, binding, workspace, authorized, planners,
                 turnVars, refused, strayed>>

(* All codes of the account are used up.  A code that was used already       *)
(* changes nothing.  The account may have been bound, and so paired, since   *)
(* the code was made: the workspace of its principal is replaced all the     *)
(* same, and its sessions stay.                                              *)
ConfirmPairing(a, w) ==
  /\ a \in pairing
  /\ pairing' = pairing \ {a}
  /\ paired' = [paired EXCEPT ![a] = TRUE]
  /\ workspace' = [workspace EXCEPT ![holder[a]] = w]
  /\ strayed' = strayed \cup
       (IF paired[a] THEN {c \in Direct : holder[c] = holder[a]}
                            \cup {g \in Group : authorized[g] = holder[a]}
                     ELSE {})
  /\ UNCHANGED <<principals, holder, binding, authorized, planners, turnVars, refused>>

-----------------------------------------------------------------------------
\* Mutant: an identity that is not paired gets a code.
CreateBindingCodeUnpaired(a) ==
  /\ binding' = binding \cup {a}
  /\ UNCHANGED <<principals, holder, paired, pairing, workspace, authorized, planners,
                 turnVars, refused, strayed>>

(* Only a paired account gets a binding code.                              *)
CreateBindingCode(a) ==
  /\ paired[a]
  /\ binding' = binding \cup {a}
  /\ UNCHANGED <<principals, holder, paired, pairing, workspace, authorized, planners,
                 turnVars, refused, strayed>>

Moved(p, from, to) == IF p = from THEN to ELSE p

\* Mutant: the group authorizations keep the merged person.
MovedAuthorizationsKept(from, to) == authorized

(* The rows of other tables that mergePrincipal rewrites.                   *)
MovedAuthorizations(from, to) == [g \in Group |-> Moved(authorized[g], from, to)]

MovedTasks(from, to) == {<<entry[1], Moved(entry[2], from, to)>> : entry \in tasks}

MovedTurns(from, to) == [c \in Conversation |->
                           [turn[c] EXCEPT !.principal = Moved(@, from, to)]]

(* mergePrincipal.  Deleting the principal fails, and takes everything else *)
(* back, when a row still names it; it does not rewrite schedules.          *)
MergePrincipal(from, to, others) ==
  IF \/ from \in planners
     \/ \E g \in Group : MovedAuthorizations(from, to)[g] = from
  THEN /\ refused' = refused \cup {from}
       /\ UNCHANGED <<principals, holder, paired, workspace, authorized, turnVars, strayed>>
  ELSE /\ session' = ClearedFor(Concerns(from))
       /\ holder' = [a \in Account |-> Moved(holder[a], from, to)]
       /\ tasks' = MovedTasks(from, to)
       /\ turn' = MovedTurns(from, to)
       /\ authorized' = MovedAuthorizations(from, to)
       /\ principals' = principals \ {from}
       /\ workspace' = [workspace EXCEPT ![from] = Home]
       /\ paired' = [a \in Account |-> paired[a] \/ a \in others]
       /\ strayed' = strayed \cup {c \in Conversation : Active(c) /\ turn[c].principal = from}
                             \cup {g \in Group : Active(g) /\ authorized[g] = from}
       /\ UNCHANGED refused

(* consumeBindingCode: account b submits a code that account a has made.     *)
ConsumeBindingCode(a, b) ==
  /\ a \in binding
  /\ a # b
  /\ IF holder[a] = holder[b]
     THEN /\ binding' = binding \ {a}
          /\ paired' = [paired EXCEPT ![b] = TRUE]
          /\ UNCHANGED <<principals, holder, workspace, authorized, turnVars, refused, strayed>>
     ELSE /\ MergePrincipal(holder[b], holder[a], {b})
          /\ binding' = IF holder' = holder THEN binding ELSE binding \ {a}
  /\ UNCHANGED <<pairing, planners>>

\* Mutant: the last identity of a person may leave.
UnbindAnyway(a, new) ==
  /\ paired[a]
  /\ new \in Fresh \ principals
  /\ principals' = principals \cup {new}
  /\ holder' = [holder EXCEPT ![a] = new]
  /\ workspace' = [workspace EXCEPT ![new] = workspace[holder[a]]]
  /\ binding' = binding \ {a}
  /\ strayed' = strayed \cup ({a} \cap Direct)
  /\ UNCHANGED <<paired, pairing, authorized, planners, turnVars, refused>>

(* The account leaves with a new principal and the same workspace; tasks,   *)
(* memory, sessions and schedules stay where they are.                      *)
UnbindPlatformIdentity(a, new) ==
  /\ paired[a]
  /\ \E b \in Account \ {a} : holder[b] = holder[a]
  /\ new \in Fresh \ principals
  /\ principals' = principals \cup {new}
  /\ holder' = [holder EXCEPT ![a] = new]
  /\ workspace' = [workspace EXCEPT ![new] = workspace[holder[a]]]
  /\ binding' = binding \ {a}
  /\ strayed' = strayed \cup ({a} \cap Direct)
  /\ UNCHANGED <<paired, pairing, authorized, planners, turnVars, refused>>

-----------------------------------------------------------------------------
\* Mutant: a running turn is no obstacle.
SetWorkspaceAnytime(p, w) ==
  /\ p \in principals
  /\ HasPaired(p)
  /\ workspace[p] # w
  /\ workspace' = [workspace EXCEPT ![p] = w]
  /\ session' = ClearedFor(Concerns(p))
  /\ UNCHANGED <<principals, holder, paired, codeVars, authorized, planners, tasks, turn,
                 refused, strayed>>

(* setWorkspace: refused while a turn runs in the workspace.                *)
SetWorkspace(p, w) ==
  /\ p \in principals
  /\ HasPaired(p)
  /\ workspace[p] # w
  /\ \A c \in Direct : Active(c) => turn[c].principal # p
  /\ \A g \in Group : Active(g) => authorized[g] # p
  /\ workspace' = [workspace EXCEPT ![p] = w]
  /\ session' = ClearedFor(Concerns(p))
  /\ UNCHANGED <<principals, holder, paired, codeVars, authorized, planners, tasks, turn,
                 refused, strayed>>

(* authorizeGroup: another authorizer brings another workspace, also to a    *)
(* group whose turn has begun.                                               *)
AuthorizeGroup(g, p) ==
  /\ HasPaired(p)
  /\ authorized[g] # p
  /\ authorized' = [authorized EXCEPT ![g] = p]
  /\ session' = IF authorized[g] # Nobody /\ <<g, Nobody>> \in tasks
                THEN ClearedFor({g}) ELSE session
  /\ strayed' = strayed \cup (IF Active(g) THEN {g} ELSE {})
  /\ UNCHANGED <<principals, holder, paired, codeVars, workspace, planners, tasks, turn,
                 refused>>

(* A schedule is made for a principal that may use its conversation.        *)
CreateSchedule(p) ==
  /\ HasPaired(p)
  /\ planners' = planners \cup {p}
  /\ UNCHANGED <<principals, holder, paired, codeVars, workspace, authorized, turnVars,
                 refused, strayed>>

-----------------------------------------------------------------------------
(* Messages and turns.  A task keeps the principal its account had when it   *)
(* was stored.  Who speaks in a group makes no difference here: the group's  *)
(* workspace is its authorizer's.                                           *)
Admitted(a, c) == IF c \in Group THEN authorized[c] # Nobody ELSE c = a /\ paired[a]

Message(a, c) ==
  /\ Admitted(a, c)
  /\ turn[c].state = "none"
  /\ LET p == IF c \in Group THEN Nobody ELSE holder[a]
     IN /\ turn' = [turn EXCEPT ![c] = [state |-> "queued", principal |-> p,
                                        workspace |-> Home]]
        /\ tasks' = tasks \cup {<<c, p>>}
  /\ UNCHANGED <<principals, holder, paired, codeVars, workspace, authorized, planners,
                 session, refused, strayed>>

(* execute: a stored session of another workspace fails the task, and stays. *)
BeginTurn(c) ==
  /\ turn[c].state = "queued"
  /\ LET w == WorkspaceOf(c, turn[c].principal)
     IN turn' = [turn EXCEPT ![c] = IF session[c] \in {NoSession, w}
                                    THEN [state |-> "active", principal |-> @.principal,
                                          workspace |-> w]
                                    ELSE NoTurn]
  /\ UNCHANGED <<principals, holder, paired, codeVars, workspace, authorized, planners,
                 tasks, session, refused, strayed>>

(* The Agent reports its session, and saveSession stores it with the         *)
(* workspace the turn began with.                                           *)
SessionStarted(c) ==
  /\ Active(c)
  /\ session' = [session EXCEPT ![c] = turn[c].workspace]
  /\ UNCHANGED <<principals, holder, paired, codeVars, workspace, authorized, planners,
                 tasks, turn, refused, strayed>>

EndTurn(c) ==
  /\ Active(c)
  /\ turn' = [turn EXCEPT ![c] = NoTurn]
  /\ UNCHANGED <<principals, holder, paired, codeVars, workspace, authorized, planners,
                 tasks, session, refused, strayed>>

-----------------------------------------------------------------------------
CodeStep ==
  \E a \in Account :
    \/ CreatePairingCode(a)
    \/ \E w \in Workspace : ConfirmPairing(a, w)
    \/ CreateBindingCode(a)
    \/ \E b \in Account : ConsumeBindingCode(a, b)
    \/ \E new \in Fresh : UnbindPlatformIdentity(a, new)

AdminStep ==
  \E p \in Principal :
    \/ \E w \in Workspace : SetWorkspace(p, w)
    \/ \E g \in Group : AuthorizeGroup(g, p)
    \/ CreateSchedule(p)

TurnStep ==
  \E c \in Conversation :
    \/ \E a \in Account : Message(a, c)
    \/ BeginTurn(c)
    \/ SessionStarted(c)
    \/ EndTurn(c)

Next == CodeStep \/ AdminStep \/ TurnStep

Spec == Init /\ [][Next]_vars

-----------------------------------------------------------------------------
(* Properties.                                                             *)

(* Every principal has an account and every account a principal: no          *)
(* sequence of bindings and unbindings leaves a person that nobody can speak *)
(* for, or a row that names one that is gone.                                *)
NoOrphans == principals = {holder[a] : a \in Account}

(* Sharing a principal is as good as pairing: an account that shares one was *)
(* admitted itself, though a binding moves every account of the principal    *)
(* it merges and asks only for one of them.                                  *)
SharedArePaired ==
  \A a, b \in Account : (a # b /\ holder[a] = holder[b]) => paired[a]

(* Whoever answers for a group or has a schedule can still be reached: one   *)
(* of the person's accounts is paired, whatever was bound or unbound since.  *)
ResponsibleArePaired ==
  \A p \in Principal : (p \in planners \/ \E g \in Group : authorized[g] = p) => HasPaired(p)

(* A valid binding code is turned down by the database for one reason only:  *)
(* a schedule names the principal that would be merged.                      *)
RefusedOnlyForSchedules == refused \subseteq planners

(* The workspace of a stored session, and that of a turn that has begun, is  *)
(* the one that the next message of the conversation will be given: if it    *)
(* were not, every message would fail with AGENT_SESSION_MISMATCH.  The four *)
(* operations that change a workspace without looking at turns or at all     *)
(* sessions are told in strayed.                                             *)
FittingWorkspace(c) == IF c \in Group THEN workspace[authorized[c]] ELSE workspace[holder[c]]
Settled(c) == c \in Direct \/ authorized[c] # Nobody

SessionFits(c) == session[c] = NoSession \/ (Settled(c) /\ session[c] = FittingWorkspace(c))

TurnFits(c) == Active(c) => (Settled(c) /\ turn[c].workspace = FittingWorkspace(c))

SessionsFitUnlessStrayed ==
  \A c \in Conversation \ strayed : SessionFits(c) /\ TurnFits(c)
=============================================================================
