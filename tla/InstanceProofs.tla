---------------------------- MODULE InstanceProofs ----------------------------
(***************************************************************************)
(* Theorems about Instance, for any number of services, offline commands,  *)
(* files, starts and crashes.                                              *)
(*                                                                         *)
(* The argument: a process listens exactly in the phases in which it       *)
(* believes to hold the lock, and binding fails on a path that exists.  So *)
(* as long as nobody removes the path of a live listener there is one      *)
(* listener, the path leads to it, and nobody else uses the data; a        *)
(* restore is then alone, and every other user finds the files it has left *)
(* whole.  Each lemma below is one step of the code, and has one part for  *)
(* each conjunct of the invariant.                                         *)
(***************************************************************************)
EXTENDS Instance, TLAPS

(* The part of TypeOK that speaks of the phases. *)
PcOK ==
  /\ pc \in [Process -> ServicePhase \cup CliPhase]
  /\ \A s \in Service : pc[s] \in ServicePhase
  /\ \A c \in Cli : pc[c] \in CliPhase

LEMMA SingleListener ==
  ASSUME IInv, removed = {}
  PROVE  \A p, q \in listening : p = q
BY DEF IInv, PathLeadsToListener

LEMMA OwnersListen ==
  ASSUME IInv
  PROVE  owners \subseteq listening
<1>1. \A p \in owners : p \in Service \cup Cli
  BY DEF IInv, TypeOK, Process
<1>2. Open \subseteq Holding /\ {"working", "restoring"} \subseteq Leasing
  BY DEF Open, Holding, Leasing
<1> QED BY <1>1, <1>2 DEF IInv, ListensWhileHolding, UsesWhileOpen

LEMMA GotoKeepsService ==
  ASSUME TypeOK, NEW s \in Service, NEW phase \in ServicePhase, Goto(s, phase)
  PROVE  PcOK'
BY InstanceAssumption DEF PcOK, TypeOK, Goto, Process

LEMMA TemporaryKeeps ==
  ASSUME TypeOK, NEW s \in Service, NEW writer \in {"main", "probe"},
         CreateTemporary(s, writer)
  PROVE  tmp' \in [Service -> {"none", "main", "probe", "dead"}]
BY DEF TypeOK, CreateTemporary

LEMMA NotCopiedType == NotCopied \in [File -> Int]
BY DEF NotCopied

LEMMA LookAtEndpointKeeps ==
  ASSUME IInv, NEW s \in Service, LookAtEndpoint(s)
  PROVE  IInv'
<1> USE InstanceAssumption DEF IInv, socketVars, metaVars, dataVars, backupVars
<1>1. TypeOK'
  <2>1. PcOK'
    BY DEF PcOK, TypeOK, Starting, ServicePhase, Process, LookAtEndpoint, Goto
  <2>2. budget' \in [{"starts", "commands", "requests", "crashes"} -> Nat]
    BY DEF TypeOK, LookAtEndpoint, Spend
  <2> QED
    BY <2>1, <2>2 DEF PcOK, TypeOK, LookAtEndpoint
<1>2. ListensWhileHolding'
  BY DEF ListensWhileHolding, Holding, LookAtEndpoint, Goto
<1>3. UsesWhileOpen'
  BY DEF UsesWhileOpen, Open, LookAtEndpoint, Goto
<1>4. PathLeadsToListener'
  BY DEF PathLeadsToListener, LookAtEndpoint
<1>5. CopierServed'
  BY DEF CopierServed, Open, LookAtEndpoint, Goto
<1>6. CopiesMatch'
  BY DEF CopiesMatch, Outlived, Undisturbed, LookAtEndpoint
<1>7. WholeOrRestoring'
  BY DEF WholeOrRestoring, Whole, Undisturbed, LookAtEndpoint, Goto
<1> QED BY <1>1, <1>2, <1>3, <1>4, <1>5, <1>6, <1>7

LEMMA TestEndpointKeeps ==
  ASSUME IInv, NEW s \in Service, TestEndpoint(s)
  PROVE  IInv'
<1> USE InstanceAssumption DEF IInv, socketVars, metaVars, dataVars, backupVars
<1>. PICK phase \in {"down", "refused"} : Goto(s, phase)
  BY DEF TestEndpoint
<1>1. TypeOK'
  BY DEF TypeOK, Starting, ServicePhase, Process, TestEndpoint, Goto
<1>2. ListensWhileHolding'
  BY DEF ListensWhileHolding, Holding, TestEndpoint, Goto
<1>3. UsesWhileOpen'
  BY DEF UsesWhileOpen, Open, TestEndpoint, Goto
<1>4. PathLeadsToListener'
  BY DEF PathLeadsToListener, TestEndpoint
<1>5. CopierServed'
  BY DEF CopierServed, Open, TestEndpoint, Goto
<1>6. CopiesMatch'
  BY DEF CopiesMatch, Outlived, Undisturbed, TestEndpoint
<1>7. WholeOrRestoring'
  BY DEF WholeOrRestoring, Whole, Undisturbed, TestEndpoint, Goto
<1> QED BY <1>1, <1>2, <1>3, <1>4, <1>5, <1>6, <1>7

LEMMA RecheckEndpointKeeps ==
  ASSUME IInv, NEW s \in Service, RecheckEndpoint(s)
  PROVE  IInv'
<1> USE InstanceAssumption DEF IInv, socketVars, metaVars, dataVars, backupVars
<1>1. TypeOK'
  BY DEF TypeOK, Starting, ServicePhase, Process, RecheckEndpoint, Goto
<1>2. ListensWhileHolding'
  BY DEF ListensWhileHolding, Holding, RecheckEndpoint, Goto
<1>3. UsesWhileOpen'
  BY DEF UsesWhileOpen, Open, RecheckEndpoint, Goto
<1>4. PathLeadsToListener'
  BY DEF PathLeadsToListener, RecheckEndpoint
<1>5. CopierServed'
  BY DEF CopierServed, Open, RecheckEndpoint, Goto
<1>6. CopiesMatch'
  BY DEF CopiesMatch, Outlived, Undisturbed, RecheckEndpoint
<1>7. WholeOrRestoring'
  BY DEF WholeOrRestoring, Whole, Undisturbed, RecheckEndpoint, Goto
<1> QED BY <1>1, <1>2, <1>3, <1>4, <1>5, <1>6, <1>7

LEMMA RemoveEndpointKeeps ==
  ASSUME IInv, NEW s \in Service, RemoveEndpoint(s)
  PROVE  IInv'
<1> USE InstanceAssumption DEF IInv, socketVars, metaVars, dataVars, backupVars
<1>1. TypeOK'
  BY DEF TypeOK, Starting, ServicePhase, Process, RemoveEndpoint, Goto
<1>2. ListensWhileHolding'
  BY DEF ListensWhileHolding, Holding, RemoveEndpoint, Goto
<1>3. UsesWhileOpen'
  BY DEF UsesWhileOpen, Open, RemoveEndpoint, Goto
<1>4. PathLeadsToListener'
  BY DEF PathLeadsToListener, RemoveEndpoint
<1>5. CopierServed'
  BY DEF CopierServed, Open, RemoveEndpoint, Goto
<1>6. CopiesMatch'
  BY DEF CopiesMatch, Outlived, Undisturbed, RemoveEndpoint
<1>7. WholeOrRestoring'
  BY DEF WholeOrRestoring, Whole, Undisturbed, RemoveEndpoint, Goto
<1> QED BY <1>1, <1>2, <1>3, <1>4, <1>5, <1>6, <1>7

LEMMA ListenControlKeeps ==
  ASSUME IInv, NEW s \in Service, ListenControl(s)
  PROVE  IInv'
<1> USE InstanceAssumption DEF IInv, socketVars, metaVars, dataVars, backupVars
<1>1. CASE path = NoSocket /\ path' = s /\ listening' = listening \cup {s} /\ Goto(s, "owned")
  <2> USE <1>1
  <2>1. TypeOK'
    BY DEF TypeOK, Goto, ListenControl, Holding, ServicePhase, Process
  <2>2. ListensWhileHolding'
    BY DEF ListensWhileHolding, TypeOK, Goto, Holding, Process
  <2>3. UsesWhileOpen'
    BY DEF UsesWhileOpen, Goto, ListenControl, Open
  <2>4. PathLeadsToListener'
    BY DEF PathLeadsToListener, TypeOK, ListenControl
  <2>5. CopierServed'
    BY DEF CopierServed, Goto, ListenControl, Open
  <2>6. CopiesMatch'
    <3>1. copier # s
      BY DEF CopierServed, Open, ListenControl
    <3> QED BY <3>1 DEF CopiesMatch, Outlived, Undisturbed, ListenControl
  <2>7. WholeOrRestoring'
    BY DEF WholeOrRestoring, Whole, Undisturbed, Goto, ListenControl
  <2> QED BY <2>1, <2>2, <2>3, <2>4, <2>5, <2>6, <2>7
<1>2. CASE path # NoSocket /\ Goto(s, "down") /\ UNCHANGED <<path, listening>>
  <2> USE <1>2
  <2>1. TypeOK'
    BY DEF TypeOK, Goto, ListenControl, ServicePhase, Process
  <2>2. ListensWhileHolding'
    BY DEF ListensWhileHolding, Goto, ListenControl, Holding
  <2>3. UsesWhileOpen'
    BY DEF UsesWhileOpen, Goto, ListenControl, Open
  <2>4. PathLeadsToListener'
    BY DEF PathLeadsToListener, ListenControl
  <2>5. CopierServed'
    BY DEF CopierServed, Goto, ListenControl, Open
  <2>6. CopiesMatch'
    BY DEF CopiesMatch, Outlived, Undisturbed, ListenControl
  <2>7. WholeOrRestoring'
    BY DEF WholeOrRestoring, Whole, Undisturbed, Goto, ListenControl
  <2> QED BY <2>1, <2>2, <2>3, <2>4, <2>5, <2>6, <2>7
<1> QED BY <1>1, <1>2 DEF ListenControl, Bind

LEMMA WriteMetadataKeeps ==
  ASSUME IInv, NEW s \in Service, WriteMetadata(s)
  PROVE  IInv'
<1> USE InstanceAssumption DEF IInv, socketVars, metaVars, dataVars, backupVars
<1>1. TypeOK'
  <2>1. PcOK'
    <3>1. CASE Goto(s, "naming")
      BY <3>1, GotoKeepsService DEF ServicePhase, Starting, Holding
    <3>2. CASE Goto(s, "leaving")
      BY <3>2, GotoKeepsService DEF ServicePhase, Starting, Holding
    <3> QED BY <3>1, <3>2 DEF WriteMetadata
  <2>2. tmp' \in [Service -> {"none", "main", "probe", "dead"}]
    <3>1. CASE CreateTemporary(s, "main")
      BY <3>1, TemporaryKeeps DEF TypeOK
    <3>2. CASE UNCHANGED tmp
      BY <3>2 DEF TypeOK
    <3> QED BY <3>1, <3>2 DEF WriteMetadata
  <2> QED
    BY <2>1, <2>2 DEF PcOK, TypeOK, WriteMetadata
<1>2. ListensWhileHolding'
  BY DEF ListensWhileHolding, TypeOK, Holding, Process, WriteMetadata, Goto
<1>3. UsesWhileOpen'
  <2>1. CASE CreateTemporary(s, "main") /\ Goto(s, "naming")
    BY <2>1 DEF UsesWhileOpen, Open, WriteMetadata, Goto
  <2>2. CASE Goto(s, "leaving") /\ UNCHANGED tmp
    BY <2>2 DEF UsesWhileOpen, Open, WriteMetadata, Goto
  <2> QED BY <2>1, <2>2 DEF WriteMetadata, CreateTemporary, Goto
<1>4. PathLeadsToListener'
  BY DEF PathLeadsToListener, WriteMetadata
<1>5. CopierServed'
  BY DEF CopierServed, TypeOK, Open, Process, WriteMetadata, Goto
<1>6. CopiesMatch'
  BY DEF CopiesMatch, Outlived, Undisturbed, WriteMetadata
<1>7. WholeOrRestoring'
  BY DEF WholeOrRestoring, Whole, Undisturbed, TypeOK, Process, WriteMetadata, Goto
<1> QED BY <1>1, <1>2, <1>3, <1>4, <1>5, <1>6, <1>7

LEMMA RenameMetadataKeeps ==
  ASSUME IInv, NEW s \in Service, RenameMetadata(s)
  PROVE  IInv'
<1> USE InstanceAssumption DEF IInv, socketVars, metaVars, dataVars, backupVars
<1>1. TypeOK'
  BY DEF TypeOK, Holding, ServicePhase, Process, RenameMetadata, RenameTemporary, AfterRename, Goto
<1>2. ListensWhileHolding'
  BY DEF ListensWhileHolding, Holding, RenameMetadata, AfterRename, Goto
<1>3. UsesWhileOpen'
  BY DEF UsesWhileOpen, Open, RenameMetadata, AfterRename, Goto
<1>4. PathLeadsToListener'
  BY DEF PathLeadsToListener, RenameMetadata
<1>5. CopierServed'
  BY DEF CopierServed, Open, RenameMetadata, AfterRename, Goto
<1>6. CopiesMatch'
  BY DEF CopiesMatch, Outlived, Undisturbed, RenameMetadata
<1>7. WholeOrRestoring'
  BY DEF WholeOrRestoring, Whole, Undisturbed, RenameMetadata, Goto
<1> QED BY <1>1, <1>2, <1>3, <1>4, <1>5, <1>6, <1>7

LEMMA CreateApplicationKeeps ==
  ASSUME IInv, NEW s \in Service, CreateApplication(s)
  PROVE  IInv'
<1> USE InstanceAssumption DEF IInv, socketVars, metaVars, dataVars, backupVars
<1>1. TypeOK'
  <2>1. PcOK'
    <3>1. CASE Goto(s, "serving")
      BY <3>1, GotoKeepsService DEF ServicePhase, Starting, Holding
    <3>2. CASE Goto(s, "leaving")
      BY <3>2, GotoKeepsService DEF ServicePhase, Starting, Holding
    <3> QED BY <3>1, <3>2 DEF CreateApplication
  <2> QED
    BY <2>1 DEF PcOK, TypeOK, Process, CreateApplication
<1>2. ListensWhileHolding'
  BY DEF ListensWhileHolding, TypeOK, Holding, Process, CreateApplication, Goto
<1>3. UsesWhileOpen'
  <2>1. CASE Goto(s, "serving") /\ owners' = owners \cup {s}
    BY <2>1 DEF UsesWhileOpen, TypeOK, Open, Process, CreateApplication, Goto
  <2>2. CASE Goto(s, "leaving") /\ UNCHANGED <<owners, wal>>
    BY <2>2 DEF UsesWhileOpen, Open, CreateApplication, Goto
  <2> QED BY <2>1, <2>2 DEF CreateApplication, Goto
<1>4. PathLeadsToListener'
  BY DEF PathLeadsToListener, CreateApplication
<1>5. CopierServed'
  BY DEF CopierServed, TypeOK, Open, Process, CreateApplication, Goto
<1>6. CopiesMatch'
  BY DEF CopiesMatch, Outlived, Undisturbed, CopierServed, UsesWhileOpen, CreateApplication
<1>7. WholeOrRestoring'
  BY DEF WholeOrRestoring, Whole, Undisturbed, TypeOK, Process, CreateApplication, Goto
<1> QED BY <1>1, <1>2, <1>3, <1>4, <1>5, <1>6, <1>7

LEMMA StartFailsKeeps ==
  ASSUME IInv, NEW s \in Service, StartFails(s)
  PROVE  IInv'
<1> USE InstanceAssumption DEF IInv, socketVars, metaVars, dataVars, backupVars
<1>1. TypeOK'
  BY DEF TypeOK, Holding, ServicePhase, Process, StartFails, Goto
<1>2. ListensWhileHolding'
  BY DEF ListensWhileHolding, Holding, StartFails, Goto
<1>3. UsesWhileOpen'
  BY DEF UsesWhileOpen, Open, StartFails, Goto
<1>4. PathLeadsToListener'
  BY DEF PathLeadsToListener, StartFails
<1>5. CopierServed'
  BY DEF CopierServed, Open, StartFails, Goto
<1>6. CopiesMatch'
  BY DEF CopiesMatch, Outlived, Undisturbed, StartFails
<1>7. WholeOrRestoring'
  BY DEF WholeOrRestoring, Whole, Undisturbed, StartFails, Goto
<1> QED BY <1>1, <1>2, <1>3, <1>4, <1>5, <1>6, <1>7

LEMMA FinishStartKeeps ==
  ASSUME IInv, NEW s \in Service, FinishStart(s)
  PROVE  IInv'
<1> USE InstanceAssumption DEF IInv, socketVars, metaVars, dataVars, backupVars
<1>1. TypeOK'
  <2>1. PcOK'
    <3>1. CASE Goto(s, "ready")
      BY <3>1, GotoKeepsService DEF ServicePhase, Starting, Holding
    <3>2. CASE Goto(s, "readying")
      BY <3>2, GotoKeepsService DEF ServicePhase, Starting, Holding
    <3>3. CASE Goto(s, "unwinding")
      BY <3>3, GotoKeepsService DEF ServicePhase, Starting, Holding
    <3> QED BY <3>1, <3>2, <3>3 DEF FinishStart
  <2>2. lifecycle' \in [Service -> {"starting", "ready", "degraded", "stopping"}]
    BY DEF TypeOK, FinishStart, StateFor
  <2>3. tmp' \in [Service -> {"none", "main", "probe", "dead"}]
    <3>1. CASE CreateTemporary(s, "main")
      BY <3>1, TemporaryKeeps DEF TypeOK
    <3>2. CASE UNCHANGED tmp
      BY <3>2 DEF TypeOK
    <3> QED BY <3>1, <3>2 DEF FinishStart
  <2> QED
    BY <2>1, <2>2, <2>3 DEF PcOK, TypeOK, FinishStart, StateFor
<1>2. ListensWhileHolding'
  <2>1. CASE Goto(s, "ready")
    BY <2>1 DEF ListensWhileHolding, Holding, FinishStart, StateFor, Goto
  <2>2. CASE Goto(s, "readying")
    BY <2>2 DEF ListensWhileHolding, Holding, FinishStart, StateFor, Goto
  <2>3. CASE Goto(s, "unwinding")
    BY <2>3 DEF ListensWhileHolding, Holding, FinishStart, StateFor, Goto
  <2> QED BY <2>1, <2>2, <2>3 DEF FinishStart, CreateTemporary, StateFor, Goto
<1>3. UsesWhileOpen'
  <2>1. CASE Goto(s, "ready")
    BY <2>1 DEF UsesWhileOpen, Open, FinishStart, StateFor, Goto
  <2>2. CASE Goto(s, "readying")
    BY <2>2 DEF UsesWhileOpen, Open, FinishStart, StateFor, Goto
  <2>3. CASE Goto(s, "unwinding")
    BY <2>3 DEF UsesWhileOpen, Open, FinishStart, StateFor, Goto
  <2> QED BY <2>1, <2>2, <2>3 DEF FinishStart, CreateTemporary, StateFor, Goto
<1>4. PathLeadsToListener'
  BY DEF PathLeadsToListener, FinishStart, StateFor
<1>5. CopierServed'
  BY DEF CopierServed, TypeOK, Open, Process, FinishStart, StateFor, Goto
<1>6. CopiesMatch'
  BY DEF CopiesMatch, Outlived, Undisturbed, FinishStart, StateFor
<1>7. WholeOrRestoring'
  BY DEF WholeOrRestoring, Whole, Undisturbed, TypeOK, Process, FinishStart, StateFor, Goto
<1> QED BY <1>1, <1>2, <1>3, <1>4, <1>5, <1>6, <1>7

LEMMA QueryReadinessKeeps ==
  ASSUME IInv, NEW s \in Service, QueryReadiness(s)
  PROVE  IInv'
<1> USE InstanceAssumption DEF IInv, socketVars, metaVars, dataVars, backupVars
<1>1. TypeOK'
  BY DEF TypeOK, QueryReadiness, CreateTemporary, StateFor
<1>2. ListensWhileHolding'
  BY DEF ListensWhileHolding, QueryReadiness, StateFor
<1>3. UsesWhileOpen'
  BY DEF UsesWhileOpen, QueryReadiness, StateFor
<1>4. PathLeadsToListener'
  BY DEF PathLeadsToListener, QueryReadiness, StateFor
<1>5. CopierServed'
  BY DEF CopierServed, QueryReadiness, StateFor
<1>6. CopiesMatch'
  BY DEF CopiesMatch, Outlived, Undisturbed, QueryReadiness, StateFor
<1>7. WholeOrRestoring'
  BY DEF WholeOrRestoring, Whole, Undisturbed, QueryReadiness, StateFor
<1> QED BY <1>1, <1>2, <1>3, <1>4, <1>5, <1>6, <1>7

LEMMA AnswerReadinessKeeps ==
  ASSUME IInv, NEW s \in Service, AnswerReadiness(s)
  PROVE  IInv'
<1> USE InstanceAssumption DEF IInv, socketVars, metaVars, dataVars, backupVars
<1>1. TypeOK'
  BY DEF TypeOK, AnswerReadiness, RenameTemporary
<1>2. ListensWhileHolding'
  BY DEF ListensWhileHolding, AnswerReadiness
<1>3. UsesWhileOpen'
  BY DEF UsesWhileOpen, AnswerReadiness
<1>4. PathLeadsToListener'
  BY DEF PathLeadsToListener, AnswerReadiness
<1>5. CopierServed'
  BY DEF CopierServed, AnswerReadiness
<1>6. CopiesMatch'
  BY DEF CopiesMatch, Outlived, Undisturbed, AnswerReadiness
<1>7. WholeOrRestoring'
  BY DEF WholeOrRestoring, Whole, Undisturbed, AnswerReadiness
<1> QED BY <1>1, <1>2, <1>3, <1>4, <1>5, <1>6, <1>7

LEMMA BeginRequestKeeps ==
  ASSUME IInv, NEW s \in Service, BeginRequest(s)
  PROVE  IInv'
<1> USE InstanceAssumption DEF IInv, socketVars, metaVars, dataVars, backupVars
<1>1. TypeOK'
  <2>1. PcOK'
    BY DEF PcOK, TypeOK, BeginRequest
  <2>2. budget' \in [{"starts", "commands", "requests", "crashes"} -> Nat]
    BY DEF TypeOK, BeginRequest, Spend
  <2>3. requests' \in [Service -> Nat]
    BY DEF TypeOK, BeginRequest
  <2> QED
    BY <2>1, <2>2, <2>3 DEF TypeOK, BeginRequest
<1>2. ListensWhileHolding'
  BY DEF ListensWhileHolding, BeginRequest
<1>3. UsesWhileOpen'
  BY DEF UsesWhileOpen, BeginRequest
<1>4. PathLeadsToListener'
  BY DEF PathLeadsToListener, BeginRequest
<1>5. CopierServed'
  BY DEF CopierServed, TypeOK, BeginRequest
<1>6. CopiesMatch'
  BY DEF CopiesMatch, Outlived, Undisturbed, BeginRequest
<1>7. WholeOrRestoring'
  BY DEF WholeOrRestoring, Whole, Undisturbed, BeginRequest
<1> QED BY <1>1, <1>2, <1>3, <1>4, <1>5, <1>6, <1>7

LEMMA EndRequestKeeps ==
  ASSUME IInv, NEW s \in Service, EndRequest(s)
  PROVE  IInv'
<1> USE InstanceAssumption DEF IInv, socketVars, metaVars, dataVars, backupVars
<1>1. TypeOK'
  <2>1. requests[s] \in Nat /\ requests[s] > 0
    BY DEF TypeOK, EndRequest
  <2>2. requests[s] - 1 \in Nat
    BY <2>1
  <2>3. requests' \in [Service -> Nat]
    BY <2>2 DEF TypeOK, EndRequest
  <2> QED
    BY <2>3 DEF TypeOK, EndRequest
<1>2. ListensWhileHolding'
  BY DEF ListensWhileHolding, EndRequest
<1>3. UsesWhileOpen'
  BY DEF UsesWhileOpen, EndRequest
<1>4. PathLeadsToListener'
  BY DEF PathLeadsToListener, EndRequest
<1>5. CopierServed'
  BY DEF CopierServed, EndRequest
<1>6. CopiesMatch'
  BY DEF CopiesMatch, Outlived, Undisturbed, EndRequest
<1>7. WholeOrRestoring'
  BY DEF WholeOrRestoring, Whole, Undisturbed, EndRequest
<1> QED BY <1>1, <1>2, <1>3, <1>4, <1>5, <1>6, <1>7

LEMMA StopKeeps ==
  ASSUME IInv, NEW s \in Service, Stop(s)
  PROVE  IInv'
<1> USE InstanceAssumption DEF IInv, socketVars, metaVars, dataVars, backupVars
<1>1. TypeOK'
  <2>1. PcOK'
    <3>1. CASE Goto(s, "parting")
      BY <3>1, GotoKeepsService DEF ServicePhase, Starting, Holding
    <3>2. CASE Goto(s, "draining")
      BY <3>2, GotoKeepsService DEF ServicePhase, Starting, Holding
    <3> QED BY <3>1, <3>2 DEF Stop
  <2>2. lifecycle' \in [Service -> {"starting", "ready", "degraded", "stopping"}]
    BY DEF TypeOK, Stop
  <2>3. tmp' \in [Service -> {"none", "main", "probe", "dead"}]
    <3>1. CASE CreateTemporary(s, "main")
      BY <3>1, TemporaryKeeps DEF TypeOK
    <3>2. CASE UNCHANGED tmp
      BY <3>2 DEF TypeOK
    <3> QED BY <3>1, <3>2 DEF Stop
  <2> QED
    BY <2>1, <2>2, <2>3 DEF PcOK, TypeOK, Stop
<1>2. ListensWhileHolding'
  BY DEF ListensWhileHolding, TypeOK, Holding, Process, Stop, Goto
<1>3. UsesWhileOpen'
  BY DEF UsesWhileOpen, TypeOK, Open, Process, Stop, Goto
<1>4. PathLeadsToListener'
  BY DEF PathLeadsToListener, Stop
<1>5. CopierServed'
  BY DEF CopierServed, TypeOK, Open, Process, Stop, Goto
<1>6. CopiesMatch'
  BY DEF CopiesMatch, Outlived, Undisturbed, Stop
<1>7. WholeOrRestoring'
  BY DEF WholeOrRestoring, Whole, Undisturbed, TypeOK, Process, Stop, Goto
<1> QED BY <1>1, <1>2, <1>3, <1>4, <1>5, <1>6, <1>7

LEMMA DrainRequestsKeeps ==
  ASSUME IInv, NEW s \in Service, DrainRequests(s)
  PROVE  IInv'
<1> USE InstanceAssumption DEF IInv, socketVars, metaVars, dataVars, backupVars
<1>1. TypeOK'
  BY DEF TypeOK, Holding, ServicePhase, Process, DrainRequests, Goto
<1>2. ListensWhileHolding'
  BY DEF ListensWhileHolding, Holding, DrainRequests, Goto
<1>3. UsesWhileOpen'
  BY DEF UsesWhileOpen, Open, DrainRequests, Goto
<1>4. PathLeadsToListener'
  BY DEF PathLeadsToListener, DrainRequests
<1>5. CopierServed'
  BY DEF CopierServed, DrainRequests, Goto
<1>6. CopiesMatch'
  BY DEF CopiesMatch, Outlived, Undisturbed, DrainRequests
<1>7. WholeOrRestoring'
  BY DEF WholeOrRestoring, Whole, Undisturbed, DrainRequests, Goto
<1> QED BY <1>1, <1>2, <1>3, <1>4, <1>5, <1>6, <1>7

LEMMA StopApplicationKeeps ==
  ASSUME IInv, NEW s \in Service, StopApplication(s)
  PROVE  IInv'
<1> USE InstanceAssumption DEF IInv, socketVars, metaVars, dataVars, backupVars
<1>1. TypeOK'
  BY DEF TypeOK, Holding, ServicePhase, Process, StopApplication, Goto
<1>2. ListensWhileHolding'
  BY DEF ListensWhileHolding, Holding, StopApplication, Goto
<1>3. UsesWhileOpen'
  BY DEF UsesWhileOpen, TypeOK, Open, StopApplication, Goto
<1>4. PathLeadsToListener'
  BY DEF PathLeadsToListener, StopApplication
<1>5. CopierServed'
  BY DEF CopierServed, StopApplication, Goto
<1>6. CopiesMatch'
  BY DEF CopiesMatch, Outlived, Undisturbed, StopApplication
<1>7. WholeOrRestoring'
  BY DEF WholeOrRestoring, Whole, Undisturbed, StopApplication, Goto
<1> QED BY <1>1, <1>2, <1>3, <1>4, <1>5, <1>6, <1>7

LEMMA StopControlKeeps ==
  ASSUME IInv, NEW s \in Service, StopControl(s)
  PROVE  IInv'
<1> USE InstanceAssumption DEF IInv, socketVars, metaVars, dataVars, backupVars
<1>1. TypeOK'
  BY DEF TypeOK, ServicePhase, Process, StopControl, CloseSocket, Goto
<1>2. ListensWhileHolding'
  BY DEF ListensWhileHolding, TypeOK, Holding, StopControl, CloseSocket, Goto
<1>3. UsesWhileOpen'
  BY DEF UsesWhileOpen, Open, StopControl, Goto
<1>4. PathLeadsToListener'
  BY DEF PathLeadsToListener, ListensWhileHolding, Holding, StopControl, CloseSocket
<1>5. CopierServed'
  BY DEF CopierServed, StopControl, Goto
<1>6. CopiesMatch'
  BY DEF CopiesMatch, Outlived, Undisturbed, StopControl, CloseSocket
<1>7. WholeOrRestoring'
  BY DEF WholeOrRestoring, Whole, Undisturbed, StopControl, Goto
<1> QED BY <1>1, <1>2, <1>3, <1>4, <1>5, <1>6, <1>7

LEMMA ExitKeeps ==
  ASSUME IInv, NEW s \in Service, Exit(s)
  PROVE  IInv'
<1> USE InstanceAssumption DEF IInv, socketVars, metaVars, dataVars, backupVars
<1>1. TypeOK'
  BY DEF TypeOK, ServicePhase, Process, Exit, Goto
<1>2. ListensWhileHolding'
  BY DEF ListensWhileHolding, Holding, Exit, Goto
<1>3. UsesWhileOpen'
  BY DEF UsesWhileOpen, Open, Exit, Goto
<1>4. PathLeadsToListener'
  BY DEF PathLeadsToListener, Exit
<1>5. CopierServed'
  BY DEF CopierServed, Exit, Goto
<1>6. CopiesMatch'
  BY DEF CopiesMatch, Outlived, Undisturbed, Exit
<1>7. WholeOrRestoring'
  BY DEF WholeOrRestoring, Whole, Undisturbed, Exit, Goto
<1> QED BY <1>1, <1>2, <1>3, <1>4, <1>5, <1>6, <1>7

LEMMA DiscoverKeeps ==
  ASSUME IInv, NEW c \in Cli, Discover(c)
  PROVE  IInv'
<1> USE InstanceAssumption DEF IInv, socketVars, metaVars, dataVars, backupVars
<1>1. TypeOK'
  <2>1. PcOK'
    BY DEF PcOK, TypeOK, CliPhase, Process, Discover, Goto
  <2>2. budget' \in [{"starts", "commands", "requests", "crashes"} -> Nat]
    BY DEF TypeOK, Discover, Spend
  <2> QED
    BY <2>1, <2>2 DEF PcOK, TypeOK, Discover
<1>2. ListensWhileHolding'
  BY DEF ListensWhileHolding, Leasing, Discover, Goto
<1>3. UsesWhileOpen'
  BY DEF UsesWhileOpen, Discover, Goto
<1>4. PathLeadsToListener'
  BY DEF PathLeadsToListener, Discover
<1>5. CopierServed'
  BY DEF CopierServed, Discover, Goto
<1>6. CopiesMatch'
  BY DEF CopiesMatch, Outlived, Undisturbed, Discover
<1>7. WholeOrRestoring'
  BY DEF WholeOrRestoring, Whole, Undisturbed, Discover, Goto
<1> QED BY <1>1, <1>2, <1>3, <1>4, <1>5, <1>6, <1>7

LEMMA AcquireLeaseKeeps ==
  ASSUME IInv, NEW c \in Cli, AcquireLease(c)
  PROVE  IInv'
<1> USE InstanceAssumption DEF IInv, socketVars, metaVars, dataVars, backupVars
<1>1. CASE path = NoSocket /\ path' = c /\ listening' = listening \cup {c} /\ Goto(c, "leased")
  <2> USE <1>1
  <2>1. TypeOK'
    BY DEF TypeOK, Goto, AcquireLease, Leasing, CliPhase, Process
  <2>2. ListensWhileHolding'
    BY DEF ListensWhileHolding, TypeOK, Goto, Leasing, Process
  <2>3. UsesWhileOpen'
    BY DEF UsesWhileOpen, Goto, AcquireLease
  <2>4. PathLeadsToListener'
    BY DEF PathLeadsToListener, TypeOK, AcquireLease
  <2>5. CopierServed'
    BY DEF CopierServed, Goto, AcquireLease
  <2>6. CopiesMatch'
    <3>1. copier # c
      BY DEF CopierServed, Open, AcquireLease
    <3> QED BY <3>1 DEF CopiesMatch, Outlived, Undisturbed, AcquireLease
  <2>7. WholeOrRestoring'
    BY DEF WholeOrRestoring, Whole, Undisturbed, Goto, AcquireLease
  <2> QED BY <2>1, <2>2, <2>3, <2>4, <2>5, <2>6, <2>7
<1>2. CASE path # NoSocket /\ Goto(c, "down") /\ UNCHANGED <<path, listening>>
  <2> USE <1>2
  <2>1. TypeOK'
    BY DEF TypeOK, Goto, AcquireLease, CliPhase, Process
  <2>2. ListensWhileHolding'
    BY DEF ListensWhileHolding, Goto, AcquireLease, Leasing
  <2>3. UsesWhileOpen'
    BY DEF UsesWhileOpen, Goto, AcquireLease
  <2>4. PathLeadsToListener'
    BY DEF PathLeadsToListener, AcquireLease
  <2>5. CopierServed'
    BY DEF CopierServed, Goto, AcquireLease
  <2>6. CopiesMatch'
    BY DEF CopiesMatch, Outlived, Undisturbed, AcquireLease
  <2>7. WholeOrRestoring'
    BY DEF WholeOrRestoring, Whole, Undisturbed, Goto, AcquireLease
  <2> QED BY <2>1, <2>2, <2>3, <2>4, <2>5, <2>6, <2>7
<1> QED BY <1>1, <1>2 DEF AcquireLease, Bind

LEMMA OpenOfflineKeeps ==
  ASSUME IInv, NEW c \in Cli, OpenOffline(c)
  PROVE  IInv'
<1> USE InstanceAssumption DEF IInv, socketVars, metaVars, dataVars, backupVars
<1>1. TypeOK'
  BY DEF TypeOK, Leasing, CliPhase, Process, OpenOffline, Goto
<1>2. ListensWhileHolding'
  BY DEF ListensWhileHolding, Leasing, OpenOffline, Goto
<1>3. UsesWhileOpen'
  BY DEF UsesWhileOpen, TypeOK, Process, OpenOffline, Goto
<1>4. PathLeadsToListener'
  BY DEF PathLeadsToListener, OpenOffline
<1>5. CopierServed'
  BY DEF CopierServed, OpenOffline, Goto
<1>6. CopiesMatch'
  BY DEF CopiesMatch, Outlived, Undisturbed, CopierServed, OpenOffline
<1>7. WholeOrRestoring'
  BY DEF WholeOrRestoring, Whole, Undisturbed, OpenOffline, Goto
<1> QED BY <1>1, <1>2, <1>3, <1>4, <1>5, <1>6, <1>7

LEMMA CloseOfflineKeeps ==
  ASSUME IInv, NEW c \in Cli, CloseOffline(c)
  PROVE  IInv'
<1> USE InstanceAssumption DEF IInv, socketVars, metaVars, dataVars, backupVars
<1>1. TypeOK'
  BY DEF TypeOK, Leasing, CliPhase, Process, CloseOffline, Goto
<1>2. ListensWhileHolding'
  BY DEF ListensWhileHolding, Leasing, CloseOffline, Goto
<1>3. UsesWhileOpen'
  BY DEF UsesWhileOpen, TypeOK, CloseOffline, Goto
<1>4. PathLeadsToListener'
  BY DEF PathLeadsToListener, CloseOffline
<1>5. CopierServed'
  BY DEF CopierServed, CloseOffline, Goto
<1>6. CopiesMatch'
  BY DEF CopiesMatch, Outlived, Undisturbed, CloseOffline
<1>7. WholeOrRestoring'
  BY DEF WholeOrRestoring, Whole, Undisturbed, CloseOffline, Goto
<1> QED BY <1>1, <1>2, <1>3, <1>4, <1>5, <1>6, <1>7

LEMMA BeginRestoreKeeps ==
  ASSUME IInv, NEW c \in Cli, BeginRestore(c)
  PROVE  IInv'
<1> USE InstanceAssumption DEF IInv, socketVars, metaVars, dataVars, backupVars
<1>1. TypeOK'
  <2>1. PcOK'
    BY DEF PcOK, TypeOK, Leasing, CliPhase, Process, BeginRestore, Goto
  <2>2. archive' \in Nat
    BY DEF TypeOK, BeginRestore
  <2> QED
    BY <2>1, <2>2 DEF PcOK, TypeOK, BeginRestore, Goto
<1>2. ListensWhileHolding'
  BY DEF ListensWhileHolding, Leasing, BeginRestore, Goto
<1>3. UsesWhileOpen'
  BY DEF UsesWhileOpen, TypeOK, Process, BeginRestore, Goto
<1>4. PathLeadsToListener'
  BY DEF PathLeadsToListener, BeginRestore
<1>5. CopierServed'
  BY DEF CopierServed, BeginRestore, Goto
<1>6. CopiesMatch'
  BY DEF CopiesMatch, Outlived, Undisturbed, CopierServed, BeginRestore
<1>7. WholeOrRestoring'
  <2>1. 1 \in File /\ disk \in [File -> Nat] /\ archive \in Nat
    BY DEF TypeOK, File
  <2>2. \A f \in File : disk'[f] < archive'
    BY <2>1 DEF WholeOrRestoring, BeginRestore
  <2>3. pc'[c] = "restoring"
    BY DEF TypeOK, Process, BeginRestore, Goto
  <2>4. archive' \in Nat /\ disk' \in [File -> Nat]
    BY <2>1 DEF BeginRestore
  <2> QED BY <2>1, <2>2, <2>3, <2>4 DEF WholeOrRestoring
<1> QED BY <1>1, <1>2, <1>3, <1>4, <1>5, <1>6, <1>7

LEMMA RestoreFileKeeps ==
  ASSUME IInv, NEW c \in Cli, RestoreFile(c)
  PROVE  IInv'
<1> USE InstanceAssumption DEF IInv, socketVars, metaVars, dataVars, backupVars
<1>1. TypeOK'
  <2>1. PcOK'
    BY DEF PcOK, TypeOK, RestoreFile
  <2>2. disk' \in [File -> Nat]
    BY DEF TypeOK, RestoreFile
  <2> QED
    BY <2>1, <2>2 DEF TypeOK, RestoreFile
<1>2. ListensWhileHolding'
  BY DEF ListensWhileHolding, RestoreFile
<1>3. UsesWhileOpen'
  BY DEF UsesWhileOpen, RestoreFile
<1>4. PathLeadsToListener'
  BY DEF PathLeadsToListener, RestoreFile
<1>5. CopierServed'
  BY DEF CopierServed, RestoreFile
<1>6. CopiesMatch'
  <2>1. removed = {} => copier \notin listening
    <3> SUFFICES ASSUME removed = {}, copier \in listening
                 PROVE  FALSE
      OBVIOUS
    <3>1. pc[c] = "restoring" /\ c \in owners
      BY DEF UsesWhileOpen, RestoreFile
    <3>2. copier = c
      BY <3>1, OwnersListen, SingleListener
    <3> QED BY <3>1, <3>2 DEF CopierServed
  <2> QED BY <2>1 DEF CopiesMatch, Outlived, Undisturbed, RestoreFile
<1>7. WholeOrRestoring'
  BY DEF WholeOrRestoring, TypeOK, RestoreFile
<1> QED BY <1>1, <1>2, <1>3, <1>4, <1>5, <1>6, <1>7

LEMMA EndRestoreKeeps ==
  ASSUME IInv, NEW c \in Cli, EndRestore(c)
  PROVE  IInv'
<1> USE InstanceAssumption DEF IInv, socketVars, metaVars, dataVars, backupVars
<1>1. TypeOK'
  BY DEF TypeOK, Leasing, CliPhase, Process, EndRestore, Goto
<1>2. ListensWhileHolding'
  BY DEF ListensWhileHolding, Leasing, EndRestore, Goto
<1>3. UsesWhileOpen'
  BY DEF UsesWhileOpen, TypeOK, EndRestore, Goto
<1>4. PathLeadsToListener'
  BY DEF PathLeadsToListener, EndRestore
<1>5. CopierServed'
  BY DEF CopierServed, EndRestore, Goto
<1>6. CopiesMatch'
  <2>1. removed = {} => copier \notin listening
    <3> SUFFICES ASSUME removed = {}, copier \in listening
                 PROVE  FALSE
      OBVIOUS
    <3>1. pc[c] = "restoring" /\ c \in owners
      BY DEF UsesWhileOpen, EndRestore
    <3>2. copier = c
      BY <3>1, OwnersListen, SingleListener
    <3> QED BY <3>1, <3>2 DEF CopierServed
  <2> QED BY <2>1 DEF CopiesMatch, Outlived, Undisturbed, EndRestore
<1>7. WholeOrRestoring'
  <2>1. 1 \in File
    BY DEF File
  <2>2. pc[c] = "restoring"
    BY DEF EndRestore
  <2>3. \A d \in Cli : pc'[d] = "restoring" => pc[d] = "restoring"
    BY DEF TypeOK, Process, EndRestore, Goto
  <2>4. CASE Unrestored = {}
    <3>1. \A f \in File : disk[f] = archive
      BY <2>4 DEF Unrestored
    <3>2. removed = {} => wal # "lost"
      BY <2>1, <2>2, <3>1 DEF WholeOrRestoring
    <3> QED BY <2>3, <3>1, <3>2 DEF WholeOrRestoring, Whole, Undisturbed, EndRestore
  <2>5. CASE Unrestored # {}
    BY <2>3, <2>5 DEF WholeOrRestoring, Undisturbed, EndRestore
  <2> QED BY <2>4, <2>5
<1> QED BY <1>1, <1>2, <1>3, <1>4, <1>5, <1>6, <1>7

LEMMA ReleaseLeaseKeeps ==
  ASSUME IInv, NEW c \in Cli, ReleaseLease(c)
  PROVE  IInv'
<1> USE InstanceAssumption DEF IInv, socketVars, metaVars, dataVars, backupVars
<1>1. TypeOK'
  BY DEF TypeOK, CliPhase, Process, ReleaseLease, CloseSocket, Goto
<1>2. ListensWhileHolding'
  BY DEF ListensWhileHolding, TypeOK, Leasing, ReleaseLease, CloseSocket, Goto
<1>3. UsesWhileOpen'
  BY DEF UsesWhileOpen, ReleaseLease, Goto
<1>4. PathLeadsToListener'
  BY DEF PathLeadsToListener, ListensWhileHolding, Leasing, ReleaseLease, CloseSocket
<1>5. CopierServed'
  BY DEF CopierServed, ReleaseLease, Goto
<1>6. CopiesMatch'
  BY DEF CopiesMatch, Outlived, Undisturbed, ReleaseLease, CloseSocket
<1>7. WholeOrRestoring'
  BY DEF WholeOrRestoring, Whole, Undisturbed, ReleaseLease, Goto
<1> QED BY <1>1, <1>2, <1>3, <1>4, <1>5, <1>6, <1>7

LEMMA BeginBackupKeeps ==
  ASSUME IInv, NEW p \in Process, BeginBackup(p)
  PROVE  IInv'
<1> USE InstanceAssumption DEF IInv, socketVars, metaVars, dataVars, backupVars
<1>1. TypeOK'
  <2>1. copied' \in [File -> Int]
    <3>1. 1 \in File
      BY DEF File
    <3>2. disk[1] \in Int
      BY <3>1 DEF TypeOK
    <3> QED BY <3>2, NotCopiedType DEF BeginBackup
  <2> QED
    BY <2>1 DEF TypeOK, BeginBackup
<1>2. ListensWhileHolding'
  BY DEF ListensWhileHolding, BeginBackup
<1>3. UsesWhileOpen'
  BY DEF UsesWhileOpen, BeginBackup
<1>4. PathLeadsToListener'
  BY DEF PathLeadsToListener, BeginBackup
<1>5. CopierServed'
  BY DEF CopierServed, UsesWhileOpen, BeginBackup
<1>6. CopiesMatch'
  BY DEF CopiesMatch, Outlived, BeginBackup, NotCopied
<1>7. WholeOrRestoring'
  BY DEF WholeOrRestoring, Whole, Undisturbed, BeginBackup
<1> QED BY <1>1, <1>2, <1>3, <1>4, <1>5, <1>6, <1>7

LEMMA CopyFileKeeps ==
  ASSUME IInv, CopyFile
  PROVE  IInv'
<1> USE InstanceAssumption DEF IInv, socketVars, metaVars, dataVars, backupVars
<1>1. TypeOK'
  <2>1. PcOK'
    BY DEF PcOK, TypeOK, CopyFile
  <2>2. copied' \in [File -> Int]
    BY DEF TypeOK, CopyFile
  <2> QED
    BY <2>1, <2>2 DEF TypeOK, CopyFile
<1>2. ListensWhileHolding'
  BY DEF ListensWhileHolding, CopyFile
<1>3. UsesWhileOpen'
  BY DEF UsesWhileOpen, CopyFile
<1>4. PathLeadsToListener'
  BY DEF PathLeadsToListener, CopyFile
<1>5. CopierServed'
  BY DEF CopierServed, CopyFile
<1>6. CopiesMatch'
  BY DEF CopiesMatch, Outlived, Undisturbed, CopyFile
<1>7. WholeOrRestoring'
  BY DEF WholeOrRestoring, Whole, Undisturbed, CopyFile
<1> QED BY <1>1, <1>2, <1>3, <1>4, <1>5, <1>6, <1>7

LEMMA EndBackupKeeps ==
  ASSUME IInv, EndBackup
  PROVE  IInv'
<1> USE InstanceAssumption DEF IInv, socketVars, metaVars, dataVars, backupVars
<1>1. TypeOK'
  <2>1. PcOK'
    BY DEF PcOK, TypeOK, Leasing, CliPhase, Process, EndBackup
  <2>2. requests' \in [Service -> Nat]
    <3>1. copier \in Service => requests[copier] - 1 \in Nat
      BY DEF TypeOK, CopierServed
    <3> QED BY <3>1 DEF TypeOK, EndBackup
  <2>3. copied' \in [File -> Int]
    BY NotCopiedType DEF EndBackup
  <2> QED
    BY <2>1, <2>2, <2>3 DEF PcOK, TypeOK, EndBackup
<1>2. ListensWhileHolding'
  <2>1. \A s \in Service : pc'[s] = pc[s]
    BY DEF TypeOK, Process, EndBackup
  <2>2. \A c \in Cli : pc[c] # pc'[c] => pc[c] = "working" /\ pc'[c] = "finished"
    BY DEF TypeOK, CopierServed, Process, EndBackup
  <2> QED
    BY <2>1, <2>2 DEF ListensWhileHolding, Leasing, EndBackup, TypeOK
<1>3. UsesWhileOpen'
  BY DEF UsesWhileOpen, Process, EndBackup
<1>4. PathLeadsToListener'
  BY DEF PathLeadsToListener, EndBackup
<1>5. CopierServed'
  BY DEF CopierServed, Process, EndBackup
<1>6. CopiesMatch'
  BY DEF CopiesMatch, Outlived, EndBackup, NotCopied
<1>7. WholeOrRestoring'
  <2>1. \A c \in Cli : pc'[c] = "restoring" <=> pc[c] = "restoring"
    BY DEF TypeOK, CopierServed, Process, EndBackup
  <2> QED BY <2>1 DEF WholeOrRestoring, Whole, Undisturbed, EndBackup
<1> QED BY <1>1, <1>2, <1>3, <1>4, <1>5, <1>6, <1>7

LEMMA CrashKeeps ==
  ASSUME IInv, NEW p \in Process, Crash(p)
  PROVE  IInv'
<1> USE InstanceAssumption DEF IInv, socketVars, metaVars, dataVars, backupVars
<1>1. TypeOK'
  <2>1. PcOK'
    BY DEF PcOK, TypeOK, ServicePhase, CliPhase, Process, Crash, Goto
  <2>2. budget' \in [{"starts", "commands", "requests", "crashes"} -> Nat]
    BY DEF TypeOK, Crash, Spend
  <2>3. lifecycle' \in [Service -> {"starting", "ready", "degraded", "stopping"}]
    BY DEF TypeOK, Crash
  <2>4. tmp' \in [Service -> {"none", "main", "probe", "dead"}]
    BY DEF TypeOK, Crash
  <2>5. requests' \in [Service -> Nat]
    BY DEF TypeOK, Crash
  <2>6. copied' \in [File -> Int]
    BY NotCopiedType DEF TypeOK, Crash
  <2> QED
    BY <2>1, <2>2, <2>3, <2>4, <2>5, <2>6 DEF PcOK, TypeOK, Crash
<1>2. ListensWhileHolding'
  BY DEF ListensWhileHolding, TypeOK, Holding, Leasing, Crash, Goto
<1>3. UsesWhileOpen'
  BY DEF UsesWhileOpen, TypeOK, Open, Crash, Goto
<1>4. PathLeadsToListener'
  BY DEF PathLeadsToListener, Crash
<1>5. CopierServed'
  BY DEF CopierServed, Process, Crash, Goto
<1>6. CopiesMatch'
  BY DEF CopiesMatch, Outlived, Undisturbed, TypeOK, Crash
<1>7. WholeOrRestoring'
  <2>1. 1 \in File
    BY DEF File
  <2>2. \A c \in Cli : pc'[c] = "restoring" => pc[c] = "restoring"
    BY DEF TypeOK, Process, Crash, Goto
  <2>3. wal' = "lost" => wal = "lost"
    BY DEF Crash
  <2>4. CASE pc[p] = "restoring"
    <3>1. p \in Cli
      BY <2>4 DEF TypeOK, Process, ServicePhase, Starting, Holding
    <3>2. ~cut' => \A f \in File : disk[f] = archive
      BY <2>4 DEF Unrestored, Crash
    <3>3. Undisturbed' => wal # "lost"
      BY <2>1, <2>4, <3>1, <3>2 DEF WholeOrRestoring, Undisturbed, Crash
    <3> QED BY <2>2, <2>3, <3>2, <3>3 DEF WholeOrRestoring, Whole, Undisturbed, Crash
  <2>5. CASE pc[p] # "restoring"
    <3>1. \A c \in Cli : pc[c] = "restoring" => pc'[c] = "restoring"
      BY <2>5 DEF TypeOK, Process, Crash, Goto
    <3>2. cut' = cut
      BY <2>5 DEF TypeOK, Crash
    <3> QED BY <2>2, <2>3, <3>1, <3>2 DEF WholeOrRestoring, Whole, Undisturbed, Crash
  <2> QED BY <2>4, <2>5
<1> QED BY <1>1, <1>2, <1>3, <1>4, <1>5, <1>6, <1>7

LEMMA InitInv == Init => IInv
<1> SUFFICES ASSUME Init PROVE IInv
  OBVIOUS
<1> USE InstanceAssumption DEF Init, File
<1>1. TypeOK
  <2>1. pc \in [Process -> ServicePhase \cup CliPhase]
    BY DEF ServicePhase
  <2>2. /\ \A s \in Service : pc[s] \in ServicePhase
        /\ \A c \in Cli : pc[c] \in CliPhase
    BY DEF ServicePhase, CliPhase, Process
  <2>3. budget \in [{"starts", "commands", "requests", "crashes"} -> Nat]
    <3>1. MaxStarts \in Nat /\ MaxCommands \in Nat /\ MaxRequests \in Nat /\ MaxCrashes \in Nat
      OBVIOUS
    <3> QED BY <3>1
  <2>4. copied \in [File -> Int] /\ copier \in Process \cup {NoSocket}
    BY NotCopiedType
  <2> QED BY <2>1, <2>2, <2>3, <2>4 DEF TypeOK
<1>2. ListensWhileHolding /\ UsesWhileOpen
  BY DEF ListensWhileHolding, UsesWhileOpen, Holding, Leasing, Open, Process
<1>3. PathLeadsToListener /\ CopierServed /\ CopiesMatch
  BY DEF PathLeadsToListener, CopierServed, CopiesMatch, Outlived, Process
<1>4. WholeOrRestoring
  BY DEF WholeOrRestoring, Whole, Undisturbed
<1> QED BY <1>1, <1>2, <1>3, <1>4 DEF IInv

(* Every step keeps the invariant. *)
LEMMA StepKeeps == IInv /\ [Next]_vars => IInv'
<1> SUFFICES ASSUME IInv, [Next]_vars PROVE IInv'
  OBVIOUS
<1>1. CASE \E s \in Service :
             \/ LookAtEndpoint(s) \/ ServiceStep(s) \/ StartFails(s)
             \/ QueryReadiness(s) \/ BeginRequest(s) \/ EndRequest(s)
             \/ Stop(s) \/ StopApplication(s)
  BY <1>1, LookAtEndpointKeeps, TestEndpointKeeps, RecheckEndpointKeeps, RemoveEndpointKeeps,
     ListenControlKeeps, WriteMetadataKeeps, RenameMetadataKeeps, CreateApplicationKeeps,
     StartFailsKeeps, FinishStartKeeps, QueryReadinessKeeps, AnswerReadinessKeeps,
     BeginRequestKeeps, EndRequestKeeps, StopKeeps, DrainRequestsKeeps,
     StopApplicationKeeps, StopControlKeeps, ExitKeeps
     DEF ServiceStep
<1>2. CASE \E c \in Cli : Discover(c) \/ CliStep(c)
  BY <1>2, DiscoverKeeps, AcquireLeaseKeeps, OpenOfflineKeeps, CloseOfflineKeeps,
     BeginRestoreKeeps, RestoreFileKeeps, EndRestoreKeeps, ReleaseLeaseKeeps
     DEF CliStep
<1>3. CASE \E p \in Process : BeginBackup(p) \/ Crash(p)
  BY <1>3, BeginBackupKeeps, CrashKeeps
<1>4. CASE CopyFile \/ EndBackup
  BY <1>4, CopyFileKeeps, EndBackupKeeps
<1>5. CASE UNCHANGED vars
  BY <1>5 DEF vars, socketVars, metaVars, dataVars, backupVars, IInv, TypeOK, 
     ListensWhileHolding, UsesWhileOpen, PathLeadsToListener, CopierServed, CopiesMatch, Outlived,
     NotCopied, File,
     WholeOrRestoring, Whole, Undisturbed
<1> QED BY <1>1, <1>2, <1>3, <1>4, <1>5 DEF Next

(* The inductive invariant holds in every reachable state, for any number of *)
(* processes, files, starts, commands, requests and crashes.                 *)
THEOREM Inductive == Spec => []IInv
<1> QED BY InitInv, StepKeeps, PTL DEF Spec

(* Every variable keeps its type. *)
THEOREM TypeCorrect == Spec => []TypeOK
<1>1. IInv => TypeOK
  BY DEF IInv
<1> QED BY <1>1, Inductive, PTL

(* At most one process uses the data directory, unless a starter has removed *)
(* the path of a live listener.                                              *)
THEOREM SingleOwner == Spec => []ExclusiveOwner
<1>1. IInv => ExclusiveOwner
  BY OwnersListen, SingleListener DEF ExclusiveOwner
<1> QED BY <1>1, Inductive, PTL

(* The process that uses the data directory is behind the endpoint. *)
THEOREM OwnerReachable == Spec => []OwnerIsFound
<1>1. IInv => OwnerIsFound
  BY OwnersListen DEF OwnerIsFound, IInv, PathLeadsToListener
<1> QED BY <1>1, Inductive, PTL

(* Nobody runs on a mixture of generations or without its log, unless a      *)
(* restore was cut short.                                                    *)
THEOREM WholeData == Spec => []RunsOnWholeData
<1>1. IInv => RunsOnWholeData
  <2> SUFFICES ASSUME IInv, Undisturbed, NEW p \in owners, pc[p] # "restoring"
               PROVE  Whole
    BY DEF RunsOnWholeData
  <2>1. ASSUME NEW c \in Cli, pc[c] = "restoring"
        PROVE  FALSE
    <3>1. c \in owners
      BY <2>1 DEF IInv, UsesWhileOpen
    <3> QED BY <2>1, <3>1, OwnersListen, SingleListener DEF Undisturbed
  <2> QED BY <2>1 DEF IInv, WholeOrRestoring
<1> QED BY <1>1, Inductive, PTL

(* What a backup has read is of one generation, unless its process has given *)
(* up the endpoint under it.                                                 *)
THEOREM WholeBackup == Spec => []BackupIsWhole
<1>1. IInv => BackupIsWhole
  <2> SUFFICES ASSUME IInv, Undisturbed, ~Outlived,
                      NEW f \in File, NEW g \in File, copied[f] # -1, copied[g] # -1
               PROVE  copied[f] = copied[g]
    BY DEF BackupIsWhole, ConsistentBackups
  <2>1. copier # NoSocket /\ copier \in listening
    BY DEF Outlived, IInv, CopierServed, NotCopied
  <2>2. copied[f] = disk[f] /\ copied[g] = disk[g]
    BY <2>1 DEF IInv, CopiesMatch, Outlived
  <2>3. \A c \in Cli : pc[c] # "restoring"
    <3> SUFFICES ASSUME NEW c \in Cli, pc[c] = "restoring" PROVE FALSE
      OBVIOUS
    <3>1. c \in owners
      BY DEF IInv, UsesWhileOpen
    <3>2. copier = c
      BY <2>1, <3>1, OwnersListen, SingleListener DEF Undisturbed
    <3> QED BY <3>2 DEF IInv, CopierServed
  <2>4. disk[f] = disk[g]
    BY <2>3 DEF IInv, WholeOrRestoring, Whole
  <2> QED BY <2>2, <2>4
<1> QED BY <1>1, Inductive, PTL
=============================================================================
