-------------------------- MODULE ConnectionProofs --------------------------
(***************************************************************************)
(* Theorems about Connection, for any constants that meet the assumptions. *)
(***************************************************************************)
EXTENDS ConnectionProps, TLAPS

-----------------------------------------------------------------------------
(* The transition table, read off once.                                     *)

\* From which states each target can be reached (can_transition).
LEMMA Table ==
  ASSUME NEW from \in States
  PROVE  /\ CanTransition(from, "STOPPED")  <=> from \in {"STOPPED", "STOPPING", "ERROR"}
         /\ CanTransition(from, "STARTING") <=> from \in {"STARTING", "STOPPED", "READY",
                                                          "STOPPING", "ERROR"}
         /\ CanTransition(from, "CONNECTING") <=> from \in {"CONNECTING", "STARTING"}
         /\ CanTransition(from, "CONNECTED") <=> from \in {"CONNECTED", "CONNECTING",
                                                           "RECONNECTING"}
         /\ CanTransition(from, "RECONNECTING") <=> from \in {"RECONNECTING", "CONNECTING",
                                                              "CONNECTED"}
         /\ CanTransition(from, "STOPPING") <=> from \in {"STOPPING", "STARTING", "CONNECTING",
                                                          "CONNECTED", "RECONNECTING"}
         /\ CanTransition(from, "ERROR") <=> from \notin {"STOPPED", "READY"}
BY DEF CanTransition, Successors, States

-----------------------------------------------------------------------------
(* Types.  The operators first, then one step per action.  Each lemma gives *)
(* the next value of one named part of TypeOK.                              *)

\* A part whose variables do not change keeps its types.
LEMMA Frame ==
  ASSUME TypeOK
  PROVE  /\ UNCHANGED stateVars => StoreTypeOK'
         /\ UNCHANGED proxyVars => ProxyTypeOK'
         /\ UNCHANGED coreVars => CoreTypeOK'
         /\ UNCHANGED linkVars => LinkTypeOK'
         /\ UNCHANGED joinVars => JoinTypeOK'
         /\ UNCHANGED procVars => ProcTypeOK'
         /\ UNCHANGED supVars => SupTypeOK'
         /\ UNCHANGED rt => (rt \in Runtime)'
         /\ UNCHANGED envVars => EnvTypeOK'
<1> USE DEF TypeOK
<1>1. UNCHANGED stateVars => StoreTypeOK'
  BY DEF stateVars, StoreTypeOK
<1>2. UNCHANGED proxyVars => ProxyTypeOK'
  BY DEF proxyVars, ProxyTypeOK
<1>3. UNCHANGED coreVars => CoreTypeOK'
  BY DEF coreVars, CoreTypeOK
<1>4. UNCHANGED linkVars => LinkTypeOK'
  BY DEF linkVars, LinkTypeOK
<1>5. UNCHANGED joinVars => JoinTypeOK'
  BY DEF joinVars, JoinTypeOK
<1>6. UNCHANGED procVars => ProcTypeOK'
  BY DEF procVars, ProcTypeOK
<1>7. UNCHANGED supVars => SupTypeOK'
  BY DEF supVars, SupTypeOK
<1>8. UNCHANGED envVars => EnvTypeOK'
  BY DEF envVars, EnvTypeOK
<1> QED BY <1>1, <1>2, <1>3, <1>4, <1>5, <1>6, <1>7, <1>8

\* A bare transition, a transition with its context, and fail.
LEMMA StoreTypes ==
  ASSUME TypeOK
  PROVE  /\ \A to \in States : Goto(to) /\ UNCHANGED target => StoreTypeOK'
         /\ \A to \in States, t \in Targets : SetContext(to, t) => StoreTypeOK'
         /\ st' \in States /\ UNCHANGED target => StoreTypeOK'
BY DEF TypeOK, StoreTypeOK, Goto, SetContext, stateVars

\* persist_runtime writes a well-formed record or nothing.
LEMMA PersistTypes ==
  ASSUME TypeOK
  PROVE  \A last \in States, n \in Nodes \cup {None}, m \in Modes :
            Persist(last, n, m) => rt' \in Runtime
BY DEF TypeOK, Persist, Runtime

\* The nodes and modes a step may pass on.
LEMMA NodeTypes ==
  ASSUME TypeOK
  PROVE  /\ \A p \in Procs : req[p].node \in Nodes \cup {None} /\ req[p].mode \in Modes
         /\ target.node \in Nodes \cup {None} /\ target.mode \in Modes
         /\ rt.node \in Nodes \cup {None} /\ rt.mode \in Modes
         /\ bootRt.mode \in Modes
BY DEF TypeOK, StoreTypeOK, ProcTypeOK, Requests, Targets, Runtime

\* Where a request may go next.
LEMMA ProcTypes ==
  ASSUME TypeOK, NEW p \in Procs
  PROVE  /\ \A to \in PcLabels : Goes(p, to) => ProcTypeOK'
         /\ Release(p) \/ Fail(p) \/ Disconnected(p) => ProcTypeOK'
<1> USE ConnectionAssumption DEF TypeOK, ProcTypeOK, PcLabels
<1>1. NoReq \in Requests
  BY DEF NoReq, Requests, Ops
<1>2. ASSUME NEW to \in PcLabels, Goes(p, to) PROVE ProcTypeOK'
  BY <1>2 DEF Goes
<1>3. ASSUME Release(p) PROVE ProcTypeOK'
  <2>1. guard' = None /\ bootRt' = bootRt
    BY <1>3 DEF Release
  <2>2. pc' \in [Procs -> PcLabels]
    BY <1>3 DEF Release
  <2>3. req' \in [Procs -> Requests]
    BY <1>1, <1>3 DEF Release
  <2> QED BY <2>1, <2>2, <2>3
<1>4. ASSUME Fail(p) PROVE ProcTypeOK'
  BY <1>2, <1>3, <1>4 DEF Fail
<1>5. ASSUME Disconnected(p) PROVE ProcTypeOK'
  <2>1. CASE req[p].op = "reconnect"
    <3>1. req' \in [Procs -> Requests]
      BY <1>5, <2>1 DEF Disconnected, Requests, Ops
    <3> QED BY <1>5, <2>1, <3>1 DEF Disconnected
  <2>2. CASE req[p].op # "reconnect"
    BY <1>3, <1>5, <2>2 DEF Disconnected
  <2> QED BY <2>1, <2>2
<1> QED BY <1>2, <1>3, <1>4, <1>5

\* The registry writes only ever leave a well-formed registry value.
LEMMA RegistryTypes ==
  \A reg \in Settings :
    /\ \A spec \in Specs : \A o \in Enable(reg, spec) : o.reg \in Settings
    /\ \A o \in Disable(reg) : o.reg \in Settings
    /\ \A s \in Settings : \A o \in Restore(reg, s) : o.reg \in Settings
<1>1. \A x \in Specs : On(x) \in Settings /\ Off(x) \in Settings
  BY DEF On, Off, Settings
<1>2. \A r \in Settings : r.spec \in Specs
  BY DEF Settings
<1>3. \A r : Done(r).reg = r /\ Failed(r).reg = r
  BY DEF Done, Failed
<1>4. \A r \in Settings : /\ \A x \in Specs : \A o \in Enable(r, x) : o.reg \in Settings
                         /\ \A o \in Disable(r) : o.reg \in Settings
  BY <1>1, <1>2, <1>3 DEF Enable, Disable
<1>5. ASSUME NEW r \in Settings, NEW s \in Settings, NEW o \in Restore(r, s)
      PROVE  o.reg \in Settings
  <2>1. CASE s.on
    BY <1>2, <1>4, <1>5, <2>1 DEF Restore
  <2>2. CASE ~s.on /\ s.spec = NoSpec
    BY <1>4, <1>5, <2>2 DEF Restore
  <2>3. CASE ~s.on /\ s.spec # NoSpec
    <3>1. \/ o \in Enable(r, s.spec)
          \/ \E x \in Enable(r, s.spec) : o \in Disable(x.reg)
      BY <1>5, <2>3 DEF Restore
    <3> QED BY <1>2, <1>4, <3>1
  <2> QED BY <2>1, <2>2, <2>3
<1> QED BY <1>4, <1>5

\* Every operation of the system-proxy manager keeps its types.
LEMMA ProxyTypes ==
  ASSUME ProxyTypeOK,
         \/ KeepRedirect \/ (\E ok \in BOOLEAN : Redirect(ok)) \/ RememberUser \/ ClearProxy
         \/ PrimeFromBackup \/ RestoreAfterCrash \/ EnsureApplied \/ ProxyCrash
  PROVE  ProxyTypeOK'
<1> USE ProxyAssumption DEF ProxyTypeOK, proxyVars
<1>1. Ours \in Specs /\ Direct \in Settings
  BY DEF Specs, Settings, Direct, Off
<1>2. CASE KeepRedirect
  BY <1>2 DEF KeepRedirect
<1>3. ASSUME NEW ok \in BOOLEAN, Redirect(ok) PROVE ProxyTypeOK'
  BY <1>1, <1>3, RegistryTypes DEF Redirect
<1>4. CASE RememberUser
  BY <1>4 DEF RememberUser, BackupBecomes
<1>5. CASE ClearProxy
  <2>1. CASE saved = None
    BY <1>5, <2>1 DEF ClearProxy
  <2>2. CASE saved # None
    <3>1. saved' = None /\ base' = base /\ user' = user /\ backup' \in {backup, None}
      BY <1>5, <2>2 DEF ClearProxy, BackupBecomes
    <3>2. saved \in Settings /\ \E o \in Restore(registry, saved) : registry' = o.reg
      BY <1>5, <2>2 DEF ClearProxy
    <3>3. registry' \in Settings
      BY <3>2, RegistryTypes
    <3> QED BY <3>1, <3>3
  <2> QED BY <2>1, <2>2
<1>6. CASE PrimeFromBackup
  BY <1>6 DEF PrimeFromBackup
<1>7. CASE RestoreAfterCrash
  BY <1>7, RegistryTypes DEF RestoreAfterCrash, BackupBecomes
<1>8. CASE EnsureApplied
  BY <1>1, <1>8, RegistryTypes DEF EnsureApplied
<1>9. CASE ProxyCrash
  BY <1>9 DEF ProxyCrash
<1> QED BY <1>2, <1>3, <1>4, <1>5, <1>6, <1>7, <1>8, <1>9

\* Every operation of the core adapter keeps its types.
LEMMA CoreTypes ==
  ASSUME CoreTypeOK,
         \/ CoreStop \/ ReapStaleCores \/ CoreDies
         \/ \E spawning \in BOOLEAN : CoreCrash(spawning)
         \/ \E n \in Nodes \cup {None}, ok \in BOOLEAN : CoreStart(n, ok)
  PROVE  CoreTypeOK'
<1> USE DEF CoreTypeOK
<1>1. CASE CoreStop
  BY <1>1 DEF CoreStop, StoppedCore
<1>2. CASE ReapStaleCores
  BY <1>2 DEF ReapStaleCores
<1>3. CASE CoreDies
  BY <1>3 DEF CoreDies
<1>4. ASSUME NEW spawning \in BOOLEAN, CoreCrash(spawning) PROVE CoreTypeOK'
  BY <1>4 DEF CoreCrash, StoppedCore
<1>5. ASSUME NEW n \in Nodes \cup {None}, NEW ok \in BOOLEAN, CoreStart(n, ok) PROVE CoreTypeOK'
  <2>1. (~orphan) \in BOOLEAN
    OBVIOUS
  <2>2. CASE ok
    <3>1. core' = [child |-> n, alive |-> ~orphan, status |-> "RUNNING"] /\ orphan' = orphan
      BY <1>5, <2>2 DEF CoreStart
    <3> QED BY <2>1, <3>1, Zenon
  <2>3. CASE ~ok
    BY <1>5, <2>3 DEF CoreStart
  <2> QED BY <2>2, <2>3
<1> QED BY <1>1, <1>2, <1>3, <1>4, <1>5

\* One step of a request keeps the types.
LEMMA RequestTypes ==
  ASSUME TypeOK, NEW p \in Procs, Lock(p) \/ ConnectStep(p) \/ DisconnectStep(p)
  PROVE  TypeOK'
<1> USE Frame, ProcTypes DEF TypeOK, PcLabels
<1>1. CASE Lock(p)
  BY <1>1 DEF Lock, ProcTypeOK
<1>2. CASE SwitchInPlace(p)
  BY <1>2, StoreTypes DEF SwitchInPlace, TakeMonitor, JoinTypeOK, SupTypeOK, States, SpcLabels
<1>3. CASE RejectConnect(p)
  BY <1>3 DEF RejectConnect
<1>4. CASE Dial(p)
  BY <1>4, StoreTypes DEF Dial, States
<1>5. CASE SwitchJoined(p)
  BY <1>5 DEF SwitchJoined, JoinTypeOK
<1>6. CASE SwitchTeardown(p)
  BY <1>6, StoreTypes, CoreTypes DEF SwitchTeardown, LinkTypeOK, States
<1>7. CASE LookupFails(p)
  BY <1>7, StoreTypes, PersistTypes, NodeTypes DEF LookupFails, Abort, LinkTypeOK, States
<1>8. CASE LookupNode(p)
  BY <1>8 DEF LookupNode
<1>9. CASE SelectFails(p)
  BY <1>9, NodeTypes DEF SelectFails, EnvTypeOK
<1>10. CASE SelectNode(p)
  BY <1>10, StoreTypes, PersistTypes, NodeTypes DEF SelectNode, Abort, LinkTypeOK, EnvTypeOK,
     Targets, States
<1>11. CASE StartCore(p)
  BY <1>11, NodeTypes, CoreTypes DEF StartCore, LinkTypeOK
<1>12. CASE StartFails(p)
  BY <1>12, NodeTypes, CoreTypes DEF StartFails
<1>13. CASE KeepProxy(p)
  BY <1>13, ProxyTypes DEF KeepProxy
<1>14. CASE SetProxy(p)
  BY <1>14, ProxyTypes DEF SetProxy
<1>15. CASE RememberProxy(p)
  BY <1>15, ProxyTypes DEF RememberProxy
<1>16. CASE Commit(p)
  BY <1>16, StoreTypes, PersistTypes, NodeTypes DEF Commit, LinkTypeOK, Targets, States
<1>17. CASE SpawnMonitor(p)
  BY <1>17 DEF SpawnMonitor, JoinTypeOK, SupTypeOK, SpcLabels
<1>18. CASE UndoProxy(p)
  BY <1>18, ProxyTypes DEF UndoProxy, LinkTypeOK
<1>19. CASE UndoCore(p)
  BY <1>19, CoreTypes DEF UndoCore, LinkTypeOK
<1>20. CASE AbortStart(p)
  BY <1>20, StoreTypes, PersistTypes, NodeTypes DEF AbortStart, Abort, LinkTypeOK, States
<1>21. CASE ReadState(p) \/ ReadAgain(p) \/ IgnoreDisconnect(p) \/ RefuseDisconnect(p)
  BY <1>21 DEF ReadState, ReadAgain, IgnoreDisconnect, RefuseDisconnect
<1>22. CASE BeginDisconnect(p)
  BY <1>22, StoreTypes DEF BeginDisconnect, TakeMonitor, JoinTypeOK, SupTypeOK, States,
     SpcLabels
<1>23. CASE DisconnectJoined(p)
  BY <1>23 DEF DisconnectJoined, JoinTypeOK
<1>24. CASE FinishDisconnect(p)
  BY <1>24, StoreTypes, PersistTypes, NodeTypes DEF FinishDisconnect, LinkTypeOK, States
<1> QED BY <1>1, <1>2, <1>3, <1>4, <1>5, <1>6, <1>7, <1>8, <1>9, <1>10, <1>11, <1>12, <1>13,
   <1>14, <1>15, <1>16, <1>17, <1>18, <1>19, <1>20, <1>21, <1>22, <1>23, <1>24 DEF
   ConnectStep, DisconnectStep

\* A client asks for something.
LEMMA AskTypes ==
  ASSUME TypeOK, NEW c \in Clients, Request(c)
  PROVE  TypeOK'
<1>1. pc' \in [Procs -> PcLabels]
  BY DEF TypeOK, ProcTypeOK, Request, Procs, PcLabels
<1>2. req' \in [Procs -> Requests]
  BY DEF TypeOK, StoreTypeOK, ProcTypeOK, Request, Procs, Requests, Ops, Targets
<1>3. ProcTypeOK'
  BY <1>1, <1>2 DEF TypeOK, ProcTypeOK, Request
<1> QED BY <1>3, Frame DEF TypeOK, Request

\* One step of the boot recovery keeps the types.
LEMMA BootTypes ==
  ASSUME TypeOK, BootStep
  PROVE  TypeOK'
<1> USE ConnectionAssumption, Frame, ProcTypes DEF TypeOK, Procs, PcLabels, Requests, Ops, NoReq
<1>1. CASE BootReap
  BY <1>1, CoreTypes DEF BootReap
<1>2. CASE BootNothing
  BY <1>2, NodeTypes DEF BootNothing, ProcTypeOK
<1>3. CASE BootResume
  BY <1>3, NodeTypes, ProxyTypes DEF BootResume, ProcTypeOK
<1>4. CASE BootGiveUp
  BY <1>4, NodeTypes DEF BootGiveUp, ProcTypeOK
<1>5. CASE BootEnsure
  BY <1>5, ProxyTypes DEF BootEnsure
<1>6. CASE BootRestore
  BY <1>6, PersistTypes, NodeTypes, ProxyTypes DEF BootRestore, States
<1> QED BY <1>1, <1>2, <1>3, <1>4, <1>5, <1>6 DEF BootStep

\* A supervisor that leaves.
LEMMA ExitTypes ==
  ASSUME TypeOK, NEW s \in Sups, Exit(s)
  PROVE  SupTypeOK'
<1> USE DEF TypeOK, SupTypeOK
<1>1. spc' \in [Sups -> SpcLabels]
  BY DEF Exit, Becomes, SpcLabels
<1>2. cancelled' \in [Sups -> BOOLEAN] /\ strikes' \in [Sups -> Nat]
  BY DEF Exit
<1>3. snode' \in [Sups -> Nodes \cup {None}] /\ scand' \in [Sups -> Nodes \cup {None}]
  BY DEF Exit
<1> QED BY <1>1, <1>2, <1>3

\* mark_recovered: the state, the file and the restart budget.
LEMMA RecoveredTypes ==
  ASSUME TypeOK, NEW n \in Nodes \cup {None}, MarkRecovered(n)
  PROVE  StoreTypeOK' /\ rt' \in Runtime /\ restarts' = 0
<1>1. [target EXCEPT !.node = n] \in Targets
  BY DEF TypeOK, StoreTypeOK, Targets
<1> QED BY <1>1, StoreTypes, PersistTypes, NodeTypes DEF MarkRecovered, States

\* One step of a supervisor keeps the types.
LEMMA SupTypes ==
  ASSUME TypeOK, NEW s \in Sups, SupStep(s)
  PROVE  TypeOK'
<1> USE ConnectionAssumption, Frame DEF TypeOK, SupTypeOK, SpcLabels
<1>1. CASE TickExit(s)
  BY <1>1, ExitTypes DEF TickExit
<1>2. CASE Tick(s)
  BY <1>2 DEF Tick, Becomes
<1>3. CASE Probe(s)
  BY <1>3 DEF Probe, Becomes, AfterProbe
<1>4. CASE RecoverVoid(s)
  BY <1>4 DEF RecoverVoid, Becomes
<1>5. CASE RecoverBegin(s)
  BY <1>5 DEF RecoverBegin, Becomes, LinkTypeOK
<1>6. CASE RecoverRestart(s)
  BY <1>6, StoreTypes, CoreTypes DEF RecoverRestart, Becomes, States
<1>7. CASE RecoverCore(s)
  BY <1>7, CoreTypes DEF RecoverCore, Becomes
<1>8. CASE RecoverHealth(s)
  <2>1. SupTypeOK'
    BY <1>8 DEF RecoverHealth, Becomes
  <2>2. CASE MarkRecovered(snode[s])
    BY <1>8, <2>1, <2>2, RecoveredTypes DEF RecoverHealth, LinkTypeOK
  <2>3. CASE ~MarkRecovered(snode[s])
    BY <1>8, <2>1, <2>3 DEF RecoverHealth, LinkTypeOK
  <2> QED BY <2>2, <2>3
<1>9. CASE RecoverReselect(s)
  BY <1>9, StoreTypes DEF RecoverReselect, Becomes, States
<1>10. CASE SmartChoice(s)
  BY <1>10, CoreTypes DEF SmartChoice, Becomes
<1>11. CASE SmartCore(s)
  BY <1>11, CoreTypes DEF SmartCore, Becomes
<1>12. CASE SmartHealth(s)
  <2>1. SupTypeOK'
    BY <1>12 DEF SmartHealth, Becomes
  <2>2. CASE MarkRecovered(scand[s])
    BY <1>12, <2>1, <2>2, RecoveredTypes DEF SmartHealth, LinkTypeOK
  <2>3. CASE ~MarkRecovered(scand[s])
    BY <1>12, <2>1, <2>3 DEF SmartHealth, LinkTypeOK
  <2> QED BY <2>2, <2>3
<1>13. CASE GiveUpProxy(s)
  BY <1>13, ProxyTypes DEF GiveUpProxy, Becomes, LinkTypeOK
<1>14. CASE GiveUpCore(s)
  BY <1>14, StoreTypes, CoreTypes DEF GiveUpCore, Becomes, LinkTypeOK, States
<1>15. CASE GiveUpPersist(s)
  BY <1>15, PersistTypes, NodeTypes DEF GiveUpPersist, Becomes, States
<1>16. CASE Verdict(s)
  BY <1>16, ExitTypes DEF Verdict, Becomes
<1> QED BY <1>1, <1>2, <1>3, <1>4, <1>5, <1>6, <1>7, <1>8, <1>9, <1>10, <1>11, <1>12, <1>13,
           <1>14, <1>15, <1>16 DEF SupStep

\* The environment keeps the types.
LEMMA EnvTypes ==
  ASSUME TypeOK, EnvStep
  PROVE  TypeOK'
<1> USE ConnectionAssumption, Frame DEF TypeOK
<1>1. CASE CoreExits
  BY <1>1, CoreTypes DEF CoreExits
<1>2. CASE CatalogChanges
  BY <1>2 DEF CatalogChanges, EnvTypeOK
<1>3. CASE SetMode
  BY <1>3 DEF SetMode, EnvTypeOK
<1>4. CASE Crash
  <2>1. StoreTypeOK' /\ ProxyTypeOK' /\ CoreTypeOK'
    BY <1>4, ProxyTypes, CoreTypes DEF Crash, Spawning, StoreTypeOK, States, Targets
  <2>2. LinkTypeOK' /\ JoinTypeOK'
    BY <1>4 DEF Crash, LinkTypeOK, JoinTypeOK
  <2>3. NoReq \in Requests /\ NoRuntime \in Runtime
    BY DEF NoReq, NoRuntime, Requests, Ops, Runtime, States
  <2>4. ProcTypeOK'
    BY <1>4, <2>3 DEF Crash, ProcTypeOK, PcLabels
  <2>5. SupTypeOK'
    BY <1>4 DEF Crash, SupTypeOK, SpcLabels
  <2>6. rt' \in Runtime /\ EnvTypeOK'
    BY <1>4 DEF Crash, EnvTypeOK
  <2> QED BY <2>1, <2>2, <2>4, <2>5, <2>6
<1> QED BY <1>1, <1>2, <1>3, <1>4 DEF EnvStep

\* Initially every variable is well typed.
LEMMA InitTypes == Init => TypeOK
<1> SUFFICES ASSUME Init PROVE TypeOK
  OBVIOUS
<1> USE ConnectionAssumption DEF Init
<1>1. StoreTypeOK
  BY DEF StoreInit, StoreTypeOK, States, Targets
<1>2. ProxyTypeOK
  BY ProxyAssumption DEF ProxyInit, ProxyTypeOK, Settings, Specs
<1>3. CoreTypeOK
  BY DEF CoreInit, CoreTypeOK, StoppedCore
<1>4. LinkTypeOK /\ JoinTypeOK /\ EnvTypeOK
  BY DEF LinkTypeOK, JoinTypeOK, EnvTypeOK
<1>5. rt \in Runtime /\ bootRt \in Runtime /\ NoReq \in Requests
  BY DEF NoRuntime, Runtime, States, NoReq, Requests, Ops
<1>6. ProcTypeOK
  BY <1>5 DEF ProcTypeOK, PcLabels
<1>7. SupTypeOK
  BY DEF SupTypeOK, SpcLabels
<1> QED BY <1>1, <1>2, <1>3, <1>4, <1>5, <1>6, <1>7 DEF TypeOK

\* Every step keeps the types.
LEMMA StepTypes == TypeOK /\ [Next]_vars => TypeOK'
<1> SUFFICES ASSUME TypeOK, [Next]_vars PROVE TypeOK'
  OBVIOUS
<1>1. CASE \E c \in Clients : Request(c)
  BY <1>1, AskTypes
<1>2. CASE \E p \in Procs : Lock(p) \/ ConnectStep(p) \/ DisconnectStep(p)
  BY <1>2, RequestTypes
<1>3. CASE BootStep
  BY <1>3, BootTypes
<1>4. CASE \E s \in Sups : SupStep(s)
  BY <1>4, SupTypes
<1>5. CASE EnvStep
  BY <1>5, EnvTypes
<1>6. CASE UNCHANGED vars
  BY <1>6, Frame DEF vars, TypeOK
<1> QED BY <1>1, <1>2, <1>3, <1>4, <1>5, <1>6 DEF Next

\* Every reachable state of the connection manager is well typed.
THEOREM Types == Spec => []TypeOK
BY InitTypes, StepTypes, PTL DEF Spec

-----------------------------------------------------------------------------
(* The guard and the supervisors.  Discipline is inductive when no extreme   *)
(* scheduling is admitted.                                                  *)

\* One step of a request keeps the discipline.
LEMMA RequestDiscipline ==
  ASSUME Races = {}, TypeOK, Discipline,
         NEW p \in Procs, Lock(p) \/ ConnectStep(p) \/ DisconnectStep(p)
  PROVE  Discipline'
<1> USE ConnectionAssumption, Table
        DEF TypeOK, StoreTypeOK, ProcTypeOK, SupTypeOK, JoinTypeOK, stateVars,
            joinVars, supVars, procVars,
            Discipline, GuardHeld, Owned, Awaited, Attached, Published, Unwatched, BootFirst,
            Working, Quiet, NoSupervisor, Recovering, Dialing, NoReq, Procs
<1>1. CASE Lock(p)
  BY <1>1 DEF Lock
<1>2. CASE SwitchInPlace(p)
  BY <1>2 DEF SwitchInPlace, TakeMonitor, Goto, Goes
<1>3. CASE RejectConnect(p)
  BY <1>3 DEF RejectConnect, Fail, Goes, Release
<1>4. CASE Dial(p)
  BY <1>4 DEF Dial, Goto, Goes
<1>5. CASE SwitchJoined(p)
  BY <1>5 DEF SwitchJoined, Joined, Goes
<1>6. CASE SwitchTeardown(p)
  BY <1>6 DEF SwitchTeardown, Goto, Goes, Fail, Release
<1>7. CASE LookupFails(p)
  BY <1>7 DEF LookupFails, Abort, Fail, Goes, Release
<1>8. CASE LookupNode(p)
  BY <1>8 DEF LookupNode, Goes
<1>9. CASE SelectFails(p)
  BY <1>9 DEF SelectFails, Fail, Goes, Release
<1>10. CASE SelectNode(p)
  BY <1>10 DEF SelectNode, Abort, SetContext, Goes, Fail, Release
<1>11. CASE StartCore(p)
  BY <1>11 DEF StartCore, Goes
<1>12. CASE StartFails(p)
  BY <1>12 DEF StartFails, Goes
<1>13. CASE KeepProxy(p)
  BY <1>13 DEF KeepProxy, Goes
<1>14. CASE SetProxy(p)
  BY <1>14 DEF SetProxy, Goes
<1>15. CASE RememberProxy(p)
  BY <1>15 DEF RememberProxy, Goes
<1>16. CASE Commit(p)
  BY <1>16 DEF Commit, SetContext, Goes, Fail, Release, Leaving
<1>17. CASE SpawnMonitor(p)
  BY <1>17 DEF SpawnMonitor, Goes, Release
<1>18. CASE UndoProxy(p)
  BY <1>18 DEF UndoProxy, Goes
<1>19. CASE UndoCore(p)
  BY <1>19 DEF UndoCore, Goes
<1>20. CASE AbortStart(p)
  BY <1>20 DEF AbortStart, Abort, Fail, Goes, Release
<1>21. CASE ReadState(p) \/ ReadAgain(p) \/ IgnoreDisconnect(p) \/ RefuseDisconnect(p)
  BY <1>21 DEF ReadState, ReadAgain, IgnoreDisconnect, RefuseDisconnect,
     Disconnected, Release, Goes
<1>22. CASE BeginDisconnect(p)
  BY <1>22 DEF BeginDisconnect, TakeMonitor, Goto, Goes
<1>23. CASE DisconnectJoined(p)
  BY <1>23 DEF DisconnectJoined, Joined, Goes
<1>24. CASE FinishDisconnect(p)
  BY <1>24 DEF FinishDisconnect, Goto, Disconnected, Release
<1> QED BY <1>1, <1>2, <1>3, <1>4, <1>5, <1>6, <1>7, <1>8, <1>9, <1>10, <1>11, <1>12, <1>13,
           <1>14, <1>15, <1>16, <1>17, <1>18, <1>19, <1>20, <1>21, <1>22, <1>23, <1>24 DEF
           ConnectStep, DisconnectStep

\* One step of the boot recovery keeps the discipline.
LEMMA BootDiscipline ==
  ASSUME Races = {}, TypeOK, Discipline, BootStep
  PROVE  Discipline'
<1> USE ConnectionAssumption, Table
        DEF TypeOK, StoreTypeOK, ProcTypeOK, SupTypeOK, JoinTypeOK, stateVars,
            joinVars, supVars, procVars,
            Discipline, GuardHeld, Owned, Awaited, Attached, Published, Unwatched, BootFirst,
            Working, Quiet, NoSupervisor, Recovering, Dialing, NoReq, Procs
<1>1. CASE BootReap
  BY <1>1 DEF BootReap, Goes
<1>2. CASE BootNothing
  BY <1>2 DEF BootNothing
<1>3. CASE BootResume
  BY <1>3 DEF BootResume
<1>4. CASE BootGiveUp
  BY <1>4 DEF BootGiveUp
<1>5. CASE BootEnsure
  BY <1>5 DEF BootEnsure, Release
<1>6. CASE BootRestore
  BY <1>6 DEF BootRestore, Release
<1> QED BY <1>1, <1>2, <1>3, <1>4, <1>5, <1>6 DEF BootStep

\* One step of a supervisor keeps the discipline, though it holds no lock.
LEMMA SupDiscipline ==
  ASSUME Races = {}, TypeOK, Discipline, NEW s \in Sups, SupStep(s)
  PROVE  Discipline'
<1> USE ConnectionAssumption, Table
        DEF TypeOK, StoreTypeOK, ProcTypeOK, SupTypeOK, JoinTypeOK, stateVars,
            joinVars, supVars, procVars,
            Discipline, GuardHeld, Owned, Awaited, Attached, Published, Unwatched, BootFirst,
            Working, Quiet, NoSupervisor, Recovering, Dialing, NoReq, Procs
<1>1. CASE TickExit(s)
  BY <1>1 DEF TickExit, Exit, Becomes
<1>2. CASE Tick(s)
  BY <1>2 DEF Tick, Becomes
<1>3. CASE Probe(s)
  BY <1>3 DEF Probe, Becomes, AfterProbe
<1>4. CASE RecoverVoid(s)
  BY <1>4 DEF RecoverVoid, Becomes
<1>5. CASE RecoverBegin(s)
  BY <1>5 DEF RecoverBegin, Becomes
<1>6. CASE RecoverRestart(s)
  BY <1>6 DEF RecoverRestart, Becomes, Goto
<1>7. CASE RecoverCore(s)
  BY <1>7 DEF RecoverCore, Becomes
<1>8. CASE RecoverHealth(s)
  BY <1>8 DEF RecoverHealth, Becomes, MarkRecovered, SetContext
<1>9. CASE RecoverReselect(s)
  BY <1>9 DEF RecoverReselect, Becomes, Goto
<1>10. CASE SmartChoice(s)
  BY <1>10 DEF SmartChoice, Becomes
<1>11. CASE SmartCore(s)
  BY <1>11 DEF SmartCore, Becomes
<1>12. CASE SmartHealth(s)
  BY <1>12 DEF SmartHealth, Becomes, MarkRecovered, SetContext
<1>13. CASE GiveUpProxy(s)
  BY <1>13 DEF GiveUpProxy, Becomes
<1>14. CASE GiveUpCore(s)
  BY <1>14 DEF GiveUpCore, Becomes
<1>15. CASE GiveUpPersist(s)
  BY <1>15 DEF GiveUpPersist, Becomes
<1>16. CASE Verdict(s)
  BY <1>16 DEF Verdict, Becomes, Exit
<1> QED BY <1>1, <1>2, <1>3, <1>4, <1>5, <1>6, <1>7, <1>8, <1>9, <1>10, <1>11, <1>12, <1>13,
           <1>14, <1>15, <1>16 DEF SupStep

\* Nothing outside the service can break the discipline, a crash included.
LEMMA EnvDiscipline ==
  ASSUME TypeOK, Discipline, EnvStep
  PROVE  Discipline'
<1> USE ConnectionAssumption, Table
        DEF TypeOK, StoreTypeOK, ProcTypeOK, SupTypeOK, JoinTypeOK, stateVars,
            joinVars, supVars, procVars,
            Discipline, GuardHeld, Owned, Awaited, Attached, Published, Unwatched, BootFirst,
            Working, Quiet, NoSupervisor, Recovering, Dialing, NoReq, Procs
<1>1. CASE CoreExits
  BY <1>1 DEF CoreExits
<1>2. CASE CatalogChanges
  BY <1>2 DEF CatalogChanges
<1>3. CASE SetMode
  BY <1>3 DEF SetMode
<1>4. CASE Crash
  BY <1>4 DEF Crash
<1> QED BY <1>1, <1>2, <1>3, <1>4 DEF EnvStep

LEMMA InitDiscipline == Init => Discipline
BY ConnectionAssumption
   DEF Init, Discipline, GuardHeld, Owned, Awaited, Attached, Published, Unwatched, BootFirst,
       Working, Quiet, NoSupervisor, Recovering, NoReq, Procs

\* Types and discipline together are inductive.
LEMMA StepDiscipline ==
  ASSUME Races = {}, TypeOK, Discipline, [Next]_vars
  PROVE  Discipline'
<1>1. CASE \E c \in Clients : Request(c)
  BY <1>1, ConnectionAssumption
     DEF Request, TypeOK, ProcTypeOK, stateVars, joinVars, supVars, Discipline,
           GuardHeld, Owned,
         Awaited, Attached, Published, Unwatched, BootFirst, Working, Quiet, NoSupervisor,
         Recovering, Procs
<1>2. CASE \E p \in Procs : Lock(p) \/ ConnectStep(p) \/ DisconnectStep(p)
  BY <1>2, RequestDiscipline
<1>3. CASE BootStep
  BY <1>3, BootDiscipline
<1>4. CASE \E s \in Sups : SupStep(s)
  BY <1>4, SupDiscipline
<1>5. CASE EnvStep
  BY <1>5, EnvDiscipline
<1>6. CASE UNCHANGED vars
  BY <1>6 DEF vars, stateVars, joinVars, procVars, supVars, Discipline, GuardHeld, Owned,
     Awaited,
              Attached, Published, Unwatched, BootFirst, Working, Quiet, NoSupervisor,
                    Recovering
<1> QED BY <1>1, <1>2, <1>3, <1>4, <1>5, <1>6 DEF Next

\* The guard is exclusive, supervisors are owned, and the published state tells how
\* far the guard's holder has come, in every reachable state.
THEOREM Disciplined == ASSUME Races = {} PROVE Spec => []Discipline
<1>1. Init => TypeOK /\ Discipline
  BY InitTypes, InitDiscipline
<1>2. TypeOK /\ Discipline /\ [Next]_vars => (TypeOK /\ Discipline)'
  BY StepTypes, StepDiscipline
<1> QED BY <1>1, <1>2, PTL DEF Spec

-----------------------------------------------------------------------------
(* What follows from the discipline.                                        *)

\* recover never works on the core or the system proxy while a request or the boot
\* recovery does, although it does not take the guard.
THEOREM RecoveryIsExclusive == ASSUME Races = {} PROVE Spec => []ExclusiveRecovery
<1>1. ASSUME Discipline PROVE ExclusiveRecovery
  <2> SUFFICES ASSUME NEW s \in Sups, NEW p \in Procs, Recovering(s), Mutating(p) PROVE FALSE
    BY DEF ExclusiveRecovery
  <2>1. ~Quiet(s)
    BY DEF Recovering, Quiet
  <2>2. CASE Working(p) \/ pc[p] = "spawn"
    BY <1>1, <2>1, <2>2 DEF Discipline, Unwatched, NoSupervisor, Quiet
  <2>3. CASE pc[p] \in {"reap", "restore", "ensure"}
    <3>1. p = Boot
      BY <1>1, <2>3 DEF Discipline, BootFirst, Procs
    <3> QED BY <1>1, <2>1, <2>3, <3>1 DEF Discipline, BootFirst, NoSupervisor, Quiet
  <2> QED BY <2>2, <2>3 DEF Mutating, Working
<1> QED BY <1>1, Disciplined, PTL

\* There is one supervisor task at a time.
THEOREM SupervisorIsUnique == ASSUME Races = {} PROVE Spec => []OneSupervisor
<1>1. ASSUME Discipline PROVE OneSupervisor
  BY <1>1, ConnectionAssumption DEF Discipline, Owned, Awaited, OneSupervisor
<1> QED BY <1>1, Disciplined, PTL

-----------------------------------------------------------------------------
(* Refinement: the manager only moves the published state along the table,   *)
(* although StateStore::fail does not look at it.                           *)

\* The steps that publish a state leave it, or move it along the table.
LEMMA TableStep ==
  ASSUME TypeOK
  PROVE  /\ \A to \in States : Goto(to) => StoreStep
         /\ \A to \in States, t \in Targets : SetContext(to, t) => StoreStep
         /\ UNCHANGED st => StoreStep
         /\ st' = "ERROR" /\ st \notin {"STOPPED", "READY"} => StoreStep
BY Table DEF TypeOK, StoreTypeOK, Goto, SetContext, StoreStep, CanTransition, stateVars,
   States

\* No step of a request leaves the table.
LEMMA RequestTable ==
  ASSUME TypeOK, Discipline, NEW p \in Procs, Lock(p) \/ ConnectStep(p) \/ DisconnectStep(p)
  PROVE  StoreStep
<1> USE TableStep, NodeTypes DEF States
<1>1. CASE SwitchInPlace(p)
  BY <1>1 DEF SwitchInPlace
<1>2. CASE RejectConnect(p)
  BY <1>2 DEF RejectConnect, stateVars
<1>3. CASE Dial(p)
  BY <1>3 DEF Dial
<1>4. CASE SwitchJoined(p)
  BY <1>4 DEF SwitchJoined, stateVars
<1>5. CASE SwitchTeardown(p)
  BY <1>5 DEF SwitchTeardown
<1>6. CASE LookupFails(p)
  BY <1>6 DEF LookupFails, Abort, Discipline, Published
<1>7. CASE LookupNode(p)
  BY <1>7 DEF LookupNode, stateVars
<1>8. CASE SelectFails(p)
  BY <1>8 DEF SelectFails, stateVars
<1>9. CASE SelectNode(p)
  BY <1>9 DEF SelectNode, Abort, Targets, Discipline, Published
<1>10. CASE StartCore(p)
  BY <1>10 DEF StartCore, stateVars
<1>11. CASE StartFails(p)
  BY <1>11 DEF StartFails, stateVars
<1>12. CASE KeepProxy(p)
  BY <1>12 DEF KeepProxy, stateVars
<1>13. CASE SetProxy(p)
  BY <1>13 DEF SetProxy, stateVars
<1>14. CASE RememberProxy(p)
  BY <1>14 DEF RememberProxy, stateVars
<1>15. CASE Commit(p)
  BY <1>15 DEF Commit, Targets
<1>16. CASE SpawnMonitor(p)
  BY <1>16 DEF SpawnMonitor, stateVars
<1>17. CASE UndoProxy(p)
  BY <1>17 DEF UndoProxy, stateVars
<1>18. CASE UndoCore(p)
  BY <1>18 DEF UndoCore, stateVars
<1>19. CASE AbortStart(p)
  BY <1>19 DEF AbortStart, Abort, Discipline, Published
<1>20. CASE ReadState(p) \/ ReadAgain(p) \/ IgnoreDisconnect(p) \/ RefuseDisconnect(p)
  BY <1>20 DEF ReadState, ReadAgain, IgnoreDisconnect, RefuseDisconnect, stateVars
<1>21. CASE BeginDisconnect(p)
  BY <1>21 DEF BeginDisconnect
<1>22. CASE DisconnectJoined(p)
  BY <1>22 DEF DisconnectJoined, stateVars
<1>23. CASE FinishDisconnect(p)
  BY <1>23 DEF FinishDisconnect
<1>24. CASE Lock(p)
  BY <1>24 DEF Lock, stateVars
<1> QED BY <1>1, <1>2, <1>3, <1>4, <1>5, <1>6, <1>7, <1>8, <1>9, <1>10, <1>11, <1>12, <1>13,
   <1>14, <1>15, <1>16, <1>17, <1>18, <1>19, <1>20, <1>21, <1>22, <1>23, <1>24 DEF
   ConnectStep, DisconnectStep

\* No step of a supervisor leaves the table: what it fails is a session.
LEMMA SupTable ==
  ASSUME TypeOK, Discipline, NEW s \in Sups, SupStep(s)
  PROVE  StoreStep
<1> USE TableStep DEF States
<1>1. CASE \/ TickExit(s) \/ Tick(s) \/ Probe(s) \/ RecoverVoid(s) \/ RecoverBegin(s)
           \/ RecoverCore(s) \/ SmartChoice(s) \/ SmartCore(s) \/ GiveUpProxy(s)
           \/ GiveUpPersist(s) \/ Verdict(s)
  BY <1>1 DEF TickExit, Tick, Probe, RecoverVoid, RecoverBegin, RecoverCore, SmartChoice,
     SmartCore,
              GiveUpProxy, GiveUpPersist, Verdict, stateVars
<1>2. CASE RecoverRestart(s) \/ RecoverReselect(s)
  BY <1>2 DEF RecoverRestart, RecoverReselect
<1>3. ASSUME NEW n \in Nodes \cup {None}, MarkRecovered(n) PROVE StoreStep
  <2>1. [target EXCEPT !.node = n] \in Targets
    BY DEF TypeOK, StoreTypeOK, Targets
  <2> QED BY <1>3, <2>1 DEF MarkRecovered
<1>4. CASE RecoverHealth(s)
  BY <1>3, <1>4 DEF RecoverHealth, TypeOK, SupTypeOK, stateVars
<1>5. CASE SmartHealth(s)
  BY <1>3, <1>5 DEF SmartHealth, TypeOK, SupTypeOK, stateVars
<1>6. CASE GiveUpCore(s)
  <2>1. ~Quiet(s) /\ spc[s] # "none"
    BY <1>6 DEF GiveUpCore, Quiet
  <2>2. CASE monitor = s
    BY <1>6, <2>1, <2>2 DEF Discipline, Attached, GiveUpCore
  <2>3. CASE joining = s
    BY <1>6, <2>3, ConnectionAssumption DEF Discipline, Awaited, Published, GiveUpCore
  <2> QED BY <2>1, <2>2, <2>3 DEF Discipline, Owned
<1> QED BY <1>1, <1>2, <1>4, <1>5, <1>6 DEF SupStep

\* The published connection state moves along the transition table or is reset by a
\* restart of the process.
LEMMA TableMoves ==
  ASSUME Races = {}, TypeOK, Discipline, [Next]_vars
  PROVE  [StoreStep \/ Crash]_st
<1> USE TableStep
<1>1. CASE \E c \in Clients : Request(c)
  BY <1>1 DEF Request, stateVars
<1>2. CASE \E p \in Procs : Lock(p) \/ ConnectStep(p) \/ DisconnectStep(p)
  BY <1>2, RequestTable
<1>3. CASE BootStep
  BY <1>3 DEF BootStep, BootReap, BootNothing, BootResume, BootGiveUp, BootEnsure,
     BootRestore, stateVars
<1>4. CASE \E s \in Sups : SupStep(s)
  BY <1>4, SupTable
<1>5. CASE EnvStep
  BY <1>5 DEF EnvStep, CoreExits, CatalogChanges, SetMode, stateVars
<1>6. CASE UNCHANGED vars
  BY <1>6 DEF vars, stateVars
<1> QED BY <1>1, <1>2, <1>3, <1>4, <1>5, <1>6 DEF Next

\* Whatever crashes, the state starts STOPPED and leaves the table at a restart only:
\* fail (state.rs), which does not consult the table, never takes it elsewhere.
THEOREM TableOrRestart ==
  ASSUME Races = {} PROVE Spec => StoreInit /\ [][StoreStep \/ Crash]_st
<1>1. Init => StoreInit
  BY DEF Init
<1>2. TypeOK /\ Discipline /\ [Next]_vars => [StoreStep \/ Crash]_st
  BY TableMoves
<1> QED BY <1>1, <1>2, Types, Disciplined, PTL DEF Spec

\* As long as the process lives, the published connection state starts STOPPED and
\* moves along the transition table: the manager implements ConnState's StoreSpec.
THEOREM StoreRefinement == ASSUME Races = {}, MaxCrashes = 0 PROVE Spec => StoreSpec
<1>1. TypeOK /\ [StoreStep \/ Crash]_st => [StoreStep]_st
  BY DEF Crash, TypeOK, EnvTypeOK
<1> QED BY <1>1, TableOrRestart, Types, PTL DEF StoreSpec
=============================================================================
