---------------------------- MODULE SessionProofs ----------------------------
(***************************************************************************)
(* What a session promises while it lives and what it leaves behind, for   *)
(* any constants that meet the assumptions, as long as no extreme          *)
(* scheduling is admitted: RedirectIsReversible, StoppedIsClean,           *)
(* ConnectedIsServed and BootLeavesNoDeadProxy.  Each rests on an          *)
(* inductive invariant of its own, on top of Types and Discipline.         *)
(***************************************************************************)
EXTENDS ConnectionProofs

-----------------------------------------------------------------------------
\* Only a crash counts.
LEMMA OneCrash ==
  ASSUME [Next]_vars
  PROVE  crashes' = crashes \/ Crash
<1> USE DEF envVars
<1>1. CASE \E c \in Clients : Request(c)
  BY <1>1 DEF Request
<1>2. CASE \E p \in Procs : Lock(p) \/ ConnectStep(p) \/ DisconnectStep(p)
  BY <1>2 DEF Lock, ConnectStep, DisconnectStep, SwitchInPlace, RejectConnect, Dial,
     SwitchJoined, SwitchTeardown, LookupFails, LookupNode, SelectFails, SelectNode,
     StartCore, StartFails, KeepProxy, SetProxy, RememberProxy, Commit, SpawnMonitor,
     UndoProxy, UndoCore, AbortStart, ReadState, ReadAgain, IgnoreDisconnect,
     RefuseDisconnect, BeginDisconnect, DisconnectJoined, FinishDisconnect
<1>3. CASE BootStep
  BY <1>3 DEF BootStep, BootReap, BootNothing, BootResume, BootGiveUp, BootEnsure, BootRestore
<1>4. CASE \E s \in Sups : SupStep(s)
  BY <1>4 DEF SupStep, TickExit, Tick, Probe, RecoverVoid, RecoverBegin, RecoverRestart,
     RecoverCore, RecoverHealth, RecoverReselect, SmartChoice, SmartCore, SmartHealth,
     GiveUpProxy, GiveUpCore, GiveUpPersist, Verdict
<1>5. CASE EnvStep
  BY <1>5 DEF EnvStep, CoreExits, CatalogChanges, SetMode, Crash
<1>6. CASE UNCHANGED vars
  BY <1>6 DEF vars
<1> QED BY <1>1, <1>2, <1>3, <1>4, <1>5, <1>6 DEF Next

LEMMA StepCount ==
  ASSUME TypeOK, [Next]_vars, crashes' = 0
  PROVE  crashes = 0
<1>1. Crash => crashes' = crashes + 1
  BY DEF Crash
<1>2. crashes \in Nat
  BY DEF TypeOK, EnvTypeOK
<1> QED BY <1>1, <1>2, OneCrash

-----------------------------------------------------------------------------
(* The first boot: nothing to restore, so that only clients get past the     *)
(* lookup.                                                                   *)

\* While a request is past the lock, it is a client's and the boot is through.
LEMMA OnlyClients ==
  ASSUME Discipline, BootQuiet, crashes = 0,
         NEW p \in Procs, pc[p] \notin {"idle", "lock", "reap", "read"}
  PROVE  p # Boot /\ pc[Boot] = "idle" /\ guard = p
BY ConnectionAssumption DEF Discipline, GuardHeld, BootFirst, BootQuiet, Procs

\* No step of a request brings anything to restore before the boot is through.
LEMMA RequestQuiet ==
  ASSUME TypeOK, Discipline, BootQuiet, crashes = 0,
         NEW p \in Procs, Lock(p) \/ ConnectStep(p) \/ DisconnectStep(p)
  PROVE  BootQuiet'
<1>1. CASE Lock(p)
  BY <1>1 DEF Lock, BootQuiet, TypeOK, ProcTypeOK
<1>2. CASE ConnectStep(p) \/ DisconnectStep(p)
  <2>1. pc[p] \notin {"idle", "lock", "reap", "read"}
    BY <1>2 DEF ConnectStep, DisconnectStep, SwitchInPlace, RejectConnect, Dial, SwitchJoined,
       SwitchTeardown, LookupFails, LookupNode, SelectFails, SelectNode, StartCore, StartFails,
       KeepProxy, SetProxy, RememberProxy, Commit, SpawnMonitor, UndoProxy, UndoCore,
       AbortStart, ReadState, ReadAgain, IgnoreDisconnect, RefuseDisconnect,
       BeginDisconnect, DisconnectJoined, FinishDisconnect
  <2>2. p # Boot /\ pc[Boot] = "idle"
    BY <2>1, OnlyClients
  <2>3. pc'[Boot] = "idle"
    BY <1>2, <2>2 DEF ConnectStep, DisconnectStep, SwitchInPlace, RejectConnect, Dial,
       SwitchJoined,
       SwitchTeardown, LookupFails, LookupNode, SelectFails, SelectNode, StartCore, StartFails,
       KeepProxy, SetProxy, RememberProxy, Commit, SpawnMonitor, UndoProxy, UndoCore,
       AbortStart, ReadState, ReadAgain, IgnoreDisconnect, RefuseDisconnect,
       BeginDisconnect, DisconnectJoined, FinishDisconnect, Goes, Release, Fail, Abort,
       Disconnected, TypeOK, ProcTypeOK, Procs
  <2> QED BY <2>3 DEF BootQuiet
<1> QED BY <1>1, <1>2

\* Nor does any other step.
LEMMA StepQuiet ==
  ASSUME Races = {}, TypeOK, Discipline, BootQuiet, [Next]_vars
  PROVE  BootQuiet'
<1> USE ConnectionAssumption DEF TypeOK, EnvTypeOK, ProcTypeOK, BootQuiet, procVars, envVars
<1>0. SUFFICES ASSUME crashes' = 0 PROVE BootQuiet'
  OBVIOUS
<1>1. CASE \E c \in Clients : Request(c)
  BY <1>0, <1>1 DEF Request
<1>2. CASE \E p \in Procs : Lock(p) \/ ConnectStep(p) \/ DisconnectStep(p)
  <2>1. crashes = 0
    BY <1>0, StepCount
  <2> QED BY <1>2, <2>1, RequestQuiet
<1>3. CASE BootStep
  <2>1. CASE BootReap
    BY <1>0, <2>1 DEF BootReap, Goes, Procs
  <2>2. CASE BootNothing
    BY <1>0, <2>2 DEF BootNothing, Procs
  <2>3. CASE BootResume \/ BootGiveUp \/ BootEnsure \/ BootRestore
    BY <1>0, <2>3 DEF BootResume, BootGiveUp, BootEnsure, BootRestore
  <2> QED BY <1>3, <2>1, <2>2, <2>3 DEF BootStep
<1>4. CASE \E s \in Sups : SupStep(s)
  <2> PICK s \in Sups : SupStep(s)
    BY <1>4
  <2>1. CASE spc[s] = "none"
    BY <2>1 DEF SupStep, TickExit, Tick, Probe, RecoverVoid, RecoverBegin, RecoverRestart,
       RecoverCore, RecoverHealth, RecoverReselect, SmartChoice, SmartCore, SmartHealth,
       GiveUpProxy, GiveUpCore, GiveUpPersist, Verdict
  <2>2. CASE spc[s] # "none"
    <3>1. pc[Boot] \in {"idle", "ensure"}
      BY <2>2 DEF Discipline, BootFirst, NoSupervisor
    <3>2. UNCHANGED <<pc, crashes>>
      BY DEF SupStep, TickExit, Tick, Probe, RecoverVoid, RecoverBegin, RecoverRestart,
       RecoverCore, RecoverHealth, RecoverReselect, SmartChoice, SmartCore, SmartHealth,
       GiveUpProxy, GiveUpCore, GiveUpPersist, Verdict
    <3> QED BY <1>0, <3>1, <3>2
  <2> QED BY <2>1, <2>2
<1>5. CASE EnvStep
  BY <1>0, <1>5 DEF EnvStep, CoreExits, CatalogChanges, SetMode, Crash
<1>6. CASE UNCHANGED vars
  BY <1>0, <1>6 DEF vars
<1> QED BY <1>1, <1>2, <1>3, <1>4, <1>5, <1>6 DEF Next

\* Past the lock, a step is a client's that holds the guard, boot recovery is
\* through, and no boot-only step is enabled.
LEMMA GuardedStep ==
  ASSUME Discipline, BootQuiet, crashes = 0,
         NEW p \in Procs, ConnectStep(p) \/ DisconnectStep(p)
  PROVE  p # Boot /\ guard = p /\ pc[p] \notin {"idle", "lock"} /\ crashes' = 0
<1>1. pc[p] \notin {"idle", "lock", "reap", "read"} /\ crashes' = 0
  BY DEF ConnectStep, DisconnectStep, SwitchInPlace, RejectConnect, Dial, SwitchJoined,
     SwitchTeardown, LookupFails, LookupNode, SelectFails, SelectNode, StartCore, StartFails,
     KeepProxy, SetProxy, RememberProxy, Commit, SpawnMonitor, UndoProxy, UndoCore,
     AbortStart, ReadState, ReadAgain, IgnoreDisconnect, RefuseDisconnect,
     BeginDisconnect, DisconnectJoined, FinishDisconnect, envVars
<1> QED BY <1>1, OnlyClients

\* The first boot has only two steps.
LEMMA FirstBoot ==
  ASSUME BootQuiet, crashes = 0, BootStep
  PROVE  BootReap \/ BootNothing
BY DEF BootQuiet, BootStep, BootResume, BootGiveUp, BootEnsure, BootRestore

-----------------------------------------------------------------------------
(* The registry, when no write fails.                                        *)

\* The user does not name this service's inbound.
LEMMA UserElsewhere ==
  ASSUME ProxyTypeOK, NEW reg, SameEffect(reg, user)
  PROVE  ~Redirected(reg)
BY ProxyAssumption DEF ProxyTypeOK, SameEffect, Redirected

\* set_system_proxy redirects, and keeps aside what has the user's effect.
LEMMA RedirectDone ==
  ASSUME Faults = {}, ProxyTypeOK, NEW ok \in BOOLEAN, Redirect(ok)
  PROVE  /\ ok /\ Redirected(registry')
         /\ saved' = None /\ backup' = backup /\ user' = user
         /\ ~Redirected(registry) => base' = registry
BY DEF Redirect, Enable, Done, On, Redirected

\* What restoring a snapshot leaves in the registry.
LEMMA RestoreDone ==
  ASSUME Faults = {}, NEW reg, NEW s \in Settings, NEW o \in Restore(reg, s)
  PROVE  o.ok /\ SameEffect(o.reg, s)
<1>0. s.on \in BOOLEAN
  BY DEF Settings
<1>1. CASE s.on
  <2>1. o = Done(On(s.spec))
    BY <1>1 DEF Restore, Enable
  <2> QED BY <1>0, <1>1, <2>1 DEF Done, On, SameEffect
<1>2. CASE ~s.on /\ s.spec = NoSpec
  <2>1. o = Done(Off(reg.spec))
    BY <1>2 DEF Restore, Disable
  <2> QED BY <1>0, <1>2, <2>1 DEF Done, Off, SameEffect
<1>3. CASE ~s.on /\ s.spec # NoSpec
  <2>1. Enable(reg, s.spec) = {Done(On(s.spec))}
    BY DEF Enable
  <2>2. \E x \in Enable(reg, s.spec) : o \in Disable(x.reg) \/ (o = x /\ ~x.ok)
    BY <1>3 DEF Restore
  <2>3. o = Done(Off(On(s.spec).spec))
    BY <2>1, <2>2 DEF Disable, Done
  <2> QED BY <1>0, <1>3, <2>3 DEF Done, Off, SameEffect
<1> QED BY <1>1, <1>2, <1>3

\* clear_system_proxy puts the snapshot back and forgets it.
LEMMA ClearDone ==
  ASSUME Faults = {}, ProxyTypeOK, saved # None, ClearProxy
  PROVE  /\ SameEffect(registry', saved)
         /\ saved' = None /\ backup' = None /\ base' = base /\ user' = user
BY RestoreDone DEF ClearProxy, BackupBecomes, ProxyTypeOK

\* After it, nothing of the session is left in the registry.
LEMMA ClearKept ==
  ASSUME Faults = {}, ProxyTypeOK, Untouched \/ Taken, ClearProxy
  PROVE  Untouched'
<1>1. CASE Untouched
  BY <1>1 DEF Untouched, ClearProxy, proxyVars, SameEffect
<1>2. CASE Taken
  BY <1>2, ClearDone DEF Taken, Untouched, SameEffect
<1> QED BY <1>1, <1>2

\* One step of a request.
LEMMA RequestKept ==
  ASSUME Faults = {}, TypeOK, Discipline, BootQuiet, RedirectKept, crashes = 0,
         NEW p \in Procs, Lock(p) \/ ConnectStep(p) \/ DisconnectStep(p)
  PROVE  RedirectKept'
<1> USE ConnectionAssumption, ProxyAssumption DEF TypeOK, ProcTypeOK, RedirectKept, Discipline,
        GuardHeld, procVars
<1>1. CASE Lock(p)
  BY <1>1 DEF Lock, Untouched, Taken, Taking, SameEffect, Redirected, proxyVars
<1>2. CASE ConnectStep(p) \/ DisconnectStep(p)
  <2>1. guard = p /\ p # Boot
    BY <1>2, GuardedStep
  <2>2. \A q \in Procs \ {p} : pc[q] # "remember"
    BY <2>1
  <2>3. CASE SetProxy(p)
    <3>1. ~Taking /\ saved = None
      BY <2>1, <2>3 DEF SetProxy, Taking, Redirect
    <3>2. Untouched
      BY <3>1 DEF Taken
    <3>3. PICK ok \in BOOLEAN : Redirect(ok) /\ Goes(p, IF ok THEN "remember" ELSE "undo")
      BY <2>3 DEF SetProxy
    <3>4. ~Redirected(registry) /\ registry # None
      BY <3>2, UserElsewhere DEF Untouched, ProxyTypeOK
    <3>5. Taking'
      BY <2>1, <3>2, <3>3, <3>4, RedirectDone DEF Taking, Untouched, SameEffect, Goes
    <3> QED BY <3>5
  <2>4. CASE RememberProxy(p)
    <3>1. Taking
      BY <2>4 DEF RememberProxy
    <3>2. Taken'
      BY <2>4, <3>1 DEF RememberProxy, RememberUser, BackupBecomes, Taking, Taken, SameEffect,
         Redirected
    <3> QED BY <2>1, <2>2, <2>4, <3>2 DEF RememberProxy, Goes
  <2>5. CASE UndoProxy(p)
    <3>1. Untouched \/ Taken
      BY <2>1, <2>5 DEF UndoProxy, Taking
    <3>2. Untouched'
      BY <2>5, <3>1, ClearKept DEF UndoProxy
    <3> QED BY <2>1, <2>2, <2>5, <3>2 DEF UndoProxy, Goes
  <2>6. CASE ~SetProxy(p) /\ ~RememberProxy(p) /\ ~UndoProxy(p)
    <3>1. UNCHANGED proxyVars /\ pc[p] # "remember"
      BY <1>2, <2>6 DEF ConnectStep, DisconnectStep, SwitchInPlace, RejectConnect, Dial,
         SwitchJoined, SwitchTeardown, LookupFails, LookupNode, SelectFails, SelectNode,
         StartCore, StartFails, KeepProxy, KeepRedirect, Commit, SpawnMonitor, UndoCore,
         AbortStart, ReadState, ReadAgain, IgnoreDisconnect, RefuseDisconnect,
         BeginDisconnect, DisconnectJoined, FinishDisconnect
    <3>2. \A q \in Procs : pc'[q] # "remember"
      BY <1>2, <2>2, <2>6, <3>1 DEF ConnectStep, DisconnectStep, SwitchInPlace, RejectConnect,
         Dial,
         SwitchJoined, SwitchTeardown, LookupFails, LookupNode, SelectFails, SelectNode,
         StartCore, StartFails, KeepProxy, Commit, SpawnMonitor, UndoCore,
         AbortStart, ReadState, ReadAgain, IgnoreDisconnect, RefuseDisconnect,
         BeginDisconnect, DisconnectJoined, FinishDisconnect, Goes, Release, Fail, Abort,
         Disconnected
    <3>3. Untouched' \/ Taken'
      BY <2>1, <3>1 DEF proxyVars, Untouched, Taken, Taking, SameEffect, Redirected
    <3> QED BY <3>2, <3>3
  <2> QED BY <2>3, <2>4, <2>5, <2>6
<1> QED BY <1>1, <1>2

\* Every step.
LEMMA StepKept ==
  ASSUME Faults = {}, Races = {}, TypeOK, Discipline, BootQuiet, RedirectKept, [Next]_vars
  PROVE  RedirectKept'
<1> USE ConnectionAssumption DEF TypeOK, EnvTypeOK, ProcTypeOK, RedirectKept, procVars, envVars
<1>0. SUFFICES ASSUME crashes' = 0 PROVE RedirectKept'
  OBVIOUS
<1>1. CASE \E c \in Clients : Request(c)
  BY <1>0, <1>1 DEF Request, proxyVars, Untouched, Taken, Taking, SameEffect, Redirected, Procs
<1>2. CASE \E p \in Procs : Lock(p) \/ ConnectStep(p) \/ DisconnectStep(p)
  <2>1. crashes = 0
    BY <1>0, StepCount
  <2> QED BY <1>2, <2>1, RequestKept
<1>3. CASE BootStep
  <2>1. crashes = 0
    BY <1>0, StepCount
  <2>2. guard = Boot
    BY <1>3, <2>1, FirstBoot DEF BootReap, BootNothing, Discipline, GuardHeld, Procs
  <2>3. BootReap \/ BootNothing
    BY <1>3, <2>1, FirstBoot
  <2> QED BY <1>0, <2>1, <2>2, <2>3 DEF BootReap, BootNothing, Goes, proxyVars, Untouched,
       Taken,
             Taking, SameEffect, Redirected, Procs
<1>4. CASE \E s \in Sups : SupStep(s)
  <2> PICK s \in Sups : SupStep(s)
    BY <1>4
  <2>1. CASE GiveUpProxy(s)
    <3>1. \A p \in Procs : pc[p] # "remember"
      BY <2>1 DEF GiveUpProxy, Discipline, Unwatched, Working, Quiet
    <3>2. Untouched \/ Taken
      BY <1>0, <2>1, <3>1 DEF GiveUpProxy, Taking
    <3>3. Untouched'
      BY <2>1, <3>2, ClearKept DEF GiveUpProxy
    <3> QED BY <2>1, <3>1, <3>3 DEF GiveUpProxy
  <2>2. CASE ~GiveUpProxy(s)
    <3>1. UNCHANGED <<proxyVars, procVars, crashes>>
      BY <2>2 DEF SupStep, TickExit, Tick, Probe, RecoverVoid, RecoverBegin, RecoverRestart,
         RecoverCore, RecoverHealth, RecoverReselect, SmartChoice, SmartCore, SmartHealth,
         GiveUpCore, GiveUpPersist, Verdict
    <3> QED BY <1>0, <3>1 DEF proxyVars, Untouched, Taken, Taking, SameEffect, Redirected
  <2> QED BY <2>1, <2>2
<1>5. CASE EnvStep
  BY <1>0, <1>5 DEF EnvStep, CoreExits, CatalogChanges, SetMode, Crash, proxyVars, Untouched,
     Taken, Taking, SameEffect, Redirected
<1>6. CASE UNCHANGED vars
  BY <1>0, <1>6 DEF vars, proxyVars, Untouched, Taken, Taking, SameEffect, Redirected
<1> QED BY <1>1, <1>2, <1>3, <1>4, <1>5, <1>6 DEF Next

LEMMA InitQuiet == Init => BootQuiet /\ RedirectKept
BY ConnectionAssumption, ProxyAssumption
   DEF Init, BootQuiet, RedirectKept, NoRuntime, Untouched, ProxyInit, SameEffect, Procs

\* What the registry, the snapshot and the backup hold together, in every
\* reachable state of a service that has not crashed.
THEOREM Redirects ==
  ASSUME Races = {}, Faults = {} PROVE Spec => [](BootQuiet /\ RedirectKept)
<1> DEFINE I == TypeOK /\ Discipline /\ BootQuiet /\ RedirectKept
<1>1. Init => I
  BY InitTypes, InitDiscipline, InitQuiet
<1>2. I /\ [Next]_vars => I'
  BY StepTypes, StepDiscipline, StepQuiet, StepKept
<1> HIDE DEF I
<1>3. I => BootQuiet /\ RedirectKept
  BY DEF I
<1> QED BY <1>1, <1>2, <1>3, PTL DEF Spec

\* Whenever applications are redirected, the user's settings are held in memory and on
\* disk, or in the call that is about to hold them.
THEOREM Reversible ==
  ASSUME Races = {}, Faults = {} PROVE Spec => []RedirectIsReversible
<1>1. ASSUME TypeOK, RedirectKept PROVE RedirectIsReversible
  <2> SUFFICES ASSUME Redirected(registry), crashes = 0
               PROVE  \/ /\ saved # None /\ SameEffect(saved, user)
                         /\ backup # None /\ SameEffect(backup, user)
                      \/ /\ guard # None /\ pc[guard] = "remember"
                         /\ SameEffect(base, user)
    BY DEF RedirectIsReversible
  <2>1. ~Untouched
    BY <1>1, UserElsewhere DEF Untouched, TypeOK
  <2> QED BY <1>1, <2>1 DEF RedirectKept, Taken, Taking
<1> QED BY <1>1, Types, Redirects, PTL

-----------------------------------------------------------------------------
(* What the clean-up gets rid of.                                            *)

\* One step of a request.
LEMMA RequestCleaned ==
  ASSUME TypeOK, Discipline, CleanedUp,
         NEW p \in Procs, Lock(p) \/ ConnectStep(p) \/ DisconnectStep(p)
  PROVE  CleanedUp'
<1> USE ConnectionAssumption, Table
        DEF TypeOK, StoreTypeOK, CoreTypeOK, LinkTypeOK, ProcTypeOK, SupTypeOK, JoinTypeOK,
            stateVars, coreVars, proxyVars, linkVars, joinVars, supVars, procVars, envVars,
            Discipline, GuardHeld, Owned, Awaited, Attached, Published, Unwatched, Working,
            Quiet, NoSupervisor, Dialing, CleanedUp, Emptied
<1>1. CASE Lock(p)
  BY <1>1 DEF Lock
<1>2. CASE SwitchInPlace(p)
  BY <1>2 DEF SwitchInPlace, TakeMonitor, Goto, Goes
<1>3. CASE RejectConnect(p)
  BY <1>3 DEF RejectConnect, Fail, Goes, Release
<1>4. CASE Dial(p)
  BY <1>4 DEF Dial, Goto, Goes
<1>5. CASE SwitchJoined(p)
  BY <1>5 DEF SwitchJoined, Joined, Goes
<1>6. CASE SwitchTeardown(p)
  BY <1>6 DEF SwitchTeardown, CoreStop, StoppedCore, Goto, Goes, Fail, Release
<1>7. CASE LookupFails(p)
  BY <1>7 DEF LookupFails, Abort, Fail, Goes, Release
<1>8. CASE LookupNode(p)
  BY <1>8 DEF LookupNode, Listed, Goes
<1>9. CASE SelectFails(p)
  BY <1>9 DEF SelectFails, Fail, Goes, Release
<1>10. CASE SelectNode(p)
  BY <1>10 DEF SelectNode, Abort, SetContext, Goes, Fail, Release
<1>11. CASE StartCore(p)
  BY <1>11 DEF StartCore, CoreStart, Goes
<1>12. CASE StartFails(p)
  BY <1>12 DEF StartFails, CoreStart, Goes
<1>13. CASE KeepProxy(p)
  BY <1>13 DEF KeepProxy, KeepRedirect, Goes
<1>14. CASE SetProxy(p)
  BY <1>14 DEF SetProxy, Redirect, Goes
<1>15. CASE RememberProxy(p)
  BY <1>15 DEF RememberProxy, RememberUser, Goes
<1>16. CASE Commit(p)
  BY <1>16 DEF Commit, SetContext, Goes, Fail, Release
<1>17. CASE SpawnMonitor(p)
  BY <1>17 DEF SpawnMonitor, Goes, Release
<1>18. CASE UndoProxy(p)
  BY <1>18 DEF UndoProxy, ClearProxy, Goes
<1>19. CASE UndoCore(p)
  BY <1>19 DEF UndoCore, CoreStop, StoppedCore, Goes
<1>20. CASE AbortStart(p)
  BY <1>20 DEF AbortStart, Abort, Fail, Goes, Release
<1>21. CASE ReadState(p) \/ ReadAgain(p) \/ IgnoreDisconnect(p) \/ RefuseDisconnect(p)
  BY <1>21 DEF ReadState, ReadAgain, IgnoreDisconnect, RefuseDisconnect,
     Disconnected, Release, Goes
<1>22. CASE BeginDisconnect(p)
  BY <1>22 DEF BeginDisconnect, TakeMonitor, Goto, Goes
<1>23. CASE DisconnectJoined(p)
  BY <1>23 DEF DisconnectJoined, Joined, Goes
<1>24. CASE FinishDisconnect(p)
  BY <1>24 DEF FinishDisconnect, Goto, Disconnected, Release
<1> QED BY <1>1, <1>2, <1>3, <1>4, <1>5, <1>6, <1>7, <1>8, <1>9, <1>10, <1>11, <1>12, <1>13,
   <1>14, <1>15, <1>16, <1>17, <1>18, <1>19, <1>20, <1>21, <1>22, <1>23, <1>24 DEF
   ConnectStep, DisconnectStep

\* One step of a supervisor: there is none that is not quiet when the clean-up runs,
\* nor in a stopped service.
LEMMA SupCleaned ==
  ASSUME TypeOK, Discipline, CleanedUp, NEW s \in Sups, SupStep(s)
  PROVE  CleanedUp'
<1> USE ConnectionAssumption, Table
        DEF TypeOK, StoreTypeOK, CoreTypeOK, LinkTypeOK, ProcTypeOK, SupTypeOK, JoinTypeOK,
            stateVars, coreVars, proxyVars, linkVars, joinVars, supVars, procVars, envVars,
            Discipline, GuardHeld, Owned, Awaited, Attached, Published, Unwatched, Working,
            Quiet, NoSupervisor, Dialing, CleanedUp, Emptied
<1>1. CASE TickExit(s)
  BY <1>1 DEF TickExit, Exit, Becomes
<1>2. CASE Tick(s)
  BY <1>2 DEF Tick, Becomes
<1>3. CASE Probe(s)
  BY <1>3 DEF Probe, Becomes, AfterProbe
<1>4. CASE RecoverVoid(s)
  BY <1>4 DEF RecoverVoid, Becomes
<1>5. CASE RecoverBegin(s)
  BY <1>5 DEF RecoverBegin, Becomes
<1>6. CASE RecoverRestart(s)
  BY <1>6 DEF RecoverRestart, Becomes, Goto, CoreStop, StoppedCore
<1>7. CASE RecoverCore(s)
  BY <1>7 DEF RecoverCore, Becomes, CoreStart
<1>8. CASE RecoverHealth(s)
  BY <1>8 DEF RecoverHealth, Becomes, MarkRecovered, SetContext
<1>9. CASE RecoverReselect(s)
  BY <1>9 DEF RecoverReselect, Becomes, Goto
<1>10. CASE SmartChoice(s)
  BY <1>10 DEF SmartChoice, Becomes, CoreStop, StoppedCore
<1>11. CASE SmartCore(s)
  BY <1>11 DEF SmartCore, Becomes, CoreStart
<1>12. CASE SmartHealth(s)
  BY <1>12 DEF SmartHealth, Becomes, MarkRecovered, SetContext
<1>13. CASE GiveUpProxy(s)
  BY <1>13 DEF GiveUpProxy, Becomes, ClearProxy
<1>14. CASE GiveUpCore(s)
  BY <1>14 DEF GiveUpCore, Becomes, CoreStop, StoppedCore
<1>15. CASE GiveUpPersist(s)
  BY <1>15 DEF GiveUpPersist, Becomes
<1>16. CASE Verdict(s)
  BY <1>16 DEF Verdict, Becomes, Exit
<1> QED BY <1>1, <1>2, <1>3, <1>4, <1>5, <1>6, <1>7, <1>8, <1>9, <1>10, <1>11, <1>12, <1>13,
   <1>14, <1>15, <1>16 DEF SupStep

LEMMA StepCleaned ==
  ASSUME Races = {}, TypeOK, Discipline, BootQuiet, CleanedUp, [Next]_vars
  PROVE  CleanedUp'
<1> USE ConnectionAssumption DEF TypeOK, EnvTypeOK, ProcTypeOK, CleanedUp, Emptied, stateVars,
        coreVars, linkVars, proxyVars, procVars, envVars
<1>2. CASE \E c \in Clients : Request(c)
  BY <1>2 DEF Request
<1>3. CASE \E p \in Procs : Lock(p) \/ ConnectStep(p) \/ DisconnectStep(p)
  BY <1>3, RequestCleaned
<1>4. CASE BootStep
  <2>1. CASE BootReap
    <3>1. core'.child = core.child
      BY <2>1 DEF BootReap, ReapStaleCores, CoreTypeOK
    <3> QED BY <2>1, <3>1 DEF BootReap, Goes
  <2>2. CASE BootNothing
    BY <2>2 DEF BootNothing
  <2>3. CASE BootResume
    <3>1. crashes # 0
      BY <2>3 DEF BootResume, BootQuiet
    <3> QED BY <2>3, <3>1 DEF BootResume, PrimeFromBackup
  <2>4. CASE BootGiveUp
    BY <2>4 DEF BootGiveUp
  <2>5. CASE BootEnsure
    BY <2>5 DEF BootEnsure, EnsureApplied, Release
  <2>6. CASE BootRestore
    BY <2>6 DEF BootRestore, RestoreAfterCrash, Release
  <2> QED BY <1>4, <2>1, <2>2, <2>3, <2>4, <2>5, <2>6 DEF BootStep
<1>5. CASE \E s \in Sups : SupStep(s)
  BY <1>5, SupCleaned
<1>6. CASE EnvStep
  BY <1>6 DEF EnvStep, CoreExits, CoreDies, CatalogChanges, SetMode, Crash, ProxyCrash,
     CoreCrash, StoppedCore, CoreTypeOK
<1>7. CASE UNCHANGED vars
  BY <1>7 DEF vars
<1> QED BY <1>2, <1>3, <1>4, <1>5, <1>6, <1>7 DEF Next

LEMMA InitCleaned == Init => CleanedUp
BY ConnectionAssumption
   DEF Init, ProxyInit, CoreInit, StoppedCore, CleanedUp, Emptied, Procs

LEMMA CleanedUpHolds ==
  ASSUME Races = {} PROVE Spec => [](TypeOK /\ Discipline /\ CleanedUp)
<1> DEFINE I == TypeOK /\ Discipline /\ BootQuiet /\ CleanedUp
<1>1. Init => I
  BY InitTypes, InitDiscipline, InitQuiet, InitCleaned
<1>2. I /\ [Next]_vars => I'
  BY StepTypes, StepDiscipline, StepQuiet, StepCleaned
<1>3. I => TypeOK /\ Discipline /\ CleanedUp
  OBVIOUS
<1> HIDE DEF I
<1> QED BY <1>1, <1>2, <1>3, PTL DEF Spec

LEMMA StoppedIsIdle ==
  ASSUME TypeOK, Discipline, CleanedUp, st = "STOPPED", Settled
  PROVE  Emptied /\ NothingRuns
<1>1. Emptied /\ active = None
  BY DEF CleanedUp
<1>2. \A s \in Sups : spc[s] \in {"none", "tick"}
  BY ConnectionAssumption DEF Discipline, Owned, Awaited, Attached, Quiet, Settled, Procs
<1> QED BY <1>1, <1>2 DEF Emptied, NothingRuns

\* A stopped service runs nothing: core, adapter, session and supervisors are gone,
\* after any crashes and whatever writes fail.
THEOREM StoppedStops ==
  ASSUME Races = {} PROVE Spec => [](st = "STOPPED" /\ Settled => NothingRuns)
<1>1. TypeOK /\ Discipline /\ CleanedUp => (st = "STOPPED" /\ Settled => NothingRuns)
  BY StoppedIsIdle
<1> QED BY <1>1, CleanedUpHolds, PTL

\* A stopped service leaves nothing behind: nothing runs, and as long as it has not
\* crashed the user's settings are in force and no snapshot or backup is left.
THEOREM StoppedClean ==
  ASSUME Races = {}, Faults = {} PROVE Spec => []StoppedIsClean
<1>1. ASSUME TypeOK, Discipline, CleanedUp, RedirectKept PROVE StoppedIsClean
  <2> SUFFICES ASSUME st = "STOPPED", Settled
               PROVE  /\ NothingRuns
                      /\ crashes = 0 =>
                           SameEffect(registry, user) /\ saved = None /\ backup = None
    BY DEF StoppedIsClean
  <2>1. Emptied /\ NothingRuns
    BY <1>1, StoppedIsIdle
  <2>2. crashes = 0 => Untouched
    BY <1>1, <2>1 DEF RedirectKept, Taken, Taking, Settled, Emptied
  <2> QED BY <2>1, <2>2 DEF Untouched
<1>2. TypeOK /\ Discipline /\ CleanedUp /\ BootQuiet /\ RedirectKept => StoppedIsClean
  BY <1>1
<1> QED BY <1>2, CleanedUpHolds, Redirects, PTL

-----------------------------------------------------------------------------
(* What CONNECTED promises.                                                  *)

\* A redirect that succeeds, whether or not others may fail.
LEMMA RedirectSucceeds ==
  ASSUME ProxyTypeOK, Redirect(TRUE)
  PROVE  base' # None /\ Redirected(registry')
<1>1. Direct \in Settings
  BY DEF Direct, Off, Settings, Specs
<1>2. base' # None
  BY <1>1, ProxyAssumption DEF Redirect, ProxyTypeOK
<1>3. \A o \in Enable(registry, Ours) : o.ok = TRUE => o = Done(On(Ours))
  BY DEF Enable, Done, Failed
<1> QED BY <1>2, <1>3 DEF Redirect, Done, On, Redirected

\* One step of a request.
LEMMA RequestServes ==
  ASSUME TypeOK, Discipline, Serving,
         NEW p \in Procs, Lock(p) \/ ConnectStep(p) \/ DisconnectStep(p)
  PROVE  Serving'
<1> USE ConnectionAssumption, ProxyAssumption, Table
        DEF TypeOK, StoreTypeOK, ProxyTypeOK, CoreTypeOK, LinkTypeOK, ProcTypeOK, SupTypeOK,
            JoinTypeOK, stateVars, coreVars, proxyVars, linkVars, joinVars, supVars, procVars,
            envVars, Discipline, GuardHeld, Owned, Awaited, Attached, Published, Unwatched,
            Working, Quiet, NoSupervisor, Dialing, Serving, Connecting, Recovers, Watched,
            Serves
<1>1. CASE Lock(p)
  BY <1>1 DEF Lock
<1>2. CASE SwitchInPlace(p)
  BY <1>2 DEF SwitchInPlace, TakeMonitor, Goto, Goes
<1>3. CASE RejectConnect(p)
  BY <1>3 DEF RejectConnect, Fail, Goes, Release
<1>4. CASE Dial(p)
  BY <1>4 DEF Dial, Goto, Goes
<1>5. CASE SwitchJoined(p)
  BY <1>5 DEF SwitchJoined, Joined, Goes
<1>6. CASE SwitchTeardown(p)
  BY <1>6 DEF SwitchTeardown, CoreStop, StoppedCore, Goto, Goes, Fail, Release
<1>7. CASE LookupFails(p)
  BY <1>7 DEF LookupFails, Abort, Fail, Goes, Release
<1>8. CASE LookupNode(p)
  BY <1>8 DEF LookupNode, Listed, Goes
<1>9. CASE SelectFails(p)
  BY <1>9 DEF SelectFails, Fail, Goes, Release
<1>10. CASE SelectNode(p)
  BY <1>10 DEF SelectNode, Abort, SetContext, Goes, Fail, Release
<1>11. CASE StartCore(p)
  BY <1>11 DEF StartCore, CoreStart, Goes
<1>12. CASE StartFails(p)
  BY <1>12 DEF StartFails, CoreStart, Goes
<1>13. CASE KeepProxy(p)
  BY <1>13 DEF KeepProxy, KeepRedirect, Goes
<1>14. CASE SetProxy(p)
  <2>1. PICK ok \in BOOLEAN : Redirect(ok) /\ Goes(p, IF ok THEN "remember" ELSE "undo")
    BY <1>14 DEF SetProxy
  <2>2. saved = None /\ saved' = None
    BY <2>1 DEF Redirect
  <2>3. ok => base' # None /\ Redirected(registry')
    BY <2>1, RedirectSucceeds
  <2> QED BY <1>14, <2>1, <2>2, <2>3 DEF SetProxy, Goes
<1>15. CASE RememberProxy(p)
  BY <1>15 DEF RememberProxy, RememberUser, Goes
<1>16. CASE Commit(p)
  BY <1>16 DEF Commit, SetContext, Goes, Fail, Release
<1>17. CASE SpawnMonitor(p)
  BY <1>17 DEF SpawnMonitor, Goes, Release
<1>18. CASE UndoProxy(p)
  BY <1>18 DEF UndoProxy, ClearProxy, Goes
<1>19. CASE UndoCore(p)
  BY <1>19 DEF UndoCore, CoreStop, StoppedCore, Goes
<1>20. CASE AbortStart(p)
  BY <1>20 DEF AbortStart, Abort, Fail, Goes, Release
<1>21. CASE ReadState(p) \/ ReadAgain(p) \/ IgnoreDisconnect(p) \/ RefuseDisconnect(p)
  BY <1>21 DEF ReadState, ReadAgain, IgnoreDisconnect, RefuseDisconnect,
     Disconnected, Release, Goes
<1>22. CASE BeginDisconnect(p)
  BY <1>22 DEF BeginDisconnect, TakeMonitor, Goto, Goes
<1>23. CASE DisconnectJoined(p)
  BY <1>23 DEF DisconnectJoined, Joined, Goes
<1>24. CASE FinishDisconnect(p)
  BY <1>24 DEF FinishDisconnect, Goto, Disconnected, Release
<1> QED BY <1>1, <1>2, <1>3, <1>4, <1>5, <1>6, <1>7, <1>8, <1>9, <1>10, <1>11, <1>12, <1>13,
   <1>14, <1>15, <1>16, <1>17, <1>18, <1>19, <1>20, <1>21, <1>22, <1>23, <1>24 DEF
   ConnectStep, DisconnectStep

\* One step of a supervisor.
LEMMA SupServes ==
  ASSUME TypeOK, Discipline, Serving, NEW s \in Sups, SupStep(s)
  PROVE  Serving'
<1> USE ConnectionAssumption, ProxyAssumption, Table
        DEF TypeOK, StoreTypeOK, ProxyTypeOK, CoreTypeOK, LinkTypeOK, ProcTypeOK, SupTypeOK,
            JoinTypeOK, stateVars, coreVars, proxyVars, linkVars, joinVars, supVars, procVars,
            envVars, Discipline, GuardHeld, Owned, Awaited, Attached, Published, Unwatched,
            Working, Quiet, NoSupervisor, Dialing, Serving, Connecting, Recovers, Watched,
            Serves
<1>1. CASE TickExit(s)
  BY <1>1 DEF TickExit, Exit, Becomes
<1>2. CASE Tick(s)
  BY <1>2 DEF Tick, Becomes
<1>3. CASE Probe(s)
  BY <1>3 DEF Probe, Becomes, AfterProbe
<1>4. CASE RecoverVoid(s)
  BY <1>4 DEF RecoverVoid, Becomes
<1>5. CASE RecoverBegin(s)
  BY <1>5 DEF RecoverBegin, Becomes
<1>6. CASE RecoverRestart(s)
  BY <1>6 DEF RecoverRestart, Becomes, Goto, CoreStop, StoppedCore
<1>7. CASE RecoverCore(s)
  BY <1>7 DEF RecoverCore, Becomes, CoreStart
<1>8. CASE RecoverHealth(s)
  <2>1. \A t \in Sups : t # s => spc[t] = "none"
    BY <1>8 DEF RecoverHealth
  <2>2. CASE MarkRecovered(snode[s]) /\ Becomes(s, "verdict")
    <3>1. monitor # s => st \notin {"CONNECTED", "CONNECTING", "RECONNECTING"}
      BY <1>8 DEF RecoverHealth
    <3>2. [target EXCEPT !.node = snode[s]].node = snode[s]
      BY DEF Targets
    <3>3. /\ spc[s] = "health" /\ spc' = [spc EXCEPT ![s] = "verdict"] /\ active' = snode[s]
          /\ UNCHANGED <<proxyVars, coreVars, session, joinVars, procVars, cancelled, snode,
                         scand, crashes>>
      BY <1>8, <2>2 DEF RecoverHealth, Becomes
    <3>4. snode[s] # None /\ Serves(snode[s]) /\ saved # None /\ session # None
      BY <3>3
    <3>5. \/ st' = "CONNECTED" /\ target'.node = snode[s] /\ monitor = s
          \/ st' = st /\ st # "CONNECTED"
      BY <2>2, <3>1, <3>2, <3>3 DEF MarkRecovered, SetContext
    <3>6. Recovers'
      BY <2>1, <3>3
    <3>7. Watched'
      BY <3>3, <3>5
    <3>8. Connecting'
      BY <3>3, <3>4, <3>5
    <3> QED BY <3>6, <3>7, <3>8
  <2>3. CASE UNCHANGED <<stateVars, active>> /\ Becomes(s, "giveUp")
    BY <1>8, <2>1, <2>3 DEF RecoverHealth, Becomes
  <2> QED BY <1>8, <2>2, <2>3 DEF RecoverHealth
<1>9. CASE RecoverReselect(s)
  BY <1>9 DEF RecoverReselect, Becomes, Goto
<1>10. CASE SmartChoice(s)
  BY <1>10 DEF SmartChoice, Becomes, CoreStop, StoppedCore
<1>11. CASE SmartCore(s)
  BY <1>11 DEF SmartCore, Becomes, CoreStart
<1>12. CASE SmartHealth(s)
  <2>1. \A t \in Sups : t # s => spc[t] = "none"
    BY <1>12 DEF SmartHealth
  <2>2. CASE MarkRecovered(scand[s]) /\ Becomes(s, "verdict") /\ active' = scand[s]
    <3>1. monitor # s => st \notin {"CONNECTED", "CONNECTING", "RECONNECTING"}
      BY <1>12 DEF SmartHealth
    <3>2. [target EXCEPT !.node = scand[s]].node = scand[s]
      BY DEF Targets
    <3>3. /\ spc[s] = "healthOther" /\ spc' = [spc EXCEPT ![s] = "verdict"] /\ active' = scand[s]
          /\ UNCHANGED <<proxyVars, coreVars, session, joinVars, procVars, cancelled, snode,
                         scand, crashes>>
      BY <1>12, <2>2 DEF SmartHealth, Becomes
    <3>4. scand[s] # None /\ Serves(scand[s]) /\ saved # None /\ session # None
      BY <3>3
    <3>5. \/ st' = "CONNECTED" /\ target'.node = scand[s] /\ monitor = s
          \/ st' = st /\ st # "CONNECTED"
      BY <2>2, <3>1, <3>2, <3>3 DEF MarkRecovered, SetContext
    <3>6. Recovers'
      BY <2>1, <3>3
    <3>7. Watched'
      BY <3>3, <3>5
    <3>8. Connecting'
      BY <3>3, <3>4, <3>5
    <3> QED BY <3>6, <3>7, <3>8
  <2>3. CASE UNCHANGED <<stateVars, active>> /\ Becomes(s, "giveUp")
    BY <1>12, <2>1, <2>3 DEF SmartHealth, Becomes
  <2> QED BY <1>12, <2>2, <2>3 DEF SmartHealth
<1>13. CASE GiveUpProxy(s)
  BY <1>13 DEF GiveUpProxy, Becomes, ClearProxy
<1>14. CASE GiveUpCore(s)
  BY <1>14 DEF GiveUpCore, Becomes, CoreStop, StoppedCore
<1>15. CASE GiveUpPersist(s)
  BY <1>15 DEF GiveUpPersist, Becomes
<1>16. CASE Verdict(s)
  BY <1>16 DEF Verdict, Becomes, Exit
<1> QED BY <1>1, <1>2, <1>3, <1>4, <1>5, <1>6, <1>7, <1>8, <1>9, <1>10, <1>11, <1>12, <1>13,
   <1>14, <1>15, <1>16 DEF SupStep

LEMMA StepServes ==
  ASSUME Races = {}, TypeOK, Discipline, BootQuiet, Serving, [Next]_vars
  PROVE  Serving'
<1> USE ConnectionAssumption DEF TypeOK, EnvTypeOK, ProcTypeOK, Serving, Connecting, Recovers,
        Watched, Serves, stateVars, coreVars, linkVars, proxyVars, joinVars, supVars, procVars,
        envVars
<1>2. CASE \E c \in Clients : Request(c)
  BY <1>2 DEF Request, Redirected, Procs
<1>3. CASE \E p \in Procs : Lock(p) \/ ConnectStep(p) \/ DisconnectStep(p)
  BY <1>3, RequestServes
<1>4. CASE BootStep
  <2>1. CASE BootReap
    <3>1. core'.child = core.child /\ core'.status = core.status
      BY <2>1 DEF BootReap, ReapStaleCores, CoreTypeOK
    <3> QED BY <2>1, <3>1 DEF BootReap, Goes, Redirected
  <2>2. CASE BootNothing
    BY <2>2 DEF BootNothing, Redirected
  <2>3. CASE BootResume
    <3>1. /\ crashes # 0 /\ guard = Boot /\ pc[Boot] = "read" /\ rt.node # None
          /\ pc' = [pc EXCEPT ![Boot] = "entry"]
      BY <2>3, ConnectionAssumption DEF BootResume, BootQuiet, Discipline, GuardHeld, Procs
    <3>2. \A p \in Procs : p # Boot => pc[p] \in {"idle", "lock"}
      BY <3>1 DEF Discipline, GuardHeld
    <3>3. saved # None => saved' # None
      BY <2>3 DEF BootResume, PrimeFromBackup
    <3>4. UNCHANGED <<stateVars, coreVars, linkVars, joinVars, supVars, registry, base, crashes>>
      BY <2>3 DEF BootResume, PrimeFromBackup, envVars
    <3> QED BY <3>1, <3>2, <3>3, <3>4
  <2>4. CASE BootGiveUp
    BY <2>4 DEF BootGiveUp, Redirected
  <2>5. CASE BootEnsure
    BY <2>5 DEF BootEnsure, EnsureApplied, Release, Redirected
  <2>6. CASE BootRestore
    <3>1. crashes # 0 /\ pc[Boot] = "restore" /\ pc' = [pc EXCEPT ![Boot] = "idle"]
      BY <2>6 DEF BootRestore, Release, BootQuiet
    <3>2. \A p \in Procs : p # Boot => pc[p] \in {"idle", "lock"}
      BY <3>1 DEF Discipline, GuardHeld, Procs
    <3>3. \A p \in Procs : p # Boot => req'[p] = req[p]
      BY <2>6 DEF BootRestore, Release, Procs
    <3>4. UNCHANGED <<stateVars, coreVars, linkVars, joinVars, supVars, saved, crashes>>
      BY <2>6 DEF BootRestore, RestoreAfterCrash, envVars
    <3> QED BY <3>1, <3>2, <3>3, <3>4
  <2> QED BY <1>4, <2>1, <2>2, <2>3, <2>4, <2>5, <2>6 DEF BootStep
<1>5. CASE \E s \in Sups : SupStep(s)
  BY <1>5, SupServes
<1>6. CASE EnvStep
  <2>1. CASE CoreExits
    <3>1. core'.child = core.child /\ core'.status = core.status
      BY <2>1 DEF CoreExits, CoreDies, CoreTypeOK
    <3> QED BY <2>1, <3>1 DEF CoreExits, Redirected
  <2>2. CASE CatalogChanges \/ SetMode
    BY <2>2 DEF CatalogChanges, SetMode, Redirected
  <2>3. CASE Crash
    BY <2>3 DEF Crash, ProxyCrash, CoreCrash
  <2> QED BY <1>6, <2>1, <2>2, <2>3 DEF EnvStep
<1>7. CASE UNCHANGED vars
  BY <1>7 DEF vars, Redirected
<1> QED BY <1>2, <1>3, <1>4, <1>5, <1>6, <1>7 DEF Next

LEMMA InitServes == Init => Serving
BY ConnectionAssumption
   DEF Init, StoreInit, ProxyInit, Serving, Connecting, Recovers, Watched, Procs

\* CONNECTED, once settled, means that the published node is served, applications are
\* sent to it, the user's settings can be put back, and a supervisor watches it, although
\* the supervisor works without the guard.
THEOREM ConnectedServed ==
  ASSUME Races = {} PROVE Spec => []ConnectedIsServed
<1> DEFINE I == TypeOK /\ Discipline /\ BootQuiet /\ Serving
<1>1. Init => I
  BY InitTypes, InitDiscipline, InitQuiet, InitServes DEF Init
<1>2. I /\ [Next]_vars => I'
  BY StepTypes, StepDiscipline, StepQuiet, StepServes
<1>3. ASSUME I PROVE ConnectedIsServed
  <2> SUFFICES ASSUME st = "CONNECTED", Settled
               PROVE  /\ active # None /\ active = target.node
                      /\ core.child = active /\ core.status = "RUNNING"
                      /\ crashes = 0 => Redirected(registry)
                      /\ saved # None /\ session # None
                      /\ monitor # None /\ spc[monitor] # "none" /\ ~cancelled[monitor]
    BY DEF ConnectedIsServed
  <2>1. Connecting /\ Watched
    BY <1>3 DEF Serving
  <2>2. \A p \in Procs : pc[p] # "spawn"
    BY <1>3, ConnectionAssumption DEF Discipline, GuardHeld, Settled
  <2> QED BY <2>1, <2>2, ConnectionAssumption DEF Connecting, Watched, Serves
<1> HIDE DEF I
<1> QED BY <1>1, <1>2, <1>3, PTL DEF Spec

-----------------------------------------------------------------------------
(* What boot recovery leaves behind, after any number of crashes.            *)

\* One step of a request.
LEMMA RequestBoots ==
  ASSUME TypeOK, Discipline, BootServes,
         NEW p \in Procs, Lock(p) \/ ConnectStep(p) \/ DisconnectStep(p)
  PROVE  BootServes'
<1> USE ConnectionAssumption, Table
        DEF TypeOK, StoreTypeOK, CoreTypeOK, LinkTypeOK, ProcTypeOK, SupTypeOK, JoinTypeOK,
            Requests, stateVars, coreVars, linkVars, procVars, Discipline, GuardHeld,
            Published, BootFirst, NoSupervisor, Recovering, Dialing, NoReq, Procs, BootServes
<1>1. CASE Lock(p)
  BY <1>1 DEF Lock
<1>2. CASE SwitchInPlace(p)
  BY <1>2 DEF SwitchInPlace, TakeMonitor, Goto, Goes
<1>3. CASE RejectConnect(p)
  BY <1>3 DEF RejectConnect, Fail, Goes, Release
<1>4. CASE Dial(p)
  BY <1>4 DEF Dial, Goto, Goes
<1>5. CASE SwitchJoined(p)
  BY <1>5 DEF SwitchJoined, Joined, Goes
<1>6. CASE SwitchTeardown(p)
  BY <1>6 DEF SwitchTeardown, CoreStop, StoppedCore, Goto, Goes, Fail, Release
<1>7. CASE LookupFails(p)
  BY <1>7 DEF LookupFails, Abort, Fail, Goes, Release
<1>8. CASE LookupNode(p)
  BY <1>8 DEF LookupNode, Listed, Goes
<1>9. CASE SelectFails(p)
  BY <1>9 DEF SelectFails, Fail, Goes, Release
<1>10. CASE SelectNode(p)
  BY <1>10 DEF SelectNode, Abort, SetContext, Goes, Fail, Release
<1>11. CASE StartCore(p)
  BY <1>11 DEF StartCore, CoreStart, Goes
<1>12. CASE StartFails(p)
  BY <1>12 DEF StartFails, CoreStart, Goes
<1>13. CASE KeepProxy(p)
  BY <1>13 DEF KeepProxy, KeepRedirect, Goes
<1>14. CASE SetProxy(p)
  BY <1>14 DEF SetProxy, Redirect, Goes
<1>15. CASE RememberProxy(p)
  BY <1>15 DEF RememberProxy, RememberUser, Goes
<1>16. CASE Commit(p)
  BY <1>16 DEF Commit, SetContext, Goes, Fail, Release
<1>17. CASE SpawnMonitor(p)
  BY <1>17 DEF SpawnMonitor, Goes, Release
<1>18. CASE UndoProxy(p)
  BY <1>18 DEF UndoProxy, ClearProxy, Goes
<1>19. CASE UndoCore(p)
  BY <1>19 DEF UndoCore, CoreStop, StoppedCore, Goes
<1>20. CASE AbortStart(p)
  BY <1>20 DEF AbortStart, Abort, Fail, Goes, Release
<1>21. CASE ReadState(p) \/ ReadAgain(p) \/ IgnoreDisconnect(p) \/ RefuseDisconnect(p)
  BY <1>21 DEF ReadState, ReadAgain, IgnoreDisconnect, RefuseDisconnect,
     Disconnected, Release, Goes
<1>22. CASE BeginDisconnect(p)
  BY <1>22 DEF BeginDisconnect, TakeMonitor, Goto, Goes
<1>23. CASE DisconnectJoined(p)
  BY <1>23 DEF DisconnectJoined, Joined, Goes
<1>24. CASE FinishDisconnect(p)
  BY <1>24 DEF FinishDisconnect, Goto, Disconnected, Release
<1> QED BY <1>1, <1>2, <1>3, <1>4, <1>5, <1>6, <1>7, <1>8, <1>9, <1>10, <1>11, <1>12, <1>13,
   <1>14, <1>15, <1>16, <1>17, <1>18, <1>19, <1>20, <1>21, <1>22, <1>23, <1>24 DEF
   ConnectStep, DisconnectStep

\* One step of a supervisor: it does not touch the session before the boot is through.
LEMMA SupBoots ==
  ASSUME TypeOK, Discipline, BootServes, NEW s \in Sups, SupStep(s)
  PROVE  BootServes'
<1> USE ConnectionAssumption, Table
        DEF TypeOK, StoreTypeOK, CoreTypeOK, LinkTypeOK, ProcTypeOK, SupTypeOK, JoinTypeOK,
            Requests, stateVars, coreVars, linkVars, procVars, Discipline, GuardHeld,
            Published, BootFirst, NoSupervisor, Recovering, Dialing, NoReq, Procs, BootServes
<1>1. CASE TickExit(s)
  BY <1>1 DEF TickExit, Exit, Becomes
<1>2. CASE Tick(s)
  BY <1>2 DEF Tick, Becomes
<1>3. CASE Probe(s)
  BY <1>3 DEF Probe, Becomes, AfterProbe
<1>4. CASE RecoverVoid(s)
  BY <1>4 DEF RecoverVoid, Becomes
<1>5. CASE RecoverBegin(s)
  BY <1>5 DEF RecoverBegin, Becomes
<1>6. CASE RecoverRestart(s)
  BY <1>6 DEF RecoverRestart, Becomes, Goto, CoreStop, StoppedCore
<1>7. CASE RecoverCore(s)
  BY <1>7 DEF RecoverCore, Becomes, CoreStart
<1>8. CASE RecoverHealth(s)
  BY <1>8 DEF RecoverHealth, Becomes, MarkRecovered, SetContext
<1>9. CASE RecoverReselect(s)
  BY <1>9 DEF RecoverReselect, Becomes, Goto
<1>10. CASE SmartChoice(s)
  BY <1>10 DEF SmartChoice, Becomes, CoreStop, StoppedCore
<1>11. CASE SmartCore(s)
  BY <1>11 DEF SmartCore, Becomes, CoreStart
<1>12. CASE SmartHealth(s)
  BY <1>12 DEF SmartHealth, Becomes, MarkRecovered, SetContext
<1>13. CASE GiveUpProxy(s)
  BY <1>13 DEF GiveUpProxy, Becomes, ClearProxy
<1>14. CASE GiveUpCore(s)
  BY <1>14 DEF GiveUpCore, Becomes, CoreStop, StoppedCore
<1>15. CASE GiveUpPersist(s)
  BY <1>15 DEF GiveUpPersist, Becomes
<1>16. CASE Verdict(s)
  BY <1>16 DEF Verdict, Becomes, Exit
<1> QED BY <1>1, <1>2, <1>3, <1>4, <1>5, <1>6, <1>7, <1>8, <1>9, <1>10, <1>11, <1>12, <1>13,
   <1>14, <1>15, <1>16 DEF SupStep

LEMMA StepBoots ==
  ASSUME TypeOK, Discipline, BootServes, [Next]_vars
  PROVE  BootServes'
<1> USE ConnectionAssumption DEF TypeOK, ProcTypeOK, BootServes, stateVars, coreVars, linkVars,
        procVars
<1>1. CASE \E c \in Clients : Request(c)
  BY <1>1 DEF Request, Procs
<1>2. CASE \E p \in Procs : Lock(p) \/ ConnectStep(p) \/ DisconnectStep(p)
  BY <1>2, RequestBoots
<1>3. CASE BootStep
  BY <1>3 DEF BootStep, BootReap, BootNothing, BootResume, BootGiveUp, BootEnsure, BootRestore,
     Goes, Release, NoReq, Procs
<1>4. CASE \E s \in Sups : SupStep(s)
  BY <1>4, SupBoots
<1>5. CASE EnvStep
  <2>1. CASE CoreExits
    <3>1. core'.child = core.child
      BY <2>1 DEF CoreExits, CoreDies, CoreTypeOK
    <3> QED BY <2>1, <3>1 DEF CoreExits
  <2>2. CASE CatalogChanges \/ SetMode
    BY <2>2 DEF CatalogChanges, SetMode
  <2>3. CASE Crash
    BY <2>3 DEF Crash, Procs
  <2> QED BY <1>5, <2>1, <2>2, <2>3 DEF EnvStep
<1>6. CASE UNCHANGED vars
  BY <1>6 DEF vars
<1> QED BY <1>1, <1>2, <1>3, <1>4, <1>5, <1>6 DEF Next

\* What the system-proxy manager keeps aside never names this service's inbound.
LEMMA ProxyAside ==
  ASSUME ProxyTypeOK, NoneOfOurs,
         \/ KeepRedirect \/ (\E ok \in BOOLEAN : Redirect(ok)) \/ RememberUser \/ ClearProxy
         \/ PrimeFromBackup \/ RestoreAfterCrash \/ EnsureApplied \/ ProxyCrash
         \/ UNCHANGED proxyVars
  PROVE  NoneOfOurs'
<1> USE DEF NoneOfOurs, Redirected, proxyVars
<1>1. ~Direct.on
  BY DEF Direct, Off
<1>2. CASE \E ok \in BOOLEAN : Redirect(ok)
  BY <1>1, <1>2 DEF Redirect
<1>3. CASE RememberUser
  BY <1>3 DEF RememberUser, BackupBecomes
<1>4. CASE ClearProxy
  BY <1>4 DEF ClearProxy, BackupBecomes
<1>5. CASE PrimeFromBackup \/ EnsureApplied \/ ProxyCrash \/ KeepRedirect
  BY <1>5 DEF PrimeFromBackup, EnsureApplied, ProxyCrash, KeepRedirect
<1>6. CASE RestoreAfterCrash
  BY <1>6 DEF RestoreAfterCrash, BackupBecomes
<1>7. CASE UNCHANGED proxyVars
  BY <1>7
<1> QED BY <1>2, <1>3, <1>4, <1>5, <1>6, <1>7

LEMMA StepAside ==
  ASSUME TypeOK, NoneOfOurs, [Next]_vars
  PROVE  NoneOfOurs'
<1> USE ProxyAside DEF TypeOK
<1>1. CASE \E c \in Clients : Request(c)
  BY <1>1 DEF Request
<1>2. ASSUME NEW p \in Procs, Lock(p) \/ ConnectStep(p) \/ DisconnectStep(p)
      PROVE  NoneOfOurs'
  <2>1. CASE SetProxy(p) \/ RememberProxy(p) \/ UndoProxy(p)
    BY <2>1 DEF SetProxy, RememberProxy, UndoProxy
  <2>2. CASE ~(SetProxy(p) \/ RememberProxy(p) \/ UndoProxy(p))
    <3>1. UNCHANGED proxyVars
      BY <1>2, <2>2 DEF Lock, ConnectStep, DisconnectStep, SwitchInPlace, RejectConnect, Dial,
         SwitchJoined, SwitchTeardown, LookupFails, LookupNode, SelectFails, SelectNode,
         StartCore, StartFails, KeepProxy, KeepRedirect, Commit, SpawnMonitor, UndoCore,
         AbortStart, ReadState, ReadAgain, IgnoreDisconnect, RefuseDisconnect,
         BeginDisconnect, DisconnectJoined, FinishDisconnect
    <3> QED BY <3>1
  <2> QED BY <2>1, <2>2
<1>3. CASE BootStep
  BY <1>3 DEF BootStep, BootReap, BootNothing, BootResume, BootGiveUp, BootEnsure, BootRestore
<1>4. ASSUME NEW s \in Sups, SupStep(s)
      PROVE  NoneOfOurs'
  <2>1. ClearProxy \/ UNCHANGED proxyVars
    BY <1>4 DEF SupStep, TickExit, Tick, Probe, RecoverVoid, RecoverBegin, RecoverRestart,
       RecoverCore, RecoverHealth, RecoverReselect, SmartChoice, SmartCore, SmartHealth,
       GiveUpProxy, GiveUpCore, GiveUpPersist, Verdict
  <2> QED BY <2>1
<1>5. CASE EnvStep
  BY <1>5 DEF EnvStep, CoreExits, CatalogChanges, SetMode, Crash
<1>6. CASE UNCHANGED vars
  BY <1>6 DEF vars
<1> QED BY <1>1, <1>2, <1>3, <1>4, <1>5, <1>6 DEF Next

\* Only its holder lets the guard go.
LEMMA ReleasesOwn ==
  ASSUME Discipline, NEW p \in Procs, ConnectStep(p) \/ DisconnectStep(p)
  PROVE  guard = p
<1>1. pc[p] \notin {"idle", "lock"}
  BY DEF ConnectStep, DisconnectStep, SwitchInPlace, RejectConnect, Dial, SwitchJoined,
     SwitchTeardown, LookupFails, LookupNode, SelectFails, SelectNode, StartCore, StartFails,
     KeepProxy, SetProxy, RememberProxy, Commit, SpawnMonitor, UndoProxy, UndoCore,
     AbortStart, ReadState, ReadAgain, IgnoreDisconnect, RefuseDisconnect,
     BeginDisconnect, DisconnectJoined, FinishDisconnect
<1> QED BY <1>1 DEF Discipline, GuardHeld

\* Boot recovery keeps the guard while it dials: what fails is cleaned up first.
LEMMA BootHolds ==
  ASSUME TypeOK, Discipline, BootServes, Boot \in Procs,
         ConnectStep(Boot) \/ DisconnectStep(Boot)
  PROVE  guard' = guard
<1>1. CASE ConnectStep(Boot)
  BY <1>1 DEF ConnectStep, SwitchInPlace, RejectConnect, Dial, SwitchJoined,
     SwitchTeardown, LookupFails, LookupNode, SelectFails, SelectNode, StartCore, StartFails,
     KeepProxy, SetProxy, RememberProxy, Commit, SpawnMonitor, UndoProxy, UndoCore,
     AbortStart, Abort, Fail, Goes
<1>2. CASE DisconnectStep(Boot)
  BY <1>2 DEF DisconnectStep, ReadState, ReadAgain, IgnoreDisconnect, RefuseDisconnect,
  BeginDisconnect, DisconnectJoined, FinishDisconnect, BootServes, Dialing, Goes
<1> QED BY <1>1, <1>2

LEMMA InitBoots == Init => BootServes /\ NoneOfOurs
BY ConnectionAssumption DEF Init, ProxyInit, BootServes, NoneOfOurs, Procs

\* What is put back by boot recovery does not redirect applications.
LEMMA RestoredElsewhere ==
  ASSUME Faults = {}, ProxyTypeOK, NoneOfOurs, RestoreAfterCrash
  PROVE  ~Redirected(registry')
<1>1. CASE backup # None
  <2>1. PICK o \in Restore(registry, backup) : registry' = o.reg
    BY <1>1 DEF RestoreAfterCrash
  <2>2. SameEffect(registry', backup)
    BY <1>1, <2>1, RestoreDone DEF ProxyTypeOK
  <2> QED BY <1>1, <2>2 DEF NoneOfOurs, SameEffect, Redirected
<1>2. CASE backup = None
  BY <1>2 DEF RestoreAfterCrash, Disable, Done, Off, Redirected
<1> QED BY <1>1, <1>2

\* Boot recovery of a session that was persisted with a node ends in a live session or
\* with applications no longer redirected, whenever the previous instance died.
THEOREM BootEndsWell ==
  ASSUME Races = {}, Faults = {} PROVE Spec => BootLeavesNoDeadProxy
<1> DEFINE I == TypeOK /\ Discipline /\ BootServes /\ NoneOfOurs
<1> DEFINE Ends == guard = Boot /\ guard' # Boot /\ crashes' = crashes /\ bootRt'.node # None
             => \/ ~Redirected(registry')
                \/ st' = "CONNECTED" /\ core'.child = active' /\ active' # None
<1>1. Init => I
  BY InitTypes, InitDiscipline, InitBoots
<1>2. I /\ [Next]_vars => I'
  BY StepTypes, StepDiscipline, StepBoots, StepAside
<1>3. I /\ [Next]_vars => [Ends]_vars
  <2> SUFFICES ASSUME I, Next, guard = Boot, guard' # Boot, crashes' = crashes,
                      bootRt'.node # None
               PROVE  \/ ~Redirected(registry')
                      \/ st' = "CONNECTED" /\ core'.child = active' /\ active' # None
    BY DEF vars
  <2>1. CASE \E c \in Clients : Request(c)
    BY <2>1 DEF Request
  <2>2. ASSUME NEW p \in Procs, Lock(p) \/ ConnectStep(p) \/ DisconnectStep(p) PROVE FALSE
    <3>1. p = Boot /\ ~Lock(p)
      BY <2>2, ReleasesOwn, ConnectionAssumption DEF Lock, Procs
    <3> QED BY <2>2, <3>1, BootHolds
  <2>3. CASE BootStep
    <3>1. CASE BootReap \/ BootResume \/ BootGiveUp
      BY <3>1 DEF BootReap, BootResume, BootGiveUp, Goes
    <3>2. CASE BootNothing
      BY <3>2 DEF BootNothing
    <3>3. CASE BootEnsure
      BY <3>3 DEF BootEnsure, BootServes, stateVars, coreVars, linkVars
    <3>4. CASE BootRestore
      BY <3>4, RestoredElsewhere DEF BootRestore, TypeOK
    <3> QED BY <2>3, <3>1, <3>2, <3>3, <3>4 DEF BootStep
  <2>4. CASE \E s \in Sups : SupStep(s)
    BY <2>4 DEF SupStep, TickExit, Tick, Probe, RecoverVoid, RecoverBegin, RecoverRestart,
       RecoverCore, RecoverHealth, RecoverReselect, SmartChoice, SmartCore, SmartHealth,
       GiveUpProxy, GiveUpCore, GiveUpPersist, Verdict, procVars
  <2>5. CASE EnvStep
    BY <2>5 DEF EnvStep, CoreExits, CatalogChanges, SetMode, Crash, procVars, TypeOK, EnvTypeOK
  <2> QED BY <2>1, <2>2, <2>3, <2>4, <2>5 DEF Next
<1> HIDE DEF I, Ends
<1>4. Spec => [][Ends]_vars
  BY <1>1, <1>2, <1>3, PTL DEF Spec
<1> QED BY <1>4 DEF Ends, BootLeavesNoDeadProxy
=============================================================================
