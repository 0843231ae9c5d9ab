----------------------------- MODULE SystemProxy -----------------------------
(***************************************************************************)
(* The system-proxy manager (route/manager.rs): the WinINET registry       *)
(* values, the in-memory snapshot of the user's settings and its copy on   *)
(* disk.  The actions are the manager's operations; the module that uses   *)
(* them says who calls what, when.                                         *)
(*                                                                         *)
(* ProxyServer and ProxyOverride are abstracted to one value, spec.        *)
(* A SavedProxy {proxy, bypass, direct} has the shape of a registry value: *)
(* `direct' is the negation of `on'.                                       *)
(***************************************************************************)
EXTENDS Shared

CONSTANTS
  UserSettings, \* registry values the user may have set before the first connect
  Ours,         \* the spec naming this service's own inbound
  NoSpec        \* empty ProxyServer and ProxyOverride strings

VARIABLES
  registry,     \* [on: ProxyEnable, spec: ProxyServer/ProxyOverride]
  saved,        \* RouteManager.saved
  backup,       \* proxy_backup.json
  base,         \* local `previous' of the set_system_proxy call in progress
  user          \* history: the settings the user had before the service ran

proxyVars == <<registry, saved, backup, base, user>>

Specs == {s.spec : s \in UserSettings} \cup {Ours, NoSpec}
Settings == [on : BOOLEAN, spec : Specs]

ASSUME ProxyAssumption ==
  /\ UserSettings \subseteq [on : BOOLEAN, spec : {s.spec : s \in UserSettings}]
  /\ \A s \in UserSettings : s.spec # Ours /\ (s.on => s.spec # NoSpec)
  /\ None \notin Settings
  /\ Ours # NoSpec

On(spec) == [on |-> TRUE, spec |-> spec]
Off(spec) == [on |-> FALSE, spec |-> spec]
Direct == Off(NoSpec)

\* The registry sends every application to this service's inbound.
Redirected(reg) == reg.on /\ reg.spec = Ours

ProxyTypeOK ==
  /\ registry \in Settings
  /\ saved \in Settings \cup {None}
  /\ backup \in Settings \cup {None}
  /\ base \in Settings \cup {None}
  /\ user \in UserSettings

ProxyInit ==
  /\ user \in UserSettings
  /\ registry = user
  /\ saved = None
  /\ backup = None
  /\ base = None

-----------------------------------------------------------------------------
(* Registry writes.  Each operator is the set of [reg, ok] a call can end   *)
(* with; ProxyEnable is written first, then ProxyServer, then ProxyOverride: *)
(* a failure leaves the values written before it.                           *)

Done(reg) == [reg |-> reg, ok |-> TRUE]
Failed(reg) == [reg |-> reg, ok |-> FALSE]

Enable(reg, spec) ==
  {Done(On(spec))} \cup
  (IF "registry" \in Faults
   THEN {Failed(reg), Failed(On(reg.spec)), Failed(On(spec))} ELSE {})

Disable(reg) ==
  {Done(Off(reg.spec))} \cup (IF "registry" \in Faults THEN {Failed(reg)} ELSE {})

\* Writes a snapshot back.  A disabled proxy with non-empty strings is enabled
\* for a moment so that the strings are written, then switched off.
Restore(reg, s) ==
  IF s.on THEN Enable(reg, s.spec)
  ELSE IF s.spec = NoSpec THEN Disable(reg)
  ELSE LET strings == Enable(reg, s.spec)
       IN  {o \in strings : ~o.ok} \cup
           UNION {Disable(o.reg) : o \in {x \in strings : x.ok}}

\* drop_backup and store_backup ignore the error of the file operation.
\* Mutant of BackupBecomes: the file outlives the session.
BackupStays(v) == backup' = IF v = None THEN backup ELSE v
BackupBecomes(v) == backup' = v \/ ("disk" \in Faults /\ backup' = backup)

-----------------------------------------------------------------------------
(* set_system_proxy, in two steps: the registry write, then the bookkeeping. *)

\* A snapshot is already held: the call returns Ok without touching anything.
KeepRedirect == saved # None /\ UNCHANGED proxyVars

\* Mutant of Redirect: the snapshot is taken again on every connect.
RedirectAgain(ok) ==
  /\ base' = IF Redirected(registry) THEN Direct ELSE registry
  /\ \E o \in Enable(registry, Ours) : o.ok = ok /\ registry' = o.reg
  /\ UNCHANGED <<saved, backup, user>>

Redirect(ok) ==
  /\ saved = None
  /\ base' = IF Redirected(registry) THEN Direct ELSE registry
  /\ \E o \in Enable(registry, Ours) : o.ok = ok /\ registry' = o.reg
  /\ UNCHANGED <<saved, backup, user>>

RememberUser ==
  /\ saved' = base
  /\ BackupBecomes(base)
  /\ base' = None
  /\ UNCHANGED <<registry, user>>

\* Mutant of ClearProxy: the snapshot is kept after it was restored.
ClearProxyKeepsSaved ==
  \/ saved = None /\ UNCHANGED proxyVars
  \/ /\ saved # None
     /\ \E o \in Restore(registry, saved) :
          /\ registry' = o.reg
          /\ IF o.ok THEN BackupBecomes(None) ELSE UNCHANGED backup
     /\ UNCHANGED <<saved, base, user>>

\* clear_system_proxy: the snapshot is forgotten whether or not it was restored.
ClearProxy ==
  \/ saved = None /\ UNCHANGED proxyVars
  \/ /\ saved # None
     /\ saved' = None
     /\ \E o \in Restore(registry, saved) :
          /\ registry' = o.reg
          /\ IF o.ok THEN BackupBecomes(None) ELSE UNCHANGED backup
     /\ UNCHANGED <<base, user>>

-----------------------------------------------------------------------------
(* Boot. *)

PrimeFromBackup ==
  /\ saved' = IF backup # None THEN backup ELSE saved
  /\ UNCHANGED <<registry, backup, base, user>>

\* Mutant of RestoreAfterCrash: without a backup the registry is not looked at.
RestoreBackupOnly ==
  /\ \/ /\ backup # None
        /\ \E o \in Restore(registry, backup) : registry' = o.reg
        /\ BackupBecomes(None)
     \/ backup = None /\ UNCHANGED <<registry, backup>>
  /\ UNCHANGED <<saved, base, user>>

\* The backup is dropped even when the registry could not be written.
RestoreAfterCrash ==
  /\ \/ /\ backup # None
        /\ \E o \in Restore(registry, backup) : registry' = o.reg
        /\ BackupBecomes(None)
     \/ /\ backup = None
        /\ Redirected(registry)
        /\ \E o \in Disable(registry) : registry' = o.reg
        /\ UNCHANGED backup
     \/ backup = None /\ ~Redirected(registry) /\ UNCHANGED <<registry, backup>>
  /\ UNCHANGED <<saved, base, user>>

EnsureApplied ==
  /\ IF Redirected(registry) THEN UNCHANGED registry
     ELSE \E o \in Enable(registry, Ours) : registry' = o.reg
  /\ UNCHANGED <<saved, backup, base, user>>

\* The process dies: only the registry and the backup file survive.
ProxyCrash ==
  /\ saved' = None
  /\ base' = None
  /\ UNCHANGED <<registry, backup, user>>
=============================================================================
