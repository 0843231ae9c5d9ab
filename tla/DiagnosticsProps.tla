-------------------------- MODULE DiagnosticsProps --------------------------
(***************************************************************************)
(* Correctness properties of the DNS manager and of the diagnostics.       *)
(***************************************************************************)
EXTENDS Diagnostics

\* A setter past its first step has a configuration in hand.
Setter == {[pc |-> "idle", cfg |-> None]} \cup [pc : {"cache", "publish"}, cfg : DnsConfigs]

\* Every variable of the DNS manager and of the diagnostics has its type.
NetTypeOK ==
  /\ dnsCfg \in DnsConfigs /\ dnsFile \in DnsConfigs
  /\ dnsCache \in [on : BOOLEAN, size : Nat \ {0}, at : [Names -> Entry \cup {None}]]
  /\ setter \in [Setters -> Setter]
  /\ lookup \in [Lookups -> [pc : {"idle", "select", "ask", "done"},
                             name : Names \cup {None}, todo : Seq(Server)]]
  /\ diagSlot \in Runs \cup {None}
  /\ diag \in [Runs -> [step : 0 .. Steps + 1, cancelled : BOOLEAN]]
  /\ swept \in BOOLEAN

\* The cache never holds more names than its size, and none at all when it is
\* switched off, whatever lookups end after the switch (cache.rs put, manager.rs
\* set_config).
CacheInBounds ==
  /\ Cardinality(Cached(dnsCache)) <= dnsCache.size
  /\ ~dnsCache.on => Cached(dnsCache) = {}

\* A run whose token has not been cancelled
Wanted(r) == diag[r].step # 0 /\ ~diag[r].cancelled

\* The token in the slot is the one of a run that is under way and not cancelled: a
\* run that is over never blocks the next one, and a cancel request never hits a dead
\* run.  It is also the only such run, until the end of a cancelled run has emptied
\* the slot of its successor, which the code allows (context.rs diagnostics.run and
\* diagnostics.cancel).
OneRunUnlessSwept ==
  /\ diagSlot # None => Wanted(diagSlot)
  /\ ~swept => \A r \in Runs : Wanted(r) => diagSlot = r

-----------------------------------------------------------------------------
(* A lookup ends because every query has a timeout, and a run because each  *)
(* of its steps does; time passes.  Requests need not come.                 *)
NetFairness ==
  /\ \A r \in Runs :
       WF_netVars(FinishStep(r) \/ StartDnsStep(r) \/ Query(r) \/ FinishDnsStep(r) \/ EndRun(r))
  /\ \A t \in Askers : WF_netVars(Query(t) \/ Answered(t))
  /\ \A k \in Setters : WF_netVars(Publish(k))
  /\ WF_netVars(Time)

OnlyCurrentServers ==
  \A n \in Names : Live(dnsCache, n) => dnsCache.at[n].from \in ToSet(dnsCfg.servers)

\* An answer of a server that is no longer configured can come into the new cache,
\* from a lookup that was in flight (manager.rs:148), but it does not stay: once the
\* configuration no longer changes, lookups end up served by its servers only.
OldServersFade == <>[][FALSE]_dnsCfg => <>[]OnlyCurrentServers

\* diagnostics.run is not refused for ever: the slot empties again and again.
SlotEmpties == []<>(diagSlot = None)
=============================================================================
