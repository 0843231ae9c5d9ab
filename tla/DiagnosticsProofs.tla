------------------------- MODULE DiagnosticsProofs -------------------------
(***************************************************************************)
(* Theorems about the DNS cache and the slot of the diagnostics, for any   *)
(* names, configurations, lookups and runs.                                *)
(***************************************************************************)
EXTENDS DiagnosticsProps, FoldFacts, FiniteSetTheorems

-----------------------------------------------------------------------------
(* The slot.                                                                *)

SlotTypeOK ==
  /\ diagSlot \in Runs \cup {None}
  /\ diag \in [Runs -> [step : 0 .. Steps + 1, cancelled : BOOLEAN]]
  /\ swept \in BOOLEAN

LEMMA SlotStep ==
  ASSUME SlotTypeOK, OneRunUnlessSwept, [DiagNext]_netVars
  PROVE  SlotTypeOK' /\ OneRunUnlessSwept'
<1> USE DiagAssumption DEF SlotTypeOK, OneRunUnlessSwept, Wanted
<1>1. ASSUME NEW r \in Runs, StartRun(r) PROVE SlotTypeOK' /\ OneRunUnlessSwept'
  BY <1>1 DEF StartRun
<1>2. ASSUME NEW r \in Runs, Running(r), StepsOn(r), UNCHANGED <<diagSlot, swept>>
      PROVE  SlotTypeOK' /\ OneRunUnlessSwept'
  <2> DEFINE to == IF diag[r].cancelled /\ diag[r].step < Steps THEN Steps + 1
                   ELSE diag[r].step + 1
  <2>1. to \in 1 .. Steps + 1
    BY <1>2 DEF Running
  <2>2. diag' = [diag EXCEPT ![r].step = to]
    BY <1>2 DEF StepsOn
  <2> HIDE DEF to
  <2>3. \A q \in Runs : /\ diag'[q].cancelled = diag[q].cancelled
                        /\ diag'[q].step = IF q = r THEN to ELSE diag[q].step
    BY <2>1, <2>2
  <2>4. \A q \in Runs : Wanted(q)' <=> Wanted(q)
    BY <1>2, <2>1, <2>3 DEF Running
  <2>5. SlotTypeOK'
    BY <1>2, <2>1, <2>2
  <2>6. OneRunUnlessSwept'
    BY <1>2, <2>4, Zenon DEF OneRunUnlessSwept, SlotTypeOK
  <2> QED  BY <2>5, <2>6
<1>3. ASSUME NEW r \in Runs, FinishStep(r) PROVE SlotTypeOK' /\ OneRunUnlessSwept'
  BY <1>2, <1>3 DEF FinishStep
<1>4. ASSUME NEW r \in Runs, FinishDnsStep(r) PROVE SlotTypeOK' /\ OneRunUnlessSwept'
  BY <1>2, <1>4 DEF FinishDnsStep, Running
<1>5. ASSUME NEW r \in Runs, EndRun(r) PROVE SlotTypeOK' /\ OneRunUnlessSwept'
  BY <1>5 DEF EndRun, NoRun
<1>6. CASE CancelRun
  BY <1>6 DEF CancelRun
<1>7. CASE UNCHANGED diagVars
  BY <1>7 DEF diagVars
<1> QED
  BY <1>1, <1>3, <1>4, <1>5, <1>6, <1>7
  DEF DiagNext, StartDnsStep, Ask, Answered, Query, Save, Publish, Flush, Time, netVars

LEMMA SlotHolds == NetSpec => [](SlotTypeOK /\ OneRunUnlessSwept)
<1>1. DiagInit => SlotTypeOK /\ OneRunUnlessSwept
  <2> SUFFICES ASSUME DiagInit PROVE SlotTypeOK /\ OneRunUnlessSwept
    OBVIOUS
  <2>1. \A r \in Runs : ~ Wanted(r)
    BY DEF DiagInit, Wanted, NoRun
  <2>2. OneRunUnlessSwept
    BY <2>1 DEF DiagInit, OneRunUnlessSwept
  <2>3. NoRun \in [step : 0 .. Steps + 1, cancelled : BOOLEAN]
    BY DiagAssumption DEF NoRun
  <2>4. SlotTypeOK
    BY <2>3 DEF DiagInit, SlotTypeOK
  <2> QED  BY <2>2, <2>4
<1> QED  BY <1>1, SlotStep, PTL DEF NetSpec

\* The slot of the diagnostics never holds the token of a run that is over or
\* cancelled, in spite of runs that empty each other's slot, and until they do there
\* is one run at a time (context.rs diagnostics.run).
THEOREM SlotIsLive == NetSpec => []OneRunUnlessSwept
BY SlotHolds, PTL

-----------------------------------------------------------------------------
(* The cache.                                                               *)

Shaped(c) == c \in [on : BOOLEAN, size : Nat \ {0}, at : [Names -> Entry \cup {None}]]

Bounded(c) ==
  /\ Shaped(c)
  /\ Cardinality(Cached(c)) <= c.size
  /\ ~c.on => Cached(c) = {}

LEMMA CachedIsFinite ==
  ASSUME NEW c
  PROVE  IsFiniteSet(Cached(c)) /\ Cardinality(Cached(c)) \in Nat
BY DnsAssumption, FS_Subset, FS_CardinalityType DEF Cached

\* A cache with fewer entries and the same parameters.
LEMMA Shrinks ==
  ASSUME NEW c, NEW d, Bounded(c), Shaped(d), d.size = c.size, d.on = c.on,
         Cached(d) \subseteq Cached(c)
  PROVE  Bounded(d)
<1>1. Cardinality(Cached(d)) <= Cardinality(Cached(c))
  BY CachedIsFinite, FS_Subset
<1> QED  BY <1>1, CachedIsFinite DEF Bounded, Shaped

LEMMA Clears ==
  ASSUME NEW c, NEW n \in Names, Shaped(c)
  PROVE  LET d == [c EXCEPT !.at[n] = None]
         IN  Shaped(d) /\ d.size = c.size /\ d.on = c.on /\ Cached(d) = Cached(c) \ {n}
BY DEF Shaped, Cached

LEMMA Purges ==
  ASSUME NEW c, Shaped(c)
  PROVE  LET d == Purged(c)
         IN  Shaped(d) /\ d.size = c.size /\ d.on = c.on /\ Cached(d) \subseteq Cached(c)
BY DEF Shaped, Purged, Cached

\* After Room there is room for one entry.
LEMMA RoomIsMade ==
  ASSUME NEW c, Bounded(c), NEW d \in Room(c)
  PROVE  Shaped(d) /\ d.size = c.size /\ d.on = c.on /\ Cardinality(Cached(d)) < c.size
<1>0. Shaped(c) /\ c.size \in Nat
  BY DEF Bounded, Shaped
<1>1. CASE Cardinality(Cached(c)) < c.size
  BY <1>0, <1>1 DEF Room
<1>2. CASE Cardinality(Cached(c)) >= c.size
  <2> DEFINE p == Purged(c)
  <2>1. Shaped(p) /\ p.size = c.size /\ p.on = c.on /\ Bounded(p)
    BY <1>0, Purges, Shrinks
  <2>2. CASE Cardinality(Cached(p)) < c.size
    BY <1>0, <1>2, <2>1, <2>2, CachedIsFinite DEF Room
  <2>3. CASE ~(Cardinality(Cached(p)) < c.size)
    <3>1. d \in Evictions(p)
      BY <1>0, <1>2, <2>3, CachedIsFinite DEF Room
    <3>2. PICK n \in Cached(p) : d = [p EXCEPT !.at[n] = None]
      BY <3>1 DEF Evictions, Oldest
    <3>3. Shaped(d) /\ d.size = p.size /\ d.on = p.on /\ Cached(d) = Cached(p) \ {n}
      BY <2>1, <3>2, Clears DEF Cached
    <3>4. Cardinality(Cached(d)) = Cardinality(Cached(p)) - 1
      BY <3>3, CachedIsFinite, FS_RemoveElement
    <3> QED  BY <1>0, <2>1, <3>3, <3>4, CachedIsFinite DEF Bounded
  <2> QED  BY <2>2, <2>3
<1> QED  BY <1>0, <1>1, <1>2, CachedIsFinite

LEMMA PutIsBounded ==
  ASSUME NEW c, Bounded(c), NEW n \in Names, NEW s \in Server, NEW d \in Puts(c, n, s)
  PROVE  Bounded(d)
<1>1. CASE ~c.on
  BY <1>1 DEF Puts
<1>2. CASE c.on
  <2>1. PICK e \in Room(c) : d = [e EXCEPT !.at[n] = [from |-> s, left |-> Ttl]]
    BY <1>2 DEF Puts
  <2>2. Shaped(e) /\ e.size = c.size /\ e.on = c.on /\ Cardinality(Cached(e)) < c.size
    BY RoomIsMade
  <2>3. Shaped(d) /\ d.size = c.size /\ d.on = c.on /\ Cached(d) \subseteq Cached(e) \cup {n}
    <3> DEFINE x == [from |-> s, left |-> Ttl]
    <3>1. x \in Entry
      BY DnsAssumption DEF Entry
    <3> HIDE DEF x
    <3>2. Shaped(d) /\ d.size = e.size /\ d.on = e.on
      BY <2>1, <2>2, <3>1 DEF Shaped, x
    <3>3. \A k \in Names \ {n} : d.at[k] = e.at[k]
      BY <2>1, <2>2 DEF Shaped
    <3> QED  BY <2>2, <3>2, <3>3 DEF Cached
  <2>4. /\ IsFiniteSet(Cached(e) \cup {n})
        /\ Cardinality(Cached(e) \cup {n}) <= Cardinality(Cached(e)) + 1
    <3> DEFINE A == Cached(e)
    <3>1. IsFiniteSet(A) /\ Cardinality(A) \in Nat
      BY CachedIsFinite
    <3> HIDE DEF A
    <3>2. IsFiniteSet(A \cup {n}) /\ Cardinality(A \cup {n}) <= Cardinality(A) + 1
      <4>1. CASE n \in A
        <5>1. A \cup {n} = A
          BY <4>1
        <5>2. IsFiniteSet(A \cup {n}) /\ Cardinality(A \cup {n}) = Cardinality(A)
          BY <3>1, <5>1, Zenon
        <5> QED  BY <3>1, <5>2
      <4>2. CASE n \notin A
        <5>1. IsFiniteSet(A \cup {n}) /\ Cardinality(A \cup {n}) = Cardinality(A) + 1
          BY <3>1, <4>2, FS_AddElement
        <5> QED  BY <3>1, <5>1
      <4> QED  BY <4>1, <4>2
    <3> QED  BY <3>2 DEF A
  <2>5. Cardinality(Cached(d)) <= Cardinality(Cached(e) \cup {n})
    BY <2>3, <2>4, FS_Subset
  <2>6. Cardinality(Cached(e) \cup {n}) \in Nat
    BY <2>4, FS_CardinalityType
  <2>7. Cardinality(Cached(d)) <= d.size
    BY <2>2, <2>3, <2>4, <2>5, <2>6, CachedIsFinite DEF Shaped
  <2> QED  BY <1>2, <2>3, <2>7 DEF Bounded
<1> QED  BY <1>1, <1>2

LEMMA NewIsBounded ==
  ASSUME NEW cfg \in DnsConfigs
  PROVE  Bounded(NewCache(cfg))
<1>1. cfg.size \in Nat
  BY DnsAssumption
<1>2. Cached(NewCache(cfg)) = {}
  BY DEF Cached, NewCache
<1>3. Shaped(NewCache(cfg))
  BY <1>1, DnsAssumption DEF Shaped, NewCache
<1> QED  BY <1>2, <1>3, FS_EmptySet DEF Bounded, Shaped

-----------------------------------------------------------------------------

\* The servers of a configuration, all or by their tags.
LEMMA ServersAreTyped ==
  ASSUME NEW cfg \in DnsConfigs, NEW policy
  PROVE  SelectServers(cfg, policy) \in Seq(Server)
<1>1. cfg.servers \in Seq(Server)
  BY DnsAssumption
<1>2. ASSUME NEW tags PROVE Usable(cfg.servers, tags) \in Seq(Server)
  <2> DEFINE S == {s \in ToSet(cfg.servers) : s.ok /\ s.tag \in tags}
  <2> HIDE DEF S
  <2>1. Kept(cfg.servers, S) \in Seq(Server \cap S)
    BY <1>1, KeptIs
  <2>2. Kept(cfg.servers, S) \in Seq(Server)
    BY <2>1
  <2> QED  BY <2>2 DEF Usable, S
<1>3. ASSUME NEW a \in Seq(Server), NEW b \in Seq(Server) PROVE a \o b \in Seq(Server)
  OBVIOUS
<1> DEFINE picked == Usable(cfg.servers, {policy} \ {"any"}) \o Usable(cfg.servers, {""})
<1>4. picked \in Seq(Server)
  BY <1>2, <1>3
<1> HIDE DEF picked
<1> QED  BY <1>2, <1>4, Zenon DEF SelectServers, picked

\* A lookup that asks knows its name and has a server to ask.
Looking(r) ==
  /\ r \in [pc : {"idle", "select", "ask", "done"}, name : Names \cup {None}, todo : Seq(Server)]
  /\ r.pc \in {"select", "ask"} => r.name \in Names
  /\ r.pc = "ask" => r.todo # <<>>

LookupInv ==
  /\ lookup = [t \in Lookups |-> lookup[t]]
  /\ \A t \in Lookups : Looking(lookup[t])

\* With the cache, what its changes depend on: the configuration set_config has in
\* hand, and the names of the lookups.
CacheInv ==
  /\ Bounded(dnsCache)
  /\ dnsCfg \in DnsConfigs /\ dnsFile \in DnsConfigs
  /\ setter \in [Setters -> Setter]
  /\ LookupInv

\* A step of one lookup.
LEMMA LookupMoves ==
  ASSUME LookupInv, NEW t \in Lookups, NEW r, Looking(r), Looks(t, r)
  PROVE  LookupInv'
BY DEF Looks, LookupInv

\* What PickServers and AskServer make of the record of a lookup.
LEMMA LooksOn ==
  ASSUME NEW r, Looking(r), r.name \in Names, NEW label \in {"ask", "done"},
         NEW s \in Seq(Server), label = "ask" => s # <<>>
  PROVE  Looking([r EXCEPT !.pc = label, !.todo = s])
<1> DEFINE r1 == [r EXCEPT !.pc = label]
           r2 == [r1 EXCEPT !.todo = s]
<1>1. /\ r1 \in [pc : {"idle", "select", "ask", "done"}, name : Names \cup {None},
                 todo : Seq(Server)]
      /\ r1.pc = label /\ r1.name = r.name
  BY DEF Looking
<1> HIDE DEF r1
<1>2. /\ r2 \in [pc : {"idle", "select", "ask", "done"}, name : Names \cup {None},
                 todo : Seq(Server)]
      /\ r2.pc = label /\ r2.name = r.name /\ r2.todo = s
  BY <1>1
<1>3. Looking(r2)
  <2> HIDE DEF r2
  <2> QED  BY <1>2 DEF Looking
<1> QED  BY <1>3 DEF r1

LEMMA CacheStep ==
  ASSUME CacheInv, [DiagNext]_netVars
  PROVE  CacheInv'
<1> USE DEF CacheInv
<1>1. ASSUME NEW t \in Lookups, NEW n \in Names, AskCache(t, n) PROVE CacheInv'
  <2>1. Bounded(dnsCache')
    <3>1. CASE AfterGet(dnsCache, n) = dnsCache
      BY <1>1, <3>1 DEF AskCache
    <3>2. CASE dnsCache' = [dnsCache EXCEPT !.at[n] = None]
      <4> DEFINE d == [dnsCache EXCEPT !.at[n] = None]
      <4>1. Shaped(dnsCache)
        BY DEF Bounded
      <4>2. Shaped(d) /\ d.size = dnsCache.size /\ d.on = dnsCache.on
            /\ Cached(d) = Cached(dnsCache) \ {n}
        BY <4>1, Clears
      <4> HIDE DEF d
      <4>3. Bounded(d)
        BY <4>2, Shrinks
      <4> QED  BY <3>2, <4>3 DEF d
    <3>3. dnsCache' = AfterGet(dnsCache, n)
      BY <1>1 DEF AskCache
    <3>4. \/ AfterGet(dnsCache, n) = dnsCache
          \/ AfterGet(dnsCache, n) = [dnsCache EXCEPT !.at[n] = None]
      BY Zenon DEF AfterGet
    <3> QED  BY <3>1, <3>2, <3>3, <3>4
  <2> DEFINE label == IF Hit(dnsCache, n) THEN "done" ELSE "select"
             r == [pc |-> label, name |-> n, todo |-> <<>>]
  <2>2. Looking(r)
    BY DEF Looking
  <2>3. Looks(t, r)
    BY <1>1 DEF AskCache
  <2> HIDE DEF r
  <2>4. LookupInv'
    BY <2>2, <2>3, LookupMoves
  <2> QED  BY <1>1, <2>1, <2>4 DEF AskCache
<1>2. ASSUME NEW t \in Lookups, PickServers(t) PROVE CacheInv'
  <2> DEFINE s == SelectServers(dnsCfg, "any")
             to == IF s = <<>> THEN "done" ELSE "ask"
             r == [lookup[t] EXCEPT !.pc = to, !.todo = s]
  <2>1. s \in Seq(Server)
    BY ServersAreTyped
  <2>2. Looks(t, r)
    BY <1>2 DEF PickServers
  <2>3. Looking(lookup[t]) /\ lookup[t].name \in Names
    BY <1>2 DEF PickServers, LookupInv, Looking
  <2> HIDE DEF s
  <2>4. Looking(r)
    BY <2>1, <2>3, LooksOn
  <2> HIDE DEF r
  <2>5. LookupInv'
    BY <2>2, <2>4, LookupMoves
  <2> QED  BY <1>2, <2>5 DEF PickServers
<1>3. ASSUME NEW t \in Lookups, AskServer(t) PROVE CacheInv'
  <2> DEFINE server == Head(lookup[t].todo)
             rest == Tail(lookup[t].todo)
  <2>1. Looking(lookup[t]) /\ lookup[t].name \in Names
    BY <1>3 DEF AskServer, LookupInv, Looking
  <2>2. server \in Server /\ rest \in Seq(Server)
    <3>1. lookup[t].todo \in Seq(Server) /\ lookup[t].todo # <<>>
      BY <1>3, <2>1 DEF AskServer, Looking
    <3> QED  BY <3>1
  <2>3. Bounded(dnsCache')
    BY <1>3, <2>1, <2>2, PutIsBounded DEF AskServer
  <2>4. ASSUME NEW label \in {"ask", "done"}, NEW s \in Seq(Server), label = "ask" => s # <<>>,
               Looks(t, [lookup[t] EXCEPT !.pc = label, !.todo = s])
        PROVE  LookupInv'
    <3> DEFINE r == [lookup[t] EXCEPT !.pc = label, !.todo = s]
    <3>1. Looking(r) /\ Looks(t, r)
      BY <2>1, <2>4, LooksOn
    <3> HIDE DEF r
    <3> QED  BY <3>1, LookupMoves
  <2>5. LookupInv'
    <3>1. CASE Looks(t, [lookup[t] EXCEPT !.pc = "done", !.todo = <<>>])
      <4> DEFINE none == <<>>
      <4>1. none \in Seq(Server) /\ "done" # "ask"
        OBVIOUS
      <4> HIDE DEF none
      <4> QED  BY <2>4, <3>1, <4>1 DEF none
    <3>2. CASE Looks(t, [lookup[t] EXCEPT !.pc = IF rest = <<>> THEN "done" ELSE "ask",
                                          !.todo = rest])
      <4> DEFINE label == IF rest = <<>> THEN "done" ELSE "ask"
      <4>1. label \in {"ask", "done"} /\ (label = "ask" => rest # <<>>)
        OBVIOUS
      <4> HIDE DEF rest
      <4> QED  BY <2>2, <2>4, <3>2, <4>1
    <3> QED  BY <1>3, <3>1, <3>2 DEF AskServer
  <2> QED  BY <1>3, <2>3, <2>5 DEF AskServer
<1>4. ASSUME NEW t \in Lookups, Resolved(t) PROVE CacheInv'
  <2>1. Looking(NoLookup)
    BY DEF NoLookup, Looking
  <2>2. LookupInv'
    BY <1>4, <2>1, LookupMoves DEF Resolved
  <2> QED  BY <1>4, <2>2 DEF Resolved
<1>5. ASSUME NEW k \in Setters, NEW l \in {"cache", "publish"}, NEW c \in DnsConfigs,
             Sets(k, l, c)
      PROVE  setter' \in [Setters -> Setter]
  <2>1. [pc |-> l, cfg |-> c] \in Setter
    BY DEF Setter
  <2> QED  BY <1>5, <2>1 DEF Sets
<1>6. ASSUME NEW k \in Setters, SaveDns(k) PROVE CacheInv'
  BY <1>5, <1>6 DEF SaveDns, LookupInv
<1>7. ASSUME NEW k \in Setters, SwapCache(k) \/ PublishDns(k) PROVE CacheInv'
  <2>1. setter[k].pc \in {"cache", "publish"} /\ setter[k] \in Setter
    BY <1>7 DEF SwapCache, PublishDns
  <2>2. setter[k].cfg \in DnsConfigs /\ NoSetter \in Setter
    BY <2>1 DEF Setter, NoSetter
  <2>3. CASE SwapCache(k)
    BY <1>5, <2>2, <2>3, NewIsBounded DEF SwapCache, LookupInv
  <2>4. CASE PublishDns(k)
    BY <2>2, <2>4 DEF PublishDns, LookupInv
  <2> QED  BY <1>7, <2>3, <2>4
<1>8. CASE FlushCache
  <2>1. Shaped(dnsCache') /\ Cached(dnsCache') = {} /\ UNCHANGED <<dnsCache.size, dnsCache.on>>
    BY <1>8 DEF FlushCache, Bounded, Shaped, Cached
  <2>2. Bounded(dnsCache')
    BY <2>1, Shrinks
  <2> QED  BY <1>8, <2>2 DEF FlushCache, LookupInv
<1>9. CASE Tick
  <2>1. /\ Shaped(dnsCache') /\ UNCHANGED <<dnsCache.size, dnsCache.on>>
        /\ Cached(dnsCache') \subseteq Cached(dnsCache)
    <3>1. Shaped(dnsCache)
      BY DEF Bounded
    <3>2. dnsCache' = [dnsCache EXCEPT !.at = [n \in Names |-> Aged(dnsCache, n)]]
      BY <1>9 DEF Tick
    <3>3. ASSUME NEW n \in Names
          PROVE  /\ Aged(dnsCache, n) \in Entry \cup {None}
                 /\ Aged(dnsCache, n) # None => dnsCache.at[n] # None
      <4>1. dnsCache.at[n] \in Entry \cup {None}
        BY <3>1 DEF Shaped
      <4>2. CASE Live(dnsCache, n)
        <5> DEFINE x == dnsCache.at[n]
        <5>1. x \in Entry /\ x # None /\ x.left > 0
          BY <4>1, <4>2 DEF Live, Cached
        <5> HIDE DEF x
        <5>2. x.left - 1 \in 0 .. Ttl
          BY <5>1, DnsAssumption DEF Entry
        <5>3. [x EXCEPT !.left = x.left - 1] \in Entry
          BY <5>1, <5>2 DEF Entry
        <5> QED  BY <4>2, <5>1, <5>3 DEF x, Aged
      <4>3. CASE ~Live(dnsCache, n)
        BY <4>1, <4>3 DEF Aged
      <4> QED  BY <4>2, <4>3
    <3>4. Shaped(dnsCache') /\ \A n \in Names : dnsCache'.at[n] = Aged(dnsCache, n)
      BY <3>1, <3>2, <3>3 DEF Shaped
    <3>5. UNCHANGED <<dnsCache.size, dnsCache.on>>
      BY <3>1, <3>2 DEF Shaped
    <3> QED  BY <3>3, <3>4, <3>5 DEF Cached
  <2>2. Bounded(dnsCache')
    BY <2>1, Shrinks
  <2> QED  BY <1>9, <2>2 DEF Tick, LookupInv
<1>10. CASE UNCHANGED dnsVars
  BY <1>10 DEF dnsVars, LookupInv
<1> QED
  BY <1>1, <1>2, <1>3, <1>4, <1>5, <1>6, <1>7, <1>8, <1>9, <1>10, DiagAssumption
  DEF DiagNext, StartRun, FinishStep, StartDnsStep, FinishDnsStep, EndRun, CancelRun, Ask,
      Answered, Query, Save, Publish, Flush, Time, netVars

LEMMA CacheInvHolds == NetSpec => []CacheInv
<1>1. DiagInit => CacheInv
  <2> SUFFICES ASSUME DiagInit PROVE CacheInv
    OBVIOUS
  <2>1. Looking(NoLookup)
    BY DEF NoLookup, Looking
  <2>2. LookupInv
    BY <2>1 DEF DiagInit, DnsInit, LookupInv
  <2>3. setter \in [Setters -> Setter]
    BY DEF DiagInit, DnsInit, NoSetter, Setter
  <2> QED  BY <2>2, <2>3, NewIsBounded DEF DiagInit, DnsInit, CacheInv
<1> QED  BY <1>1, CacheStep, PTL DEF NetSpec

\* The cache stays within its size, and empty when it is switched off, whatever
\* lookups end after a flush or a change of the configuration (cache.rs put).
THEOREM CacheBounded == NetSpec => []CacheInBounds
<1>1. CacheInv => CacheInBounds
  BY DEF CacheInv, Bounded, CacheInBounds
<1> QED  BY <1>1, CacheInvHolds, PTL

\* Every variable of the DNS manager and of the diagnostics is well typed: a lookup
\* that asks never runs out of servers before it has an answer or ends (manager.rs
\* resolve), and no entry outlives its last tick.
THEOREM NetTypes == NetSpec => []NetTypeOK
<1>1. CacheInv /\ SlotTypeOK => NetTypeOK
  BY DEF CacheInv, SlotTypeOK, NetTypeOK, Bounded, Shaped, LookupInv, Looking
<1> QED  BY <1>1, CacheInvHolds, SlotHolds, PTL
=============================================================================
