-------------------------------- MODULE Dns --------------------------------
(***************************************************************************)
(* The DNS manager: its cache, its configuration and the lookups.          *)
(*                                                                         *)
(* A lookup holds no lock while a server is asked, so that flushes and     *)
(* changes of the configuration, which overlap, too, fall between its      *)
(* steps.  An answer is known by the server that gave it.  The life of a   *)
(* cache entry is counted in ticks of the clock, Ttl at first and 0 once   *)
(* it has expired.                                                         *)
(***************************************************************************)
EXTENDS Integers, FiniteSets, Sequences, Retain, Shared

CONSTANTS
  Names,        \* host names
  DnsConfigs,   \* records [servers, on, size]
  Setters,      \* tasks that change the configuration
  Lookups,      \* tasks that resolve names
  Ttl,          \* ticks an entry lives: the 60 seconds resolve passes to put
  MinSize       \* what DnsCache::new raises a smaller size to: 16 in the code

VARIABLES
  dnsCfg,     \* DnsManager.cfg
  dnsFile,    \* dns.json
  dnsCache,   \* the DnsCache: [on, size, at], at[n] an entry or None
  setter,     \* per set_config task: its next step and the new configuration
  lookup      \* per task: its next step, the name and the servers still to ask

dnsVars == <<dnsCfg, dnsFile, dnsCache, setter, lookup>>

\* ok: parse_server understands the entry
Server == [url : {s.url : s \in UNION {ToSet(c.servers) : c \in DnsConfigs}},
           tag : {"", "direct", "proxy"}, ok : BOOLEAN]
Entry == [from : Server, left : 0 .. Ttl]

ASSUME DnsAssumption ==
  /\ Ttl \in Nat \ {0} /\ MinSize \in Nat \ {0}
  /\ IsFiniteSet(Names)
  /\ DnsConfigs \subseteq [servers : Seq(Server), on : BOOLEAN, size : Nat]
  /\ None \notin Entry \cup DnsConfigs

-----------------------------------------------------------------------------
(* The cache.                                                               *)

\* Mutant of NewCache: the size as it is configured.
NewCacheAsAsked(cfg) ==
  [on |-> cfg.on, size |-> cfg.size, at |-> [n \in Names |-> None]]

NewCache(cfg) ==
  [on |-> cfg.on, size |-> IF cfg.size > MinSize THEN cfg.size ELSE MinSize,
   at |-> [n \in Names |-> None]]

Cached(cache) == {n \in Names : cache.at[n] # None}
Live(cache, n) == n \in Cached(cache) /\ cache.at[n].left > 0

\* get: a miss drops the entry when it has expired
Hit(cache, n) == cache.on /\ Live(cache, n)
AfterGet(cache, n) ==
  IF cache.on /\ ~Live(cache, n) THEN [cache EXCEPT !.at[n] = None] ELSE cache

Purged(cache) == [cache EXCEPT !.at = [n \in Names |-> IF Live(cache, n) THEN @[n] ELSE None]]

\* The entries that expire first; the code takes one of them in no given order
Oldest(cache) ==
  {n \in Cached(cache) : \A k \in Cached(cache) : cache.at[n].left <= cache.at[k].left}

Evictions(cache) == {[cache EXCEPT !.at[n] = None] : n \in Oldest(cache)}

\* Mutant of Room: off by one.
RoomForOneMore(cache) ==
  IF Cardinality(Cached(cache)) <= cache.size THEN {cache} ELSE Evictions(Purged(cache))

\* put: at the limit the expired entries go, then the oldest one if need be, even
\* when the name itself has an entry that the new one replaces
Room(cache) ==
  IF Cardinality(Cached(cache)) < cache.size THEN {cache}
  ELSE IF Cardinality(Cached(Purged(cache))) < cache.size THEN {Purged(cache)}
  ELSE Evictions(Purged(cache))

Puts(cache, n, server) ==
  IF ~cache.on THEN {cache}
  ELSE {[c EXCEPT !.at[n] = [from |-> server, left |-> Ttl]] : c \in Room(cache)}

-----------------------------------------------------------------------------
(* The configuration.                                                       *)

Usable(servers, tags) == Kept(servers, {s \in ToSet(servers) : s.ok /\ s.tag \in tags})

\* The servers of the policy's tag, then the untagged ones; failing both, all.
\* Lookups ask under the policy "any", which no tag matches.
SelectServers(cfg, policy) ==
  LET picked == Usable(cfg.servers, {policy} \ {"any"}) \o Usable(cfg.servers, {""})
  IN  IF picked = <<>> THEN Usable(cfg.servers, {"", "direct", "proxy"}) ELSE picked

NoSetter == [pc |-> "idle", cfg |-> None]
Sets(k, label, cfg) == setter' = [setter EXCEPT ![k] = [pc |-> label, cfg |-> cfg]]

\* set_config: the file, a new cache, the configuration.  A failed write ends it.
SaveDns(k) ==
  /\ setter[k].pc = "idle"
  /\ \E c \in DnsConfigs :
       \/ dnsFile' = c /\ Sets(k, "cache", c)
       \/ "disk" \in Faults /\ UNCHANGED <<dnsFile, setter>>
  /\ UNCHANGED <<dnsCfg, dnsCache, lookup>>

SwapCache(k) ==
  /\ setter[k].pc = "cache"
  /\ dnsCache' = NewCache(setter[k].cfg)
  /\ Sets(k, "publish", setter[k].cfg)
  /\ UNCHANGED <<dnsCfg, dnsFile, lookup>>

PublishDns(k) ==
  /\ setter[k].pc = "publish"
  /\ dnsCfg' = setter[k].cfg
  /\ setter' = [setter EXCEPT ![k] = NoSetter]
  /\ UNCHANGED <<dnsFile, dnsCache, lookup>>

FlushCache ==
  /\ dnsCache' = [dnsCache EXCEPT !.at = [n \in Names |-> None]]
  /\ UNCHANGED <<dnsCfg, dnsFile, setter, lookup>>

-----------------------------------------------------------------------------
(* resolve                                                                  *)

NoLookup == [pc |-> "idle", name |-> None, todo |-> <<>>]
Looks(t, r) == lookup' = [lookup EXCEPT ![t] = r]

\* A cached answer ends the lookup
AskCache(t, n) ==
  /\ lookup[t].pc = "idle"
  /\ dnsCache' = AfterGet(dnsCache, n)
  /\ Looks(t, [pc |-> IF Hit(dnsCache, n) THEN "done" ELSE "select", name |-> n, todo |-> <<>>])
  /\ UNCHANGED <<dnsCfg, dnsFile, setter>>

PickServers(t) ==
  /\ lookup[t].pc = "select"
  /\ LET servers == SelectServers(dnsCfg, "any")
     IN  Looks(t, [lookup[t] EXCEPT !.pc = IF servers = <<>> THEN "done" ELSE "ask",
                                    !.todo = servers])
  /\ UNCHANGED <<dnsCfg, dnsFile, dnsCache, setter>>

\* The A and AAAA queries of one server: addresses, which go into the cache as it
\* is by now, or an error, a timeout or an empty answer
AskServer(t) ==
  /\ lookup[t].pc = "ask"
  /\ LET server == Head(lookup[t].todo)
         rest == Tail(lookup[t].todo)
     IN  \/ /\ dnsCache' \in Puts(dnsCache, lookup[t].name, server)
            /\ Looks(t, [lookup[t] EXCEPT !.pc = "done", !.todo = <<>>])
         \/ /\ Looks(t, [lookup[t] EXCEPT !.pc = IF rest = <<>> THEN "done" ELSE "ask",
                                          !.todo = rest])
            /\ UNCHANGED dnsCache
  /\ UNCHANGED <<dnsCfg, dnsFile, setter>>

\* The caller takes the result
Resolved(t) ==
  /\ lookup[t].pc = "done"
  /\ Looks(t, NoLookup)
  /\ UNCHANGED <<dnsCfg, dnsFile, dnsCache, setter>>

\* Mutant of Tick: an entry never gets past its last tick.
TickButLast ==
  /\ dnsCache' = [dnsCache EXCEPT !.at =
       [n \in Names |-> IF Live(dnsCache, n) /\ @[n].left > 1 THEN [@[n] EXCEPT !.left = @ - 1] ELSE @[n]]]
  /\ UNCHANGED <<dnsCfg, dnsFile, setter, lookup>>

Aged(cache, n) ==
  IF Live(cache, n) THEN [cache.at[n] EXCEPT !.left = @ - 1] ELSE cache.at[n]
Tick ==
  /\ dnsCache' = [dnsCache EXCEPT !.at = [n \in Names |-> Aged(dnsCache, n)]]
  /\ UNCHANGED <<dnsCfg, dnsFile, setter, lookup>>

DnsInit ==
  /\ dnsFile \in DnsConfigs
  /\ dnsCfg = dnsFile
  /\ dnsCache = NewCache(dnsCfg)
  /\ setter = [k \in Setters |-> NoSetter]
  /\ lookup = [t \in Lookups |-> NoLookup]
=============================================================================
