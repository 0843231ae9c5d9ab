----------------------------- MODULE MCServices -----------------------------
(***************************************************************************)
(* Small instances, for TLC, of the components that share no state with    *)
(* the connection manager nor with one another: the routing engine, DNS,   *)
(* the diagnostics, the traffic accounting, the pipe and the service host. *)
(* A behaviour drives one of them, chosen at its start, and leaves the     *)
(* others in their initial state.                                          *)
(***************************************************************************)
EXTENDS RuleProps, DiagnosticsProps, StatisticsProps, PipeProps, HostProps, TLC

CONSTANTS
  r1, com, www, api, word, low, home, away, web,   \* rules: ids and values
  x, y, u1, u2, d1, d2, q1, m1, m2,               \* names, servers, tasks
  k1, k2,                                     \* calls
  Foci,                                       \* the components a run drives
  p1, l1, l2, o1, o2, o3                      \* home pages, loops, objects

VARIABLE focus

-----------------------------------------------------------------------------
(* Rules.                                                                   *)

Com == <<com>>
ACom == <<com, www>>
BCom == <<com, api>>

Shape(kind, value, action, enabled, priority) ==
  [kind |-> kind, value |-> value, action |-> action, enabled |-> enabled,
   priority |-> priority]
MCShapes ==
  { Shape("suffix", Com, "proxy", TRUE, 0), Shape("suffix", ACom, "direct", TRUE, 1000),
    Shape("domain", ACom, "proxy", TRUE, 0), Shape("keyword", word, "block", TRUE, 0),
    Shape("ip", <<1, 1>>, "block", TRUE, 900),
    Shape("ip", <<9>>, "direct", TRUE, 0), Shape("port", web, "proxy", FALSE, 0),
    Shape("range", low, "block", TRUE, 0), Shape("geoip", home, "block", TRUE, 0) }
MCSymbols == {com, www, api, 0, 1, 9}
MCCovers == {<<word, ACom>>, <<word, BCom>>, <<low, web>>}
MCMalformed == {<<"ip", <<9>>>>}
MCGeo == {[net |-> <<0>>, country |-> "private"], [net |-> <<1>>, country |-> home],
          [net |-> <<1, 1>>, country |-> away]}

NoFlow == [process |-> None, domain |-> None, ip |-> None, port |-> None, protocol |-> None]
MCFlows ==
  {[NoFlow EXCEPT !.domain = d] : d \in {ACom, BCom}}
  \cup {[NoFlow EXCEPT !.ip = i] : i \in {<<1, 1>>, <<1, 0>>, <<0, 0>>}}
  \cup {[NoFlow EXCEPT !.domain = ACom, !.ip = <<1, 1>>, !.port = web]}

-----------------------------------------------------------------------------
(* DNS.                                                                     *)

DnsServer(u, t) == [url |-> u, tag |-> t, ok |-> TRUE]
FirstConfig ==
  [servers |-> <<DnsServer(u1, ""), DnsServer(u2, "proxy")>>, on |-> TRUE, size |-> 1]
MCConfigs ==
  { FirstConfig,
    [servers |-> <<DnsServer(u2, "direct"), [DnsServer(u1, "") EXCEPT !.ok = FALSE]>>,
     on |-> TRUE, size |-> 0],
    [servers |-> <<DnsServer(u1, "")>>, on |-> FALSE, size |-> 0] }

-----------------------------------------------------------------------------

vars == <<ruleVars, netVars, statVars, pipeVars, hostVars, focus>>

Init ==
  /\ focus \in Foci
  /\ RulesInit /\ DiagInit /\ StatsInit /\ PipeInit /\ HostInit
  /\ focus = "dns" \/ dnsFile = FirstConfig

Rules(step) ==
  focus = "rules" /\ step /\ UNCHANGED <<netVars, statVars, pipeVars, hostVars, focus>>

\* Lookups of the resolve request, which meet changes of the configuration, or runs
\* of the diagnostics, which meet each other
Net(step) ==
  /\ focus \in {"dns", "diagnostics"} /\ step
  /\ focus = "dns" => UNCHANGED diagVars
  /\ focus = "diagnostics" => UNCHANGED dnsFile /\ \A q \in Askers : UNCHANGED lookup[q]
  /\ UNCHANGED <<ruleVars, statVars, pipeVars, hostVars, focus>>

\* What follows a torn flush is left aside
Stats(step) ==
  /\ focus = "statistics" /\ ~torn /\ step
  /\ UNCHANGED <<ruleVars, netVars, pipeVars, hostVars, focus>>

Wire(step) ==
  focus = "pipe" /\ step /\ UNCHANGED <<ruleVars, netVars, statVars, hostVars, focus>>

\* What follows an overlap is left to the focus "overlap"
Service(step) ==
  /\ (focus = "host" /\ ~overlapped) \/ focus = "overlap"
  /\ step
  /\ UNCHANGED <<ruleVars, netVars, statVars, pipeVars, focus>>

Aside == (torn \/ overlapped) /\ UNCHANGED vars

Next ==
  \/ \E e \in Editors : \/ Rules(ReadList(e)) \/ Rules(WriteRules(e)) \/ Rules(RenameRules(e))
                        \/ Rules(PublishIndex(e)) \/ Rules(PublishList(e))
  \/ Rules(RestartRules)
  \/ \E r \in Runs : \/ Net(StartRun(r)) \/ Net(FinishStep(r)) \/ Net(StartDnsStep(r))
                     \/ Net(FinishDnsStep(r)) \/ Net(EndRun(r))
  \/ Net(CancelRun)
  \/ \E t \in Askers : Net(Ask(t)) \/ Net(Answered(t))
  \/ \E t \in Lookups : Net(Query(t))
  \/ \E k \in Setters : Net(Save(k)) \/ Net(Publish(k))
  \/ Net(Flush) \/ Net(Time)
  \/ Stats(Carry) \/ Stats(RestartCore)
  \/ Stats(PollTick) \/ Stats(PollQuery) \/ Stats(PollRecord)
  \/ \E then \in {"start", "end"} : Stats(TakeSession(then))
  \/ Stats(CloseSession) \/ Stats(ResetCount) \/ Stats(ResetLast) \/ Stats(OpenSession)
  \/ Stats(FlushTick) \/ Stats(FlushDelta) \/ Stats(FlushInsert)
  \/ Wire(Connect) \/ Wire(Drop) \/ Wire(Emit)
  \/ Wire(Subscribe) \/ Wire(TakeEvent) \/ Wire(ForwardEvent) \/ Wire(WriteFrame)
  \/ Wire(ReadRequest) \/ Wire(Receive)
  \/ \E c \in Calls : Wire(Handle(c)) \/ Wire(SendReply(c)) \/ Wire(Invoke(c)) \/ Wire(ShowReply(c))
  \/ \E t \in Starters : Service(StartAsync(t))
  \/ \E t \in Tasks : \/ Service(Ensure(t)) \/ Service(AddHandlers(t)) \/ Service(PickForDial(t))
                      \/ Service(DialSucceeds(t)) \/ Service(DialFails(t))
  \/ \E c \in Clients : Service(PipeEnds(c))
  \/ Aside

Spec == Init /\ [][Next]_vars /\ NetFairness /\ PipeFairness /\ HostFairness
=============================================================================
