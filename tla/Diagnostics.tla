---------------------------- MODULE Diagnostics ----------------------------
(***************************************************************************)
(* The diagnostics requests, composed with the DNS manager their third     *)
(* step and the resolve request use.                                       *)
(***************************************************************************)
EXTENDS Dns

CONSTANTS
  Runs,     \* tasks diagnostics.run spawns
  Askers,   \* tasks of diagnostics.resolve
  Steps,    \* steps of a run: 6 in the code
  DnsStep,  \* the step that resolves a name: 3 in the code
  DnsName   \* the name it resolves, always the same

VARIABLES
  diagSlot,   \* diag_running: the run whose token is in it, or None
  diag,       \* per run: its next step and whether its token is cancelled
  swept       \* history: a run has emptied the slot of another one

diagVars == <<diagSlot, diag, swept>>

ASSUME DiagAssumption ==
  /\ None \notin Runs
  /\ Lookups = Runs \cup Askers
  /\ Runs \cap Askers = {}
  /\ Steps \in Nat \ {0} /\ DnsStep \in 1 .. Steps /\ DnsName \in Names

\* step 0: no such task; step Steps + 1: the run is over and still holds the slot
NoRun == [step |-> 0, cancelled |-> FALSE]
Running(r) == diag[r].step \in 1 .. Steps

\* Mutant of StartRun: the slot is overwritten.
StartRunAnyway(r) ==
  /\ diag[r].step = 0
  /\ diagSlot' = r
  /\ diag' = [diag EXCEPT ![r] = [step |-> 1, cancelled |-> FALSE]]
  /\ UNCHANGED <<swept, dnsVars>>

StartRun(r) ==
  /\ diag[r].step = 0
  /\ diagSlot = None
  /\ diagSlot' = r
  /\ diag' = [diag EXCEPT ![r] = [step |-> 1, cancelled |-> FALSE]]
  /\ UNCHANGED <<swept, dnsVars>>

\* The token leaves the slot, its run only notices at its next check
CancelRun ==
  /\ diagSlot # None
  /\ diag' = [diag EXCEPT ![diagSlot].cancelled = TRUE]
  /\ diagSlot' = None
  /\ UNCHANGED <<swept, dnsVars>>

\* A step ends with a look at the token, the last one with the report
StepsOn(r) ==
  diag' = [diag EXCEPT ![r].step =
             IF diag[r].cancelled /\ @ < Steps THEN Steps + 1 ELSE @ + 1]

FinishStep(r) ==
  /\ Running(r) /\ diag[r].step # DnsStep
  /\ StepsOn(r)
  /\ UNCHANGED <<diagSlot, swept, dnsVars>>

StartDnsStep(r) ==
  /\ diag[r].step = DnsStep
  /\ AskCache(r, DnsName)
  /\ UNCHANGED diagVars

FinishDnsStep(r) ==
  /\ diag[r].step = DnsStep
  /\ Resolved(r)
  /\ StepsOn(r)
  /\ UNCHANGED <<diagSlot, swept>>

\* Mutant of EndRun: the task leaves the slot to the cancel request.
EndRunOnly(r) ==
  /\ diag[r].step = Steps + 1
  /\ diag' = [diag EXCEPT ![r] = NoRun]
  /\ UNCHANGED <<diagSlot, swept, dnsVars>>

\* Whatever token is in the slot by then
EndRun(r) ==
  /\ diag[r].step = Steps + 1
  /\ diagSlot' = None
  /\ diag' = [diag EXCEPT ![r] = NoRun]
  /\ swept' = (swept \/ diagSlot \notin {None, r})
  /\ UNCHANGED dnsVars

Ask(t) == (\E n \in Names : AskCache(t, n)) /\ UNCHANGED diagVars
Answered(t) == Resolved(t) /\ UNCHANGED diagVars
Query(t) == (PickServers(t) \/ AskServer(t)) /\ UNCHANGED diagVars
Save(k) == SaveDns(k) /\ UNCHANGED diagVars
Publish(k) == (SwapCache(k) \/ PublishDns(k)) /\ UNCHANGED diagVars
Flush == FlushCache /\ UNCHANGED diagVars
Time == Tick /\ UNCHANGED diagVars

DiagInit == DnsInit /\ diagSlot = None /\ diag = [r \in Runs |-> NoRun] /\ swept = FALSE

DiagNext ==
  \/ \E r \in Runs : \/ StartRun(r) \/ FinishStep(r) \/ StartDnsStep(r)
                     \/ FinishDnsStep(r) \/ EndRun(r)
  \/ CancelRun
  \/ \E t \in Askers : Ask(t) \/ Answered(t)
  \/ \E t \in Lookups : Query(t)
  \/ \E k \in Setters : Save(k) \/ Publish(k)
  \/ Flush \/ Time

netVars == <<dnsVars, diagVars>>

NetSpec == DiagInit /\ [][DiagNext]_netVars
=============================================================================
