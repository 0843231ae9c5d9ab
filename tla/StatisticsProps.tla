-------------------------- MODULE StatisticsProps --------------------------
(***************************************************************************)
(* Correctness properties of the traffic accounting.                       *)
(***************************************************************************)
EXTENDS Statistics

\* Every variable of the accounting has its type.
StatsTypeOK ==
  /\ {coreBytes, carried, recorded, count, sampled, closed} \subseteq Nat
  /\ prev \in Nat \cup {None} /\ last \in Nat \cup {None}
  /\ poll \in [pc : {"idle", "ask", "got"}, got : Nat]
  /\ session \in BOOLEAN /\ torn \in BOOLEAN
  /\ control \in {"idle", "close", "closeToStart", "reset", "resetLast", "open"}
  /\ flush \in [pc : {"idle", "delta", "insert"}, read : Nat, delta : Nat]

\* No byte is counted twice: the totals of the sessions that ended never exceed what
\* the cores have carried, over restarts of the core, failed polls, polls in flight
\* while the session changes and failed writes (main.rs poller, manager.rs
\* start_session and end_session).
TotalsAreBacked == closed <= recorded /\ recorded <= carried

\* Nor in the samples the day's traffic is summed from, unless a flush was under way
\* when a session began (manager.rs flush_once and start_session): such a flush adds
\* bytes of the old session that were counted before.
SamplesAreBacked == torn \/ sampled <= recorded

-----------------------------------------------------------------------------
(* The invariants behind the three, for the proofs.                         *)

\* The poller: what it has recorded, with what the readings in hand will still add
PollBacked ==
  LET before == IF poll.pc = "got" THEN poll.got ELSE prev
      due == IF poll.pc = "got" /\ prev # None THEN Minus(poll.got, prev) ELSE 0
  IN  recorded + due + (IF before = None THEN 0 ELSE Minus(coreBytes, before)) <= carried

\* The sessions: the counter of a session that is not closed yet comes on top
ClosedBacked ==
  closed + (IF session \/ control \in {"close", "closeToStart", "resetLast", "open"}
            THEN count ELSE 0) <= recorded

\* The flush loop: what is sampled, what it is about to sample, and what it has yet
\* to read.  While start_session is between its two resets the counter starts at 0.
LastRead == IF last = None THEN 0 ELSE last
SampleBacked ==
  /\ control # "idle" => ~session
  /\ flush.pc # "insert" => flush.delta = 0
  /\ torn \/ IF control = "resetLast" THEN sampled + count <= recorded
     ELSE /\ LastRead <= count
          /\ flush.pc = "delta" => LastRead <= flush.read /\ flush.read <= count
          /\ sampled + flush.delta + (count - LastRead) <= recorded
=============================================================================
