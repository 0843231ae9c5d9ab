----------------------------- MODULE Statistics -----------------------------
(***************************************************************************)
(* Traffic accounting: the poller of the core's byte counters, the         *)
(* counters of the session, the flush into traffic_samples and the session *)
(* totals.  One direction; the other is the same.                          *)
(*                                                                         *)
(* carried and recorded are history variables: the bytes every core has    *)
(* carried, and what the poller has added to the counter in all.  MaxBytes *)
(* bounds carried, and with it every number of the model.                  *)
(***************************************************************************)
EXTENDS Integers, Shared

CONSTANT MaxBytes   \* bound of the model on the traffic

VARIABLES
  coreBytes,  \* the counter of the running core, 0 at its start
  carried,    \* bytes carried by all cores
  prev,       \* the poller's previous reading, None when it has none
  poll,       \* the poller: its next step and the reading it has got
  recorded,   \* sum of all record_up
  count,      \* StatsManager.up
  last,       \* StatsManager.last: the counter at the last flush, or None
  session,    \* StatsManager.session is Some
  control,    \* next step of start_session or end_session
  flush,      \* the flush loop: its next step, the counter it read, its delta
  sampled,    \* sum of traffic_samples
  closed,     \* sum of the totals of ended sessions
  torn        \* a flush was under way when start_session reset last

statVars == <<coreBytes, carried, prev, poll, recorded, count, last, session, control,
              flush, sampled, closed, torn>>
coreVars == <<coreBytes, carried>>
pollVars == <<prev, poll, recorded>>
flushVars == <<flush, sampled>>
sessionVars == <<session, control, closed, torn>>

ASSUME StatsAssumption == MaxBytes \in Nat /\ None \notin Nat

StatsInit ==
  /\ coreBytes = 0 /\ carried = 0
  /\ prev = None /\ poll = [pc |-> "idle", got |-> 0] /\ recorded = 0
  /\ count = 0 /\ last = None
  /\ session = FALSE /\ control = "idle"
  /\ flush = [pc |-> "idle", read |-> 0, delta |-> 0]
  /\ sampled = 0 /\ closed = 0 /\ torn = FALSE

\* Mutant of Minus: a plain difference.
MinusPlain(a, b) == a - b
Minus(a, b) == IF a > b THEN a - b ELSE 0   \* saturating_sub

-----------------------------------------------------------------------------
(* The core.                                                                *)

Carry ==
  /\ carried < MaxBytes
  /\ coreBytes' = coreBytes + 1 /\ carried' = carried + 1
  /\ UNCHANGED <<pollVars, count, last, flushVars, sessionVars>>

RestartCore ==
  /\ coreBytes' = 0
  /\ UNCHANGED <<carried, pollVars, count, last, flushVars, sessionVars>>

-----------------------------------------------------------------------------
(* The poller of main: every two seconds, while a session is active.        *)

PollTick ==
  /\ poll.pc = "idle"
  /\ IF session THEN poll' = [poll EXCEPT !.pc = "ask"] /\ UNCHANGED prev
                ELSE prev' = None /\ UNCHANGED poll
  /\ UNCHANGED <<coreVars, recorded, count, last, flushVars, sessionVars>>

\* query_totals: a reading of the core that runs by now, or an error
PollQuery ==
  /\ poll.pc = "ask"
  /\ \/ poll' = [pc |-> "got", got |-> coreBytes] /\ UNCHANGED prev
     \/ poll' = [poll EXCEPT !.pc = "idle"] /\ prev' = None
  /\ UNCHANGED <<coreVars, recorded, count, last, flushVars, sessionVars>>

\* The difference to the previous reading goes to the session of this moment
PollRecord ==
  /\ poll.pc = "got"
  /\ LET bytes == IF prev = None THEN 0 ELSE Minus(poll.got, prev)
     IN  count' = count + bytes /\ recorded' = recorded + bytes
  /\ prev' = poll.got
  /\ poll' = [pc |-> "idle", got |-> 0]
  /\ UNCHANGED <<coreVars, last, flushVars, sessionVars>>

-----------------------------------------------------------------------------
(* Sessions: started by connect after it has ended the one there may be,    *)
(* ended by disconnect and by an in-place switch.                           *)

TakeSession(then) ==
  /\ control = "idle"
  /\ session' = FALSE
  /\ control' = IF session THEN [start |-> "closeToStart", end |-> "close"][then]
                ELSE [start |-> "reset", end |-> "idle"][then]
  /\ UNCHANGED <<coreVars, pollVars, count, last, flushVars, closed, torn>>

\* The total of the session is the counter as it is now
CloseSession ==
  /\ control \in {"close", "closeToStart"}
  /\ closed' \in {closed + count} \cup (IF "disk" \in Faults THEN {closed} ELSE {})
  /\ control' = IF control = "close" THEN "idle" ELSE "reset"
  /\ UNCHANGED <<coreVars, pollVars, count, last, flushVars, session, torn>>

\* Mutant of ResetCount: the new session goes on with the old counter.
ResetNothing ==
  /\ control = "reset"
  /\ control' = "resetLast"
  /\ UNCHANGED <<coreVars, pollVars, count, last, flushVars, session, closed, torn>>

ResetCount ==
  /\ control = "reset"
  /\ count' = 0 /\ control' = "resetLast"
  /\ UNCHANGED <<coreVars, pollVars, last, flushVars, session, closed, torn>>

ResetLast ==
  /\ control = "resetLast"
  /\ last' = 0 /\ control' = "open"
  /\ torn' = (torn \/ flush.pc # "idle")
  /\ UNCHANGED <<coreVars, pollVars, count, flushVars, session, closed>>

OpenSession ==
  /\ control = "open"
  /\ session' = TRUE /\ control' = "idle"
  /\ UNCHANGED <<coreVars, pollVars, count, last, flushVars, closed, torn>>

-----------------------------------------------------------------------------
(* flush_once: the counter, then last under its lock, then the session      *)
(* under its lock.                                                          *)

FlushTick ==
  /\ flush.pc = "idle"
  /\ flush' = [pc |-> "delta", read |-> count, delta |-> 0]
  /\ UNCHANGED <<coreVars, pollVars, count, last, sampled, sessionVars>>

\* Mutant of FlushDelta: the counter of this flush is not kept.
FlushDeltaOnly ==
  /\ flush.pc = "delta"
  /\ flush' = [flush EXCEPT !.pc = "insert",
                 !.delta = IF last = None THEN 0 ELSE Minus(flush.read, last)]
  /\ UNCHANGED <<coreVars, pollVars, count, last, sampled, sessionVars>>

FlushDelta ==
  /\ flush.pc = "delta"
  /\ flush' = [flush EXCEPT !.pc = "insert",
                 !.delta = IF last = None THEN 0 ELSE Minus(flush.read, last)]
  /\ last' = flush.read
  /\ UNCHANGED <<coreVars, pollVars, count, sampled, sessionVars>>

FlushInsert ==
  /\ flush.pc = "insert"
  /\ sampled' \in {IF session THEN sampled + flush.delta ELSE sampled}
                  \cup (IF "disk" \in Faults THEN {sampled} ELSE {})
  /\ flush' = [pc |-> "idle", read |-> 0, delta |-> 0]
  /\ UNCHANGED <<coreVars, pollVars, count, last, sessionVars>>

StatsNext ==
  \/ Carry \/ RestartCore
  \/ PollTick \/ PollQuery \/ PollRecord
  \/ \E then \in {"start", "end"} : TakeSession(then)
  \/ CloseSession \/ ResetCount \/ ResetLast \/ OpenSession
  \/ FlushTick \/ FlushDelta \/ FlushInsert

StatsSpec == StatsInit /\ [][StatsNext]_statVars
=============================================================================
