-------------------------- MODULE StatisticsProofs --------------------------
(***************************************************************************)
(* Theorems about Statistics, for any amount of traffic.                   *)
(***************************************************************************)
EXTENDS StatisticsProps, TLAPS

USE StatsAssumption

\* Saturating subtraction.
LEMMA MinusIsNat ==
  ASSUME NEW m \in Nat, NEW n \in Nat
  PROVE  /\ Minus(m, n) \in Nat
         /\ m <= n => Minus(m, n) = 0
         /\ n <= m => Minus(m, n) = m - n
BY DEF Minus

-----------------------------------------------------------------------------
(* Types.                                                                   *)

LEMMA StatsTypesInit == StatsInit => StatsTypeOK
<1> SUFFICES ASSUME StatsInit PROVE StatsTypeOK
  OBVIOUS
<1>1. {coreBytes, carried, recorded, count, sampled, closed} \subseteq Nat
  BY DEF StatsInit
<1> QED  BY <1>1 DEF StatsInit, StatsTypeOK

LEMMA StatsTypesStep == StatsTypeOK /\ [StatsNext]_statVars => StatsTypeOK'
<1> SUFFICES ASSUME StatsTypeOK, [StatsNext]_statVars PROVE StatsTypeOK'
  OBVIOUS
<1> USE DEF StatsTypeOK, coreVars, pollVars, flushVars, sessionVars
<1>1. CASE Carry
  BY <1>1 DEF Carry
<1>2. CASE RestartCore
  BY <1>2 DEF RestartCore
<1>3. CASE PollTick
  BY <1>3 DEF PollTick
<1>4. CASE PollQuery
  BY <1>4 DEF PollQuery
<1>5. CASE PollRecord
  <2>1. prev # None => Minus(poll.got, prev) \in Nat
    BY MinusIsNat
  <2> QED  BY <1>5, <2>1 DEF PollRecord
<1>6. ASSUME NEW then \in {"start", "end"}, TakeSession(then)
      PROVE  StatsTypeOK'
  <2>1. UNCHANGED <<coreVars, pollVars, count, last, flushVars, closed, torn>> /\ session' = FALSE
    BY <1>6 DEF TakeSession
  <2>2. control' \in {"idle", "close", "closeToStart", "reset"}
    BY <1>6 DEF TakeSession
  <2> QED  BY <2>1, <2>2
<1>7. CASE CloseSession
  BY <1>7 DEF CloseSession
<1>8. CASE ResetCount
  BY <1>8 DEF ResetCount
<1>9. CASE ResetLast
  BY <1>9 DEF ResetLast
<1>10. CASE OpenSession
  BY <1>10 DEF OpenSession
<1>11. CASE FlushTick
  BY <1>11 DEF FlushTick
<1>12. CASE FlushDelta
  <2>1. last # None => Minus(flush.read, last) \in Nat
    BY MinusIsNat
  <2> QED  BY <1>12, <2>1 DEF FlushDelta
<1>13. CASE FlushInsert
  BY <1>13 DEF FlushInsert
<1>14. CASE UNCHANGED statVars
  BY <1>14 DEF statVars
<1> QED
  BY <1>1, <1>2, <1>3, <1>4, <1>5, <1>6, <1>7, <1>8, <1>9, <1>10, <1>11, <1>12, <1>13,
     <1>14 DEF StatsNext

\* Every reachable state of the accounting is well typed (manager.rs, main.rs poller).
THEOREM StatsTypes == StatsSpec => []StatsTypeOK
BY StatsTypesInit, StatsTypesStep, PTL DEF StatsSpec

-----------------------------------------------------------------------------
(* The totals.                                                              *)

LEMMA PollBackedStep ==
  StatsTypeOK /\ PollBacked /\ [StatsNext]_statVars => PollBacked'
<1> SUFFICES ASSUME StatsTypeOK, PollBacked, [StatsNext]_statVars PROVE PollBacked'
  OBVIOUS
<1> USE DEF StatsTypeOK, PollBacked
<1>1. CASE Carry
  BY <1>1 DEF Carry, pollVars, Minus
<1>2. CASE RestartCore
  BY <1>2 DEF RestartCore, pollVars, Minus
<1>3. CASE PollTick
  BY <1>3 DEF PollTick, coreVars, Minus
<1>4. CASE PollQuery
  BY <1>4 DEF PollQuery, coreVars, Minus
<1>5. CASE PollRecord
  BY <1>5 DEF PollRecord, coreVars, Minus
<1>6. CASE UNCHANGED <<coreVars, pollVars>>
  BY <1>6 DEF coreVars, pollVars
<1> QED
  BY <1>1, <1>2, <1>3, <1>4, <1>5, <1>6
  DEF StatsNext, TakeSession, CloseSession, ResetCount, ResetLast, OpenSession, FlushTick,
      FlushDelta, FlushInsert, statVars, coreVars, pollVars

LEMMA ClosedBackedStep ==
  StatsTypeOK /\ ClosedBacked /\ SampleBacked /\ [StatsNext]_statVars => ClosedBacked'
<1> SUFFICES ASSUME StatsTypeOK, ClosedBacked, control # "idle" => ~session,
                    [StatsNext]_statVars
             PROVE  ClosedBacked'
  BY DEF SampleBacked
<1> USE DEF StatsTypeOK, ClosedBacked
<1>1. CASE PollRecord
  <2>1. prev # None => Minus(poll.got, prev) \in Nat
    BY MinusIsNat
  <2> QED  BY <1>1, <2>1 DEF PollRecord, sessionVars
<1>2. ASSUME NEW then \in {"start", "end"}, TakeSession(then)
      PROVE  ClosedBacked'
  BY <1>2 DEF TakeSession, pollVars
<1>3. CASE CloseSession
  BY <1>3 DEF CloseSession, pollVars
<1>4. CASE ResetCount
  BY <1>4 DEF ResetCount, pollVars
<1>5. CASE ResetLast
  BY <1>5 DEF ResetLast, pollVars
<1>6. CASE OpenSession
  BY <1>6 DEF OpenSession, pollVars
<1>7. CASE UNCHANGED <<recorded, count, sessionVars>>
  BY <1>7 DEF sessionVars
<1> QED
  BY <1>1, <1>2, <1>3, <1>4, <1>5, <1>6, <1>7
  DEF StatsNext, Carry, RestartCore, PollTick, PollQuery, FlushTick, FlushDelta,
      FlushInsert, statVars, pollVars, sessionVars

-----------------------------------------------------------------------------
(* The samples.                                                             *)

LEMMA SampleBackedStep ==
  StatsTypeOK /\ SampleBacked /\ [StatsNext]_statVars => SampleBacked'
<1> SUFFICES ASSUME StatsTypeOK, SampleBacked, [StatsNext]_statVars PROVE SampleBacked'
  OBVIOUS
<1> USE DEF StatsTypeOK, SampleBacked, LastRead
<1>1. CASE PollRecord
  <2>1. prev # None => Minus(poll.got, prev) \in Nat
    BY MinusIsNat
  <2> QED  BY <1>1, <2>1 DEF PollRecord, flushVars, sessionVars
<1>2. ASSUME NEW then \in {"start", "end"}, TakeSession(then)
      PROVE  SampleBacked'
  BY <1>2 DEF TakeSession, pollVars, flushVars
<1>3. CASE CloseSession
  BY <1>3 DEF CloseSession, pollVars, flushVars
<1>4. CASE ResetCount
  BY <1>4 DEF ResetCount, pollVars, flushVars
<1>5. CASE ResetLast
  <2>1. CASE flush.pc = "idle"
    <3>1. torn' = torn
      BY <1>5, <2>1 DEF ResetLast
    <3> QED  BY <1>5, <2>1, <3>1 DEF ResetLast, pollVars, flushVars
  <2>2. CASE flush.pc # "idle"
    <3>1. torn'
      BY <1>5, <2>2 DEF ResetLast
    <3> QED  BY <1>5, <3>1 DEF ResetLast, pollVars, flushVars
  <2> QED  BY <2>1, <2>2
<1>6. CASE OpenSession
  BY <1>6 DEF OpenSession, pollVars, flushVars
<1>7. CASE FlushTick
  BY <1>7 DEF FlushTick, pollVars, sessionVars
<1>8. CASE FlushDelta
  BY <1>8 DEF FlushDelta, pollVars, sessionVars, Minus
<1>9. CASE FlushInsert
  BY <1>9 DEF FlushInsert, pollVars, sessionVars
<1>10. CASE UNCHANGED <<recorded, count, last, flushVars, sessionVars>>
  BY <1>10 DEF flushVars, sessionVars
<1> QED
  BY <1>1, <1>2, <1>3, <1>4, <1>5, <1>6, <1>7, <1>8, <1>9, <1>10
  DEF StatsNext, Carry, RestartCore, PollTick, PollQuery, statVars, pollVars, flushVars,
      sessionVars

-----------------------------------------------------------------------------

LEMMA Backed == StatsSpec => [](PollBacked /\ ClosedBacked /\ SampleBacked)
<1>1. StatsInit => PollBacked /\ ClosedBacked /\ SampleBacked
  BY DEF StatsInit, PollBacked, ClosedBacked, SampleBacked, LastRead, Minus
<1> QED
  BY <1>1, StatsTypes, PollBackedStep, ClosedBackedStep, SampleBackedStep, PTL DEF StatsSpec

\* No byte is counted twice in the totals of the sessions, whatever the traffic and
\* however often core, polls, writes and sessions are interrupted (main.rs poller,
\* manager.rs start_session and end_session).
THEOREM TotalsBacked == StatsSpec => []TotalsAreBacked
<1>1. StatsTypeOK /\ PollBacked /\ ClosedBacked => TotalsAreBacked
  BY DEF StatsTypeOK, PollBacked, ClosedBacked, TotalsAreBacked, Minus
<1> QED  BY <1>1, StatsTypes, Backed, PTL

\* Nor in the samples, unless a flush was torn (manager.rs flush_once).
THEOREM SamplesBacked == StatsSpec => []SamplesAreBacked
<1>1. StatsTypeOK /\ SampleBacked => SamplesAreBacked
  BY DEF StatsTypeOK, SampleBacked, SamplesAreBacked, LastRead
<1> QED  BY <1>1, StatsTypes, Backed, PTL
=============================================================================
