------------------------------ MODULE IpcProofs ------------------------------
(***************************************************************************)
(* Theorems about the two ends of the connection: Pipe, for any number of  *)
(* calls and events and any capacity of the queues, and Host, for any      *)
(* number of pages, loops and objects.                                     *)
(***************************************************************************)
EXTENDS PipeProps, HostProps, FoldFacts, FiniteSetTheorems, TLAPS

-----------------------------------------------------------------------------
(* Queues.                                                                  *)

LEMMA Pops ==
  ASSUME NEW S, NEW q \in Seq(S), q # <<>>
  PROVE  /\ Len(q) \in Nat \ {0} /\ Head(q) = q[1] /\ Head(q) \in S
         /\ Tail(q) \in Seq(S) /\ Len(Tail(q)) = Len(q) - 1
         /\ DOMAIN Tail(q) = 1 .. Len(q) - 1 /\ DOMAIN q = 1 .. Len(q)
         /\ \A i \in DOMAIN Tail(q) : i + 1 \in DOMAIN q /\ Tail(q)[i] = q[i + 1]
OBVIOUS

LEMMA Pushes ==
  ASSUME NEW S, NEW q \in Seq(S), NEW f \in S
  PROVE  /\ Append(q, f) \in Seq(S) /\ Len(Append(q, f)) = Len(q) + 1
         /\ Len(q) \in Nat /\ DOMAIN q = 1 .. Len(q)
         /\ DOMAIN Append(q, f) = 1 .. Len(q) + 1
         /\ \A i \in DOMAIN q : Append(q, f)[i] = q[i]
         /\ Append(q, f)[Len(q) + 1] = f
OBVIOUS

LEMMA Empties ==
  ASSUME NEW S
  PROVE  <<>> \in Seq(S) /\ Len(<<>>) = 0 /\ DOMAIN <<>> = {}
OBVIOUS

LEMMA NoneIsNone ==
  None \notin Calls /\ None \notin 0 .. MaxEvents /\ None \notin Seq(1 .. MaxEvents)
<1>1. Seq(1 .. MaxEvents) \subseteq Seq(Nat)
  BY PipeAssumption
<1> QED  BY <1>1, PipeAssumption

-----------------------------------------------------------------------------
(* Types.                                                                   *)

LEMMA RingTypes ==
  ASSUME NEW q \in Seq(1 .. MaxEvents), NEW n \in 1 .. MaxEvents
  PROVE  Pushed(q, n) \in Seq(1 .. MaxEvents)
<1>1. CASE Len(q) = RingCap
  <2>1. q # <<>>
    BY <1>1, PipeAssumption
  <2>2. Tail(q) \in Seq(1 .. MaxEvents)
    BY <2>1, Pops
  <2> QED  BY <1>1, <2>2, Pushes DEF Pushed
<1>2. CASE Len(q) # RingCap
  BY <1>2, Pushes DEF Pushed
<1> QED  BY <1>1, <1>2

LEMMA LatestTyped ==
  ASSUME PipeTypeOK
  PROVE  Latest \in 0 .. MaxEvents
<1> DEFINE S == {0} \cup changes
<1>1. MaxEvents \in Nat /\ S \in SUBSET (0 .. MaxEvents) /\ S # {}
  BY PipeAssumption DEF PipeTypeOK
<1>2. Max(S) \in S
  <2> HIDE DEF S
  <2> QED  BY <1>1, MaxIs
<1> QED  BY <1>1, <1>2 DEF Latest

LEMMA PipeTypesStep ==
  ASSUME PipeTypeOK, [PipeNext]_pipeVars
  PROVE  PipeTypeOK'
<1> USE PipeAssumption, NoneIsNone, Empties DEF PipeTypeOK, events, toClient, clientVars
<1>1. CASE Connect
  <2>1. seen' \in 0 .. MaxEvents
    BY <1>1 DEF Connect
  <2> QED  BY <1>1, <2>1 DEF Connect
<1>2. CASE Subscribe
  BY <1>2 DEF Subscribe
<1>3. CASE Drop
  <2>1. server' \in [Calls -> [pc : {"idle", "handling", "reply"}, state : 0 .. MaxEvents]]
    BY <1>3 DEF Drop, Nowhere, At
  <2> QED  BY <1>3, <2>1 DEF Drop
<1>4. CASE Emit
  <2>1. emitted + 1 \in 1 .. MaxEvents
    BY <1>4 DEF Emit
  <2>2. ring' \in Seq(1 .. MaxEvents) \cup {None}
    BY <1>4, <2>1, RingTypes DEF Emit
  <2>3. fresh' \in BOOLEAN
    <3>1. fresh' = Reaches \/ fresh' = (fresh /\ ~ Lost(Latest))
      BY <1>4 DEF Emit
    <3>2. Reaches \in BOOLEAN
      BY Zenon DEF Reaches
    <3> QED  BY <3>1, <3>2, Zenon
  <2>4. changes' \subseteq 1 .. emitted'
    <3>1. emitted' = emitted + 1 /\ changes' \in {changes, changes \cup {emitted + 1}}
      BY <1>4 DEF Emit
    <3>2. emitted \in Nat /\ changes \subseteq 1 .. emitted
      OBVIOUS
    <3> QED  BY <3>1, <3>2
  <2> QED  BY <1>4, <2>1, <2>2, <2>3, <2>4 DEF Emit
<1>5. CASE TakeEvent
  <2>1. ring \in Seq(1 .. MaxEvents) /\ ring # <<>>
    BY <1>5 DEF TakeEvent
  <2> QED  BY <1>5, <2>1, Pops DEF TakeEvent
<1>6. CASE ForwardEvent
  <2>1. Frame(None, held) \in Frames
    BY <1>6 DEF ForwardEvent, Frame, Frames
  <2> QED  BY <1>6, <2>1, Pushes DEF ForwardEvent
<1>7. CASE WriteFrame
  BY <1>7, Pops, Pushes DEF WriteFrame
<1>8. ASSUME NEW c \in Calls, Invoke(c) PROVE PipeTypeOK'
  <2>1. requests' \in Seq(Calls)
    BY <1>8, Pushes DEF Invoke
  <2> QED  BY <1>8, <2>1 DEF Invoke
<1>9. CASE ReadRequest
  <2>1. Head(requests) \in Calls /\ Tail(requests) \in Seq(Calls)
    BY <1>9, Pops DEF ReadRequest
  <2> QED  BY <1>9, <2>1 DEF ReadRequest
<1>10. ASSUME NEW c \in Calls, Handle(c) PROVE PipeTypeOK'
  <2>1. At("reply", Latest) \in [pc : {"idle", "handling", "reply"}, state : 0 .. MaxEvents]
    BY LatestTyped DEF At
  <2> QED  BY <1>10, <2>1 DEF Handle
<1>11. ASSUME NEW c \in Calls, SendReply(c) PROVE PipeTypeOK'
  <2>1. Frame(c, server[c].state) \in Frames
    BY DEF Frame, Frames
  <2>2. server' \in [Calls -> [pc : {"idle", "handling", "reply"}, state : 0 .. MaxEvents]]
    BY <1>11 DEF SendReply, Nowhere, At
  <2> QED  BY <1>11, <2>1, <2>2, Pushes DEF SendReply
<1>12. CASE Receive
  <2>1. Head(wire) \in Frames /\ Tail(wire) \in Seq(Frames)
    BY <1>12, Pops DEF Receive
  <2>2. CASE Head(wire).call = None
    <3>1. Head(wire).state \in 0 .. MaxEvents
      BY <2>1 DEF Frames
    <3>2. /\ view' \in {view, Head(wire).state} /\ seen' = Head(wire).state
          /\ UNCHANGED call
      BY <1>12, <2>2 DEF Receive
    <3> QED  BY <1>12, <2>1, <3>1, <3>2 DEF Receive
  <2>3. CASE Head(wire).call # None
    <3> DEFINE f == Head(wire)
               r == IF call[f.call].pc = "pending" THEN At("got", f.state) ELSE call[f.call]
    <3>1. f.call \in Calls /\ f.state \in 0 .. MaxEvents
      BY <2>1, <2>3 DEF Frames
    <3>2. r \in [pc : {"idle", "pending", "got"}, state : 0 .. MaxEvents]
      BY <3>1 DEF At
    <3>3. call' = [call EXCEPT ![f.call] = r]
      BY <1>12, <2>3 DEF Receive
    <3>4. call' \in [Calls -> [pc : {"idle", "pending", "got"}, state : 0 .. MaxEvents]]
      <4> HIDE DEF f, r
      <4> QED  BY <3>1, <3>2, <3>3
    <3> QED  BY <1>12, <2>1, <2>3, <3>4 DEF Receive
  <2> QED  BY <2>2, <2>3
<1>13. ASSUME NEW c \in Calls, ShowReply(c) PROVE PipeTypeOK'
  <2>1. call' \in [Calls -> [pc : {"idle", "pending", "got"}, state : 0 .. MaxEvents]]
    BY <1>13 DEF ShowReply, Nowhere, At
  <2> QED  BY <1>13, <2>1 DEF ShowReply
<1>14. CASE UNCHANGED pipeVars
  BY <1>14 DEF pipeVars
<1> QED
  BY <1>1, <1>2, <1>3, <1>4, <1>5, <1>6, <1>7, <1>8, <1>9, <1>10, <1>11, <1>12, <1>13, <1>14
  DEF PipeNext, ServerStep

\* Every reachable state of the pipe is well typed; no reply or event tells a state
\* the service has not been in (server.rs, NetworkServiceClient.cs).
THEOREM PipeTypes == PipeSpec => []PipeTypeOK
<1>1. PipeInit => PipeTypeOK
  <2> SUFFICES ASSUME PipeInit PROVE PipeTypeOK
    OBVIOUS
  <2>1. /\ server \in [Calls -> [pc : {"idle", "handling", "reply"}, state : 0 .. MaxEvents]]
        /\ call \in [Calls -> [pc : {"idle", "pending", "got"}, state : 0 .. MaxEvents]]
    BY PipeAssumption DEF PipeInit, Nowhere, At
  <2>2. {emitted, view, seen} \subseteq 0 .. MaxEvents
    BY PipeAssumption DEF PipeInit
  <2> QED  BY <2>1, <2>2, Empties DEF PipeInit, PipeTypeOK
<1> QED  BY <1>1, PipeTypesStep, PTL DEF PipeSpec

-----------------------------------------------------------------------------
(* Events in order.                                                         *)

Before(A, B) == \A m \in A, n \in B : m < n

\* The stages of Way, pair by pair.
InOrder(s, w, o, h, r, e) ==
  /\ Before(s, w) /\ Before(s, o) /\ Before(s, h) /\ Before(s, r) /\ Before(s, e)
  /\ Before(w, o) /\ Before(w, h) /\ Before(w, r) /\ Before(w, e)
  /\ Before(o, h) /\ Before(o, r) /\ Before(o, e)
  /\ Before(h, r) /\ Before(h, e) /\ Before(r, e)

Waiting == IF ring = None THEN {} ELSE ToSet(ring)
RisingRing == ring # None => \A i, k \in DOMAIN ring : i < k => ring[i] < ring[k]

Ordered ==
  /\ InOrder({seen}, Told(wire), Told(outbox), {held} \ {None}, Waiting, {emitted + 1})
  /\ Rising(wire) /\ Rising(outbox) /\ RisingRing

LEMMA ToldTyped ==
  ASSUME NEW q \in Seq(Frames)
  PROVE  Told(q) \subseteq Int
<1> SUFFICES ASSUME NEW i \in Of(q, None) PROVE q[i].state \in Int
  BY DEF Told
<1>1. i \in DOMAIN q /\ q[i] \in Frames
  BY DEF Of
<1> QED  BY <1>1, PipeAssumption DEF Frames

LEMMA StagesTyped ==
  ASSUME PipeTypeOK
  PROVE  /\ Told(wire) \subseteq Int /\ Told(outbox) \subseteq Int
         /\ {held} \ {None} \subseteq Int /\ Waiting \subseteq Int
<1>1. Told(wire) \subseteq Int /\ Told(outbox) \subseteq Int
  BY ToldTyped DEF PipeTypeOK
<1>2. {held} \ {None} \subseteq Int
  BY PipeAssumption DEF PipeTypeOK
<1>3. ASSUME ring # None PROVE ToSet(ring) \subseteq Int
  <2>1. ring \in Seq(1 .. MaxEvents)
    BY <1>3 DEF PipeTypeOK
  <2>2. \A i \in DOMAIN ring : ring[i] \in Int
    BY <2>1, PipeAssumption
  <2> QED  BY <2>2 DEF ToSet
<1> QED  BY <1>1, <1>2, <1>3 DEF Waiting

LEMMA OrderedIs == Ordered <=> EventsInOrder
<1> DEFINE w == <<{seen}, Told(wire), Told(outbox), {held} \ {None}, Waiting, {emitted + 1}>>
<1>1. Way = w
  BY DEF Way, Waiting
<1>2. ASSUME NEW s1, NEW s2, NEW s3, NEW s4, NEW s5, NEW s6
      PROVE  InOrder(s1, s2, s3, s4, s5, s6)
             <=> \A a, b \in DOMAIN <<s1, s2, s3, s4, s5, s6>> : a < b =>
                   Before(<<s1, s2, s3, s4, s5, s6>>[a], <<s1, s2, s3, s4, s5, s6>>[b])
  BY DEF InOrder
<1>3. InOrder({seen}, Told(wire), Told(outbox), {held} \ {None}, Waiting, {emitted + 1})
      <=> \A a, b \in DOMAIN Way : a < b => Before(Way[a], Way[b])
  BY <1>1, <1>2
<1> QED  BY <1>3 DEF Ordered, EventsInOrder, RisingRing, Before

\* A frame that joins a queue, and one that leaves it.
LEMMA ToldPushes ==
  ASSUME NEW q \in Seq(Frames), NEW f \in Frames
  PROVE  /\ f.call = None => Told(Append(q, f)) = Told(q) \cup {f.state}
         /\ f.call # None => Told(Append(q, f)) = Told(q)
         /\ Rising(q) /\ (f.call = None => Before(Told(q), {f.state})) => Rising(Append(q, f))
<1> DEFINE p == Append(q, f)
<1>1. /\ Len(q) \in Nat /\ DOMAIN q = 1 .. Len(q) /\ DOMAIN p = 1 .. Len(q) + 1
      /\ \A i \in DOMAIN q : p[i] = q[i]
      /\ p[Len(q) + 1] = f
  BY Pushes
<1> HIDE DEF p
<1>2. /\ f.call = None => Of(p, None) = Of(q, None) \cup {Len(q) + 1}
      /\ f.call # None => Of(p, None) = Of(q, None)
  BY <1>1 DEF Of
<1>3. \A i \in Of(q, None) : i \in 1 .. Len(q) /\ p[i] = q[i] /\ q[i].state \in Told(q)
  BY <1>1 DEF Of, Told
<1>4. CASE f.call = None
  <2>1. Told(p) = Told(q) \cup {f.state}
    BY <1>1, <1>2, <1>3, <1>4 DEF Told
  <2>2. ASSUME Rising(q), Before(Told(q), {f.state}) PROVE Rising(p)
    BY <1>1, <1>2, <1>3, <1>4, <2>2 DEF Rising, Before
  <2> QED  BY <1>4, <2>1, <2>2 DEF p
<1>5. CASE f.call # None
  <2>1. Told(p) = Told(q)
    BY <1>2, <1>3, <1>5 DEF Told
  <2>2. ASSUME Rising(q) PROVE Rising(p)
    BY <1>2, <1>3, <1>5, <2>2 DEF Rising
  <2> QED  BY <1>5, <2>1, <2>2 DEF p
<1> QED  BY <1>4, <1>5

LEMMA ToldPops ==
  ASSUME NEW q \in Seq(Frames), q # <<>>
  PROVE  /\ Told(Tail(q)) \subseteq Told(q)
         /\ Head(q).call = None => Head(q).state \in Told(q)
         /\ Rising(q) => Rising(Tail(q))
         /\ Rising(q) /\ Head(q).call = None => Before({Head(q).state}, Told(Tail(q)))
<1> DEFINE t == Tail(q)
<1>1. /\ Len(q) \in Nat \ {0} /\ Head(q) = q[1]
      /\ DOMAIN t = 1 .. Len(q) - 1 /\ DOMAIN q = 1 .. Len(q)
      /\ \A i \in DOMAIN t : i + 1 \in DOMAIN q /\ t[i] = q[i + 1]
  BY Pops
<1> HIDE DEF t
<1>2. \A i \in Of(t, None) : i \in Nat \ {0} /\ i + 1 \in Of(q, None) /\ t[i] = q[i + 1]
  BY <1>1 DEF Of
<1>3. Told(t) \subseteq Told(q)
  BY <1>2 DEF Told
<1>4. Head(q).call = None => 1 \in Of(q, None)
  BY <1>1 DEF Of
<1>5. Head(q).call = None => Head(q).state \in Told(q)
  BY <1>1, <1>4 DEF Told
<1>6. Rising(q) => Rising(t)
  BY <1>2 DEF Rising
<1>7. ASSUME Rising(q), Head(q).call = None PROVE Before({Head(q).state}, Told(t))
  <2> SUFFICES ASSUME NEW i \in Of(t, None) PROVE Head(q).state < t[i].state
    BY DEF Before, Told
  <2>1. 1 < i + 1
    BY <1>2
  <2> QED  BY <1>1, <1>2, <1>4, <1>7, <2>1 DEF Rising
<1> QED  BY <1>3, <1>5, <1>6, <1>7 DEF t

\* An event that joins the bus.
LEMMA RingPushes ==
  ASSUME NEW q \in Seq(1 .. MaxEvents), NEW n \in 1 .. MaxEvents,
         Before(ToSet(q), {n}), \A i, k \in DOMAIN q : i < k => q[i] < q[k]
  PROVE  /\ ToSet(Pushed(q, n)) \subseteq ToSet(q) \cup {n}
         /\ \A i, k \in DOMAIN Pushed(q, n) : i < k => Pushed(q, n)[i] < Pushed(q, n)[k]
<1>1. PICK t \in Seq(1 .. MaxEvents) :
        /\ Pushed(q, n) = Append(t, n) /\ ToSet(t) \subseteq ToSet(q)
        /\ \A i, k \in DOMAIN t : i < k => t[i] < t[k]
  <2>1. CASE Len(q) = RingCap
    <3>1. q # <<>>
      BY <2>1, PipeAssumption
    <3>2. Tail(q) \in Seq(1 .. MaxEvents) /\ Pushed(q, n) = Append(Tail(q), n)
      BY <2>1, <3>1, Pops DEF Pushed
    <3>3. ToSet(Tail(q)) \subseteq ToSet(q)
      BY <3>1, Pops DEF ToSet
    <3>4. \A i, k \in DOMAIN Tail(q) : i < k => Tail(q)[i] < Tail(q)[k]
      BY <3>1, Pops
    <3> QED  BY <3>2, <3>3, <3>4
  <2>2. CASE Len(q) # RingCap
    BY <2>2 DEF Pushed
  <2> QED  BY <2>1, <2>2
<1>2. /\ Len(t) \in Nat /\ DOMAIN t = 1 .. Len(t) /\ DOMAIN Append(t, n) = 1 .. Len(t) + 1
      /\ \A i \in DOMAIN t : Append(t, n)[i] = t[i]
      /\ Append(t, n)[Len(t) + 1] = n
  BY Pushes
<1>3. \A i \in DOMAIN t : t[i] \in ToSet(q)
  BY <1>1 DEF ToSet
<1>4. ToSet(Append(t, n)) \subseteq ToSet(q) \cup {n}
  <2> SUFFICES ASSUME NEW i \in DOMAIN Append(t, n)
               PROVE  Append(t, n)[i] \in ToSet(q) \cup {n}
    BY DEF ToSet
  <2> QED  BY <1>2, <1>3
<1>5. ASSUME NEW i \in DOMAIN Append(t, n), NEW k \in DOMAIN Append(t, n), i < k
      PROVE  Append(t, n)[i] < Append(t, n)[k]
  <2>1. i \in DOMAIN t
    BY <1>2, <1>5
  <2>2. CASE k \in DOMAIN t
    BY <1>1, <1>2, <1>5, <2>1, <2>2
  <2>3. CASE k = Len(t) + 1
    BY <1>2, <1>3, <2>1, <2>3 DEF Before
  <2> QED  BY <1>2, <2>2, <2>3
<1> QED  BY <1>1, <1>4, <1>5

LEMMA OrderedStep ==
  ASSUME PipeTypeOK, PipeTypeOK', Ordered, [PipeNext]_pipeVars
  PROVE  Ordered'
<1> USE DEF events, toClient, clientVars
<1>0. /\ wire \in Seq(Frames) /\ outbox \in Seq(Frames)
      /\ emitted \in Nat /\ seen \in Nat
      /\ ring # None => ring \in Seq(1 .. MaxEvents)
  BY PipeAssumption DEF PipeTypeOK
<1>1. CASE Connect
  <2>1. seen < emitted + 1 /\ seen' = 0
    BY <1>1 DEF Connect, Ordered, InOrder, Before
  <2>2. UNCHANGED <<Told(wire), Told(outbox), {held} \ {None}, Waiting, emitted, Rising(wire),
                    Rising(outbox), RisingRing>>
    BY <1>1 DEF Connect, Told, Of, Waiting, Rising, RisingRing
  <2>3. \A A : Before({seen}, A) /\ A \subseteq Int => Before({seen'}, A)
    BY <1>0, <2>1 DEF Before
  <2>4. Told(wire) \subseteq Int /\ Told(outbox) \subseteq Int /\ {held} \ {None} \subseteq Int
        /\ Waiting \subseteq Int /\ {emitted + 1} \subseteq Int
    BY <1>0, StagesTyped
  <2> QED  BY <2>2, <2>3, <2>4 DEF Ordered, InOrder
<1>2. CASE Subscribe
  <2>1. Waiting = {} /\ Waiting' = {} /\ RisingRing'
    BY <1>2, Empties DEF Subscribe, Waiting, RisingRing, ToSet
  <2>2. UNCHANGED <<wire, outbox, held, seen, emitted>>
    BY <1>2 DEF Subscribe
  <2> QED  BY <2>1, <2>2 DEF Ordered, InOrder, Told, Of, Rising
<1>3. CASE Drop
  <2>1. Told(wire)' = {} /\ Told(outbox)' = {} /\ Waiting' = {} /\ ({held} \ {None})' = {}
        /\ UNCHANGED <<seen, emitted>>
    BY <1>3, Empties DEF Drop, Told, Of, Waiting
  <2>2. Rising(wire)' /\ Rising(outbox)' /\ RisingRing'
    BY <1>3, Empties DEF Drop, Rising, Of, RisingRing
  <2> QED  BY <2>1, <2>2 DEF Ordered, InOrder, Before
<1>4. CASE Emit
  <2> DEFINE n == emitted + 1
  <2>1. emitted' = n /\ UNCHANGED <<wire, outbox, held, seen>>
    BY <1>4 DEF Emit
  <2>2. Waiting' \subseteq Waiting \cup {n} /\ RisingRing'
    <3>1. CASE ring = None
      BY <1>4, <3>1 DEF Emit, Waiting, RisingRing
    <3>2. CASE ring # None
      <4>1. ring \in Seq(1 .. MaxEvents) /\ ring' = Pushed(ring, n)
        BY <1>0, <1>4, <3>2 DEF Emit
      <4>2. n \in 1 .. MaxEvents
        BY <1>0, <1>4, PipeAssumption DEF Emit
      <4>3. Before(ToSet(ring), {n}) /\ \A i, k \in DOMAIN ring : i < k => ring[i] < ring[k]
        BY <3>2 DEF Ordered, InOrder, Waiting, RisingRing
      <4>4. ToSet(Pushed(ring, n)) \subseteq ToSet(ring) \cup {n}
            /\ \A i, k \in DOMAIN Pushed(ring, n) :
                 i < k => Pushed(ring, n)[i] < Pushed(ring, n)[k]
        BY <4>1, <4>2, <4>3, RingPushes
      <4> QED  BY <3>2, <4>1, <4>4 DEF Waiting, RisingRing
    <3> QED  BY <3>1, <3>2
  <2>3. \A A : Before(A, {n}) /\ A \subseteq Int => Before(A, {n + 1})
    BY <1>0 DEF Before
  <2>4. Told(wire) \subseteq Int /\ Told(outbox) \subseteq Int /\ {held} \ {None} \subseteq Int
        /\ Waiting \subseteq Int /\ {seen} \subseteq Int /\ Before({n}, {n + 1})
    BY <1>0, StagesTyped DEF Before
  <2>5. UNCHANGED <<Told(wire), Told(outbox), Rising(wire), Rising(outbox)>>
    BY <2>1 DEF Told, Of, Rising
  <2>6. \A A : Before(A, Waiting) /\ Before(A, {n}) => Before(A, Waiting')
    BY <2>2 DEF Before
  <2>7. \A A : Before(Waiting, A) /\ Before({n}, A) => Before(Waiting', A)
    BY <2>2 DEF Before
  <2> QED  BY <2>1, <2>2, <2>3, <2>4, <2>5, <2>6, <2>7 DEF Ordered, InOrder
<1>5. CASE TakeEvent
  <2>1. ring \in Seq(1 .. MaxEvents) /\ ring # <<>> /\ held = None
    BY <1>0, <1>5 DEF TakeEvent
  <2>2. /\ held' = ring[1] /\ ring' = Tail(ring) /\ ring' # None /\ ring # None
        /\ UNCHANGED <<wire, outbox, seen, emitted>>
    BY <1>5, <2>1, Pops, NoneIsNone DEF TakeEvent
  <2>3. held' \in Waiting /\ Waiting' \subseteq Waiting
    BY <2>1, <2>2, Pops DEF Waiting, ToSet
  <2>4. Before({held'}, Waiting') /\ RisingRing'
    BY <2>1, <2>2, Pops DEF Waiting, ToSet, Ordered, RisingRing, Before
  <2>5. UNCHANGED <<Told(wire), Told(outbox), Rising(wire), Rising(outbox)>>
    BY <2>2 DEF Told, Of, Rising
  <2>6. ({held} \ {None})' \subseteq {held'}
    OBVIOUS
  <2> QED  BY <2>2, <2>3, <2>4, <2>5, <2>6 DEF Ordered, InOrder, Before
<1>6. CASE ForwardEvent
  <2> DEFINE f == Frame(None, held)
  <2>1. f \in Frames /\ f.call = None /\ f.state = held /\ held # None
    BY <1>6, PipeAssumption DEF ForwardEvent, Frame, Frames, PipeTypeOK
  <2>2. outbox' = Append(outbox, f) /\ held' = None /\ UNCHANGED <<wire, ring, seen, emitted>>
    BY <1>6 DEF ForwardEvent
  <2>3. Before(Told(outbox), {held})
    BY <2>1 DEF Ordered, InOrder
  <2>4. Told(outbox)' = Told(outbox) \cup {held} /\ Rising(outbox)'
    <3>1. Told(outbox)' = Told(Append(outbox, f)) /\ (Rising(outbox)' <=> Rising(Append(outbox, f)))
      BY <2>2 DEF Told, Rising, Of
    <3>2. f \in Frames /\ f.call = None /\ f.state = held /\ Rising(outbox)
      BY <2>1 DEF Ordered
    <3> HIDE DEF f
    <3> QED  BY <1>0, <2>3, <3>1, <3>2, ToldPushes
  <2>5. UNCHANGED <<Told(wire), Rising(wire), Waiting, RisingRing>>
    BY <2>2 DEF Told, Of, Rising, Waiting, RisingRing
  <2> QED  BY <2>1, <2>2, <2>4, <2>5 DEF Ordered, InOrder, Before
<1>7. CASE WriteFrame
  <2> DEFINE f == Head(outbox)
  <2>1. /\ outbox # <<>> /\ outbox' = Tail(outbox) /\ wire' = Append(wire, f)
        /\ UNCHANGED <<held, ring, seen, emitted>>
    BY <1>7 DEF WriteFrame
  <2>2. f \in Frames
    BY <1>0, <2>1, Pops
  <2>3. /\ Told(outbox)' \subseteq Told(outbox) /\ Rising(outbox)'
        /\ f.call = None => f.state \in Told(outbox) /\ Before({f.state}, Told(outbox)')
    <3>1. Told(outbox)' = Told(Tail(outbox)) /\ (Rising(outbox)' <=> Rising(Tail(outbox)))
      BY <2>1 DEF Told, Rising, Of
    <3>2. outbox # <<>> /\ Rising(outbox)
      BY <2>1 DEF Ordered
    <3> QED  BY <1>0, <3>1, <3>2, ToldPops
  <2>4. f.call = None => Before(Told(wire), {f.state})
    BY <2>3 DEF Ordered, InOrder, Before
  <2>5. /\ f.call = None => Told(wire)' = Told(wire) \cup {f.state}
        /\ f.call # None => Told(wire)' = Told(wire)
        /\ Rising(wire)'
    <3> HIDE DEF f
    <3>1. wire' = Append(wire, f) /\ Rising(wire)
      BY <2>1 DEF Ordered
    <3>2. Told(wire)' = Told(Append(wire, f)) /\ (Rising(wire)' <=> Rising(Append(wire, f)))
      BY <3>1 DEF Told, Rising, Of
    <3> QED  BY <1>0, <2>2, <2>4, <3>1, <3>2, ToldPushes
  <2>6. UNCHANGED <<Waiting, RisingRing>>
    BY <2>1 DEF Waiting, RisingRing
  <2> HIDE DEF f
  <2> QED  BY <2>1, <2>3, <2>4, <2>5, <2>6 DEF Ordered, InOrder, Before
<1>8. ASSUME NEW c \in Calls, SendReply(c) PROVE Ordered'
  <2> DEFINE f == Frame(c, server[c].state)
  <2>1. f \in Frames /\ f.call # None
    BY NoneIsNone DEF Frame, Frames, PipeTypeOK
  <2>2. outbox' = Append(outbox, f) /\ UNCHANGED <<wire, held, ring, seen, emitted>>
    BY <1>8 DEF SendReply
  <2>3. Told(outbox)' = Told(outbox) /\ Rising(outbox)'
    <3>1. Told(outbox)' = Told(Append(outbox, f)) /\ (Rising(outbox)' <=> Rising(Append(outbox, f)))
      BY <2>2 DEF Told, Rising, Of
    <3>2. Rising(outbox)
      BY DEF Ordered
    <3> HIDE DEF f
    <3> QED  BY <1>0, <2>1, <3>1, <3>2, ToldPushes
  <2>4. UNCHANGED <<Told(wire), Rising(wire), Waiting, RisingRing>>
    BY <2>2 DEF Told, Of, Rising, Waiting, RisingRing
  <2> QED  BY <2>2, <2>3, <2>4 DEF Ordered, InOrder
<1>9. CASE Receive
  <2> DEFINE f == Head(wire)
  <2>1. wire # <<>> /\ wire' = Tail(wire) /\ UNCHANGED <<outbox, held, ring, emitted>>
    BY <1>9 DEF Receive
  <2>2. /\ Told(wire)' \subseteq Told(wire) /\ Rising(wire)'
        /\ f.call = None => f.state \in Told(wire) /\ Before({f.state}, Told(wire)')
    <3>1. Told(wire)' = Told(Tail(wire)) /\ (Rising(wire)' <=> Rising(Tail(wire)))
      BY <2>1 DEF Told, Rising, Of
    <3>2. wire # <<>> /\ Rising(wire)
      BY <2>1 DEF Ordered
    <3> QED  BY <1>0, <3>1, <3>2, ToldPops
  <2>3. /\ f.call = None => seen' = f.state
        /\ f.call # None => seen' = seen
    BY <1>9 DEF Receive
  <2>4. UNCHANGED <<Told(outbox), Rising(outbox), Waiting, RisingRing>>
    BY <2>1 DEF Told, Of, Rising, Waiting, RisingRing
  <2> HIDE DEF f
  <2> QED  BY <2>1, <2>2, <2>3, <2>4 DEF Ordered, InOrder, Before
<1>10. CASE UNCHANGED <<emitted, ring, held, outbox, wire, seen>>
  BY <1>10 DEF Ordered, InOrder, Told, Of, Rising, Waiting, RisingRing
<1> QED
  BY <1>1, <1>2, <1>3, <1>4, <1>5, <1>6, <1>7, <1>8, <1>9, <1>10
  DEF PipeNext, ServerStep, Invoke, ReadRequest, Handle, ShowReply, pipeVars

\* Events reach the page in the order they were emitted, each once at most, for any
\* capacity of the bus, of the writer's channel and of the pipe (server.rs).
THEOREM OrderKept == PipeSpec => []EventsInOrder
<1>1. PipeInit => Ordered
  BY Empties DEF PipeInit, Ordered, InOrder, Before, Told, Of, Rising, Waiting, RisingRing
<1>2. PipeTypeOK /\ PipeTypeOK' /\ Ordered /\ [PipeNext]_pipeVars => Ordered'
  BY OrderedStep
<1> QED  BY <1>1, <1>2, OrderedIs, PipeTypes, PTL DEF PipeSpec

-----------------------------------------------------------------------------
(* One reply per call.                                                      *)

Single(S) == \E x : S = {x}

\* Nothing of the call is under way; exactly one thing is.
Absent(c) ==
  Requested(c) = {} /\ Of(outbox, c) = {} /\ Of(wire, c) = {} /\ server[c].pc = "idle"
Once(c) ==
  \/ Single(Requested(c)) /\ Of(outbox, c) = {} /\ Of(wire, c) = {} /\ server[c].pc = "idle"
  \/ Requested(c) = {} /\ Single(Of(outbox, c)) /\ Of(wire, c) = {} /\ server[c].pc = "idle"
  \/ Requested(c) = {} /\ Of(outbox, c) = {} /\ Single(Of(wire, c)) /\ server[c].pc = "idle"
  \/ Requested(c) = {} /\ Of(outbox, c) = {} /\ Of(wire, c) = {} /\ server[c].pc # "idle"

RoutedCall(c) == IF call[c].pc = "pending" /\ c \in asked THEN Once(c) ELSE Absent(c)
Routed == \A c \in Calls : RoutedCall(c)

LEMMA RoutedIs == Routed => OneReplyPerCall
<1> SUFFICES ASSUME NEW c \in Calls, RoutedCall(c)
             PROVE  IF call[c].pc = "pending" /\ c \in asked
                    THEN Cardinality(Places(c)) = 1 ELSE Places(c) = {}
  BY DEF Routed, OneReplyPerCall
<1>1. CASE Absent(c)
  <2>1. Places(c) = {}
    BY <1>1 DEF Absent, Places
  <2>2. ~ Once(c)
    BY <1>1 DEF Absent, Once, Single
  <2> QED  BY <2>1, <2>2 DEF RoutedCall
<1>2. CASE Once(c)
  <2>1. \E p : Places(c) = {p}
    <3>1. CASE Single(Requested(c)) /\ Of(outbox, c) = {} /\ Of(wire, c) = {} /\ server[c].pc = "idle"
      <4> PICK x : Requested(c) = {x}
        BY <3>1 DEF Single
      <4>1. Places(c) = {<<"request", x>>}
        BY <3>1 DEF Places
      <4> QED  BY <4>1
    <3>2. CASE Requested(c) = {} /\ Single(Of(outbox, c)) /\ Of(wire, c) = {} /\ server[c].pc = "idle"
      <4> PICK x : Of(outbox, c) = {x}
        BY <3>2 DEF Single
      <4>1. Places(c) = {<<"outbox", x>>}
        BY <3>2 DEF Places
      <4> QED  BY <4>1
    <3>3. CASE Requested(c) = {} /\ Of(outbox, c) = {} /\ Single(Of(wire, c)) /\ server[c].pc = "idle"
      <4> PICK x : Of(wire, c) = {x}
        BY <3>3 DEF Single
      <4>1. Places(c) = {<<"wire", x>>}
        BY <3>3 DEF Places
      <4> QED  BY <4>1
    <3>4. CASE Requested(c) = {} /\ Of(outbox, c) = {} /\ Of(wire, c) = {} /\ server[c].pc # "idle"
      <4>1. Places(c) = {<<"handler", 0>>}
        BY <3>4 DEF Places
      <4> QED  BY <4>1
    <3> QED  BY <1>2, <3>1, <3>2, <3>3, <3>4 DEF Once
  <2>2. Cardinality(Places(c)) = 1
    BY <2>1, FS_Singleton
  <2>3. ~ Absent(c)
    BY <1>2 DEF Absent, Once, Single
  <2> QED  BY <2>2, <2>3 DEF RoutedCall
<1> QED  BY <1>1, <1>2 DEF RoutedCall

\* The places in a queue of the entries of one kind, as an entry joins and leaves.
Entries(q, T) == {i \in DOMAIN q : q[i] \in T}

LEMMA EntriesPush ==
  ASSUME NEW S, NEW T, NEW q \in Seq(S), NEW f \in S
  PROVE  /\ f \in T /\ Entries(q, T) = {} => Single(Entries(Append(q, f), T))
         /\ f \notin T => Entries(Append(q, f), T) = Entries(q, T)
<1> DEFINE p == Append(q, f)
<1>1. /\ Len(q) \in Nat /\ DOMAIN q = 1 .. Len(q) /\ DOMAIN p = 1 .. Len(q) + 1
      /\ \A i \in DOMAIN q : p[i] = q[i]
      /\ p[Len(q) + 1] = f
  BY Pushes
<1> HIDE DEF p
<1>2. ASSUME f \in T, Entries(q, T) = {} PROVE Entries(p, T) = {Len(q) + 1}
  BY <1>1, <1>2 DEF Entries
<1>3. ASSUME f \notin T PROVE Entries(p, T) = Entries(q, T)
  BY <1>1, <1>3 DEF Entries
<1> QED  BY <1>2, <1>3 DEF Single, p

LEMMA EntriesPop ==
  ASSUME NEW S, NEW T, NEW q \in Seq(S), q # <<>>
  PROVE  /\ Head(q) \in T => /\ Entries(q, T) # {}
                             /\ Single(Entries(q, T)) => Entries(Tail(q), T) = {}
         /\ Head(q) \notin T => /\ Entries(q, T) = {} => Entries(Tail(q), T) = {}
                                /\ Single(Entries(q, T)) => Single(Entries(Tail(q), T))
<1> DEFINE t == Tail(q)
<1>1. /\ Len(q) \in Nat \ {0} /\ Head(q) = q[1]
      /\ DOMAIN t = 1 .. Len(q) - 1 /\ DOMAIN q = 1 .. Len(q)
      /\ \A i \in DOMAIN t : i + 1 \in DOMAIN q /\ t[i] = q[i + 1]
  BY Pops
<1> HIDE DEF t
<1>2. \A i \in Entries(t, T) : i \in Nat \ {0} /\ i + 1 \in Entries(q, T)
  BY <1>1 DEF Entries
<1>3. ASSUME Head(q) \in T PROVE 1 \in Entries(q, T)
  BY <1>1, <1>3 DEF Entries
<1>4. ASSUME Head(q) \in T, Single(Entries(q, T)) PROVE Entries(t, T) = {}
  <2> SUFFICES ASSUME NEW i \in Entries(t, T) PROVE FALSE
    OBVIOUS
  <2>1. i + 1 = 1
    BY <1>2, <1>3, <1>4 DEF Single
  <2> QED  BY <1>2, <2>1
<1>5. ASSUME Head(q) \notin T, Single(Entries(q, T)) PROVE Single(Entries(t, T))
  <2> PICK x : Entries(q, T) = {x}
    BY <1>5 DEF Single
  <2>1. x \in 2 .. Len(q) /\ q[x] \in T
    BY <1>1, <1>5 DEF Entries
  <2>2. x - 1 \in Entries(t, T)
    BY <1>1, <2>1 DEF Entries
  <2>3. \A i \in Entries(t, T) : i = x - 1
    BY <1>2, <2>1
  <2> QED  BY <2>2, <2>3 DEF Single
<1> QED  BY <1>2, <1>3, <1>4, <1>5 DEF t

LEMMA OfEntries ==
  ASSUME NEW q \in Seq(Frames), NEW c
  PROVE  Of(q, c) = Entries(q, {f \in Frames : f.call = c})
BY DEF Of, Entries

\* What one queue's step does to the places of a call.
LEMMA OfPush ==
  ASSUME NEW q \in Seq(Frames), NEW f \in Frames, NEW c
  PROVE  /\ f.call = c /\ Of(q, c) = {} => Single(Of(Append(q, f), c))
         /\ f.call # c => Of(Append(q, f), c) = Of(q, c)
<1> DEFINE T == {g \in Frames : g.call = c}
<1>1. Append(q, f) \in Seq(Frames) /\ (f \in T <=> f.call = c)
  BY Pushes
<1>2. Of(q, c) = Entries(q, T) /\ Of(Append(q, f), c) = Entries(Append(q, f), T)
  BY <1>1, OfEntries
<1> HIDE DEF T
<1> QED  BY <1>1, <1>2, EntriesPush

LEMMA OfPop ==
  ASSUME NEW q \in Seq(Frames), q # <<>>, NEW c
  PROVE  /\ Head(q).call = c => /\ Of(q, c) # {}
                                /\ Single(Of(q, c)) => Of(Tail(q), c) = {}
         /\ Head(q).call # c => /\ Of(q, c) = {} => Of(Tail(q), c) = {}
                                /\ Single(Of(q, c)) => Single(Of(Tail(q), c))
<1> DEFINE T == {g \in Frames : g.call = c}
<1>1. Tail(q) \in Seq(Frames) /\ (Head(q) \in T <=> Head(q).call = c)
  BY Pops
<1>2. Of(q, c) = Entries(q, T) /\ Of(Tail(q), c) = Entries(Tail(q), T)
  BY <1>1, OfEntries
<1> HIDE DEF T
<1> QED  BY <1>1, <1>2, EntriesPop

LEMMA RoutedStep ==
  ASSUME PipeTypeOK, Routed, [PipeNext]_pipeVars
  PROVE  Routed'
<1> USE DEF events, toClient, clientVars
<1>0. /\ wire \in Seq(Frames) /\ outbox \in Seq(Frames) /\ requests \in Seq(Calls)
      /\ \A c \in Calls : c # None
  BY NoneIsNone DEF PipeTypeOK
<1> SUFFICES ASSUME NEW c \in Calls PROVE RoutedCall(c)'
  BY DEF Routed
<1>c. RoutedCall(c)
  BY DEF Routed
<1>1. CASE UNCHANGED <<requests, outbox, wire, server, call, asked>>
  BY <1>c, <1>1 DEF RoutedCall, Once, Absent, Requested, Of
<1>2. CASE Drop
  <2>1. Absent(c)'
    BY <1>2, Empties DEF Drop, Absent, Requested, Of, Nowhere, At
  <2>2. c \notin asked'
    BY <1>2 DEF Drop
  <2> QED  BY <2>1, <2>2 DEF RoutedCall
<1>3. CASE ForwardEvent
  <2> DEFINE f == Frame(None, held)
  <2>1. f \in Frames /\ f.call # c
    BY <1>0, <1>3 DEF ForwardEvent, Frame, Frames, PipeTypeOK
  <2>2. outbox' = Append(outbox, f) /\ UNCHANGED <<requests, wire, server, call, asked>>
    BY <1>3 DEF ForwardEvent
  <2> HIDE DEF f
  <2>3. Of(outbox, c)' = Of(Append(outbox, f), c)
    BY <2>2 DEF Of
  <2>4. Of(outbox, c)' = Of(outbox, c)
    BY <1>0, <2>1, <2>3, OfPush
  <2>5. UNCHANGED <<Requested(c), Of(wire, c)>>
    BY <2>2 DEF Requested, Of
  <2> QED  BY <1>c, <2>2, <2>4, <2>5 DEF RoutedCall, Once, Absent
<1>4. CASE WriteFrame
  <2> DEFINE f == Head(outbox)
  <2>1. /\ outbox # <<>> /\ outbox' = Tail(outbox) /\ wire' = Append(wire, f)
        /\ UNCHANGED <<requests, server, call, asked>>
    BY <1>4 DEF WriteFrame
  <2>2. f \in Frames
    BY <1>0, <2>1, Pops
  <2>3. /\ f.call = c => Of(outbox, c) # {} /\ (Single(Of(outbox, c)) => Of(outbox, c)' = {})
        /\ f.call # c => /\ Of(outbox, c) = {} => Of(outbox, c)' = {}
                         /\ Single(Of(outbox, c)) => Single(Of(outbox, c)')
    <3>1. Of(outbox, c)' = Of(Tail(outbox), c)
      BY <2>1 DEF Of
    <3> QED  BY <1>0, <2>1, <3>1, OfPop
  <2> HIDE DEF f
  <2>4. /\ f.call = c /\ Of(wire, c) = {} => Single(Of(wire, c)')
        /\ f.call # c => Of(wire, c)' = Of(wire, c)
    <3>1. Of(wire, c)' = Of(Append(wire, f), c)
      BY <2>1 DEF Of
    <3> QED  BY <1>0, <2>2, <3>1, OfPush
  <2>5. UNCHANGED <<Requested(c), server, call, asked>>
    BY <2>1 DEF Requested
  <2>6. CASE f.call = c
    BY <1>c, <2>3, <2>4, <2>5, <2>6 DEF RoutedCall, Once, Absent
  <2>7. CASE f.call # c
    BY <1>c, <2>3, <2>4, <2>5, <2>7 DEF RoutedCall, Once, Absent
  <2> QED  BY <2>6, <2>7
<1>5. ASSUME NEW d \in Calls, Invoke(d) PROVE RoutedCall(c)'
  <2>1. /\ call[d].pc = "idle" /\ call' = [call EXCEPT ![d].pc = "pending"]
        /\ requests' = Append(requests, d) /\ UNCHANGED <<outbox, wire, server>>
        /\ asked' = asked \cup {d}
    BY <1>5 DEF Invoke
  <2>2. /\ d = c /\ Requested(c) = {} => Single(Requested(c)')
        /\ d # c => Requested(c)' = Requested(c)
    <3>1. Requested(c) = Entries(requests, {c}) /\ Requested(c)' = Entries(Append(requests, d), {c})
      BY <2>1 DEF Requested, Entries
    <3> QED  BY <1>0, <3>1, EntriesPush
  <2>3. UNCHANGED <<Of(outbox, c), Of(wire, c), server>>
    BY <2>1 DEF Of
  <2>4. /\ call'[c].pc = IF c = d THEN "pending" ELSE call[c].pc
        /\ c \in asked' <=> (c = d \/ c \in asked)
    BY <2>1 DEF PipeTypeOK
  <2>5. CASE d = c
    BY <1>c, <2>1, <2>2, <2>3, <2>4, <2>5 DEF RoutedCall, Once, Absent
  <2>6. CASE d # c
    BY <1>c, <2>2, <2>3, <2>4, <2>6 DEF RoutedCall, Once, Absent
  <2> QED  BY <2>5, <2>6
<1>6. CASE ReadRequest
  <2> DEFINE d == Head(requests)
  <2>1. /\ requests # <<>> /\ requests' = Tail(requests) /\ UNCHANGED <<outbox, wire, call, asked>>
        /\ server' = [server EXCEPT ![d].pc = "handling"]
    BY <1>6 DEF ReadRequest
  <2>2. /\ d = c => Requested(c) # {} /\ (Single(Requested(c)) => Requested(c)' = {})
        /\ d # c => /\ Requested(c) = {} => Requested(c)' = {}
                    /\ Single(Requested(c)) => Single(Requested(c)')
    <3> DEFINE A == Entries(requests, {c})
               B == Entries(Tail(requests), {c})
    <3>1. Requested(c) = A /\ Requested(c)' = B
      BY <2>1 DEF Requested, Entries
    <3>2. /\ d \in {c} => A # {} /\ (Single(A) => B = {})
          /\ d \notin {c} => (A = {} => B = {}) /\ (Single(A) => Single(B))
      BY <1>0, <2>1, EntriesPop
    <3>3. (d \in {c}) <=> (d = c)
      OBVIOUS
    <3> HIDE DEF A, B, d
    <3>4. CASE d = c
      BY <3>1, <3>2, <3>3, <3>4
    <3>5. CASE d # c
      <4>1. (A = {} => B = {}) /\ (Single(A) => Single(B))
        BY <3>2, <3>3, <3>5
      <4>2. Single(Requested(c)') <=> Single(B)
        BY <3>1
      <4>3. Single(Requested(c)) <=> Single(A)
        BY <3>1
      <4> QED  BY <3>1, <3>5, <4>1, <4>2, <4>3
    <3> QED  BY <3>4, <3>5
  <2>3. server'[c].pc = IF c = d THEN "handling" ELSE server[c].pc
    BY <1>0, <2>1, Pops DEF PipeTypeOK
  <2>4. UNCHANGED <<Of(outbox, c), Of(wire, c), call, asked>>
    BY <2>1 DEF Of
  <2> HIDE DEF d
  <2>5. CASE d = c
    BY <1>c, <2>2, <2>3, <2>4, <2>5 DEF RoutedCall, Once, Absent
  <2>6. CASE d # c
    BY <1>c, <2>2, <2>3, <2>4, <2>6 DEF RoutedCall, Once, Absent
  <2> QED  BY <2>5, <2>6
<1>7. ASSUME NEW d \in Calls, Handle(d) PROVE RoutedCall(c)'
  <2>1. (server'[c].pc = "idle") <=> (server[c].pc = "idle")
    BY <1>7 DEF Handle, At, PipeTypeOK
  <2>2. UNCHANGED <<Requested(c), Of(outbox, c), Of(wire, c), call, asked>>
    BY <1>7 DEF Handle, Requested, Of
  <2> QED  BY <1>c, <2>1, <2>2 DEF RoutedCall, Once, Absent
<1>8. ASSUME NEW d \in Calls, SendReply(d) PROVE RoutedCall(c)'
  <2> DEFINE f == Frame(d, server[d].state)
  <2>1. f \in Frames /\ f.call = d
    BY DEF Frame, Frames, PipeTypeOK
  <2>2. /\ server[d].pc = "reply" /\ server' = [server EXCEPT ![d] = Nowhere]
        /\ outbox' = Append(outbox, f) /\ UNCHANGED <<requests, wire, call, asked>>
    BY <1>8 DEF SendReply
  <2> HIDE DEF f
  <2>3. /\ d = c /\ Of(outbox, c) = {} => Single(Of(outbox, c)')
        /\ d # c => Of(outbox, c)' = Of(outbox, c)
    <3>1. Of(outbox, c)' = Of(Append(outbox, f), c)
      BY <2>2 DEF Of
    <3> QED  BY <1>0, <2>1, <3>1, OfPush
  <2>4. server'[c].pc = IF c = d THEN "idle" ELSE server[c].pc
    BY <2>2 DEF Nowhere, At, PipeTypeOK
  <2>5. UNCHANGED <<Requested(c), Of(wire, c), call, asked>>
    BY <2>2 DEF Requested, Of
  <2>6. CASE d = c
    BY <1>c, <2>2, <2>3, <2>4, <2>5, <2>6 DEF RoutedCall, Once, Absent
  <2>7. CASE d # c
    BY <1>c, <2>3, <2>4, <2>5, <2>7 DEF RoutedCall, Once, Absent
  <2> QED  BY <2>6, <2>7
<1>9. CASE Receive
  <2> DEFINE f == Head(wire)
  <2>1. wire # <<>> /\ wire' = Tail(wire) /\ UNCHANGED <<requests, outbox, server, asked>>
    BY <1>9 DEF Receive
  <2>2. /\ f.call = c => Of(wire, c) # {} /\ (Single(Of(wire, c)) => Of(wire, c)' = {})
        /\ f.call # c => /\ Of(wire, c) = {} => Of(wire, c)' = {}
                         /\ Single(Of(wire, c)) => Single(Of(wire, c)')
    <3>1. Of(wire, c)' = Of(Tail(wire), c)
      BY <2>1 DEF Of
    <3> QED  BY <1>0, <2>1, <3>1, OfPop
  <2>3. f.call # c => call'[c].pc = call[c].pc
    BY <1>9 DEF Receive, PipeTypeOK
  <2>4. f.call = c /\ call[c].pc = "pending" => call'[c].pc = "got"
    BY <1>0, <1>9 DEF Receive, PipeTypeOK, At
  <2>5. UNCHANGED <<Requested(c), Of(outbox, c), server, asked>>
    BY <2>1 DEF Requested, Of
  <2> HIDE DEF f
  <2>6. CASE f.call = c
    <3>1. call[c].pc = "pending" /\ Once(c) /\ Single(Of(wire, c))
      BY <1>c, <2>2, <2>6 DEF RoutedCall, Once, Absent
    <3>2. Absent(c)'
      BY <2>2, <2>5, <2>6, <3>1 DEF Once, Absent
    <3> QED  BY <2>4, <2>6, <3>1, <3>2 DEF RoutedCall
  <2>7. CASE f.call # c
    BY <1>c, <2>2, <2>3, <2>5, <2>7 DEF RoutedCall, Once, Absent
  <2> QED  BY <2>6, <2>7
<1>10. ASSUME NEW d \in Calls, ShowReply(d) PROVE RoutedCall(c)'
  <2>1. (call'[c].pc = "pending") <=> (call[c].pc = "pending")
    BY <1>10 DEF ShowReply, Nowhere, At, PipeTypeOK
  <2>2. UNCHANGED <<Requested(c), Of(outbox, c), Of(wire, c), server, asked>>
    BY <1>10 DEF ShowReply, Requested, Of
  <2> QED  BY <1>c, <2>1, <2>2 DEF RoutedCall, Once, Absent
<1> QED
  BY <1>1, <1>2, <1>3, <1>4, <1>5, <1>6, <1>7, <1>8, <1>9, <1>10
  DEF PipeNext, ServerStep, Connect, Subscribe, Emit, TakeEvent, pipeVars

\* For any number of calls in flight, whatever the pipe's capacities and however often
\* it breaks, a pending call of the open connection has exactly one reply to come, and no
\* other call has any.
THEOREM RepliesMatch == PipeSpec => []OneReplyPerCall
<1>1. PipeInit => Routed
  BY Empties DEF PipeInit, Routed, RoutedCall, Absent, Requested, Of, Nowhere, At
<1>2. PipeTypeOK /\ Routed /\ [PipeNext]_pipeVars => Routed'
  BY RoutedStep
<1> QED  BY <1>1, <1>2, RoutedIs, PipeTypes, PTL DEF PipeSpec

-----------------------------------------------------------------------------
(* Host.                                                                    *)

USE HostAssumption

TaskRecord ==
  [pc : {"idle", "ensure", "subscribe", "connect", "dial"}, on : Clients \cup {None},
   again : BOOLEAN]

LEMMA TaskTypes ==
  /\ NoTask \in TaskRecord /\ NoTask.pc = "idle"
  /\ \A r \in BOOLEAN :
       [pc |-> "ensure", on |-> None, again |-> r] \in TaskRecord
  /\ [NoTask EXCEPT !.pc = "ensure"] \in TaskRecord
  /\ [NoTask EXCEPT !.pc = "ensure"].pc = "ensure"
BY DEF NoTask, TaskRecord

LEMMA HostTypesInit == HostInit => HostTypeOK
<1> SUFFICES ASSUME HostInit PROVE HostTypeOK
  OBVIOUS
<1>1. client \in [Clients -> [subs : Nat, conn : BOOLEAN, old : Nat]]
  BY DEF HostInit, Unused
<1>2. task \in [Tasks -> TaskRecord] /\ \A t \in Tasks : task[t].pc = "idle"
  BY TaskTypes DEF HostInit
<1> QED  BY <1>1, <1>2 DEF HostInit, HostTypeOK, Busy, TaskRecord

\* What a dial and the end of an older pipe make of an object.
LEMMA ObjectSteps ==
  ASSUME NEW r \in [subs : Nat, conn : BOOLEAN, old : Nat]
  PROVE  /\ [r EXCEPT !.conn = TRUE, !.old = IF r.conn THEN @ + 1 ELSE @]
              \in [subs : Nat, conn : BOOLEAN, old : Nat]
         /\ r.old > 0 => [r EXCEPT !.old = @ - 1] \in [subs : Nat, conn : BOOLEAN, old : Nat]
         /\ [r EXCEPT !.conn = FALSE] \in [subs : Nat, conn : BOOLEAN, old : Nat]
<1>1. ASSUME NEW k \in Nat, NEW b \in BOOLEAN
      PROVE  [r EXCEPT !.conn = b, !.old = k] \in [subs : Nat, conn : BOOLEAN, old : Nat]
  OBVIOUS
<1>2. ASSUME NEW k \in Nat
      PROVE  [r EXCEPT !.old = k] \in [subs : Nat, conn : BOOLEAN, old : Nat]
  OBVIOUS
<1>3. (IF r.conn THEN r.old + 1 ELSE r.old) \in Nat /\ (r.old > 0 => r.old - 1 \in Nat)
  OBVIOUS
<1>4. [r EXCEPT !.conn = FALSE] \in [subs : Nat, conn : BOOLEAN, old : Nat]
  OBVIOUS
<1> QED  BY <1>1, <1>2, <1>3, <1>4, Zenon

LEMMA HostTypesStep == HostTypeOK /\ [HostNext]_hostVars => HostTypeOK'
<1> SUFFICES ASSUME HostTypeOK, [HostNext]_hostVars PROVE HostTypeOK'
  OBVIOUS
<1> USE TaskTypes DEF HostTypeOK, Busy, Goes, TaskRecord
<1>1. ASSUME NEW t \in Starters, StartAsync(t) PROVE HostTypeOK'
  BY <1>1 DEF StartAsync, Tasks
<1>2. ASSUME NEW t \in Tasks, Ensure(t) PROVE HostTypeOK'
  <2>1. CASE HasConnection
    BY <1>2, <2>1 DEF Ensure
  <2>2. CASE ~HasConnection
    <3>1. PICK c \in Free : current' = c /\ client' = [client EXCEPT ![c] = Unused]
      BY <1>2, <2>2 DEF Ensure
    <3>2. c \in Clients /\ c # None
      BY DEF Free
    <3>3. client' \in [Clients -> [subs : Nat, conn : BOOLEAN, old : Nat]]
      BY <3>1, <3>2 DEF Unused
    <3>4. task' \in [Tasks -> TaskRecord]
      BY <1>2, <2>2 DEF Ensure
    <3>5. overlapped' \in BOOLEAN
      <4>1. overlapped' = (overlapped \/ \E u \in Tasks \ {t} : task[u].pc \in {"subscribe", "connect", "dial"})
        BY <1>2, <2>2 DEF Ensure
      <4> QED  BY <4>1, Zenon
    <3>6. \A u \in Tasks : task'[u].pc = "dial" => task'[u].on # None
      BY <1>2, <2>2 DEF Ensure
    <3> QED  BY <1>2, <3>1, <3>2, <3>3, <3>4, <3>5, <3>6 DEF Ensure
  <2> QED  BY <2>1, <2>2
<1>3. ASSUME NEW t \in Tasks, AddHandlers(t) PROVE HostTypeOK'
  <2>1. current \in Clients
    BY <1>3 DEF AddHandlers
  <2> QED  BY <1>3, <2>1 DEF AddHandlers
<1>4. ASSUME NEW t \in Tasks, PickForDial(t) PROVE HostTypeOK'
  <2>1. current \in Clients
    BY <1>4 DEF PickForDial
  <2> QED  BY <1>4, <2>1 DEF PickForDial
<1>5. ASSUME NEW t \in Tasks, DialSucceeds(t) PROVE HostTypeOK'
  <2>1. task[t].on \in Clients
    BY <1>5 DEF DialSucceeds
  <2> DEFINE c == task[t].on
             v == [client[c] EXCEPT !.conn = TRUE,
                                    !.old = IF client[c].conn THEN @ + 1 ELSE @]
  <2>2. client' = [client EXCEPT ![c] = v]
    BY <1>5 DEF DialSucceeds
  <2>3. v \in [subs : Nat, conn : BOOLEAN, old : Nat]
    <3>1. client[c] \in [subs : Nat, conn : BOOLEAN, old : Nat]
      BY <2>1
    <3> HIDE DEF c
    <3> QED  BY <3>1, ObjectSteps
  <2> HIDE DEF v
  <2>4. client' \in [Clients -> [subs : Nat, conn : BOOLEAN, old : Nat]]
    BY <2>1, <2>2, <2>3
  <2> HIDE DEF c
  <2> QED  BY <1>5, <2>4 DEF DialSucceeds
<1>6. ASSUME NEW t \in Tasks, DialFails(t) PROVE HostTypeOK'
  BY <1>6 DEF DialFails
<1>7. ASSUME NEW c \in Clients, PipeEnds(c) PROVE HostTypeOK'
  <2>1. client' \in [Clients -> [subs : Nat, conn : BOOLEAN, old : Nat]]
    <3>1. CASE client' = [client EXCEPT ![c].conn = FALSE]
      <4> DEFINE v == [client[c] EXCEPT !.conn = FALSE]
      <4>1. v \in [subs : Nat, conn : BOOLEAN, old : Nat]
        <5>1. client[c] \in [subs : Nat, conn : BOOLEAN, old : Nat]
          OBVIOUS
        <5> QED  BY <5>1, ObjectSteps
      <4>2. client' = [client EXCEPT ![c] = v]
        BY <3>1
      <4> HIDE DEF v
      <4> QED  BY <4>1, <4>2
    <3>2. CASE client[c].old > 0 /\ client' = [client EXCEPT ![c].old = @ - 1]
      <4> DEFINE v == [client[c] EXCEPT !.old = @ - 1]
      <4>1. client[c] \in [subs : Nat, conn : BOOLEAN, old : Nat] /\ client[c].old > 0
        BY <3>2
      <4>2. v \in [subs : Nat, conn : BOOLEAN, old : Nat]
        BY <4>1, ObjectSteps
      <4>3. client' = [client EXCEPT ![c] = v]
        BY <3>2
      <4> HIDE DEF v
      <4> QED  BY <4>2, <4>3
    <3> QED  BY <1>7, <3>1, <3>2 DEF PipeEnds
  <2>2. PICK S \in SUBSET Loops :
          task' = [t \in Tasks |-> IF t \in S THEN [NoTask EXCEPT !.pc = "ensure"] ELSE task[t]]
    BY <1>7 DEF PipeEnds
  <2> QED  BY <1>7, <2>1, <2>2 DEF PipeEnds
<1>8. CASE UNCHANGED hostVars
  BY <1>8 DEF hostVars
<1> QED
  BY <1>1, <1>2, <1>3, <1>4, <1>5, <1>6, <1>7, <1>8 DEF HostNext, HostStep

\* Every reachable state of the host is well typed: no task works on the field
\* before an object is in it (ServiceHost.cs TryEnsurePipeAsync).
THEOREM HostTypes == HostSpec => []HostTypeOK
BY HostTypesInit, HostTypesStep, PTL DEF HostSpec

-----------------------------------------------------------------------------
(* The single connection.                                                   *)

LEMMA OverlapStays ==
  ASSUME [HostNext]_hostVars, overlapped
  PROVE  overlapped'
<1>1. ASSUME NEW t \in Starters, StartAsync(t) PROVE overlapped' = overlapped
  BY <1>1 DEF StartAsync
<1>2. ASSUME NEW t \in Tasks, Ensure(t) PROVE overlapped'
  <2>1. \/ overlapped' = overlapped
        \/ overlapped' = (overlapped \/ \E u \in Tasks \ {t} : Busy(u))
    BY <1>2, Zenon DEF Ensure
  <2> QED  BY <2>1, Zenon
<1>3. ASSUME NEW t \in Tasks, AddHandlers(t) \/ PickForDial(t) \/ DialFails(t)
      PROVE  overlapped' = overlapped
  BY <1>3 DEF AddHandlers, PickForDial, DialFails
<1>4. ASSUME NEW t \in Tasks, DialSucceeds(t) PROVE overlapped' = overlapped
  BY <1>4 DEF DialSucceeds
<1>5. ASSUME NEW c \in Clients, PipeEnds(c) PROVE overlapped' = overlapped
  BY <1>5 DEF PipeEnds
<1>6. CASE UNCHANGED hostVars
  BY <1>6 DEF hostVars
<1> QED
  BY <1>1, <1>2, <1>3, <1>4, <1>5, <1>6, Zenon DEF HostNext, HostStep

LEMMA OneAtWorkStep ==
  HostTypeOK /\ OneAtWork /\ [HostNext]_hostVars => OneAtWork'
<1> SUFFICES ASSUME HostTypeOK, OneAtWork, [HostNext]_hostVars, ~overlapped, ~overlapped'
             PROVE  OneAtWork'
  <2> QED  BY OverlapStays DEF OneAtWork
<1> USE TaskTypes DEF HostTypeOK, OneAtWork, Busy, Goes, TaskRecord
<1>1. ASSUME NEW t \in Starters, StartAsync(t) PROVE OneAtWork'
  BY <1>1 DEF StartAsync, Tasks
<1>2. ASSUME NEW t \in Tasks, Ensure(t) PROVE OneAtWork'
  <2>1. CASE HasConnection
    BY <1>2, <2>1 DEF Ensure
  <2>2. CASE ~HasConnection
    <3>1. PICK c \in Free : current' = c /\ client' = [client EXCEPT ![c] = Unused]
      BY <1>2, <2>2 DEF Ensure
    <3>2. c \in Clients
      BY DEF Free
    <3>3. \A u \in Tasks \ {t} : ~Busy(u)
      BY <1>2, <2>2 DEF Ensure
    <3>4. task' = [task EXCEPT ![t].pc = "subscribe"]
      BY <1>2, <2>2 DEF Ensure
    <3>5. \A d \in Clients : ~client[d].conn
      BY <2>2 DEF HasConnection
    <3>6. \A d \in Clients : client'[d].old = 0 /\ ~client'[d].conn
      BY <3>1, <3>2, <3>5 DEF Unused
    <3>7. \A u \in Tasks : u # t => task'[u] = task[u]
      BY <3>4
    <3>8. task'[t].pc = "subscribe"
      BY <3>4
    <3>9. \A u \in Tasks : Busy(u)' => u = t
      BY <3>3, <3>7
    <3> QED  BY <3>6, <3>8, <3>9
  <2> QED  BY <2>1, <2>2
<1>3. ASSUME NEW t \in Tasks, AddHandlers(t) PROVE OneAtWork'
  BY <1>3 DEF AddHandlers
<1>4. ASSUME NEW t \in Tasks, PickForDial(t) PROVE OneAtWork'
  BY <1>4 DEF PickForDial
<1>5. ASSUME NEW t \in Tasks, DialSucceeds(t) PROVE OneAtWork'
  BY <1>5 DEF DialSucceeds
<1>6. ASSUME NEW t \in Tasks, DialFails(t) PROVE OneAtWork'
  BY <1>6 DEF DialFails
<1>7. ASSUME NEW c \in Clients, PipeEnds(c) PROVE OneAtWork'
  <2>1. client[c].conn /\ client' = [client EXCEPT ![c].conn = FALSE]
    BY <1>7 DEF PipeEnds
  <2>2. PICK S \in SUBSET {l \in Loops : task[l].pc = "idle"} :
          task' = [t \in Tasks |-> IF t \in S THEN [NoTask EXCEPT !.pc = "ensure"] ELSE task[t]]
    BY <1>7 DEF PipeEnds
  <2> QED  BY <1>7, <2>1, <2>2 DEF PipeEnds
<1>8. CASE UNCHANGED hostVars
  BY <1>8 DEF hostVars
<1> QED
  BY <1>1, <1>2, <1>3, <1>4, <1>5, <1>6, <1>7, <1>8 DEF HostNext, HostStep

\* Unless an object was replaced under another task, there is one connection, and it
\* is the one every call uses (ServiceHost.cs:8-9).
THEOREM HostSingle == HostSpec => []SingleUnlessOverlapped
<1>1. HostInit => OneAtWork
  BY DEF HostInit, OneAtWork, Unused, NoTask, Busy
<1>2. HostTypeOK /\ OneAtWork => SingleUnlessOverlapped
  BY DEF HostTypeOK, OneAtWork, SingleUnlessOverlapped, SingleConnection
<1> QED  BY <1>1, <1>2, HostTypes, OneAtWorkStep, PTL DEF HostSpec
=============================================================================
