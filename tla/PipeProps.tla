----------------------------- MODULE PipeProps -----------------------------
(***************************************************************************)
(* Correctness properties of the pipe and of the event bus.                *)
(***************************************************************************)
EXTENDS Pipe

\* Every variable of the pipe has its type.
PipeTypeOK ==
  /\ {emitted, view, seen} \subseteq 0 .. MaxEvents
  /\ changes \subseteq 1 .. emitted /\ asked \subseteq Calls
  /\ open \in BOOLEAN /\ fresh \in BOOLEAN
  /\ ring \in Seq(1 .. MaxEvents) \cup {None} /\ held \in 1 .. MaxEvents \cup {None}
  /\ outbox \in Seq(Frames) /\ wire \in Seq(Frames)
  /\ requests \in Seq(Calls)
  /\ server \in [Calls -> [pc : {"idle", "handling", "reply"}, state : 0 .. MaxEvents]]
  /\ call \in [Calls -> [pc : {"idle", "pending", "got"}, state : 0 .. MaxEvents]]

-----------------------------------------------------------------------------
(* Where calls and events are on their way.                                 *)

Of(q, c) == {i \in DOMAIN q : q[i].call = c}   \* the frames of a call, or the events
Requested(c) == {i \in DOMAIN requests : requests[i] = c}

\* The places a call is in on its way through the service
Places(c) ==
  ({"request"} \X Requested(c)) \cup ({"outbox"} \X Of(outbox, c)) \cup ({"wire"} \X Of(wire, c))
  \cup (IF server[c].pc = "idle" THEN {} ELSE {<<"handler", 0>>})

\* A call that waits for its reply on the connection it was made on has exactly one
\* request, handler or reply under way, and no other call has any: replies are neither
\* lost to a full channel or a panic nor sent twice, and never complete a later call
\* (server.rs request loop, NetworkServiceClient InvokeAsync and ReceiveLoopAsync).
OneReplyPerCall ==
  \A c \in Calls :
    IF call[c].pc = "pending" /\ c \in asked THEN Cardinality(Places(c)) = 1 ELSE Places(c) = {}

Told(q) == {q[i].state : i \in Of(q, None)}
Rising(q) == \A i, k \in Of(q, None) : i < k => q[i].state < q[k].state

\* The events on their way to the client, and those to come, by stage
Way == << {seen}, Told(wire), Told(outbox), {held} \ {None},
          IF ring = None THEN {} ELSE ToSet(ring), {emitted + 1} >>

\* Through the bus, the forwarder, the writer and the pipe, events keep their order
\* and none comes twice, however many are lost to a lag (server.rs event forwarder).
EventsInOrder ==
  /\ \A a, b \in DOMAIN Way : a < b => \A m \in Way[a], n \in Way[b] : m < n
  /\ Rising(wire) /\ Rising(outbox)
  /\ ring # None => \A i, k \in DOMAIN ring : i < k => ring[i] < ring[k]

-----------------------------------------------------------------------------
(* The tasks of the service and of the client run, and every handler ends   *)
(* (RequestsFinish of the connection manager); the forwarder and the        *)
(* handlers wait in line for a place in the channel to the writer.  Nobody  *)
(* has to connect, to call or to emit.                                      *)
PipeFairness ==
  /\ WF_pipeVars(Subscribe \/ ReadRequest) /\ WF_pipeVars(WriteFrame) /\ WF_pipeVars(Receive)
  /\ SF_pipeVars(TakeEvent \/ ForwardEvent)
  /\ \A c \in Calls : SF_pipeVars(Handle(c) \/ SendReply(c)) /\ WF_pipeVars(ShowReply(c))

\* A call is answered unless its connection ends: backpressure of a slow pipe or a
\* burst of events never blocks the replies for good.  A call whose connection has
\* ended stays pending for ever (NetworkServiceClient.cs:111-148).
CallsAnswered == \A c \in Calls : []<>(call[c].pc # "pending" \/ c \notin asked)

\* The page ends up showing the last connection state, when it was emitted on a served
\* connection with no reply to come, and no lag has lost it (server.rs:110-123,
\* HomeViewModel.cs:103-117).  The exception is real: other events share the bus.
LastStateIsShown == []<>(fresh => view = Latest)
=============================================================================
