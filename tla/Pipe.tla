-------------------------------- MODULE Pipe --------------------------------
(***************************************************************************)
(* One pipe connection after the other between the UI and the service: the *)
(* calls of NetworkServiceClient, the tasks of handle_connection, the      *)
(* event bus, and the connection state the UI shows.                       *)
(*                                                                         *)
(* Events are numbered as they are emitted.  Some of them announce a       *)
(* change of the connection state, the others (traffic, probes, logs) share *)
(* the bus with these.  The connection state is named by the number of the *)
(* event that announced it; a call asks for it.  Every queue is bounded    *)
(* and blocks its sender, but for the bus, which drops its oldest event.   *)
(* MaxEvents bounds the run.                                               *)
(***************************************************************************)
EXTENDS Integers, Sequences, SequencesExt, Shared

CONSTANTS
  Calls,       \* calls of the UI that can be under way at once
  RingCap,     \* capacity of the broadcast channel: 256 in the code
  OutCap,      \* capacity of the mpsc channel to the writer: 64 in the code
  WireCap,     \* frames the operating system takes before the writer blocks
  MaxEvents

VARIABLES
  emitted,   \* events emitted so far
  changes,   \* those of them that announce a connection state
  open,      \* the pipe is connected
  ring,      \* None before bus.subscribe, then the events the forwarder has not taken
  held,      \* the event the forwarder is sending to the writer, or None
  outbox,    \* frames queued for the writer
  wire,      \* frames written and not yet read
  requests,  \* requests written and not yet read
  server,    \* per call, at the service: its step and the reply's content
  call,      \* per call, at the client: its step and the reply's content
  asked,     \* history: the calls that were made on the open connection
  view,      \* the state the UI shows
  seen,      \* the last event received on this connection
  fresh      \* history: the last change of state was emitted on a served connection
             \* while no reply was to come, and no lag has lost it

pipeVars == <<emitted, changes, open, ring, held, outbox, wire, requests, server, call, asked,
              view, seen, fresh>>
events == <<emitted, changes>>
toClient == <<ring, held, outbox, wire>>
clientVars == <<call, asked, view, seen>>

ASSUME PipeAssumption ==
  /\ RingCap \in Nat \ {0} /\ OutCap \in Nat \ {0} /\ WireCap \in Nat \ {0}
  /\ MaxEvents \in Nat
  /\ None \notin Calls \cup Nat \cup Seq(Nat)

\* A reply or an event; the state it tells
Frame(c, n) == [call |-> c, state |-> n]
Frames == [call : Calls \cup {None}, state : 0 .. MaxEvents]

\* At the client, pending: registered and waiting; got: the reply has been read but
\* not yet shown
At(pc, n) == [pc |-> pc, state |-> n]
Nowhere == At("idle", 0)

PipeInit ==
  /\ emitted = 0 /\ changes = {} /\ open = FALSE
  /\ ring = None /\ held = None /\ outbox = <<>> /\ wire = <<>> /\ requests = <<>>
  /\ server = [c \in Calls |-> Nowhere]
  /\ call = [c \in Calls |-> Nowhere]
  /\ asked = {} /\ view = 0 /\ seen = 0 /\ fresh = FALSE

-----------------------------------------------------------------------------
(* The connection.                                                          *)

Connect ==
  /\ ~open
  /\ open' = TRUE /\ seen' = 0 /\ fresh' = FALSE
  /\ UNCHANGED <<events, toClient, requests, server, call, asked, view>>

\* handle_connection subscribes: events emitted before are not seen
Subscribe ==
  /\ open /\ ring = None
  /\ ring' = <<>>
  /\ UNCHANGED <<events, open, held, outbox, wire, requests, server, clientVars, fresh>>

\* Either end goes away.  The tasks of the connection are aborted and a handler's
\* reply is discarded.  The receive loop ends and leaves the calls it has not
\* answered pending: no later connection completes them.
Drop ==
  /\ open
  /\ open' = FALSE /\ fresh' = FALSE /\ asked' = {}
  /\ ring' = None /\ held' = None /\ outbox' = <<>> /\ wire' = <<>> /\ requests' = <<>>
  /\ server' = [c \in Calls |-> Nowhere]
  /\ UNCHANGED <<events, call, view, seen>>

-----------------------------------------------------------------------------
(* Events.                                                                  *)

\* Mutant of Pushed: a full channel refuses the event.
PushedOrRefused(q, n) == IF Len(q) = RingCap THEN q ELSE Append(q, n)

\* A subscriber that lags loses its oldest event
Pushed(q, n) == Append(IF Len(q) = RingCap THEN Tail(q) ELSE q, n)

\* The connection state of the service: the last change of it
Latest == Max({0} \cup changes)

\* A reply may still come and be shown
Awaited(c) == call[c].pc = "got" \/ (call[c].pc = "pending" /\ c \in asked)

\* Whether n, the state emitted last, will reach the page: no reply may tell an older
\* one later, and the bus must not drop it before the forwarder takes it
Reaches == ring # None /\ \A c \in Calls : ~ Awaited(c)
Lost(n) == ring # None /\ Len(ring) = RingCap /\ Head(ring) = n

Emit ==
  /\ emitted < MaxEvents
  /\ emitted' = emitted + 1
  /\ ring' = IF ring = None THEN None ELSE Pushed(ring, emitted + 1)
  /\ \/ changes' = changes \cup {emitted + 1} /\ fresh' = Reaches
     \/ changes' = changes /\ fresh' = (fresh /\ ~ Lost(Latest))
  /\ UNCHANGED <<open, held, outbox, wire, requests, server, clientVars>>

\* Mutant of TakeEvent: the event stays in the channel.
PeekEvent ==
  /\ ring \notin {None, <<>>} /\ held = None
  /\ held' = Head(ring)
  /\ UNCHANGED <<events, open, ring, outbox, wire, requests, server, clientVars, fresh>>

TakeEvent ==
  /\ ring \notin {None, <<>>} /\ held = None
  /\ held' = Head(ring) /\ ring' = Tail(ring)
  /\ UNCHANGED <<events, open, outbox, wire, requests, server, clientVars, fresh>>

ForwardEvent ==
  /\ held # None /\ Len(outbox) < OutCap
  /\ outbox' = Append(outbox, Frame(None, held)) /\ held' = None
  /\ UNCHANGED <<events, open, ring, wire, requests, server, clientVars, fresh>>

WriteFrame ==
  /\ outbox # <<>> /\ Len(wire) < WireCap
  /\ wire' = Append(wire, Head(outbox)) /\ outbox' = Tail(outbox)
  /\ UNCHANGED <<events, open, ring, held, requests, server, clientVars, fresh>>

-----------------------------------------------------------------------------
(* Calls.                                                                   *)

\* InvokeAsync on an open pipe; on a closed one the write throws and the call is
\* forgotten, which changes nothing
Invoke(c) ==
  /\ open /\ call[c].pc = "idle"
  /\ call' = [call EXCEPT ![c].pc = "pending"] /\ asked' = asked \cup {c}
  /\ requests' = Append(requests, c)
  /\ UNCHANGED <<events, open, toClient, server, view, seen, fresh>>

\* The request loop gives every request a task of its own
ReadRequest ==
  /\ ring # None /\ requests # <<>>
  /\ server' = [server EXCEPT ![Head(requests)].pc = "handling"]
  /\ requests' = Tail(requests)
  /\ UNCHANGED <<events, open, toClient, clientVars, fresh>>

\* Mutants of Handle: the reply tells a state that is to come; a handler that panics
\* ends without a reply.
HandleAhead(c) ==
  /\ server[c].pc = "handling"
  /\ server' = [server EXCEPT ![c] = At("reply", Latest + 1)]
  /\ UNCHANGED <<events, open, toClient, requests, clientVars, fresh>>
HandleOrPanic(c) ==
  /\ server[c].pc = "handling"
  /\ \E r \in {At("reply", Latest), Nowhere} : server' = [server EXCEPT ![c] = r]
  /\ UNCHANGED <<events, open, toClient, requests, clientVars, fresh>>

\* The handler ends, with a result, an error or a panic: each makes a reply
Handle(c) ==
  /\ server[c].pc = "handling"
  /\ server' = [server EXCEPT ![c] = At("reply", Latest)]
  /\ UNCHANGED <<events, open, toClient, requests, clientVars, fresh>>

\* Mutant of SendReply: try_send, which loses the reply when the channel is full.
TrySendReply(c) ==
  /\ server[c].pc = "reply"
  /\ outbox' = IF Len(outbox) < OutCap THEN Append(outbox, Frame(c, server[c].state)) ELSE outbox
  /\ server' = [server EXCEPT ![c] = Nowhere]
  /\ UNCHANGED <<events, open, ring, held, wire, requests, clientVars, fresh>>

SendReply(c) ==
  /\ server[c].pc = "reply" /\ Len(outbox) < OutCap
  /\ outbox' = Append(outbox, Frame(c, server[c].state))
  /\ server' = [server EXCEPT ![c] = Nowhere]
  /\ UNCHANGED <<events, open, ring, held, wire, requests, clientVars, fresh>>

\* The receive loop: a change of state is shown at once, a reply completes its call and
\* is shown by the task that waits for it, later
Receive ==
  /\ wire # <<>>
  /\ wire' = Tail(wire)
  /\ LET frame == Head(wire)
     IN  IF frame.call = None
         THEN /\ view' = IF frame.state \in changes THEN frame.state ELSE view
              /\ seen' = frame.state /\ UNCHANGED call
         ELSE /\ call' = [call EXCEPT ![frame.call] = IF @.pc = "pending" THEN At("got", frame.state) ELSE @]
              /\ UNCHANGED <<view, seen>>
  /\ UNCHANGED <<events, open, ring, held, outbox, requests, server, asked, fresh>>

ShowReply(c) ==
  /\ call[c].pc = "got"
  /\ view' = call[c].state
  /\ call' = [call EXCEPT ![c] = Nowhere]
  /\ UNCHANGED <<events, open, toClient, requests, server, asked, seen, fresh>>

ServerStep ==
  \/ Subscribe \/ TakeEvent \/ ForwardEvent \/ WriteFrame \/ ReadRequest
  \/ \E c \in Calls : Handle(c) \/ SendReply(c)

PipeNext ==
  \/ Connect \/ Drop \/ Emit
  \/ ServerStep
  \/ \E c \in Calls : Invoke(c) \/ ShowReply(c)
  \/ Receive

PipeSpec == PipeInit /\ [][PipeNext]_pipeVars
=============================================================================
