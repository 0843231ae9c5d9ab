-------------------------------- MODULE Host --------------------------------
(***************************************************************************)
(* ServiceHost: who connects to the service, and who does so again.        *)
(*                                                                         *)
(* StartAsync runs once for every home page the user opens, a reconnect    *)
(* loop after every connection that ends.  Both replace the client object  *)
(* under the lock and use the field again outside of it.  The three        *)
(* attempts of ConnectWithRetriesAsync are one dial.  Objects that nothing *)
(* refers to are used again.                                               *)
(***************************************************************************)
EXTENDS Integers, FiniteSets, Shared

CONSTANTS
  Starters,   \* InitializeAsync tasks of home pages
  Loops,      \* slots for the reconnect loops under way: a bound of the model
  Clients     \* NetworkServiceClient objects: a bound of the model

VARIABLES
  current,    \* ServiceHost._client, or None
  client,     \* per object: its subscriptions, whether _pipe is open, and the
              \* open pipes that _pipe has replaced
  task,       \* per task: its next step, the object it dials, and whether a starter
              \* has its second attempt left
  lost,       \* the last open pipe has ended, and none was opened since
  overlapped  \* an object was replaced while another task was working on it

hostVars == <<current, client, task, lost, overlapped>>

Tasks == Starters \cup Loops

ASSUME HostAssumption ==
  /\ Starters \cap Loops = {} /\ None \notin Clients
  /\ IsFiniteSet(Clients) /\ IsFiniteSet(Loops)

Unused == [subs |-> 0, conn |-> FALSE, old |-> 0]
NoTask == [pc |-> "idle", on |-> None, again |-> FALSE]

HostInit ==
  /\ current = None
  /\ client = [c \in Clients |-> Unused]
  /\ task = [t \in Tasks |-> NoTask]
  /\ lost = FALSE /\ overlapped = FALSE

\* Objects nothing refers to
Free == {c \in Clients : /\ c # current /\ ~client[c].conn /\ client[c].old = 0
                         /\ \A t \in Tasks : task[t].on # c}
AnyOpen == \E c \in Clients : client[c].conn \/ client[c].old > 0
Busy(t) == task[t].pc \in {"subscribe", "connect", "dial"}

\* Mutant of HasConnection: the field is replaced whatever it holds.
HasNothing == FALSE
HasConnection == current # None /\ client[current].conn

\* Mutant of Retries: a loop gives up as StartAsync does.
RetriesOnce(t) == task[t].again
Retries(t) == t \in Loops \/ task[t].again

Goes(t, label) == task' = [task EXCEPT ![t].pc = label]

-----------------------------------------------------------------------------

StartAsync(t) ==
  /\ task[t].pc = "idle"
  /\ task' = [task EXCEPT ![t] = [pc |-> "ensure", on |-> None, again |-> TRUE]]
  /\ UNCHANGED <<current, client, lost, overlapped>>

\* TryEnsurePipeAsync under the lock: the connection there is, or a new object
Ensure(t) ==
  /\ task[t].pc = "ensure"
  /\ IF HasConnection
     THEN /\ task' = [task EXCEPT ![t] = NoTask]
          /\ UNCHANGED <<current, client, overlapped>>
     ELSE /\ \E c \in Free : current' = c /\ client' = [client EXCEPT ![c] = Unused]
          /\ Goes(t, "subscribe")
          /\ overlapped' = (overlapped \/ \E u \in Tasks \ {t} : Busy(u))
  /\ UNCHANGED lost

\* Out of the lock: the handlers go to the object that is current by now
AddHandlers(t) ==
  /\ task[t].pc = "subscribe"
  /\ client' = [client EXCEPT ![current].subs = @ + 1]
  /\ Goes(t, "connect")
  /\ UNCHANGED <<current, lost, overlapped>>

\* and so does the dial
PickForDial(t) ==
  /\ task[t].pc = "connect"
  /\ task' = [task EXCEPT ![t].pc = "dial", ![t].on = current]
  /\ UNCHANGED <<current, client, lost, overlapped>>

\* A pipe: it becomes _pipe even if the object was disposed of meanwhile
DialSucceeds(t) ==
  /\ task[t].pc = "dial"
  /\ LET c == task[t].on
     IN  client' = [client EXCEPT ![c].conn = TRUE,
                                  ![c].old = IF client[c].conn THEN @ + 1 ELSE @]
  /\ task' = [task EXCEPT ![t] = NoTask]
  /\ lost' = FALSE
  /\ UNCHANGED <<current, overlapped>>

\* A loop waits and tries for ever, StartAsync launches the service and tries once more
DialFails(t) ==
  /\ task[t].pc = "dial"
  /\ task' = [task EXCEPT ![t] =
       IF Retries(t) THEN [pc |-> "ensure", on |-> None, again |-> FALSE] ELSE NoTask]
  /\ UNCHANGED <<current, client, lost, overlapped>>

\* A pipe ends: its receive loop raises Disconnected, and every handler starts a
\* reconnect loop a second later
PipeEnds(c) ==
  /\ \/ client[c].conn /\ client' = [client EXCEPT ![c].conn = FALSE]
     \/ client[c].old > 0 /\ client' = [client EXCEPT ![c].old = @ - 1]
  /\ \E S \in SUBSET {l \in Loops : task[l].pc = "idle"} :
       /\ Cardinality(S) = client[c].subs
       /\ task' = [t \in Tasks |-> IF t \in S THEN [NoTask EXCEPT !.pc = "ensure"] ELSE task[t]]
  /\ lost' = ~AnyOpen'
  /\ UNCHANGED <<current, overlapped>>

HostStep(t) == Ensure(t) \/ AddHandlers(t) \/ PickForDial(t)

HostNext ==
  \/ \E t \in Starters : StartAsync(t)
  \/ \E t \in Tasks : HostStep(t) \/ DialSucceeds(t) \/ DialFails(t)
  \/ \E c \in Clients : PipeEnds(c)

HostSpec == HostInit /\ [][HostNext]_hostVars
=============================================================================
