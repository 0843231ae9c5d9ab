----------------------------- MODULE HostProps -----------------------------
(***************************************************************************)
(* Correctness properties of the service host.                             *)
(***************************************************************************)
EXTENDS Host

\* Every variable of the host has its type.
HostTypeOK ==
  /\ current \in Clients \cup {None}
  /\ client \in [Clients -> [subs : Nat, conn : BOOLEAN, old : Nat]]
  /\ task \in [Tasks -> [pc : {"idle", "ensure", "subscribe", "connect", "dial"},
                         on : Clients \cup {None}, again : BOOLEAN]]
  /\ lost \in BOOLEAN /\ overlapped \in BOOLEAN
  /\ \A t \in Tasks : /\ Busy(t) => current # None
                      /\ task[t].pc = "dial" => task[t].on # None

\* "Owns ... the single IPC connection" (ServiceHost.cs:8): never two pipes at once.
SingleConnection ==
  \A c, d \in Clients :
    (client[c].conn \/ client[c].old > 0) /\ (client[d].conn \/ client[d].old > 0)
    => c = d /\ client[c].old = 0

\* It is true as long as no task replaces the object another one is about to
\* connect: one page after the other, drops, failed dials and reconnect loops in
\* any order never open a second pipe nor lose the one there is.
SingleUnlessOverlapped ==
  overlapped \/ (SingleConnection /\ \A c \in Clients : client[c].conn => c = current)

\* Why: one task at a time works on the object that is current, and only while no
\* connection is open.  For the proof.
OneAtWork ==
  \/ overlapped
  \/ /\ \A c \in Clients : client[c].old = 0 /\ (client[c].conn => c = current)
     /\ \A t, u \in Tasks : Busy(t) /\ Busy(u) => t = u
     /\ \A t \in Tasks : Busy(t) => \A c \in Clients : ~client[c].conn
     /\ \A t \in Tasks : task[t].pc = "dial" => task[t].on = current

-----------------------------------------------------------------------------
(* Tasks run; a dial that is tried again and again succeeds some time.      *)
HostFairness ==
  \A t \in Tasks : /\ WF_hostVars(HostStep(t) \/ DialSucceeds(t) \/ DialFails(t))
                   /\ SF_hostVars(DialSucceeds(t))

\* "Reconnects automatically when the pipe drops" (ServiceHost.cs:9), however many
\* dials fail, as long as no two tasks work on one object.
LostIsRegained == []<>(lost => overlapped)
=============================================================================
