------------------------------ MODULE Delivery ------------------------------
(***************************************************************************)
(* What IP promises the protocols above it here: a datagram may arrive any *)
(* number of times or not at all, but never before it was sent, and its    *)
(* content is the one sent unless the network has interfered with a        *)
(* datagram of several frames.  IpReassembly implements this.              *)
(***************************************************************************)
CONSTANTS
  Datagram,   \* what can be sent
  Content,    \* per datagram: its payload
  Sturdy      \* the datagrams no loss, repetition or reordering can spoil

VARIABLES
  sent,       \* the datagrams that have been sent
  disturbed,  \* those the network has interfered with
  received    \* what has been handed up: [of |-> datagram, data |-> payload]

Init ==
  /\ sent = {}
  /\ disturbed = {}
  /\ received = {}

Send(d) ==
  /\ sent' = sent \cup {d}
  /\ UNCHANGED <<disturbed, received>>

Disturb(d) ==
  /\ d \in sent
  /\ disturbed' = disturbed \cup {d}
  /\ UNCHANGED <<sent, received>>

\* Of the content of a disturbed datagram nothing is promised.
Receive(d) ==
  /\ d \in sent
  /\ \E r \in received' :
       /\ received' = received \cup {r}
       /\ r.of = d
       /\ d \in Sturdy \/ d \notin disturbed => r.data = Content[d]
  /\ UNCHANGED <<sent, disturbed>>

Next == \E d \in Datagram : Send(d) \/ Disturb(d) \/ Receive(d)

Spec == Init /\ [][Next]_<<sent, disturbed, received>>
=============================================================================
