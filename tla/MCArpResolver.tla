--------------------------- MODULE MCArpResolver ----------------------------
(* Instances of ArpResolver for TLC: our host (vip), one neighbour (a), and a *)
(* second card (m2) that clashes with either address.                      *)
EXTENDS ArpResolver

CONSTANTS a, m1, m2

F(kind, ours, sha, spa, tpa) ==
  [kind |-> kind, ours |-> ours, sha |-> sha, spa |-> spa, tpa |-> tpa]

MCFrame ==
  { F("request", TRUE, AllZeroMac, AnyIp, Vip),
                                         \* a probe for our address, from no card
    F("reply", TRUE, m2, a, Vip),        \* a answers
    F("request", TRUE, m1, a, Vip),      \* a asks, from another card
    F("reply", TRUE, m2, Vip, AnyIp),    \* somebody has our address
    F("reply", FALSE, m1, a, Vip),       \* seen because of promiscuous mode
    F("echo", TRUE, m1, a, Vip) }

\* One neighbour, who answers and asks.
FewFrames ==
  { F("reply", TRUE, m1, a, Vip), F("echo", TRUE, m1, a, Vip) }

SignedOldest == -1
=============================================================================
