----------------------------- MODULE MCArpCache -----------------------------
(* Instances of ArpCache for TLC. *)
EXTENDS ArpCache, TLC

Symmetry == Permutations(Mac) \cup Permutations(Ip)

\* oldsetTime as the recorded build has it.
SignedOldest == -1
=============================================================================
