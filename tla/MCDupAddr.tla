----------------------------- MODULE MCDupAddr ------------------------------
(* Instances of DupAddr for TLC: two hosts that differ in nothing. *)
EXTENDS DupAddr, TLC

CONSTANTS h1, h2

MCHost       == {h1, h2}
HostSymmetry == Permutations(MCHost)
SignedOldest == -1
=============================================================================
