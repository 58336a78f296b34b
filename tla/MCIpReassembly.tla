--------------------------- MODULE MCIpReassembly ---------------------------
(* Instances of IpReassembly for TLC. *)
EXTENDS IpReassembly

D(name, id, len, own) == [name |-> name, id |-> id, len |-> len, own |-> own, df |-> FALSE]

\* Fragments of two other hosts and of our own, and a single frame.
Mixed == { D("three", 1, 5, FALSE), D("two", 2, 3, FALSE),
           D("own", 3, 3, TRUE), [D("df", 4, 2, TRUE) EXCEPT !.df = TRUE],
           D("long", 5, 6, FALSE) }   \* one unit more than a buffer holds

\* "ping addr 4000".
BigPing == { D("ping", 1, 5, TRUE), D("one", 2, 1, FALSE) }

SignedOldest == -1
=============================================================================
