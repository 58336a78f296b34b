---------------------------- MODULE MCLifecycle -----------------------------
(* Instances of Lifecycle for TLC. *)
EXTENDS Lifecycle

CONSTANT vip   \* an address configured by hand

F(lines) == [readable |-> TRUE, lines |-> lines, newline |-> TRUE]

Device == <<"device", "ens33">>
Static == <<"vip", vip>>

MCFile == {
  [readable |-> FALSE, lines |-> <<>>, newline |-> TRUE],
  F(<<Static>>),                                                 \* no device
  F(<<Device, <<"vip", AnyIp>>, <<"vmac", <<0, 12, 41>>>>>>),    \* as MyEth.ini
  F(<<Device, <<"vip", BadAddress>>, <<"MTU", 9000>>>>),
  F(<<Device, Static, <<"MTU", 16>>, <<"mtu", 5>>, <<"gateway">>>>),
  F(<<<<"device", "enx0123456789abcdef">>, Static>>),            \* 19 characters
  [F(<<Device, <<"MTU", 24>>, Static>>) EXCEPT !.newline = FALSE] }   \* no address

MCLongName == {"enx0123456789abcdef"}

MCLine == {
  <<"pingx", "addr", "1600">>, <<"ping", "addr", "70000">>,
  <<"arp", "-d", "addr">>, <<"end">> }

MCAtoi == [ word \in {"1600", "70000"} |-> IF word = "1600" THEN 1600 ELSE 70000 ]
=============================================================================
