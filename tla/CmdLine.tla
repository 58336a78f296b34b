------------------------------ MODULE CmdLine -------------------------------
(***************************************************************************)
(* What DoCmd makes of a line typed at the prompt.  A line is a sequence   *)
(* of words; the words are separated by one space.  DoCmd cuts the line at *)
(* its newline and dispatches on the text in front of it; DoCmdArp and     *)
(* DoCmdPing cut that text at its spaces from the start again, in place.   *)
(***************************************************************************)
EXTENDS Integers, Sequences

CONSTANT Atoi   \* what atoi makes of a word

DEFAULT_PING_SIZE == 64   \* param.h:13

\* strncmp: x stands for whatever may follow in the word.
Begins(word, prefix) == word \in {prefix, prefix \o "x"}

\* The function DoCmd calls.
Dispatch(line) ==
  CASE line = <<>> -> "help"
    [] Len(line) >= 2 /\ line[1] = "arp" /\ (Begins(line[2], "-a") \/ Begins(line[2], "-d")) -> "arp"
    [] line # <<>> /\ Begins(line[1], "ping") -> "ping"
    [] line \in {<<"ifconfig">>, <<"netstat">>, <<"udp">>, <<"end">>} -> line[1]
    [] OTHER -> "unknown"

\* DoCmdArp reaches ArpDelTable: "-d" is now the whole word.
Deletes(line) == Dispatch(line) = "arp" /\ line[2] = "-d" /\ Len(line) >= 3

\* DoCmdPing reaches PingSend.
Pings(line) == Dispatch(line) = "ping" /\ Len(line) >= 2

PingSize(line) == IF Len(line) >= 3 THEN Atoi[line[3]] ELSE DEFAULT_PING_SIZE

\* A variant that leaves the spaces alone.
BadLeft(line) == line

\* What the buffer reads as afterwards: the NULs of DoCmdArp and DoCmdPing end it
\* after the first word, that of DoCmd only replaces the newline.
Left(line) ==
  IF Dispatch(line) \in {"arp", "ping"} THEN <<line[1]>> ELSE line

\* DoCmdUdp is given the whole token "udp" again and compares it with "open",
\* "close" and "send".
UdpToken(line) == line[1]
=============================================================================
