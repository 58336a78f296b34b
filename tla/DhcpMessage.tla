---------------------------- MODULE DhcpMessage -----------------------------
(***************************************************************************)
(* The length of the messages MakeDhcpRequest writes.  What is in them     *)
(* matters to nobody here: dhcp_set_option never stores the tag, so no     *)
(* server could read the options, and nothing reads an answer.             *)
(***************************************************************************)
EXTENDS Integers, Sequences, SequencesExt

OptionsOffset == 240   \* of options in struct dhcp_packet, gaps included
CookieLength  == 4
UdpHeader     == 8     \* sizeof(struct udphdr)

\* The byte of the tag is skipped, the one of the size written.
SetOption(ptr, size) == ptr + 2 + (IF size > 255 THEN 255 ELSE size)

\* Message type, lease time, requested address, server, parameter list, end.
OptionSizes(reqIp, server) ==
  <<1, 4>> \o (IF reqIp THEN <<4>> ELSE <<>>) \o (IF server THEN <<4>> ELSE <<>>) \o <<2, 0>>

MakeDhcpRequest(reqIp, server) ==
  FoldLeft(SetOption, OptionsOffset + CookieLength, OptionSizes(reqIp, server))

\* What UdpSendLink makes of a message.
UdpLength(size) == UdpHeader + size

\* DhcpSendDiscover: no address and no server.
DiscoverSize == UdpLength(MakeDhcpRequest(FALSE, FALSE))
=============================================================================
