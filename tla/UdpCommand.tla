----------------------------- MODULE UdpCommand -----------------------------
(***************************************************************************)
(* The "udp" commands a user types, on the way from StdInThread's buffer   *)
(* to udp.c: DoCmd of CmdLine dispatches the line, and DoCmdUdp is called  *)
(* for none but the line "udp".                                            *)
(***************************************************************************)
EXTENDS UdpPorts, CmdLine

VARIABLE buf   \* the line StdInThread has read last

cmdVars == <<vars, buf>>

\* "close" and "send" find no argument behind the token and return.
DoCmdUdp(line) == IF UdpToken(line) = "open" THEN UdpSocket(0) ELSE UNCHANGED vars

Type(line) ==
  /\ buf' = Left(line)
  /\ IF Dispatch(line) = "udp" THEN DoCmdUdp(line) ELSE UNCHANGED vars

UdpLine(cmd, port) == <<"udp", cmd, port>>

CmdNext ==
  \/ Type(<<"udp">>)
  \/ \E cmd \in {"open", "close"}, port \in Port : Type(UdpLine(cmd, port))

CmdSpec == Init /\ buf = <<>> /\ [][CmdNext]_cmdVars

\* "udp open port : open udp-recv port" (cmd.c:251): a port that is not open and
\* for which there is room can be found in the table afterwards.
OpenCommandOpens ==
  [][\A port \in Port \ {DhcpPort} :
       Type(UdpLine("open", port)) /\ CanAdd(port) => UdpSearchTable(port)' # -1]_cmdVars
=============================================================================
