----------------------------- MODULE ParamFile ------------------------------
(***************************************************************************)
(* SetDefaultParam and ReadParam: the settings a parameter file leaves in  *)
(* Param.  A file is a sequence of lines <<key>> ("key=") or               *)
(* <<key, value>>; its last line may lack the newline.                     *)
(***************************************************************************)
EXTENDS Integers, Sequences, SequencesExt

CONSTANTS
  AnyIp,       \* 0.0.0.0
  AllOnes,     \* 255.255.255.255, what inet_addr returns for a bad address
  BadAddress   \* a text that is no address

ETHERMTU       == 1500
DEFAULT_IP_TTL == 64
NoDevice       == "NULL"

Address == {"gateway", "vip", "vmask"}

Key     == Address \cup {"vmac", "device", "MTU", "IP-TTL", "DhcpRequestLeaseTime"}

\* Param is zero before SetDefaultParam.
Default ==
  [ key \in Key |->
      CASE key \in Address  -> AnyIp
        [] key = "vmac"     -> [i \in 1 .. 6 |-> 0]
        [] key = "device"   -> NoDevice
        [] key = "MTU"      -> ETHERMTU
        [] key = "IP-TTL"   -> DEFAULT_IP_TTL
        [] OTHER            -> 0 ]

\* my_ether_aton: the parts there are, up to six, are stored before the -1 that
\* nobody reads.
EtherAton(mac, parts) ==
  [ i \in 1 .. 6 |-> IF i <= Len(parts) THEN parts[i] ELSE mac[i] ]

\* A variant without the bound.
BadMtu(value) == value

\* No bound below: a negative MTU is taken as it is.
Mtu(value) == IF value > ETHERMTU THEN ETHERMTU ELSE value

Converted(key, old, value) ==
  CASE key \in Address -> IF value = BadAddress THEN AllOnes ELSE value
    [] key = "MTU"     -> Mtu(value)
    [] key = "vmac"    -> EtherAton(old, value)
    [] OTHER           -> value

\* Unknown keys and keys without a value are passed over.
Assign(param, line) ==
  IF Len(line) = 2 /\ line[1] \in DOMAIN param
  THEN [param EXCEPT ![line[1]] = Converted(line[1], @, line[2])]
  ELSE param

\* The loop asks feof before it looks at the line fgets has returned, so a last
\* line without newline is lost.
LinesRead(file) == IF file.newline \/ file.lines = <<>> THEN file.lines ELSE Front(file.lines)

\* settings[n] is what the first n lines leave.
ReadParam(file) ==
  LET lines == LinesRead(file)
      settings[n \in 0 .. Len(lines)] ==
        IF n = 0 THEN Default ELSE Assign(settings[n - 1], lines[n])
  IN  settings[Len(lines)]
=============================================================================
