------------------------------ MODULE Sockets -------------------------------
(***************************************************************************)
(* Which socket a call opens: the decisions of DefaultDialer               *)
(* (dialer/default.go), of the Listener (listener/listen.go), and the      *)
(* predicates of meta.Network and addrs.Socksaddr they rest on.            *)
(*                                                                         *)
(* A network has a protocol and a version "4", "6" or "dual".  The addr of *)
(* a Socksaddr is a family, with "bad" for the zero netip.Addr and "any4"  *)
(* for 0.0.0.0; fqdn and port are what they are in the code.               *)
(***************************************************************************)
EXTENDS Naturals, Sequences

FqdnOnly(a) == a.addr = "bad"
Dialable(a) == (a.addr # "bad" \/ a.fqdn # "") /\ a.port # 0
Unwrap(a) == IF a.addr = "46" THEN [addr |-> "4", fqdn |-> "", port |-> a.port] ELSE a

\* Is4 and Is6 of netip.Addr.
AddrIs4(f) == f \in {"4", "any4"}
AddrIs6(f) == f \in {"6", "46"}

\* Is4 and Is6 of meta.Network.
NetworkIs4(n) == n.version \in {"dual", "6"}
NetworkIs6(n) == n.version \in {"dual", "4"}

-----------------------------------------------------------------------------
(* DefaultDialer.                                                          *)

\* The early returns of DialContext, in their order.
DialRefused(n, a) ==
  \/ ~Dialable(a)
  \/ ~FqdnOnly(a)
  \/ LET f == Unwrap(a).addr
     IN (AddrIs4(f) /\ n.version = "4") \/ (AddrIs6(f) /\ n.version = "6")
  \/ n.protocol \notin {"tcp", "udp"}

\* dialer4 or udpDialer4, dialer6 or udpDialer6.
DialerOf(a) == IF AddrIs4(Unwrap(a).addr) THEN "4" ELSE "6"

\* The network that ListenPacket listens on, and whose bind address it uses.
PacketNetwork(a) ==
  IF AddrIs6(a.addr) THEN "6" ELSE IF AddrIs4(a.addr) /\ a.addr # "any4" THEN "4" ELSE "dual"
PacketLocal(a) == IF AddrIs6(a.addr) THEN "6" ELSE "4"

\* NewDefaultConfig: a family's sockets have its bind address, if there is one.
LocalAddr(bind, f) == IF f \in bind THEN f ELSE "none"

-----------------------------------------------------------------------------
(* A walk through a list of addresses, which stops at the first socket.    *)

\* The addresses at the indices in due are walked, those in can may give a
\* socket; got is the index of the one that did, or 0.
Walks(due, can) ==
  {[got |-> i, tried |-> 1..i] : i \in can \cap due} \cup {[got |-> 0, tried |-> due]}

-----------------------------------------------------------------------------
(* Listener.                                                               *)

\* The networks of ListenUDP and ListenTCP, for Options.Family.
UDPNetwork(family) ==
  [protocol |-> "udp", version |-> IF family \in {"4", "6"} THEN family ELSE "dual"]
TCPNetwork(family) ==
  [protocol |-> "tcp",
   version |-> CASE family = "4" -> "6" [] family = "6" -> "4" [] OTHER -> "dual"]

\* resolveListenAddresses.
ListenStrategy(n) ==
  CASE NetworkIs4(n) /\ NetworkIs6(n) -> "prefer6"
    [] NetworkIs4(n) -> "only4"
    [] OTHER -> "only6"

\* The system listens on an address of the network's version only.
Listens(n, f) ==
  CASE n.version = "4" -> f \in {"4", "46"}
    [] n.version = "6" -> f = "6"
    [] OTHER -> TRUE

Listenable(n, list) == {i \in DOMAIN list : Listens(n, list[i])}

\* A listener returns an error at the first address that is not valid.
Resolved(list) == {i \in DOMAIN list : \A j \in 1..i : list[j] # "bad"}

ListenTCPSerial(n, list) == Walks(Resolved(list), Listenable(n, list))

\* The addresses that ListenUDPSerial skips.
Skipped(n, f) == (NetworkIs4(n) /\ AddrIs6(f)) \/ (NetworkIs6(n) /\ AddrIs4(f))

ListenUDPSerial(n, list) ==
  {[w EXCEPT !.tried = {i \in @ : ~Skipped(n, list[i])}] :
     w \in Walks(Resolved(list), {i \in Listenable(n, list) : ~Skipped(n, list[i])})}
=============================================================================
