----------------------------- MODULE Endpoints ------------------------------
(***************************************************************************)
(* One call of the library that ends in a socket, from the name to the     *)
(* connection.  It composes Lookup, DialParallel, TcpTransport and the     *)
(* decisions of Sockets the way resolve/dialer.go, dialer/default.go,      *)
(* netio/serial.go, listener/listen.go and resolve/transport/tcp.go call   *)
(* them.                                                                   *)
(*                                                                         *)
(* kind of a call:                                                         *)
(*   direct   DialParallel with a request of the caller's own              *)
(*   dial     DialContext of a dialer                                      *)
(*   packet   ListenPacket of a dialer                                     *)
(*   listen   ListenTCP or ListenUDP, with the family as version           *)
(*   tcp      TCPTransport.Exchange                                        *)
(* dialer of a call: "default" is the DefaultDialer, "over-default" and    *)
(* "over-other" are resolving dialers over it and over another dialer, of  *)
(* which nothing is assumed.                                               *)
(*                                                                         *)
(* stage: start -> lookup -> dial, exchange or returned.  A dial that has  *)
(* returned stays at "dial", with main = "returned".                       *)
(***************************************************************************)
EXTENDS DialParallel, Lookup, TcpTransport, Sockets, FiniteSets

VARIABLES
  call,
  stage,
  outcome,   \* of a call at "returned": "socket", "error", "nothing", "panic"
  socket,    \* what the DefaultDialer asked the system for, or NoSocket
  tried      \* the addresses of the look-up that a listener has tried

callVars == <<call, stage, outcome, socket, tried>>
allVars == <<callVars, vars, lookupVars, tcpVars>>

NoSocket == [peer |-> "none", local |-> "none"]

-----------------------------------------------------------------------------
(* The calls.                                                              *)

Ip(f, p) == [addr |-> f, fqdn |-> "", port |-> p]
Name(p) == [addr |-> "bad", fqdn |-> "host", port |-> p]
Empty == [addr |-> "bad", fqdn |-> "", port |-> 1]

Net == [protocol : {"tcp", "udp", "other"}, version : {"4", "6", "dual"}]
IpNet == [protocol |-> "tcp", version |-> "dual"]

Addresses == {Ip(f, p) : f \in {"4", "6", "46"}, p \in {0, 1}} \cup {Name(1), Empty}

Calls ==
  [kind : {"direct"}, dialer : {"over-other"}, strategy : {"prefer6"}, net : {IpNet},
   addr : {Empty}, bind : {{}}]
  \cup
  [kind : {"dial"}, dialer : {"over-default", "over-other"}, strategy : Strategy, net : Net,
   addr : Addresses, bind : {{}}]
  \cup
  [kind : {"dial"}, dialer : {"default"}, strategy : {"prefer6"}, net : Net,
   addr : Addresses \cup {Name(0)}, bind : SUBSET {"4", "6"}]
  \cup
  [kind : {"packet"}, dialer : {"default", "over-default", "over-other"}, strategy : Strategy,
   net : {IpNet}, addr : Addresses \cup {Ip("any4", 1)}, bind : {{"4"}, {"4", "6"}}]
  \cup
  [kind : {"listen"}, dialer : {"default"}, strategy : {"prefer6"},
   net : UNION {{UDPNetwork(f), TCPNetwork(f)} : f \in {"4", "6", ""}},
   addr : Addresses, bind : {{}}]
  \cup
  [kind : {"tcp"}, dialer : {"default", "over-other"}, strategy : {"prefer6"}, net : {IpNet},
   addr : {Ip("4", 53)}, bind : {{}}]

\* The DialParallel of a call that has none yet, and DialSerial, which is
\* what it does without a delay.
Ask(addresses, n, strategy, eyeball, noDelay) ==
  [addresses |-> addresses, version |-> n.version, udp |-> n.protocol = "udp",
   strategy |-> strategy, eyeball |-> eyeball, noDelay |-> noDelay]

EInit ==
  /\ Init /\ LookupInit /\ TcpInit
  /\ call \in Calls
  /\ call.kind = "direct" \/ req = Ask(<<>>, IpNet, "prefer6", TRUE, TRUE)
  /\ stage = IF call.kind = "direct" THEN "dial" ELSE "start"
  /\ outcome = "pending"
  /\ socket = NoSocket
  /\ tried = {}

-----------------------------------------------------------------------------

Returns(o) == stage' = "returned" /\ outcome' = o

Resolves == call.dialer # "default" /\ FqdnOnly(call.addr)
OnDefault == call.dialer \in {"default", "over-default"}

\* DialContext of a resolving dialer and a name: the fast filter.
Filtered ==
  \/ call.net.version = "6" /\ call.strategy = "only4"
  \/ call.net.version = "4" /\ call.strategy = "only6"

\* DialContext that needs no look-up: the underlying dialer's.
DialContext ==
  /\ stage = "start"
  /\ call.kind = "dial"
  /\ ~Resolves
  /\ IF OnDefault /\ DialRefused(call.net, call.addr)
       THEN Returns("error") /\ UNCHANGED socket
       ELSE /\ Returns("socket") \/ Returns("error")
            /\ socket' = IF OnDefault
                           THEN [peer |-> call.addr.addr,
                                 local |-> LocalAddr(call.bind, DialerOf(call.addr))]
                           ELSE socket
  /\ UNCHANGED <<call, tried, vars, lookupVars, tcpVars>>

\* ListenPacket that needs no look-up.
ListenPacket ==
  /\ stage = "start"
  /\ call.kind = "packet"
  /\ ~Resolves
  /\ Returns("socket") \/ Returns("error")
  /\ socket' = IF OnDefault
                 THEN [peer |-> PacketNetwork(call.addr),
                       local |-> LocalAddr(call.bind, PacketLocal(call.addr))]
                 ELSE socket
  /\ UNCHANGED <<call, tried, vars, lookupVars, tcpVars>>

\* What the walk of a listener returns.  When it has tried no address and met no
\* invalid one, it wraps an error that is nil; what becomes of that is up to the
\* library.
Listened(list, w) ==
  IF w.got # 0 THEN {"socket"}
  ELSE IF w.tried = {} /\ Resolved(list) = DOMAIN list THEN {"error", "nothing"}
  ELSE {"error"}

\* A listener on an address.
Listen ==
  /\ stage = "start"
  /\ call.kind = "listen"
  /\ ~FqdnOnly(call.addr)
  /\ \E w \in (IF call.net.protocol = "tcp" THEN ListenTCPSerial(call.net, <<call.addr.addr>>)
                                            ELSE ListenUDPSerial(call.net, <<call.addr.addr>>)) :
       /\ \E o \in Listened(<<call.addr.addr>>, w) : Returns(o)
       /\ tried' = w.tried
  /\ UNCHANGED <<call, socket, vars, lookupVars, tcpVars>>

NeedsLookup == FqdnOnly(call.addr) /\ (call.kind = "listen" \/ call.dialer # "default")

LookupStrategy == IF call.kind = "listen" THEN ListenStrategy(call.net) ELSE call.strategy

\* The name is filtered out or empty, or the look-up begins.
StartLookup ==
  /\ stage = "start"
  /\ call.kind \in {"dial", "packet", "listen"}
  /\ NeedsLookup
  /\ IF call.addr.fqdn = "" \/ (call.kind = "dial" /\ Filtered)
       THEN Returns("error") /\ UNCHANGED lookupVars
       ELSE stage' = "lookup" /\ LookupTransport(LookupStrategy) /\ UNCHANGED outcome
  /\ UNCHANGED <<call, socket, tried, vars, tcpVars>>

LookupStep(t) ==
  /\ stage = "lookup"
  /\ Answered(t) \/ LookupFailed(t)
  /\ UNCHANGED <<callVars, vars, tcpVars>>

Found == sortAddresses(LookupStrategy)

LookupError ==
  /\ stage = "lookup"
  /\ LookupOver
  /\ LookupErr
  /\ Returns("error")
  /\ UNCHANGED <<call, socket, tried, vars, lookupVars, tcpVars>>

\* dialerParallel in DialContext of the resolving dialer.
InParallel ==
  /\ call.strategy \in {"prefer4", "prefer6"}
  /\ call.net = [protocol |-> "tcp", version |-> "dual"]
  /\ Len(Found) >= 2

\* DialParallel, with the strategy of the dialer it is called on, or
\* DialSerial.
DialFound ==
  /\ stage = "lookup"
  /\ call.kind = "dial"
  /\ LookupOver
  /\ ~LookupErr
  /\ stage' = "dial"
  /\ req' = IF ~InParallel THEN Ask(Found, call.net, call.strategy, TRUE, TRUE)
            ELSE IF call.dialer = "over-default" THEN Ask(Found, call.net, "prefer6", FALSE, FALSE)
            ELSE Ask(Found, call.net, call.strategy, TRUE, FALSE)
  /\ UNCHANGED <<call, outcome, socket, tried, main, pc, todo, failed, open, seen, timer, ret,
                 lookupVars, tcpVars>>

\* A step of DialParallel; a connection comes from the underlying dialer.
DialStep(step) ==
  /\ stage = "dial"
  /\ step
  /\ \A w \in open' \ open :
       call.dialer = "over-default" =>
         ~DialRefused(call.net, Ip(req.addresses[Head(todo[w])], call.addr.port))
  /\ UNCHANGED <<callVars, lookupVars, tcpVars>>

\* ListenPacketSerial, and the NAT connection around its result: without an
\* address there is neither a connection nor an error.
PacketFound ==
  /\ stage = "lookup"
  /\ call.kind = "packet"
  /\ LookupOver
  /\ ~LookupErr
  /\ \E w \in Walks(DOMAIN Found, DOMAIN Found) :
       /\ Returns(IF Found = <<>> THEN "panic" ELSE IF w.got = 0 THEN "error" ELSE "socket")
       /\ tried' = w.tried
       /\ socket' = IF OnDefault /\ w.got # 0
                      THEN LET a == Ip(Found[w.got], call.addr.port)
                           IN [peer |-> PacketNetwork(a),
                               local |-> LocalAddr(call.bind, PacketLocal(a))]
                      ELSE socket
  /\ UNCHANGED <<call, vars, lookupVars, tcpVars>>

\* A listener on a name.
ListenFound ==
  /\ stage = "lookup"
  /\ call.kind = "listen"
  /\ LookupOver
  /\ ~LookupErr
  /\ \E w \in (IF call.net.protocol = "tcp" THEN ListenTCPSerial(call.net, Found)
                                            ELSE ListenUDPSerial(call.net, Found)) :
       /\ \E o \in Listened(Found, w) : Returns(o)
       /\ tried' = w.tried
  /\ UNCHANGED <<call, socket, vars, lookupVars, tcpVars>>

-----------------------------------------------------------------------------
(* TCPTransport.Exchange.                                                  *)

StartExchange ==
  /\ stage = "start"
  /\ call.kind = "tcp"
  /\ stage' = "exchange"
  /\ exchange' = "dial"
  /\ UNCHANGED <<call, outcome, socket, tried, vars, lookupVars, watcher, context, conn, arrived>>

\* Its dialer is called with NetworkTCP and the address of the server.
ExchangeStep(step) ==
  /\ stage = "exchange"
  /\ step
  /\ exchange = "dial" /\ exchange' = "write" /\ call.dialer = "default" =>
       ~DialRefused(call.net, call.addr)
  /\ UNCHANGED <<callVars, vars, lookupVars>>

-----------------------------------------------------------------------------

CallStep ==
  \/ DialContext \/ ListenPacket \/ Listen \/ StartLookup \/ LookupError \/ DialFound
  \/ PacketFound \/ ListenFound \/ StartExchange

TcpWorld == TcpDialOk \/ TcpArrive \/ TcpReadErr \/ TcpContextDone

ENext ==
  \/ CallStep
  \/ \E t \in QType : LookupStep(t)
  \/ DialStep(Next)
  \/ ExchangeStep(TcpStep \/ TcpWatcher \/ TcpWorld)

\* Goroutines are scheduled and dials end; nothing is assumed of the exchanges of
\* a look-up, of the peer of a TCP exchange or of the caller's context.
EndpointsSpec ==
  /\ EInit /\ [][ENext]_allVars
  /\ WF_allVars(CallStep)
  /\ WF_allVars(DialStep(Caller))
  /\ \A w \in Walker : WF_allVars(DialStep(Walk(w)))
  /\ \A w \in Racer : WF_allVars(DialStep(CloseLoser(w)))
  /\ WF_allVars(ExchangeStep(TcpStep))
  /\ WF_allVars(ExchangeStep(TcpWatcher))

-----------------------------------------------------------------------------
(* Properties.                                                             *)

\* The families a network admits; a mapped address counts as IPv6, as it does
\* for netip.
OfNetwork(f) ==
  CASE call.net.version = "4" -> AddrIs4(f)
    [] call.net.version = "6" -> AddrIs6(f)
    [] OTHER -> TRUE

\* How many addresses of a family the look-up has found.
Count(s, f) == Cardinality({i \in DOMAIN s : s[i] = f})
Given(f) == Count(found["A"], f) + Count(found["AAAA"], f)

\* A name that cannot be dialled, or not be listened on, has been given its
\* chance: half a look-up that failed does not cost the addresses of the other
\* half, and no later filter, order or race drops a valid one of them untried.  A
\* UDP listener skips addresses, a listener stops at an invalid one.
NameTried ==
  /\ call.kind = "dial" /\ stage = "dial" /\ ret = "error" =>
       \A f \in Family \ {"bad"} : OfNetwork(f) =>
         Cardinality({k \in failed : req.addresses[k] = f}) = Given(f)
  /\ stage = "returned" /\ outcome = "error" /\ Found # <<>> =>
       \/ call.net.protocol = "udp"
       \/ tried = IF call.kind = "listen" THEN Resolved(Found) ELSE DOMAIN Found

\* A name's connection is to a valid address of a family that the network admits,
\* and to one that the look-up found with a type the strategy asks for, whatever
\* records the answers held and whichever dialer made it.  The strategy is not
\* looked at again: what an answer holds of the other family is dialled too.
FamilyKept ==
  call.kind = "dial" /\ stage = "dial" /\ ret \in Walker =>
    LET f == req.addresses[Head(todo[ret])]
    IN /\ f # "bad" /\ OfNetwork(f)
       /\ \E t \in QTypes(call.strategy) : \E k \in DOMAIN found[t] : found[t][k] = f

Returned == stage = "returned" \/ main = "returned" \/ Ended

\* A call returns, the racers of its dial included, once what it waits for is
\* over: for a name both exchanges of the look-up, of which one may fail and the
\* other hang; for a TCP exchange its context, whatever the peer does.
CallReturns ==
  (/\ NeedsLookup => stage # "start" /\ LookupOver
   /\ call.kind = "tcp" => context = "done") ~> Returned

\* A TCP exchange that returns, or whose context ends, leaves neither its
\* goroutine nor its connection behind.
ExchangeSettles == stage = "exchange" /\ (Ended \/ context = "done") ~> TcpSettled

\* "only can use to dial ip address ,not support resolve fqdn to ip address":
\* what the DefaultDialer dials is an address.
DialsAddresses == call.kind = "dial" => socket.peer # "bad"
=============================================================================
