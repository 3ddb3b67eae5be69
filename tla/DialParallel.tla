---------------------------- MODULE DialParallel ----------------------------
(***************************************************************************)
(* Dialling a host with several addresses (dialer/methods.go, eyeball.go,  *)
(* addrs/sorts.go).  DialSerial tries a list in order; DialParallel may    *)
(* race two such walks, the fallback family behind a timer.                *)
(*                                                                         *)
(* A Walker is a run of DialSerial: the caller's own, or one of the two    *)
(* racing goroutines.  Its pc is off -> dialing -> offer (it has a result, *)
(* for a racer: it is at the select on results and returned) -> done.      *)
(* Addresses are named by their position in the request.  The contexts     *)
(* that DialParallel cancels when it returns have no state: a cancelled    *)
(* dial may fail, and so may any other.                                    *)
(***************************************************************************)
EXTENDS Naturals, Sequences, Filters

CONSTANT MaxAddr   \* bound: addresses of a request

ASSUME MaxAddrAssumption == MaxAddr \in Nat

Racer  == {"primary", "fallback"}
Walker == Racer \cup {"caller"}

\* "46" is an IPv4 address mapped into IPv6, "bad" the zero netip.Addr.
Family   == {"4", "6", "46", "bad"}
Strategy == {"prefer6", "prefer4", "only6", "only4"}

\* eyeball: the call came through DefaultParallelDialer; noDelay: its
\* FallbackDelay is zero.
Request == [addresses : UNION {[1..n -> Family] : n \in 0..MaxAddr},
            version : {"4", "6", "dual"}, udp : BOOLEAN, strategy : Strategy,
            eyeball : BOOLEAN, noDelay : BOOLEAN]

VARIABLES
  req,      \* what the caller asked for
  main,     \* DialParallel: "start", "serial", "race", "returned"
  pc,
  todo,     \* the addresses a walker has not tried
  failed,   \* the addresses tried without success
  open,     \* the walkers whose connection is open
  seen,     \* the racers whose error DialParallel has received
  timer,    \* "off", "armed", "now" after Reset(0), "fired"
  ret       \* what it returned: "pending", "error", or a walker's connection

vars == <<req, main, pc, todo, failed, open, seen, timer, ret>>

TypeOK ==
  /\ req \in Request
  /\ main \in {"start", "serial", "race", "returned"}
  /\ pc \in [Walker -> {"off", "dialing", "offer", "done"}]
  /\ \A w \in Walker : \A k \in DOMAIN todo[w] : todo[w][k] \in DOMAIN req.addresses
  /\ failed \subseteq DOMAIN req.addresses
  /\ open \subseteq Walker
  /\ seen \subseteq Racer
  /\ timer \in {"off", "armed", "now", "fired"}
  /\ ret \in Walker \cup {"pending", "error"}

Init ==
  /\ req \in Request
  /\ main = "start"
  /\ pc = [w \in Walker |-> "off"]
  /\ todo = [w \in Walker |-> <<>>]
  /\ failed = {}
  /\ open = {}
  /\ seen = {}
  /\ timer = "off"
  /\ ret = "pending"

-----------------------------------------------------------------------------
(* Which addresses are walked, and in which order.                         *)

All == [i \in 1..Len(req.addresses) |-> i]

\* The addresses of s that are of the families.
Only(s, families) == Filter(s, {i \in DOMAIN req.addresses : req.addresses[i] \in families})

\* addrs.Is4 and addrs.Is6; the methods of netip.Addr count "46" as IPv6.
Is4 == {"4", "46"}
Is6 == {"6"}

\* SortAddresses: insertion sort, so stable, on lists of this length.
SortAddresses(s) ==
  CASE req.strategy = "prefer4" -> Only(s, {"4"}) \o Only(s, Family \ {"4"})
    [] req.strategy = "prefer6" -> Only(s, Family \ {"4"}) \o Only(s, {"4"})
    [] OTHER -> s

\* Mutant: the families are swapped.
OfVersionSwapped(s) ==
  CASE req.version = "4" -> Only(s, Family \ {"4"})
    [] req.version = "6" -> Only(s, Family \ {"6", "46"})
    [] OTHER -> s

\* The slices.DeleteFunc of DialSerial.
OfVersion(s) ==
  CASE req.version = "4" -> Only(s, Family \ {"6", "46"})
    [] req.version = "6" -> Only(s, Family \ {"4"})
    [] OTHER -> s

OneVersion == req.udp \/ req.version # "dual"

SerialList ==
  IF req.eyeball /\ (req.noDelay \/ OneVersion) THEN OfVersion(All)
  ELSE IF OneVersion THEN OfVersion(SortAddresses(All))
  ELSE IF Only(All, Is4) = <<>> \/ Only(All, Is6) = <<>> THEN All
  ELSE Only(All, IF req.strategy = "only4" THEN Is4 ELSE Is6)

Serial ==
  \/ OneVersion
  \/ req.eyeball /\ req.noDelay
  \/ Only(All, Is4) = <<>> \/ Only(All, Is6) = <<>>
  \/ req.strategy \in {"only4", "only6"}

Primaries == Only(All, IF req.strategy = "prefer6" THEN Is6 ELSE Is4)
Fallbacks == Only(All, IF req.strategy = "prefer6" THEN Is4 ELSE Is6)

-----------------------------------------------------------------------------
(* DialSerial, in any of the walkers.                                      *)

DialOk(w) ==
  /\ pc[w] = "dialing"
  /\ todo[w] # <<>>
  /\ req.addresses[Head(todo[w])] # "bad"
  /\ open' = open \cup {w}
  /\ pc' = [pc EXCEPT ![w] = "offer"]
  /\ UNCHANGED <<req, main, todo, failed, seen, timer, ret>>

\* The address is not valid or the dial fails: on to the next one.
DialErr(w) ==
  /\ pc[w] = "dialing"
  /\ todo[w] # <<>>
  /\ failed' = failed \cup {Head(todo[w])}
  /\ todo' = [todo EXCEPT ![w] = Tail(@)]
  /\ UNCHANGED <<req, main, pc, open, seen, timer, ret>>

\* No address left, or none to begin with.
AllFailed(w) ==
  /\ pc[w] = "dialing"
  /\ todo[w] = <<>>
  /\ pc' = [pc EXCEPT ![w] = "offer"]
  /\ UNCHANGED <<req, main, todo, failed, open, seen, timer, ret>>

-----------------------------------------------------------------------------
(* DialParallel.                                                           *)

EnterSerial ==
  /\ main = "start"
  /\ Serial
  /\ main' = "serial"
  /\ todo' = [todo EXCEPT !["caller"] = SerialList]
  /\ pc' = [pc EXCEPT !["caller"] = "dialing"]
  /\ UNCHANGED <<req, failed, open, seen, timer, ret>>

EnterRace ==
  /\ main = "start"
  /\ ~Serial
  /\ main' = "race"
  /\ todo' = [todo EXCEPT !["primary"] = Primaries, !["fallback"] = Fallbacks]
  /\ pc' = [pc EXCEPT !["primary"] = "dialing"]
  /\ timer' = "armed"
  /\ UNCHANGED <<req, failed, open, seen, ret>>

Result(w) == IF w \in open THEN w ELSE "error"

ReturnSerial ==
  /\ main = "serial"
  /\ pc["caller"] = "offer"
  /\ main' = "returned"
  /\ ret' = Result("caller")
  /\ pc' = [pc EXCEPT !["caller"] = "done"]
  /\ UNCHANGED <<req, todo, failed, open, seen, timer>>

\* select arm <-fallbackTimer.C.
TimerFires ==
  /\ main = "race"
  /\ timer \in {"armed", "now"}
  /\ timer' = "fired"
  /\ pc' = [pc EXCEPT !["fallback"] = "dialing"]
  /\ UNCHANGED <<req, main, todo, failed, open, seen, ret>>

\* select arm <-results, with a connection.
ReceiveConn(w) ==
  /\ main = "race"
  /\ pc[w] = "offer"
  /\ w \in open
  /\ ret' = w
  /\ main' = "returned"
  /\ pc' = [pc EXCEPT ![w] = "done"]
  /\ UNCHANGED <<req, todo, failed, open, seen, timer>>

\* Mutants: the result of Stop is ignored; the timer is stopped, not reset.
RearmedAlways == "now"
RearmedNever == IF timer = "fired" THEN timer ELSE "stopped"

\* Stop reports FALSE once the timer's value has been received.
Rearmed == IF timer = "fired" THEN timer ELSE "now"

\* Mutant: || for &&.
EitherDone(s) == s # {}

BothDone(s) == s = Racer

\* select arm <-results, with an error.
ReceiveErr(w) ==
  /\ main = "race"
  /\ pc[w] = "offer"
  /\ w \notin open
  /\ pc' = [pc EXCEPT ![w] = "done"]
  /\ seen' = seen \cup {w}
  /\ IF BothDone(seen')
       THEN main' = "returned" /\ ret' = "error" /\ UNCHANGED timer
       ELSE UNCHANGED <<main, ret>> /\ timer' = IF w = "primary" THEN Rearmed ELSE timer
  /\ UNCHANGED <<req, todo, failed, open>>

\* Mutant: the racer only offers.
CloseLoserMissing(w) == FALSE

\* A racer's select arm <-returned.
CloseLoser(w) ==
  /\ main = "returned"
  /\ pc[w] = "offer"
  /\ open' = open \ {w}
  /\ pc' = [pc EXCEPT ![w] = "done"]
  /\ UNCHANGED <<req, main, todo, failed, seen, timer, ret>>

-----------------------------------------------------------------------------

Walk(w) == DialOk(w) \/ DialErr(w) \/ AllFailed(w)
Caller  == \/ EnterSerial \/ EnterRace \/ ReturnSerial \/ TimerFires
           \/ \E w \in Racer : ReceiveConn(w) \/ ReceiveErr(w)

Next == Caller \/ (\E w \in Walker : Walk(w)) \/ (\E w \in Racer : CloseLoser(w))

Spec == Init /\ [][Next]_vars

\* Goroutines are scheduled, every dial ends (the dialer has a timeout) and a
\* running timer fires.
FairSpec ==
  /\ Spec
  /\ WF_vars(Caller)
  /\ \A w \in Walker : WF_vars(Walk(w))
  /\ \A w \in Racer : WF_vars(CloseLoser(w))

-----------------------------------------------------------------------------
(* Properties.                                                             *)

\* No connection is lost between a racer and its caller: an open one has
\* been returned, or its racer is still at the select that hands it over or
\* closes it.
NoConnLeak == \A w \in open : ret = w \/ pc[w] = "offer"

\* The fallback racer is started at most once: a timer that can still fire,
\* re-armed after the primary's failure or not, has not started it yet.
FallbackOnce == timer \in {"armed", "now"} => pc["fallback"] = "off"

\* An error means that every address which the network version and the
\* strategy allow has been tried, whichever way the lists were made.
Allowed(i) ==
  LET f == req.addresses[i]
  IN /\ f # "bad"
     /\ req.version = "4" => f = "4"
     /\ req.version = "6" => f # "4"
     /\ req.version = "dual" /\ req.strategy = "only4" => f \in Is4
     /\ req.version = "dual" /\ req.strategy = "only6" => f \in Is6
ErrorMeansAllFailed ==
  ret = "error" => \A i \in DOMAIN req.addresses : Allowed(i) => i \in failed

\* DialParallel keeps the promise of an abstract race for a connection.
Race == INSTANCE ConnRace WITH Pending <- "pending", Error <- "error"
RaceSpec == Race!Spec

\* Once the dial has returned every racer ends and only the returned connection
\* stays open.
LosersClosed ==
  main = "returned" ~> /\ open \subseteq {ret}
                       /\ \A w \in Walker : pc[w] \in {"off", "done"}
=============================================================================
