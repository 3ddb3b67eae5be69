------------------------------- MODULE Lookup -------------------------------
(***************************************************************************)
(* HeadlessClient.LookupTransport (resolve/client.go): one look-up of a    *)
(* name, as one or two exchanges in goroutines of their own.               *)
(*                                                                         *)
(* An address is what tells it apart here, its family: "4", "6", "46" for  *)
(* IPv4 mapped into IPv6, or "bad" for the zero netip.Addr.                *)
(* lookup is off -> asked -> answered, failed.                             *)
(***************************************************************************)
EXTENDS Naturals, Sequences, Filters

CONSTANT MaxAnswer   \* bound: records of an answer

ASSUME MaxAnswerAssumption == MaxAnswer \in Nat

QType == {"A", "AAAA"}

VARIABLES
  lookup,   \* the exchange of each type
  found     \* response4 and response6

lookupVars == <<lookup, found>>

LookupInit ==
  /\ lookup = [t \in QType |-> "off"]
  /\ found = [t \in QType |-> <<>>]

-----------------------------------------------------------------------------

QTypes(strategy) ==
  CASE strategy = "only4" -> {"A"}
    [] strategy = "only6" -> {"AAAA"}
    [] OTHER -> QType

\* The goroutines start; a name that is not empty has been checked before.
LookupTransport(strategy) ==
  /\ lookup' = [t \in QType |-> IF t \in QTypes(strategy) THEN "asked" ELSE "off"]
  /\ UNCHANGED found

\* What an answer holds, whatever type was asked for: an address of any family,
\* of an A or AAAA record or as a hint of an HTTPS record, which counts as a
\* record per hint; a hint that does not parse; or a record without an address.
Record == {"4", "6", "46", "bad", "CNAME"}
Section == UNION {[1..n -> Record] : n \in 0..MaxAnswer}

DNSMessageToAddresses(section) == Filter(section, {"4", "6", "46", "bad"})

\* lookupToExchange with an answer, or without a message and without an error.
Answered(t) ==
  /\ lookup[t] = "asked"
  /\ lookup' = [lookup EXCEPT ![t] = "answered"]
  /\ \E s \in Section : found' = [found EXCEPT ![t] = DNSMessageToAddresses(s)]

\* lookupToExchange with an error, be it the transport's or an rcode.
LookupFailed(t) ==
  /\ lookup[t] = "asked"
  /\ lookup' = [lookup EXCEPT ![t] = "failed"]
  /\ UNCHANGED found

\* group.Run waits for all of its goroutines.
LookupOver == \A t \in QType : lookup[t] # "asked"

\* Mutant: the first error of the group is the look-up's.
AnyFailed == \E t \in QType : lookup[t] = "failed"

\* The error of the look-up.  Without one it may still have found nothing.
LookupErr ==
  /\ \E t \in QType : lookup[t] = "failed"
  /\ \A t \in QType : found[t] = <<>>

sortAddresses(strategy) ==
  IF strategy = "prefer6" THEN found["AAAA"] \o found["A"] ELSE found["A"] \o found["AAAA"]
=============================================================================
