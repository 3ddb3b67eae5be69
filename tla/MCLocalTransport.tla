-------------------------- MODULE MCLocalTransport --------------------------
(* Instances of LocalTransport for TLC.                                    *)
EXTENDS LocalTransport
CONSTANTS q1, q2, a1, a2, a3, a4, home
Short == [len |-> 2, onion |-> FALSE]
Long  == [len |-> 3, onion |-> FALSE]
Onion == [len |-> 2, onion |-> TRUE]
RootSuffix == [len |-> 0, onion |-> FALSE]
Suffixes == {Short, Long, Onion, RootSuffix}
Nameserver(a) == [key |-> "nameserver", arg |-> a]
Opt(o, k) == [name |-> o, n |-> k]
\* Four servers and a bad one, a domain that loses to the search line, ndots
\* above its limit; then no search domain, single requests and no reload.
FileTexts == <<
  <<Nameserver(a1), Nameserver(BadServer), Nameserver(a2), Nameserver(a3), Nameserver(a4),
    [key |-> "domain", arg |-> Onion],
    [key |-> "search", arg |-> <<Short, RootSuffix, Onion, Long>>],
    [key |-> "options", arg |-> <<Opt("ndots", 9), Opt("rotate", 0)>>]>>,
  <<Nameserver(a2), [key |-> "other", arg |-> None],
    [key |-> "search", arg |-> <<RootSuffix>>],
    [key |-> "options", arg |-> <<Opt("single-request", 0), Opt("no-reload", 0)>>]>> >>
\* q1 has no name of its own, q2 none with the longer suffix.
DomainOf == [q \in {q1, q2} |->
  IF q = q1 THEN [dots |-> 1, len |-> 4, onion |-> TRUE]
            ELSE [dots |-> 1, len |-> 7, onion |-> FALSE]]
NS == <<JoinHostPort(home)>>
NoSearch == <<>>
=============================================================================
