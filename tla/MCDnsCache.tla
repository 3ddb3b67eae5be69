----------------------------- MODULE MCDnsCache -----------------------------
(* An instance of DnsCache for TLC: two callers of one question and one of *)
(* another, whose hash differs; one of the former may ask nothing and the  *)
(* latter both questions.  The answer has a TTL of zero among its TTLs and *)
(* ends with an EDNS record of version 1, whose TTL field says so.         *)
EXTENDS DnsCache, TLC
CONSTANTS c1, c2, c3, qa, qb

Callers   == {c1, c2, c3}
Questions == {qa, qb}
AllAsks   == c1 :> {<<qa>>} @@ c2 :> {<<qa>>, <<>>} @@ c3 :> {<<qb>>, <<qa, qb>>}
AllEdns   == c1 :> 0 @@ c2 :> 1 @@ c3 :> 2
OwnHash   == qa :> 1 @@ qb :> 2
Answer    == {[ttls |-> <<5, 0, 3, 65536>>, edns |-> 2]}
=============================================================================
