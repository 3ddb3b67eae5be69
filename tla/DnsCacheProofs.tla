--------------------------- MODULE DnsCacheProofs ---------------------------
(***************************************************************************)
(* Proofs about DnsCache for any callers, questions, hash and answers: a   *)
(* caller's reply is its own, answers its question, and promises no record *)
(* for longer than that record's TTL, or MinTTL, allows.                   *)
(***************************************************************************)
EXTENDS DnsCache, WellFoundedInduction, TLAPS

-----------------------------------------------------------------------------
(* The inductive invariant.                                                *)

Past == {"end", "finish", "returned"}

\* A call has one question where it is past the tests for that, a result
\* only once its constructor has run, and a reply only once it has returned.
Calls ==
  \A c \in Caller :
    /\ pc[c] \notin {"idle", "returned"} => Len(asks[c]) = 1
    /\ val[c] \in {None, Failed, <<c, "sent">>}
    /\ pc[c] \in {"idle", "stale", "miss", "construct", "wait"} => val[c] = None
    /\ pc[c] = "store" => val[c] = <<c, "sent">>
    /\ pc[c] # "returned" => ret[c] = None /\ hit[c] = None
    /\ Len(asks[c]) = 1 => ret[c] \in {None, Failed, <<c, "own">>}
    /\ hit[c] # None => ret[c] = <<c, "own">>

\* The message that a call's constructor returned was asked for its question.
SentFor(d) ==
  /\ val[d] = <<d, "sent">>
  /\ msg[<<d, "sent">>] \in Message
  /\ msg[<<d, "sent">>].for = Q(d)

Sent == \A d \in Caller : val[d] = <<d, "sent">> => SentFor(d)

\* The leader of a flight is under way, and asks for what has the flight's key.
Flights ==
  /\ \A k \in Key : flight[k] # None =>
       pc[flight[k]] \in {"construct", "store", "end"} /\ Hash[Q(flight[k])] = k
  /\ \A c \in Caller : pc[c] \in {"construct", "store", "end"} => leader[c] = c
  /\ \A c \in Caller : pc[c] \in {"wait", "finish"} =>
       leader[c] \in Caller /\ Hash[Q(leader[c])] = Hash[Q(c)]

\* A TTL, or the lower bound on TTLs.
Raised(t) == IF t < MinTTL THEN MinTTL ELSE t

\* When the message of d's constructor stops being fresh.
Expiry(d) ==
  stored[<<d, "sent">>] + overwriteTTL(CalculateTTL(msg[<<d, "sent">>].ttls))

\* The entry of a question is the message of a constructor that has stored it,
\* and expires when its TTL says.
KeptBy(q, d) ==
  /\ cache[q].message = <<d, "sent">>
  /\ val[d] = <<d, "sent">>
  /\ pc[d] \in Past
  /\ msg[<<d, "sent">>].question = q
  /\ stored[<<d, "sent">>] \in Time
  /\ cache[q].expire = Expiry(d)

Kept == \A q \in Question : cache[q] # None => \E d \in Caller : KeptBy(q, d)

\* What a hit was served from.
HitKept ==
  \A c \in Caller : hit[c] # None =>
    \E d \in Caller :
      hit[c][2] = <<d, "sent">> /\ val[d] = <<d, "sent">> /\ pc[d] \in Past

DInv ==
  /\ TypeOK /\ Calls /\ Sent /\ Flights /\ Kept /\ HitKept
  /\ OwnReply /\ RightAnswer /\ NoLongerThanTTL

-----------------------------------------------------------------------------
(* Induction over the natural numbers, for a set instead of a predicate,   *)
(* and what it shows about TTLs.                                           *)

\* A set of natural numbers has a least element.
LEMMA NatLeast ==
  ASSUME NEW T \in SUBSET Nat, T # {}
  PROVE  \E x \in T : \A y \in T : x <= y
<1> DEFINE R == OpToRel(<, Nat)
<1>1. IsWellFoundedOn(R, Nat)
  BY NatLessThanWellFounded
<1>2. \A x, y \in Nat : y < x => <<y, x>> \in R
  BY DEF OpToRel
<1> HIDE DEF R
<1>3. \E x \in T : \A y \in T : ~ (<<y, x>> \in R)
  BY <1>1, WFMin
<1>4. PICK x \in T : \A y \in T : ~ (<<y, x>> \in R)
  BY <1>3
<1>5. \A y \in T : x \in Nat /\ y \in Nat /\ ~(y < x)
  BY <1>2, <1>4
<1>6. \A y \in T : x <= y
  BY <1>5
<1> QED
  BY <1>4, <1>6

\* A set with zero, and with every successor of its members, has them all.
LEMMA SetInduction ==
  ASSUME NEW S, 0 \in S, \A k \in Nat : k \in S => k + 1 \in S
  PROVE  Nat \subseteq S
<1> SUFFICES ASSUME Nat \ S # {} PROVE FALSE
  OBVIOUS
<1>1. PICK x \in Nat \ S : \A y \in Nat \ S : x <= y
  BY NatLeast
<1>2. x # 0 /\ x - 1 \in Nat /\ x - 1 \in S
  BY <1>1
<1>3. (x - 1) + 1 \in S
  BY <1>2
<1> QED
  BY <1>1, <1>2, <1>3

\* The TTL of a message is a natural number, whatever the TTLs of its records:
\* the scan over them is defined at every record, and stays one.  It is at
\* most that of any record from which on no TTL is zero.
LEMMA TTLIsLeast ==
  ASSUME NEW ttls \in Seq(Nat)
  PROVE  /\ CalculateTTL(ttls) \in Nat
         /\ \A i \in 1..Len(ttls) :
              (\A j \in i..Len(ttls) : ttls[j] # 0) => CalculateTTL(ttls) <= ttls[i]
<1> DEFINE N == Len(ttls)
           Is(f, k) == f = [i \in 0..k |->
             IF i = 0 THEN 0
             ELSE IF f[i - 1] = 0 \/ f[i - 1] > ttls[i] THEN ttls[i] ELSE f[i - 1]]
           at == CHOOSE f : Is(f, N)
           Made == {k \in Nat : \E f : Is(f, k)}
           Least(k, v) == \A i \in 1..k :
             (\A j \in i..k : ttls[j] # 0) => v # 0 /\ v <= ttls[i]
           Fine == {k \in Nat : k <= N => at[k] \in Nat /\ Least(k, at[k])}
<1>1. CalculateTTL(ttls) = at[N]
  BY DEF CalculateTTL
<1>2. N \in Nat /\ \A i \in 1..N : ttls[i] \in Nat
  OBVIOUS
<1> HIDE DEF N
<1>3. 0 \in Made
  <2>1. Is([i \in 0..0 |-> 0], 0)
    OBVIOUS
  <2> QED
    BY <2>1
<1>4. ASSUME NEW k \in Nat, k \in Made PROVE k + 1 \in Made
  <2>1. PICK f : Is(f, k)
    BY <1>4
  <2> DEFINE v == IF f[k] = 0 \/ f[k] > ttls[k + 1] THEN ttls[k + 1] ELSE f[k]
             g == [i \in 0..(k + 1) |-> IF i = k + 1 THEN v ELSE f[i]]
  <2>2. g = [i \in 0..(k + 1) |-> g[i]]
    BY Zenon
  <2>3. g[k + 1] = v /\ \A i \in 0..k : g[i] = f[i]
    OBVIOUS
  <2> HIDE DEF g
  <2>4. ASSUME NEW i \in 0..(k + 1)
        PROVE  g[i] = IF i = 0 THEN 0
                      ELSE IF g[i - 1] = 0 \/ g[i - 1] > ttls[i] THEN ttls[i] ELSE g[i - 1]
    <3>1. CASE i = k + 1
      <4>1. i - 1 = k /\ i # 0 /\ g[i - 1] = f[k]
        BY <2>3, <3>1
      <4> QED
        BY <2>3, <3>1, <4>1
    <3>2. CASE i \in 1..k
      <4>1. i - 1 \in 0..k /\ i # 0 /\ g[i - 1] = f[i - 1] /\ g[i] = f[i]
        BY <2>3, <3>2
      <4> QED
        BY <2>1, <3>2, <4>1
    <3>3. CASE i = 0
      BY <2>1, <2>3, <3>3
    <3> QED
      BY <3>1, <3>2, <3>3
  <2>5. Is(g, k + 1)
    BY <2>2, <2>4
  <2> QED
    BY <2>5
<1>5. N \in Made
  <2> HIDE DEF Made
  <2> QED
    BY <1>2, <1>3, <1>4, SetInduction
<1>6. Is(at, N)
  BY <1>5
<1> HIDE DEF at
<1>7. 0 \in Fine
  BY <1>2, <1>6
<1>8. ASSUME NEW k \in Nat, k \in Fine PROVE k + 1 \in Fine
  <2> SUFFICES ASSUME k + 1 <= N PROVE at[k + 1] \in Nat /\ Least(k + 1, at[k + 1])
    OBVIOUS
  <2>1. k + 1 \in 0..N /\ (k + 1) - 1 = k /\ k + 1 # 0 /\ at[k] \in Nat /\ ttls[k + 1] \in Nat
    BY <1>2, <1>8
  <2>2. at[k + 1] = IF at[k] = 0 \/ at[k] > ttls[k + 1] THEN ttls[k + 1] ELSE at[k]
    BY <1>6, <2>1
  <2>3. Least(k, at[k])
    <3>1. k <= N
      BY <1>2, <2>1
    <3> HIDE DEF Least
    <3> QED
      BY <1>8, <3>1
  <2>4. ASSUME NEW i \in 1..(k + 1), \A j \in i..(k + 1) : ttls[j] # 0
        PROVE  at[k + 1] # 0 /\ at[k + 1] <= ttls[i]
    <3>1. ttls[k + 1] # 0
      BY <2>4
    <3>2. CASE i = k + 1
      BY <2>1, <2>2, <3>1, <3>2
    <3>3. CASE i # k + 1
      <4>1. i \in 1..k /\ \A j \in i..k : ttls[j] # 0
        BY <2>4, <3>3
      <4>2. at[k] # 0 /\ at[k] <= ttls[i] /\ ttls[i] \in Nat
        BY <1>2, <2>1, <2>3, <4>1
      <4> HIDE DEF Least
      <4> QED
        BY <2>1, <2>2, <3>1, <4>2
    <3> QED
      BY <3>2, <3>3
  <2> QED
    BY <2>1, <2>2, <2>4
<1>9. N \in Fine
  <2> HIDE DEF Fine
  <2> QED
    BY <1>2, <1>7, <1>8, SetInduction
<1>10. at[N] \in Nat /\ Least(N, at[N])
  BY <1>2, <1>9
<1> QED
  BY <1>1, <1>10 DEF N

\* What the bounds leave of a TTL is at most the upper one, and raised no
\* further than to the lower one.
LEMMA BoundedTTL ==
  ASSUME NEW t \in Nat
  PROVE  /\ overwriteTTL(t) \in 0..Ceiling /\ Ceiling \in Nat
         /\ overwriteTTL(t) <= t \/ overwriteTTL(t) <= MinTTL
BY CacheAssumption DEF overwriteTTL, Ceiling

\* The seconds that are left of an entry do not reach past its expiry.
LEMMA RemainingFits ==
  ASSUME NEW q \in Question, now \in Nat, cache[q].expire \in Nat
  PROVE  /\ Remaining(q) \in Nat
         /\ Remaining(q) > 0 => now + Remaining(q) * Second <= cache[q].expire
<1> DEFINE left == cache[q].expire - now
<1>1. CASE cache[q].expire < now
  BY <1>1 DEF Remaining
<1>2. CASE ~(cache[q].expire < now)
  <2>1. left \in Nat /\ Second \in Nat \ {0}
    BY <1>2, CacheAssumption
  <2>2. Remaining(q) = left \div Second
    BY <1>2 DEF Remaining
  <2> HIDE DEF left
  <2>3. left \div Second \in Nat /\ (left \div Second) * Second <= left
    <3>1. left \div Second \in Nat
      BY <2>1
    <3>2. (left \div Second) * Second <= left
      BY <2>1
    <3> QED
      BY <3>1, <3>2
  <2>4. PICK x \in Int : x = Remaining(q) * Second
    BY <2>1, <2>2, <2>3
  <2>5. x <= cache[q].expire - now
    BY <2>2, <2>3, <2>4 DEF left
  <2>6. now + x <= cache[q].expire
    BY <2>5
  <2> QED
    BY <2>2, <2>3, <2>4, <2>6
<1> QED
  BY <1>1, <1>2

\* A reply's EDNS version is no higher than the request's.
LEMMA EdnsFits ==
  ASSUME NEW req \in Nat, NEW resp \in Nat
  PROVE  EdnsBackwards(req, resp) \in Nat /\ EdnsBackwards(req, resp) <= req
BY DEF EdnsBackwards

\* The version read from a TTL.
LEMMA VersionFits ==
  ASSUME NEW edns \in Nat, NEW ttl \in Nat
  PROVE  OptVersion(edns, ttl) \in Nat
<1>1. ttl \div 65536 \in Nat
  OBVIOUS
<1>2. (ttl \div 65536) % 256 \in Nat
  BY <1>1
<1> QED
  BY <1>2 DEF OptVersion

-----------------------------------------------------------------------------
(* What a step does to one call.                                           *)

\* The types that the proofs below use.
LEMMA Types ==
  ASSUME TypeOK
  PROVE  /\ now \in Nat
         /\ msg \in [Pointer -> Message \cup {None}]
         /\ pc \in [Caller -> {"idle", "stale", "miss", "construct", "store", "end", "wait",
                               "finish", "returned"}]
         /\ leader \in [Caller -> Caller \cup {None}]
         /\ val \in [Caller -> Pointer \cup {None, Failed}]
         /\ ret \in [Caller -> Pointer \cup {None, Failed}]
         /\ hit \in [Caller -> (Time \X Pointer) \cup {None}]
         /\ stored \in [Pointer -> Time \cup {None}]
BY CacheAssumption DEF TypeOK, Time

\* A call that is past the tests has a question.
LEMMA HasQuestion ==
  ASSUME TypeOK, NEW c \in Caller, Len(asks[c]) >= 1
  PROVE  Q(c) \in Question
<1>1. asks[c] \in Seq(Question)
  BY CacheAssumption DEF TypeOK
<1> QED
  BY <1>1 DEF Q

\* What running a constructor does: it fills only the caller's own message.
LEMMA ConstructedStep ==
  ASSUME TypeOK, NEW c \in Caller, Len(asks[c]) >= 1, val[c] = None, asks' = asks, Constructed(c)
  PROVE  /\ msg' \in [Pointer -> Message \cup {None}]
         /\ val' \in [Caller -> Pointer \cup {None, Failed}]
         /\ \A p \in Pointer : p # <<c, "sent">> => msg'[p] = msg[p]
         /\ \A d \in Caller : d # c => val'[d] = val[d]
         /\ val'[c] \in {None, Failed, <<c, "sent">>}
         /\ val'[c] = <<c, "sent">> => SentFor(c)'
<1>1. /\ msg \in [Pointer -> Message \cup {None}] /\ val \in [Caller -> Pointer \cup {None, Failed}]
      /\ <<c, "sent">> \in Pointer /\ None # <<c, "sent">> /\ Failed # <<c, "sent">>
  BY Types, CacheAssumption DEF Pointer
<1>2. CASE (val' = [val EXCEPT ![c] = Failed] \/ val' = val) /\ msg' = msg
  BY <1>1, <1>2
<1>3. CASE \E up \in Upstream, q \in Question \cup {None}, rcode \in {"ok", "fail"} :
             /\ rcode = "fail" => q = Q(c)
             /\ msg' = [msg EXCEPT ![<<c, "sent">>] =
                  [id |-> None, question |-> q, ttls |-> up.ttls, edns |-> up.edns,
                   rcode |-> rcode, for |-> Q(c)]]
             /\ val' = [val EXCEPT ![c] = <<c, "sent">>]
  <2>1. PICK up \in Upstream, q \in Question \cup {None}, rcode \in {"ok", "fail"} :
             /\ rcode = "fail" => q = Q(c)
             /\ msg' = [msg EXCEPT ![<<c, "sent">>] =
                  [id |-> None, question |-> q, ttls |-> up.ttls, edns |-> up.edns,
                   rcode |-> rcode, for |-> Q(c)]]
             /\ val' = [val EXCEPT ![c] = <<c, "sent">>]
    BY <1>3, Zenon
  <2> DEFINE m == [id |-> None, question |-> q, ttls |-> up.ttls, edns |-> up.edns,
                   rcode |-> rcode, for |-> Q(c)]
  <2>2. up.ttls \in Seq(Nat) /\ up.edns \in Nat
    BY CacheAssumption
  <2>3. m \in Message /\ m.for = Q(c)
    BY <2>2, HasQuestion DEF Message
  <2>4. Q(c)' = Q(c)
    BY DEF Q
  <2> HIDE DEF m
  <2>5. msg' = [msg EXCEPT ![<<c, "sent">>] = m]
    BY <2>1 DEF m
  <2>6. SentFor(c)'
    BY <1>1, <2>1, <2>3, <2>4, <2>5 DEF SentFor
  <2> QED
    BY <1>1, <2>1, <2>3, <2>5, <2>6
<1> QED
  BY <1>2, <1>3 DEF Constructed

\* A call that has returned is not touched again; a message is not changed
\* once its constructor has returned it, and put into the cache by nobody
\* but the call that ran the constructor.
LEMMA Frozen ==
  ASSUME TypeOK, Calls, [Next]_vars, NEW c \in Caller
  PROVE  /\ asks' = asks
         /\ pc[c] = "returned" =>
              /\ UNCHANGED <<pc[c], ret[c], hit[c]>>
              /\ msg'[<<c, "own">>] = msg[<<c, "own">>]
         /\ pc[c] \notin {"idle", "construct"} =>
              val'[c] = val[c] /\ msg'[<<c, "sent">>] = msg[<<c, "sent">>]
         /\ pc[c] # "store" => stored'[<<c, "sent">>] = stored[<<c, "sent">>]
         /\ pc[c] \in Past => pc'[c] \in Past
<1> DEFINE Goal ==
      /\ asks' = asks
      /\ pc[c] = "returned" =>
           /\ UNCHANGED <<pc[c], ret[c], hit[c]>>
           /\ msg'[<<c, "own">>] = msg[<<c, "own">>]
      /\ pc[c] \notin {"idle", "construct"} =>
           val'[c] = val[c] /\ msg'[<<c, "sent">>] = msg[<<c, "sent">>]
      /\ pc[c] # "store" => stored'[<<c, "sent">>] = stored[<<c, "sent">>]
      /\ pc[c] \in Past => pc'[c] \in Past
<1>1. /\ msg \in [Pointer -> Message \cup {None}]
      /\ pc \in [Caller -> {"idle", "stale", "miss", "construct", "store", "end", "wait",
                            "finish", "returned"}]
      /\ val \in [Caller -> Pointer \cup {None, Failed}]
      /\ ret \in [Caller -> Pointer \cup {None, Failed}]
      /\ hit \in [Caller -> (Time \X Pointer) \cup {None}]
      /\ stored \in [Pointer -> Time \cup {None}]
  BY Types
<1>2. \A d \in Caller : <<d, "sent">> \in Pointer /\ <<d, "own">> \in Pointer
  BY DEF Pointer
<1>3. ASSUME NEW d \in Caller, FormatError(d) PROVE Goal
  BY <1>1, <1>2, <1>3 DEF FormatError, At, Return, Goto, Past
<1>4. ASSUME NEW d \in Caller, Uncached(d) PROVE Goal
  <2>1. /\ Len(asks[d]) >= 1 /\ val[d] = None /\ asks' = asks /\ Constructed(d) /\ pc[d] = "idle"
        /\ stored' = stored /\ hit' = hit
    BY <1>4 DEF Uncached, At, Calls
  <2>2. /\ \A p \in Pointer : p # <<d, "sent">> => msg'[p] = msg[p]
        /\ \A e \in Caller : e # d => val'[e] = val[e]
    BY <2>1, ConstructedStep
  <2>3. pc' = [pc EXCEPT ![d] = "returned"] /\ ret' = [ret EXCEPT ![d] = val'[d]]
    BY <1>4 DEF Uncached, Return, Goto
  <2> QED
    BY <1>1, <1>2, <2>1, <2>2, <2>3 DEF Past
<1>5. ASSUME NEW d \in Caller, Hit(d) PROVE Goal
  BY <1>1, <1>2, <1>5 DEF Hit, At, Copy, Return, Goto, Past
<1>6. ASSUME NEW d \in Caller, Miss(d) PROVE Goal
  BY <1>1, <1>6 DEF Miss, At, Goto, Past
<1>7. ASSUME NEW d \in Caller, Remove(d) PROVE Goal
  BY <1>1, <1>7 DEF Remove, At, Goto, Past
<1>8. ASSUME NEW d \in Caller, Lead(d) PROVE Goal
  BY <1>1, <1>8 DEF Lead, At, Goto, Past
<1>9. ASSUME NEW d \in Caller, Join(d) PROVE Goal
  BY <1>1, <1>9 DEF Join, At, Goto, Past
<1>10. ASSUME NEW d \in Caller, Construct(d) PROVE Goal
  <2>1. /\ Len(asks[d]) >= 1 /\ val[d] = None /\ asks' = asks /\ Constructed(d) /\ pc[d] = "construct"
        /\ stored' = stored /\ hit' = hit /\ ret' = ret
    BY <1>10 DEF Construct, At, Calls
  <2>2. /\ \A p \in Pointer : p # <<d, "sent">> => msg'[p] = msg[p]
        /\ \A e \in Caller : e # d => val'[e] = val[e]
    BY <2>1, ConstructedStep
  <2>3. \A e \in Caller : e # d => pc'[e] = pc[e]
    BY <1>1, <1>10 DEF Construct, Goto
  <2> QED
    BY <1>1, <1>2, <2>1, <2>2, <2>3 DEF Past
<1>11. ASSUME NEW d \in Caller, Store(d) PROVE Goal
  <2>1. /\ asks' = asks /\ msg' = msg /\ val' = val /\ ret' = ret /\ hit' = hit /\ pc[d] = "store"
        /\ pc' = [pc EXCEPT ![d] = "end"] /\ val[d] = <<d, "sent">>
    BY <1>11 DEF Store, At, Goto, Calls
  <2>2. \A p \in Pointer : p # <<d, "sent">> => stored'[p] = stored[p]
    BY <1>1, <1>11, <2>1 DEF Store
  <2> QED
    BY <1>1, <1>2, <2>1, <2>2 DEF Past
<1>12. ASSUME NEW d \in Caller, FlightEnd(d) PROVE Goal
  BY <1>1, <1>12 DEF FlightEnd, At, Goto, Past
<1>13. ASSUME NEW d \in Caller, Wake(d) PROVE Goal
  BY <1>1, <1>13 DEF Wake, At, Goto, Past
<1>14. ASSUME NEW d \in Caller, Finish(d) PROVE Goal
  <2>1. asks' = asks /\ val' = val /\ hit' = hit /\ stored' = stored /\ pc[d] = "finish"
    BY <1>14 DEF Finish, At
  <2>2. /\ \A e \in Caller : e # d => pc'[e] = pc[e] /\ ret'[e] = ret[e]
        /\ pc'[d] \in Past
    BY <1>1, <1>14 DEF Finish, Return, Goto, At, Past
  <2>3. \A p \in Pointer : p # <<d, "own">> => msg'[p] = msg[p]
    BY <1>1, <1>14 DEF Finish, Copy
  <2> QED
    BY <1>1, <1>2, <2>1, <2>2, <2>3 DEF Past
<1>15. CASE UNCHANGED <<msg, callVars, stored>>
  BY <1>15 DEF callVars
<1> QED
  BY <1>3, <1>4, <1>5, <1>6, <1>7, <1>8, <1>9, <1>10, <1>11, <1>12, <1>13, <1>14, <1>15
  DEF Next, CallStep, Clear, Tick, Evict, vars

\* What an entry of the cache is, and when it is put there.
LEMMA CacheStep ==
  ASSUME TypeOK, [Next]_vars, NEW q \in Question
  PROVE  \/ cache'[q] = cache[q]
         \/ cache'[q] = None
         \/ \E d \in Caller :
              /\ Store(d)
              /\ msg[val[d]].question = q
              /\ cache'[q] = [expire  |-> now + overwriteTTL(CalculateTTL(msg[val[d]].ttls)),
                              message |-> val[d]]
              /\ stored' = [stored EXCEPT ![val[d]] = now]
<1> DEFINE Goal ==
      \/ cache'[q] = cache[q]
      \/ cache'[q] = None
      \/ \E d \in Caller :
           /\ Store(d)
           /\ msg[val[d]].question = q
           /\ cache'[q] = [expire  |-> now + overwriteTTL(CalculateTTL(msg[val[d]].ttls)),
                           message |-> val[d]]
           /\ stored' = [stored EXCEPT ![val[d]] = now]
<1>1. DOMAIN cache = Question /\ cache = [r \in Question |-> cache[r]]
  BY DEF TypeOK
<1>2. ASSUME NEW d \in Caller, Remove(d) PROVE Goal
  BY <1>1, <1>2 DEF Remove
<1>3. ASSUME NEW d \in Caller, Store(d) PROVE Goal
  <2> DEFINE m == msg[val[d]]
             ttl == overwriteTTL(CalculateTTL(m.ttls))
  <2>1. \/ cache' = cache
        \/ /\ cache' = [cache EXCEPT ![m.question] = [expire |-> now + ttl, message |-> val[d]]]
           /\ stored' = [stored EXCEPT ![val[d]] = now]
    BY <1>3, Zenon DEF Store
  <2> HIDE DEF m, ttl
  <2>2. \/ cache'[q] = cache[q]
        \/ /\ m.question = q /\ cache'[q] = [expire |-> now + ttl, message |-> val[d]]
           /\ stored' = [stored EXCEPT ![val[d]] = now]
    BY <1>1, <2>1
  <2> QED
    BY <1>3, <2>2 DEF m, ttl
<1>4. ASSUME Clear PROVE Goal
  BY <1>4 DEF Clear
<1>5. ASSUME NEW r \in Question, Evict(r) PROVE Goal
  BY <1>1, <1>5 DEF Evict
<1>6. ASSUME cache' = cache PROVE Goal
  BY <1>6
<1> HIDE DEF Goal
<1>7. Goal
  BY <1>2, <1>3, <1>4, <1>5, <1>6
  DEF Next, CallStep, FormatError, Uncached, Hit, Miss, Lead, Join, Construct, FlightEnd, Wake,
      Finish, Tick, vars
<1> QED
  BY <1>7 DEF Goal

\* The result of a call is set by its own constructor only.
LEMMA ValStep ==
  ASSUME TypeOK, Calls, [Next]_vars, NEW c \in Caller, ~Uncached(c), ~Construct(c)
  PROVE  val'[c] = val[c]
<1>1. ASSUME NEW d \in Caller, d # c, Uncached(d) PROVE val'[c] = val[c]
  <2>1. /\ Len(asks[d]) >= 1 /\ val[d] = None /\ asks' = asks /\ Constructed(d)
    BY <1>1 DEF Uncached, At, Calls
  <2> QED
    BY <1>1, <2>1, ConstructedStep
<1>2. ASSUME NEW d \in Caller, d # c, Construct(d) PROVE val'[c] = val[c]
  <2>1. /\ Len(asks[d]) >= 1 /\ val[d] = None /\ asks' = asks /\ Constructed(d)
    BY <1>2 DEF Construct, At, Calls
  <2> QED
    BY <1>2, <2>1, ConstructedStep
<1>3. CASE val' = val
  BY <1>3
<1> QED
  BY <1>1, <1>2, <1>3
  DEF Next, CallStep, FormatError, Hit, Miss, Remove, Lead, Join, Store, FlightEnd, Wake, Finish,
      Clear, Tick, Evict, vars, callVars

\* A message that a constructor returned stays what it was.
LEMMA SentStep == TypeOK /\ Calls /\ Sent /\ [Next]_vars => Sent'
<1> SUFFICES ASSUME TypeOK, Calls, Sent, [Next]_vars, NEW d \in Caller, val'[d] = <<d, "sent">>
             PROVE  SentFor(d)'
  BY DEF Sent
<1>1. CASE Uncached(d) \/ Construct(d)
  <2>1. Len(asks[d]) >= 1 /\ val[d] = None /\ asks' = asks /\ Constructed(d)
    BY <1>1 DEF Uncached, Construct, At, Calls
  <2> QED
    BY <2>1, ConstructedStep
<1>2. CASE ~Uncached(d) /\ ~Construct(d)
  <2>1. val[d] = <<d, "sent">>
    BY <1>2, ValStep
  <2>2. None # <<d, "sent">>
    BY CacheAssumption DEF Pointer
  <2>3. pc[d] \notin {"idle", "construct"}
    BY <2>1, <2>2 DEF Calls
  <2>4. asks' = asks /\ msg'[<<d, "sent">>] = msg[<<d, "sent">>]
    BY <2>3, Frozen
  <2>5. SentFor(d)
    BY <2>1 DEF Sent
  <2> QED
    BY <2>1, <2>4, <2>5 DEF SentFor, Q
<1> QED
  BY <1>1, <1>2

\* What a call gets from the cache, or from its flight, is a message that a
\* constructor returned.
LEMMA KeptMessage ==
  ASSUME Sent, NEW q \in Question, NEW d \in Caller, KeptBy(q, d)
  PROVE  cache[q].message = <<d, "sent">> /\ msg[cache[q].message] \in Message
BY DEF Sent, SentFor, KeptBy

LEMMA FlightMessage ==
  ASSUME Calls, Sent, Flights, NEW c \in Caller, pc[c] = "finish", val[leader[c]] \in Pointer
  PROVE  /\ leader[c] \in Caller
         /\ val[leader[c]] = <<leader[c], "sent">>
         /\ msg[val[leader[c]]] \in Message
         /\ msg[val[leader[c]]].for = Q(leader[c])
         /\ Hash[Q(leader[c])] = Hash[Q(c)]
BY CacheAssumption DEF Calls, Sent, SentFor, Flights

\* Every action keeps the types of the variables.
LEMMA TypeStep == TypeOK /\ Calls /\ Sent /\ Flights /\ Kept /\ [Next]_vars => TypeOK'
<1> SUFFICES ASSUME TypeOK, Calls, Sent, Flights, Kept, [Next]_vars PROVE TypeOK'
  OBVIOUS
<1> DEFINE PC == {"idle", "stale", "miss", "construct", "store", "end", "wait", "finish", "returned"}
<1>1. /\ now \in Time /\ flight \in [Key -> Caller \cup {None}]
      /\ cache \in [Question -> [expire : 0..(MaxTime + Ceiling), message : Pointer] \cup {None}]
      /\ panicked \in BOOLEAN /\ \A c \in Caller : asks[c] \in Asks[c]
      /\ msg \in [Pointer -> Message \cup {None}] /\ pc \in [Caller -> PC]
      /\ leader \in [Caller -> Caller \cup {None}]
      /\ val \in [Caller -> Pointer \cup {None, Failed}] /\ ret \in [Caller -> Pointer \cup {None, Failed}]
      /\ hit \in [Caller -> (Time \X Pointer) \cup {None}] /\ stored \in [Pointer -> Time \cup {None}]
  BY DEF TypeOK
<1>2. \A c \in Caller : <<c, "sent">> \in Pointer /\ <<c, "own">> \in Pointer
  BY DEF Pointer
<1>3. ASSUME NEW c \in Caller, FormatError(c) PROVE TypeOK'
  <2> DEFINE m == [id |-> c, question |-> None, ttls |-> <<>>, edns |-> 0, rcode |-> "formerr",
                   for |-> None]
  <2>1. m \in Message
    BY DEF Message
  <2>2. /\ msg' = [msg EXCEPT ![<<c, "own">>] = m] /\ ret' = [ret EXCEPT ![c] = <<c, "own">>]
        /\ pc' = [pc EXCEPT ![c] = "returned"]
    BY <1>3 DEF FormatError, Return, Goto
  <2> HIDE DEF m
  <2>3. msg' \in [Pointer -> Message \cup {None}] /\ ret' \in [Caller -> Pointer \cup {None, Failed}]
        /\ pc' \in [Caller -> PC]
    BY <1>1, <1>2, <2>1, <2>2
  <2> QED
    BY <1>1, <1>3, <2>3 DEF FormatError, TypeOK
<1>4. ASSUME NEW c \in Caller, Uncached(c) PROVE TypeOK'
  <2>1. /\ Len(asks[c]) >= 1 /\ val[c] = None /\ asks' = asks /\ Constructed(c)
        /\ UNCHANGED <<now, cache, flight, asks, leader, hit, stored>>
    BY <1>4 DEF Uncached, At, Calls
  <2>2. msg' \in [Pointer -> Message \cup {None}] /\ val' \in [Caller -> Pointer \cup {None, Failed}]
    BY <2>1, ConstructedStep
  <2>3. ret' \in [Caller -> Pointer \cup {None, Failed}] /\ pc' \in [Caller -> PC]
    BY <1>1, <1>4, <2>2 DEF Uncached, Return, Goto
  <2>4. panicked' \in BOOLEAN
    BY <1>4 DEF Uncached, ExchangeTransport
  <2> QED
    BY <1>1, <2>1, <2>2, <2>3, <2>4 DEF TypeOK
<1>5. ASSUME NEW c \in Caller, Hit(c) PROVE TypeOK'
  <2> DEFINE p == cache[Q(c)].message
             m == msg[p]
             n == [m EXCEPT !.id = c, !.ttls = OverwriteTTL(m.ttls, Remaining(Q(c))),
                            !.edns = EdnsBackwards(Edns[c], OptVersion(m.edns, Remaining(Q(c))))]
  <2>1. Q(c) \in Question /\ cache[Q(c)] # None
    BY <1>5, HasQuestion DEF Hit
  <2>2. PICK d \in Caller : KeptBy(Q(c), d)
    BY <2>1 DEF Kept
  <2>3. m \in Message /\ p \in Pointer
    BY <1>2, <2>1, <2>2, KeptMessage
  <2>4. now \in Nat /\ cache[Q(c)].expire \in Nat
    BY <1>1, <2>1, BoundedTTL, CacheAssumption DEF Time
  <2>5. Remaining(Q(c)) \in Nat
    BY <2>1, <2>4, RemainingFits
  <2>6. OverwriteTTL(m.ttls, Remaining(Q(c))) \in Seq(Nat)
    <3>1. m.ttls \in Seq(Nat)
      BY <2>3 DEF Message
    <3> QED
      BY <2>5, <3>1 DEF OverwriteTTL
  <2>7. EdnsBackwards(Edns[c], OptVersion(m.edns, Remaining(Q(c)))) \in Nat
    <3>1. m.edns \in Nat /\ Edns[c] \in Nat
      BY <2>3, CacheAssumption DEF Message
    <3> QED
      BY <2>5, <3>1, VersionFits, EdnsFits
  <2>8. n \in Message
    BY <2>3, <2>6, <2>7 DEF Message
  <2>9. /\ msg' = [msg EXCEPT ![<<c, "own">>] = n] /\ ret' = [ret EXCEPT ![c] = <<c, "own">>]
        /\ pc' = [pc EXCEPT ![c] = "returned"] /\ hit' = [hit EXCEPT ![c] = <<now, p>>]
        /\ UNCHANGED <<now, cache, flight, asks, leader, val, stored, panicked>>
    BY <1>5 DEF Hit, Return, Goto, Copy
  <2> HIDE DEF n, p
  <2> QED
    BY <1>1, <1>2, <2>3, <2>8, <2>9 DEF TypeOK
<1>6. ASSUME NEW c \in Caller, Miss(c) PROVE TypeOK'
  BY <1>1, <1>6 DEF Miss, Goto, TypeOK
<1>7. ASSUME NEW c \in Caller, Remove(c) PROVE TypeOK'
  BY <1>1, <1>7 DEF Remove, Goto, TypeOK
<1>8. ASSUME NEW c \in Caller, Lead(c) PROVE TypeOK'
  BY <1>1, <1>8 DEF Lead, Goto, TypeOK
<1>9. ASSUME NEW c \in Caller, Join(c) PROVE TypeOK'
  <2>1. Q(c) \in Question
    BY <1>9, HasQuestion DEF Join, At, Calls
  <2>2. flight[FlightKey(Q(c))] \in Caller
    BY <1>1, <1>9, <2>1 DEF Join, FlightKey, Key
  <2> QED
    BY <1>1, <1>9, <2>2 DEF Join, Goto, TypeOK
<1>10. ASSUME NEW c \in Caller, Construct(c) PROVE TypeOK'
  <2>1. /\ Len(asks[c]) >= 1 /\ val[c] = None /\ asks' = asks /\ Constructed(c)
        /\ UNCHANGED <<now, cache, flight, asks, leader, ret, hit, stored, panicked>>
    BY <1>10 DEF Construct, At, Calls
  <2>2. msg' \in [Pointer -> Message \cup {None}] /\ val' \in [Caller -> Pointer \cup {None, Failed}]
    BY <2>1, ConstructedStep
  <2>3. pc' \in [Caller -> PC]
    BY <1>1, <1>10 DEF Construct, Goto
  <2> QED
    BY <1>1, <2>1, <2>2, <2>3 DEF TypeOK
<1>11. ASSUME NEW c \in Caller, Store(c) PROVE TypeOK'
  <2> DEFINE m == msg[val[c]]
             ttl == overwriteTTL(CalculateTTL(m.ttls))
  <2>1. val[c] = <<c, "sent">> /\ m \in Message /\ val[c] \in Pointer
    BY <1>2, <1>11 DEF Store, At, Calls, Sent, SentFor
  <2>2. m.ttls \in Seq(Nat) /\ m.question \in Question \cup {None}
    BY <2>1 DEF Message
  <2>3. ttl \in 0..Ceiling /\ Ceiling \in Nat
    BY <2>2, TTLIsLeast, BoundedTTL
  <2>4. now + ttl \in 0..(MaxTime + Ceiling)
    BY <1>1, <2>3, CacheAssumption DEF Time
  <2>5. \/ cache' = cache /\ stored' = stored
        \/ /\ m.question # None
           /\ cache' = [cache EXCEPT ![m.question] = [expire |-> now + ttl, message |-> val[c]]]
           /\ stored' = [stored EXCEPT ![val[c]] = now]
    BY <1>11, Zenon DEF Store
  <2>6. UNCHANGED <<now, flight, msg, asks, leader, val, ret, hit, panicked>>
    BY <1>11 DEF Store
  <2>7. pc' \in [Caller -> PC]
    BY <1>1, <1>11 DEF Store, Goto
  <2> HIDE DEF m, ttl
  <2>8. stored' \in [Pointer -> Time \cup {None}]
    BY <1>1, <2>1, <2>5
  <2>9. [expire |-> now + ttl, message |-> val[c]] \in [expire : 0..(MaxTime + Ceiling), message : Pointer]
    BY <2>1, <2>4
  <2>10. cache' \in [Question -> [expire : 0..(MaxTime + Ceiling), message : Pointer] \cup {None}]
    BY <1>1, <2>2, <2>5, <2>9
  <2> QED
    BY <1>1, <2>6, <2>7, <2>8, <2>10 DEF TypeOK
<1>12. ASSUME NEW c \in Caller, FlightEnd(c) PROVE TypeOK'
  BY <1>1, <1>12 DEF FlightEnd, Goto, TypeOK
<1>13. ASSUME NEW c \in Caller, Wake(c) PROVE TypeOK'
  BY <1>1, <1>13 DEF Wake, Goto, TypeOK
<1>14. ASSUME NEW c \in Caller, Finish(c) PROVE TypeOK'
  <2> DEFINE v == val[leader[c]]
             n == [msg[v] EXCEPT !.id = c, !.edns = EdnsBackwards(Edns[c], msg[v].edns)]
  <2>1. ASSUME v \in Pointer PROVE n \in Message
    <3>1. msg[v] \in Message
      BY <1>14, <2>1, FlightMessage DEF Finish, At
    <3>2. EdnsBackwards(Edns[c], msg[v].edns) \in Nat
      BY <3>1, EdnsFits, CacheAssumption DEF Message
    <3> QED
      BY <3>1, <3>2 DEF Message
  <2>2. \/ ret' = [ret EXCEPT ![c] = Failed] /\ pc' = [pc EXCEPT ![c] = "returned"]
           /\ UNCHANGED <<msg, panicked>>
        \/ panicked' = TRUE /\ UNCHANGED <<pc, ret, msg>>
        \/ /\ v \in Pointer /\ msg' = [msg EXCEPT ![<<c, "own">>] = n]
           /\ ret' = [ret EXCEPT ![c] = <<c, "own">>] /\ pc' = [pc EXCEPT ![c] = "returned"]
           /\ UNCHANGED panicked
    BY <1>14 DEF Finish, Return, Goto, Copy
  <2>3. UNCHANGED <<now, cache, flight, asks, leader, val, hit, stored>>
    BY <1>14 DEF Finish
  <2> HIDE DEF n, v
  <2>4. /\ msg' \in [Pointer -> Message \cup {None}] /\ pc' \in [Caller -> PC]
        /\ ret' \in [Caller -> Pointer \cup {None, Failed}]
    <3>1. msg' \in [Pointer -> Message \cup {None}]
      <4>1. CASE msg' = msg
        BY <1>1, <4>1
      <4>2. CASE v \in Pointer /\ msg' = [msg EXCEPT ![<<c, "own">>] = n]
        <5>1. n \in Message
          BY <2>1, <4>2
        <5> QED
          BY <1>1, <4>2, <5>1
      <4> QED
        BY <2>2, <4>1, <4>2
    <3>2. pc' \in [Caller -> PC]
      BY <1>1, <2>2
    <3>3. ret' \in [Caller -> Pointer \cup {None, Failed}]
      <4>1. PICK x \in Pointer \cup {None, Failed} : ret' = ret \/ ret' = [ret EXCEPT ![c] = x]
        BY <1>2, <2>2
      <4> QED
        BY <1>1, <4>1
    <3> QED
      BY <3>1, <3>2, <3>3
  <2>5. panicked' \in BOOLEAN
    BY <1>1, <2>2
  <2> QED
    BY <1>1, <2>3, <2>4, <2>5 DEF TypeOK
<1>15. CASE Clear
  BY <1>1, <1>15 DEF Clear, callVars, TypeOK
<1>16. CASE Tick
  <2>1. now' \in Time
    BY <1>1, <1>16, CacheAssumption DEF Tick, Time
  <2> QED
    BY <1>1, <1>16, <2>1 DEF Tick, callVars, TypeOK
<1>17. ASSUME NEW q \in Question, Evict(q) PROVE TypeOK'
  BY <1>1, <1>17 DEF Evict, callVars, TypeOK
<1>18. CASE UNCHANGED vars
  BY <1>1, <1>18 DEF vars, callVars, TypeOK
<1> QED
  BY <1>3, <1>4, <1>5, <1>6, <1>7, <1>8, <1>9, <1>10, <1>11, <1>12, <1>13, <1>14, <1>15, <1>16,
     <1>17, <1>18
  DEF Next, CallStep

\* A call is changed by its own steps only.
LEMMA OtherCall ==
  ASSUME TypeOK, Calls, [Next]_vars, NEW c \in Caller,
         ~FormatError(c), ~Uncached(c), ~Hit(c), ~Miss(c), ~CallStep(c)
  PROVE  UNCHANGED <<pc[c], val[c], ret[c], hit[c], leader[c], asks>>
<1> DEFINE Goal == UNCHANGED <<pc[c], ret[c], hit[c], leader[c]>>
<1>1. /\ pc \in [Caller -> {"idle", "stale", "miss", "construct", "store", "end", "wait",
                            "finish", "returned"}]
      /\ leader \in [Caller -> Caller \cup {None}]
      /\ ret \in [Caller -> Pointer \cup {None, Failed}]
      /\ hit \in [Caller -> (Time \X Pointer) \cup {None}]
  BY Types
<1>2. val'[c] = val[c] /\ asks' = asks
  BY ValStep, Frozen DEF CallStep
<1>3. ASSUME NEW d \in Caller, d # c, FormatError(d) PROVE Goal
  BY <1>1, <1>3 DEF FormatError, Return, Goto
<1>4. ASSUME NEW d \in Caller, d # c, Uncached(d) PROVE Goal
  BY <1>1, <1>4 DEF Uncached, Return, Goto
<1>5. ASSUME NEW d \in Caller, d # c, Hit(d) PROVE Goal
  BY <1>1, <1>5 DEF Hit, Return, Goto
<1>6. ASSUME NEW d \in Caller, d # c, Miss(d) PROVE Goal
  BY <1>1, <1>6 DEF Miss, Goto
<1>7. ASSUME NEW d \in Caller, d # c, Remove(d) \/ FlightEnd(d) \/ Wake(d) PROVE Goal
  BY <1>1, <1>7 DEF Remove, FlightEnd, Wake, Goto
<1>8. ASSUME NEW d \in Caller, d # c, Lead(d) \/ Join(d) PROVE Goal
  BY <1>1, <1>8 DEF Lead, Join, Goto
<1>9. ASSUME NEW d \in Caller, d # c, Construct(d) PROVE Goal
  BY <1>1, <1>9 DEF Construct, Goto
<1>10. ASSUME NEW d \in Caller, d # c, Store(d) PROVE Goal
  BY <1>1, <1>10 DEF Store, Goto
<1>11. ASSUME NEW d \in Caller, d # c, Finish(d) PROVE Goal
  BY <1>1, <1>11 DEF Finish, Return, Goto
<1>12. ASSUME UNCHANGED callVars PROVE Goal
  BY <1>12 DEF callVars
<1> HIDE DEF Goal
<1>13. Goal
  BY <1>3, <1>4, <1>5, <1>6, <1>7, <1>8, <1>9, <1>10, <1>11, <1>12
  DEF Next, CallStep, Clear, Tick, Evict, vars
<1> QED
  BY <1>2, <1>13 DEF Goal

\* Results and replies come where they should.
LEMMA CallsStep == TypeOK /\ Calls /\ Sent /\ Flights /\ [Next]_vars => Calls'
<1> SUFFICES ASSUME TypeOK, Calls, Sent, Flights, [Next]_vars, NEW c \in Caller
             PROVE  /\ pc'[c] \notin {"idle", "returned"} => Len(asks'[c]) = 1
                    /\ val'[c] \in {None, Failed, <<c, "sent">>}
                    /\ pc'[c] \in {"idle", "stale", "miss", "construct", "wait"} => val'[c] = None
                    /\ pc'[c] = "store" => val'[c] = <<c, "sent">>
                    /\ pc'[c] # "returned" => ret'[c] = None /\ hit'[c] = None
                    /\ Len(asks'[c]) = 1 => ret'[c] \in {None, Failed, <<c, "own">>}
                    /\ hit'[c] # None => ret'[c] = <<c, "own">>
  BY DEF Calls
<1> DEFINE Goal ==
      /\ pc'[c] \notin {"idle", "returned"} => Len(asks[c]) = 1
      /\ val'[c] \in {None, Failed, <<c, "sent">>}
      /\ pc'[c] \in {"idle", "stale", "miss", "construct", "wait"} => val'[c] = None
      /\ pc'[c] = "store" => val'[c] = <<c, "sent">>
      /\ pc'[c] # "returned" => ret'[c] = None /\ hit'[c] = None
      /\ Len(asks[c]) = 1 => ret'[c] \in {None, Failed, <<c, "own">>}
      /\ hit'[c] # None => ret'[c] = <<c, "own">>
<1>1. /\ pc \in [Caller -> {"idle", "stale", "miss", "construct", "store", "end", "wait",
                            "finish", "returned"}]
      /\ val \in [Caller -> Pointer \cup {None, Failed}]
      /\ ret \in [Caller -> Pointer \cup {None, Failed}]
      /\ hit \in [Caller -> (Time \X Pointer) \cup {None}]
  BY Types
<1>2. /\ pc[c] \notin {"idle", "returned"} => Len(asks[c]) = 1
      /\ val[c] \in {None, Failed, <<c, "sent">>}
      /\ pc[c] \in {"idle", "stale", "miss", "construct", "wait"} => val[c] = None
      /\ pc[c] = "store" => val[c] = <<c, "sent">>
      /\ pc[c] # "returned" => ret[c] = None /\ hit[c] = None
      /\ Len(asks[c]) = 1 => ret[c] \in {None, Failed, <<c, "own">>}
      /\ hit[c] # None => ret[c] = <<c, "own">>
  BY DEF Calls
<1>3. asks' = asks
  BY Frozen
<1>4. ASSUME FormatError(c) PROVE Goal
  <2>1. Len(asks[c]) # 1
    BY <1>4 DEF FormatError
  <2> QED
    BY <1>1, <1>2, <1>4, <2>1 DEF FormatError, At, Return, Goto
<1>5. ASSUME Uncached(c) PROVE Goal
  <2>1. /\ Len(asks[c]) >= 1 /\ Len(asks[c]) # 1 /\ val[c] = None /\ Constructed(c) /\ hit' = hit
        /\ pc[c] = "idle"
    <3>1. pc[c] = "idle" /\ Constructed(c) /\ hit' = hit
      BY <1>5 DEF Uncached, At
    <3>4. Len(asks[c]) > 1
      BY <1>5 DEF Uncached
    <3>2. Len(asks[c]) \in Nat
      <4>1. asks[c] \in Seq(Question)
        BY CacheAssumption DEF TypeOK
      <4> QED
        BY <4>1
    <3>5. PICK l \in Nat : l = Len(asks[c])
      BY <3>2
    <3>6. l > 1
      BY <3>4, <3>5
    <3>7. l >= 1 /\ l # 1
      BY <3>6
    <3>3. Len(asks[c]) >= 1 /\ Len(asks[c]) # 1
      BY <3>5, <3>7
    <3> QED
      BY <1>2, <3>1, <3>3
  <2>2. val'[c] \in {None, Failed, <<c, "sent">>}
    BY <1>3, <2>1, ConstructedStep
  <2>3. pc'[c] = "returned"
    BY <1>1, <1>5 DEF Uncached, Return, Goto
  <2> QED
    BY <1>2, <2>1, <2>2, <2>3
<1>6. ASSUME Hit(c) PROVE Goal
  BY <1>1, <1>2, <1>6 DEF Hit, At, Copy, Return, Goto
<1>7. ASSUME Miss(c) PROVE Goal
  BY <1>1, <1>2, <1>7 DEF Miss, At, Goto
<1>8. ASSUME Remove(c) \/ Lead(c) \/ Join(c) PROVE Goal
  BY <1>1, <1>2, <1>8 DEF Remove, Lead, Join, At, Goto
<1>9. ASSUME Construct(c) PROVE Goal
  <2>1. /\ Len(asks[c]) = 1 /\ val[c] = None /\ Constructed(c) /\ hit' = hit /\ ret' = ret
        /\ pc[c] = "construct" /\ pc' = [pc EXCEPT ![c] = IF Stores(val'[c]) THEN "store" ELSE "end"]
    BY <1>2, <1>9 DEF Construct, At, Goto
  <2>2. val'[c] \in {None, Failed, <<c, "sent">>}
    <3>1. Len(asks[c]) >= 1
      BY <2>1
    <3> QED
      BY <1>3, <2>1, <3>1, ConstructedStep, Zenon
  <2>3. pc'[c] \in {"store", "end"} /\ (pc'[c] = "store" => Stores(val'[c]))
    <3> DEFINE l == IF Stores(val'[c]) THEN "store" ELSE "end"
    <3>1. l \in {"store", "end"} /\ (l = "store" => Stores(val'[c]))
      BY Zenon
    <3>2. pc' = [pc EXCEPT ![c] = l]
      BY <2>1
    <3> HIDE DEF l
    <3>3. pc'[c] = l
      BY <1>1, <3>2
    <3> QED
      BY <3>1, <3>3, Zenon
  <2>4. pc'[c] = "store" => val'[c] = <<c, "sent">>
    BY <2>2, <2>3 DEF Stores
  <2> QED
    BY <1>2, <2>1, <2>2, <2>3, <2>4
<1>10. ASSUME Store(c) PROVE Goal
  BY <1>1, <1>2, <1>10 DEF Store, At, Goto
<1>11. ASSUME FlightEnd(c) \/ Wake(c) PROVE Goal
  BY <1>1, <1>2, <1>11 DEF FlightEnd, Wake, At, Goto
<1>12. ASSUME Finish(c) PROVE Goal
  <2>1. pc[c] = "finish" /\ val' = val /\ hit' = hit
    BY <1>12 DEF Finish, At
  <2>2. \/ pc'[c] = "returned" /\ ret'[c] \in {Failed, <<c, "own">>}
        \/ pc' = pc /\ ret' = ret
    BY <1>1, <1>12 DEF Finish, Return, Goto, Copy
  <2> QED
    BY <1>2, <2>1, <2>2
<1>13. ASSUME UNCHANGED <<pc[c], val[c], ret[c], hit[c]>> PROVE Goal
  BY <1>2, <1>13
<1> HIDE DEF Goal
<1>14. Goal
  BY <1>4, <1>5, <1>6, <1>7, <1>8, <1>9, <1>10, <1>11, <1>12, <1>13, OtherCall DEF CallStep
<1> QED
  BY <1>3, <1>14 DEF Goal

\* Whoever waits for a flight, waits for one with its own key.
LEMMA FlightsStep == TypeOK /\ Calls /\ Flights /\ [Next]_vars => Flights'
<1> SUFFICES ASSUME TypeOK, Calls, Flights, [Next]_vars PROVE Flights'
  OBVIOUS
<1>1. /\ pc \in [Caller -> {"idle", "stale", "miss", "construct", "store", "end", "wait",
                            "finish", "returned"}]
      /\ leader \in [Caller -> Caller \cup {None}] /\ flight \in [Key -> Caller \cup {None}]
      /\ None \notin Caller
  BY Types, CacheAssumption DEF TypeOK
<1>2. asks' = asks \/ Caller = {}
  BY Frozen
<1>3. ASSUME NEW k \in Key, flight'[k] # None
      PROVE  pc'[flight'[k]] \in {"construct", "store", "end"} /\ Hash[Q(flight[k])'] = k
  <2>1. ASSUME NEW d \in Caller, Lead(d), k = FlightKey(Q(d))
        PROVE  flight'[k] = d /\ pc'[d] = "construct"
    BY <1>1, <2>1 DEF Lead, Goto
  <2>2. CASE flight'[k] = flight[k]
    <3>1. flight[k] \in Caller /\ pc[flight[k]] \in {"construct", "store", "end"}
          /\ Hash[Q(flight[k])] = k /\ asks' = asks
      BY <1>1, <1>2, <1>3, <2>2 DEF Flights
    <3>2. PICK d \in Caller : d = flight[k]
      BY <3>1
    <3>3. ~FlightEnd(d)
      <4>1. ASSUME FlightEnd(d) PROVE flight'[k] = None
        BY <1>1, <3>1, <3>2, <4>1 DEF FlightEnd, FlightKey
      <4> QED
        BY <1>3, <4>1
    <3>4. pc'[d] \in {"construct", "store", "end"}
      <4>1. CASE Construct(d)
        BY <1>1, <4>1 DEF Construct, Goto
      <4>2. CASE Store(d)
        BY <1>1, <4>2 DEF Store, Goto
      <4>3. CASE ~Construct(d) /\ ~Store(d)
        <5>1. ~FormatError(d) /\ ~Uncached(d) /\ ~Hit(d) /\ ~Miss(d) /\ ~CallStep(d)
          BY <3>1, <3>2, <3>3, <4>3
          DEF FormatError, Uncached, Hit, Miss, CallStep, Remove, Lead, Join, Wake, Finish, At
        <5> QED
          BY <3>1, <3>2, <5>1, OtherCall
      <4> QED
        BY <4>1, <4>2, <4>3
    <3> QED
      BY <2>2, <3>1, <3>2, <3>4 DEF Q
  <2>3. ASSUME NEW d \in Caller, Lead(d) PROVE flight'[k] = flight[k] \/ k = FlightKey(Q(d))
    BY <1>1, <2>3 DEF Lead
  <2>4. ASSUME NEW d \in Caller, FlightEnd(d) PROVE flight'[k] = flight[k]
    BY <1>1, <1>3, <2>4 DEF FlightEnd
  <2>5. ASSUME \A d \in Caller : ~Lead(d) /\ ~FlightEnd(d) PROVE flight'[k] = flight[k]
    BY <2>5
    DEF Next, CallStep, FormatError, Uncached, Hit, Miss, Remove, Join, Construct, Store, Wake,
        Finish, Clear, Tick, Evict, vars
  <2>6. ASSUME NEW d \in Caller, Lead(d), k = FlightKey(Q(d))
        PROVE  pc'[flight'[k]] \in {"construct", "store", "end"} /\ Hash[Q(flight[k])'] = k
    <3>1. flight'[k] = d /\ pc'[d] = "construct"
      BY <2>1, <2>6
    <3>2. Q(flight[k])' = Q(d)
      BY <1>2, <3>1 DEF Q
    <3> QED
      BY <2>6, <3>1, <3>2 DEF FlightKey
  <2> QED
    BY <2>2, <2>3, <2>4, <2>5, <2>6
<1>4. ASSUME NEW c \in Caller
      PROVE  /\ pc'[c] \in {"construct", "store", "end"} => leader'[c] = c
             /\ pc'[c] \in {"wait", "finish"} =>
                  leader'[c] \in Caller /\ Hash[Q(leader[c])'] = Hash[Q(c)']
  <2> DEFINE Goal ==
        /\ pc'[c] \in {"construct", "store", "end"} => leader'[c] = c
        /\ pc'[c] \in {"wait", "finish"} =>
             leader'[c] \in Caller /\ Hash[asks[leader'[c]][1]] = Hash[asks[c][1]]
  <2>1. /\ pc[c] \in {"construct", "store", "end"} => leader[c] = c
        /\ pc[c] \in {"wait", "finish"} =>
             leader[c] \in Caller /\ Hash[asks[leader[c]][1]] = Hash[asks[c][1]]
    BY DEF Flights, Q
  <2>2. asks' = asks
    BY Frozen
  <2>3. ASSUME FormatError(c) \/ Uncached(c) \/ Hit(c) PROVE Goal
    BY <1>1, <2>3 DEF FormatError, Uncached, Hit, Return, Goto
  <2>4. ASSUME Miss(c) \/ Remove(c) PROVE Goal
    BY <1>1, <2>4 DEF Miss, Remove, Goto
  <2>5. ASSUME Lead(c) PROVE Goal
    BY <1>1, <2>5 DEF Lead, Goto
  <2>6. ASSUME Join(c) PROVE Goal
    <3>1. Q(c) \in Question
      BY <2>6, HasQuestion DEF Join, At, Calls
    <3>2. PICK k \in Key : k = Hash[Q(c)]
      BY <3>1 DEF Key
    <3>3. flight[k] # None /\ flight[k] \in Caller /\ Hash[Q(flight[k])] = k
      BY <1>1, <2>6, <3>2 DEF Join, FlightKey, Flights
    <3>4. leader'[c] = flight[k] /\ pc'[c] = "wait"
      BY <1>1, <2>6, <3>2 DEF Join, FlightKey, Goto
    <3> QED
      BY <3>2, <3>3, <3>4 DEF Q
  <2>7. ASSUME Construct(c) \/ Store(c) PROVE Goal
    <3>1. /\ pc[c] \in {"construct", "store"} /\ leader' = leader /\ pc'[c] \in {"store", "end"}
      BY <1>1, <2>7 DEF Construct, Store, At, Goto
    <3> QED
      BY <2>1, <3>1
  <2>8. ASSUME FlightEnd(c) PROVE Goal
    BY <1>1, <2>1, <2>8 DEF FlightEnd, At, Goto
  <2>9. ASSUME Wake(c) PROVE Goal
    BY <1>1, <2>1, <2>9 DEF Wake, At, Goto
  <2>10. ASSUME Finish(c) PROVE Goal
    BY <1>1, <2>1, <2>10 DEF Finish, At, Return, Goto
  <2>11. ASSUME pc'[c] = pc[c], leader'[c] = leader[c] PROVE Goal
    BY <2>1, <2>11
  <2> HIDE DEF Goal
  <2>12. Goal
    BY <2>3, <2>4, <2>5, <2>6, <2>7, <2>8, <2>9, <2>10, <2>11, OtherCall DEF CallStep
  <2> QED
    BY <2>2, <2>12 DEF Goal, Q
<1> QED
  BY <1>3, <1>4 DEF Flights

\* What is in the cache, a call that is past its constructor has put there.
LEMMA KeptStep == TypeOK /\ Calls /\ Sent /\ Kept /\ [Next]_vars => Kept'
<1> SUFFICES ASSUME TypeOK, Calls, Sent, Kept, [Next]_vars, NEW q \in Question, cache'[q] # None
             PROVE  \E d \in Caller : KeptBy(q, d)'
  BY DEF Kept
<1>1. CASE cache'[q] = cache[q]
  <2>1. PICK d \in Caller : KeptBy(q, d)
    BY <1>1 DEF Kept
  <2>2. pc[d] \in Past /\ pc[d] \notin {"idle", "construct"} /\ pc[d] # "store"
    BY <2>1 DEF KeptBy, Past
  <2>3. /\ pc'[d] \in Past /\ val'[d] = val[d] /\ msg'[<<d, "sent">>] = msg[<<d, "sent">>]
        /\ stored'[<<d, "sent">>] = stored[<<d, "sent">>]
    BY <2>2, Frozen
  <2>4. KeptBy(q, d)'
    BY <1>1, <2>1, <2>3 DEF KeptBy, Expiry
  <2> QED
    BY <2>4
<1>2. ASSUME NEW d \in Caller, Store(d), msg[val[d]].question = q,
             cache'[q] = [expire  |-> now + overwriteTTL(CalculateTTL(msg[val[d]].ttls)),
                          message |-> val[d]],
             stored' = [stored EXCEPT ![val[d]] = now]
      PROVE  KeptBy(q, d)'
  <2>1. val[d] = <<d, "sent">> /\ msg' = msg /\ val' = val /\ now \in Time
    BY <1>2 DEF Store, At, Calls, TypeOK
  <2>2. <<d, "sent">> \in Pointer /\ stored \in [Pointer -> Time \cup {None}]
    BY Types DEF Pointer
  <2>3. pc'[d] \in Past
    BY <1>2, Types DEF Store, Goto, Past
  <2>4. stored'[<<d, "sent">>] = now
    BY <1>2, <2>1, <2>2
  <2>5. /\ cache'[q].message = <<d, "sent">>
        /\ cache'[q].expire = now + overwriteTTL(CalculateTTL(msg[<<d, "sent">>].ttls))
    BY <1>2, <2>1
  <2> QED
    BY <1>2, <2>1, <2>3, <2>4, <2>5 DEF KeptBy, Expiry
<1> QED
  BY <1>1, <1>2, CacheStep

\* The entry that a hit was served from was in the cache.
LEMMA HitKeptStep == TypeOK /\ Calls /\ Kept /\ HitKept /\ [Next]_vars => HitKept'
<1> SUFFICES ASSUME TypeOK, Calls, Kept, HitKept, [Next]_vars, NEW c \in Caller, hit'[c] # None
             PROVE  \E d \in Caller :
                      hit'[c][2] = <<d, "sent">> /\ val'[d] = <<d, "sent">> /\ pc'[d] \in Past
  BY DEF HitKept
<1>1. ASSUME NEW d \in Caller, val[d] = <<d, "sent">>, pc[d] \in Past
      PROVE  val'[d] = <<d, "sent">> /\ pc'[d] \in Past
  BY <1>1, Frozen DEF Past
<1>2. CASE Hit(c)
  <2>1. Q(c) \in Question /\ cache[Q(c)] # None
    BY <1>2, HasQuestion DEF Hit
  <2>2. PICK d \in Caller : KeptBy(Q(c), d)
    BY <2>1 DEF Kept
  <2>3. hit'[c] = <<now, cache[Q(c)].message>>
    BY <1>2, Types DEF Hit
  <2>4. hit'[c][2] = <<d, "sent">>
    BY <2>2, <2>3 DEF KeptBy
  <2> QED
    BY <1>1, <2>2, <2>4 DEF KeptBy
<1>3. CASE hit'[c] = hit[c]
  BY <1>1, <1>3 DEF HitKept
<1>4. CASE ~Hit(c)
  <2>1. CASE FormatError(c) \/ Uncached(c) \/ Miss(c) \/ CallStep(c)
    <3>1. hit' = hit
      BY <2>1
      DEF FormatError, Uncached, Miss, CallStep, Remove, Lead, Join, Construct, Store, FlightEnd,
          Wake, Finish
    <3> QED
      BY <1>3, <3>1
  <2>2. CASE ~(FormatError(c) \/ Uncached(c) \/ Miss(c) \/ CallStep(c))
    BY <1>3, <1>4, <2>2, OtherCall
  <2> QED
    BY <2>1, <2>2
<1> QED
  BY <1>2, <1>4

\* A reply from the cache is the caller's copy of its question's entry.
LEMMA HitReply ==
  ASSUME DInv, NEW c \in Caller, Hit(c)
  PROVE  /\ ret'[c] = <<c, "own">>
         /\ msg'[<<c, "own">>].id = c
         /\ msg'[<<c, "own">>].edns <= Edns[c]
         /\ msg'[<<c, "own">>].question = Q(c)
         /\ hit'[c][1] = now
         /\ hit'[c][2] = cache[Q(c)].message
         /\ DOMAIN msg'[<<c, "own">>].ttls = DOMAIN msg[cache[Q(c)].message].ttls
         /\ \A i \in DOMAIN msg'[<<c, "own">>].ttls :
              msg'[<<c, "own">>].ttls[i] = Remaining(Q(c))
<1> DEFINE p == cache[Q(c)].message
           m == msg[p]
           n == [m EXCEPT !.id = c, !.ttls = OverwriteTTL(m.ttls, Remaining(Q(c))),
                          !.edns = EdnsBackwards(Edns[c], OptVersion(m.edns, Remaining(Q(c))))]
<1>1. TypeOK /\ Sent /\ Kept /\ <<c, "own">> \in Pointer
  BY DEF DInv, Pointer
<1>2. Q(c) \in Question /\ cache[Q(c)] # None
  BY <1>1, HasQuestion DEF Hit
<1>3. PICK d \in Caller : KeptBy(Q(c), d)
  BY <1>1, <1>2 DEF Kept
<1>4. m \in Message /\ m.question = Q(c)
  BY <1>1, <1>2, <1>3, KeptMessage DEF KeptBy
<1>5. /\ msg' = [msg EXCEPT ![<<c, "own">>] = n] /\ ret' = [ret EXCEPT ![c] = <<c, "own">>]
      /\ hit' = [hit EXCEPT ![c] = <<now, p>>]
  BY DEF Hit, Return, Copy
<1>6. /\ n.id = c /\ n.question = Q(c)
      /\ n.edns = EdnsBackwards(Edns[c], OptVersion(m.edns, Remaining(Q(c))))
      /\ n.ttls = OverwriteTTL(m.ttls, Remaining(Q(c)))
  BY <1>4 DEF Message
<1>7. n.edns <= Edns[c]
  <2>1. m.edns \in Nat /\ Edns[c] \in Nat
    BY <1>4, CacheAssumption DEF Message
  <2>2. now \in Nat /\ cache[Q(c)].expire \in Nat
    BY <1>1, <1>2, Types, BoundedTTL, CacheAssumption DEF TypeOK, Time
  <2>3. Remaining(Q(c)) \in Nat
    BY <1>2, <2>2, RemainingFits
  <2>4. OptVersion(m.edns, Remaining(Q(c))) \in Nat
    BY <2>1, <2>3, VersionFits
  <2> QED
    BY <1>6, <2>1, <2>4, EdnsFits
<1>8. DOMAIN n.ttls = DOMAIN m.ttls /\ \A i \in DOMAIN n.ttls : n.ttls[i] = Remaining(Q(c))
  BY <1>6 DEF OverwriteTTL
<1> HIDE DEF n, p
<1>9. msg'[<<c, "own">>] = n /\ ret'[c] = <<c, "own">> /\ hit'[c] = <<now, p>>
  BY <1>1, <1>5, Types
<1> QED
  BY <1>6, <1>7, <1>8, <1>9 DEF p

\* A reply from a flight is the caller's copy of what its leader fetched.
LEMMA FinishReply ==
  ASSUME DInv, NEW c \in Caller, Finish(c), ret'[c] \in Pointer
  PROVE  /\ ret'[c] = <<c, "own">>
         /\ msg'[<<c, "own">>].id = c
         /\ msg'[<<c, "own">>].edns <= Edns[c]
         /\ Hash[msg'[<<c, "own">>].for] = Hash[Q(c)]
<1> DEFINE v == val[leader[c]]
           n == [msg[v] EXCEPT !.id = c, !.edns = EdnsBackwards(Edns[c], msg[v].edns)]
<1>1. /\ TypeOK /\ Sent /\ Flights /\ Calls /\ <<c, "own">> \in Pointer
      /\ pc[c] = "finish" /\ ret[c] = None
      /\ None \notin Pointer /\ Failed \notin Pointer
  BY CacheAssumption DEF DInv, Pointer, Finish, At, Calls
<1>2. \/ ret' = [ret EXCEPT ![c] = Failed]
      \/ ret' = ret
      \/ /\ v \in Pointer /\ msg' = [msg EXCEPT ![<<c, "own">>] = n]
         /\ ret' = [ret EXCEPT ![c] = <<c, "own">>]
  BY DEF Finish, Return, Copy
<1> HIDE DEF n
<1>3. v \in Pointer /\ msg'[<<c, "own">>] = n /\ ret'[c] = <<c, "own">>
  BY <1>1, <1>2, Types
<1>4. msg[v] \in Message /\ Hash[msg[v].for] = Hash[Q(c)]
  BY <1>1, <1>3, FlightMessage
<1>5. n.id = c /\ n.edns = EdnsBackwards(Edns[c], msg[v].edns) /\ n.for = msg[v].for
  BY <1>4 DEF n, Message
<1>6. n.edns <= Edns[c]
  <2>1. msg[v].edns \in Nat /\ Edns[c] \in Nat
    BY <1>4, CacheAssumption DEF Message
  <2>2. EdnsBackwards(Edns[c], msg[v].edns) <= Edns[c]
    BY <2>1, EdnsFits
  <2> QED
    BY <1>5, <2>2
<1> QED
  BY <1>3, <1>4, <1>5, <1>6

\* How a call comes to return.
LEMMA ReturnStep ==
  ASSUME TypeOK, Calls, [Next]_vars, NEW c \in Caller, pc[c] # "returned", pc'[c] = "returned"
  PROVE  FormatError(c) \/ Uncached(c) \/ Hit(c) \/ Finish(c)
<1> SUFFICES ASSUME ~FormatError(c), ~Uncached(c), ~Hit(c), ~Finish(c) PROVE FALSE
  OBVIOUS
<1>1. DOMAIN pc = Caller /\ pc = [d \in Caller |-> pc[d]]
  BY Types
<1>2. ~Miss(c) /\ ~Remove(c) /\ ~Lead(c) /\ ~Join(c) /\ ~FlightEnd(c) /\ ~Wake(c) /\ ~Store(c)
  BY <1>1 DEF Miss, Remove, Lead, Join, FlightEnd, Wake, Store, Goto
<1>3. ~Construct(c)
  <2>1. ASSUME Construct(c) PROVE pc'[c] = "store" \/ pc'[c] = "end"
    BY <1>1, <2>1 DEF Construct, Goto
  <2> QED
    BY <2>1
<1> QED
  BY <1>2, <1>3, OtherCall DEF CallStep

\* Replies are the callers' own, and answer their questions.
LEMMA ReplyStep == DInv /\ Calls' /\ Kept' /\ [Next]_vars => OwnReply' /\ RightAnswer'
<1> SUFFICES ASSUME DInv, Calls', Kept', [Next]_vars, NEW c \in Caller, Answered(c)'
             PROVE  /\ msg'[ret'[c]].id = c /\ msg'[ret'[c]].edns <= Edns[c]
                    /\ \A q \in Question : cache'[q] # None => cache'[q].message # ret'[c]
                    /\ \/ msg'[ret'[c]].for = Q(c)'
                       \/ msg'[ret'[c]].question = Q(c)'
                       \/ Hash[msg'[ret'[c]].for] = Hash[Q(c)']
  BY DEF OwnReply, RightAnswer
<1>1. TypeOK /\ Calls /\ OwnReply /\ RightAnswer
  BY DEF DInv
<1>2. ret'[c] = <<c, "own">> /\ pc'[c] = "returned" /\ Len(asks'[c]) = 1 /\ ret'[c] \in Pointer
  BY CacheAssumption DEF Calls, Answered
<1>3. ASSUME NEW q \in Question, cache'[q] # None PROVE cache'[q].message # ret'[c]
  <2>1. PICK d \in Caller : KeptBy(q, d)'
    BY <1>3 DEF Kept
  <2>2. cache'[q].message = <<d, "sent">> /\ <<d, "sent">> # <<c, "own">>
    BY <2>1 DEF KeptBy
  <2> QED
    BY <1>2, <2>2
<1>4. asks' = asks /\ Q(c)' = Q(c) /\ Len(asks[c]) = 1
  BY <1>1, <1>2, Frozen DEF Q
<1>5. CASE pc[c] = "returned"
  <2>1. ret'[c] = ret[c] /\ msg'[<<c, "own">>] = msg[<<c, "own">>]
    BY <1>1, <1>5, Frozen
  <2>2. Answered(c)
    BY <1>2, <1>4, <2>1 DEF Answered
  <2> QED
    BY <1>1, <1>2, <1>3, <1>4, <2>1, <2>2 DEF OwnReply, RightAnswer
<1>6. CASE pc[c] # "returned"
  <2>1. ~FormatError(c) /\ ~Uncached(c)
    <3>1. ~FormatError(c)
      BY <1>4 DEF FormatError
    <3>2. ~Uncached(c)
      BY <1>4 DEF Uncached
    <3> QED
      BY <3>1, <3>2
  <2>2. CASE Hit(c)
    BY <1>2, <1>3, <1>4, <2>2, HitReply
  <2>3. CASE Finish(c)
    BY <1>2, <1>3, <1>4, <2>3, FinishReply
  <2> QED
    BY <1>1, <1>2, <1>6, <2>1, <2>2, <2>3, ReturnStep
<1> QED
  BY <1>5, <1>6

\* What a reply from the cache promises ends with its record's TTL.
LEMMA TTLStep == DInv /\ Calls' /\ [Next]_vars => NoLongerThanTTL'
<1> SUFFICES ASSUME DInv, Calls', [Next]_vars, NEW c \in Caller, hit'[c] # None,
                    NEW i \in DOMAIN msg'[ret'[c]].ttls,
                    \A j \in i..Len(msg'[hit'[c][2]].ttls) : msg'[hit'[c][2]].ttls[j] # 0
             PROVE  hit'[c][1] + msg'[ret'[c]].ttls[i] * Second
                      <= stored'[hit'[c][2]] + Raised(msg'[hit'[c][2]].ttls[i]) * Second
  BY DEF NoLongerThanTTL, Raised
<1>1. TypeOK /\ Calls /\ Sent /\ Kept /\ HitKept /\ NoLongerThanTTL
  BY DEF DInv
<1>2. ret'[c] = <<c, "own">> /\ pc'[c] = "returned"
  BY DEF Calls
<1>3. ASSUME NEW d \in Caller, pc[d] \in Past
      PROVE  msg'[<<d, "sent">>] = msg[<<d, "sent">>] /\ stored'[<<d, "sent">>] = stored[<<d, "sent">>]
  BY <1>1, <1>3, Frozen DEF Past
<1>4. CASE pc[c] = "returned"
  <2>1. ret'[c] = ret[c] /\ hit'[c] = hit[c] /\ msg'[<<c, "own">>] = msg[<<c, "own">>]
    BY <1>1, <1>4, Frozen
  <2>2. PICK d \in Caller : hit[c][2] = <<d, "sent">> /\ pc[d] \in Past
    BY <1>1, <2>1 DEF HitKept
  <2>3. msg'[<<d, "sent">>] = msg[<<d, "sent">>] /\ stored'[<<d, "sent">>] = stored[<<d, "sent">>]
    BY <1>3, <2>2
  <2>4. i \in DOMAIN msg[ret[c]].ttls
    BY <1>2, <2>1
  <2>5. hit[c] # None /\ \A j \in i..Len(msg[hit[c][2]].ttls) : msg[hit[c][2]].ttls[j] # 0
    BY <2>1, <2>2, <2>3, Zenon
  <2>6. hit[c][1] + msg[ret[c]].ttls[i] * Second
          <= stored[hit[c][2]] + Raised(msg[hit[c][2]].ttls[i]) * Second
    BY <1>1, <2>4, <2>5 DEF NoLongerThanTTL, Raised
  <2> QED
    BY <1>2, <2>1, <2>2, <2>3, <2>6, Zenon
<1>5. CASE Hit(c)
  <2>1. Q(c) \in Question /\ cache[Q(c)] # None /\ Remaining(Q(c)) > 0
    <3>1. cache[Q(c)] # None /\ Remaining(Q(c)) > 0 /\ Len(asks[c]) = 1
      BY <1>5 DEF Hit
    <3>2. Len(asks[c]) >= 1
      BY <3>1
    <3>3. Q(c) \in Question
      BY <1>1, <3>2, HasQuestion, Zenon
    <3> QED
      BY <3>1, <3>3
  <2>2. PICK d \in Caller : KeptBy(Q(c), d)
    BY <1>1, <2>1 DEF Kept
  <2>3. msg'[<<d, "sent">>] = msg[<<d, "sent">>] /\ stored'[<<d, "sent">>] = stored[<<d, "sent">>]
    BY <1>3, <2>2 DEF KeptBy
  <2>4. /\ hit'[c][1] = now /\ hit'[c][2] = <<d, "sent">>
        /\ msg'[ret'[c]].ttls[i] = Remaining(Q(c))
        /\ i \in DOMAIN msg[<<d, "sent">>].ttls
    BY <1>2, <1>5, <2>2, HitReply DEF KeptBy
  <2>5. PICK s \in Seq(Nat) : s = msg[<<d, "sent">>].ttls
    BY <1>1, <2>1, <2>2, KeptMessage DEF Message
  <2>6. i \in 1..Len(s) /\ s[i] \in Nat /\ \A j \in i..Len(s) : s[j] # 0
    <3>1. msg'[hit'[c][2]].ttls = s
      BY <2>3, <2>4, <2>5
    <3>2. \A j \in i..Len(s) : s[j] # 0
      BY <3>1, Zenon
    <3>3. i \in DOMAIN s
      BY <2>4, <2>5
    <3> QED
      BY <3>2, <3>3
  <2>7. PICK ttl \in Nat : ttl = overwriteTTL(CalculateTTL(s)) /\ ttl <= Raised(s[i])
    <3>1. CalculateTTL(s) \in Nat /\ CalculateTTL(s) <= s[i]
      BY <2>6, TTLIsLeast
    <3>2. PICK t \in Nat : t = CalculateTTL(s)
      BY <3>1
    <3>3. overwriteTTL(t) \in Nat /\ (overwriteTTL(t) <= t \/ overwriteTTL(t) <= MinTTL)
      BY BoundedTTL
    <3>4. overwriteTTL(t) <= Raised(s[i])
      BY <2>6, <3>1, <3>2, <3>3, CacheAssumption DEF Raised
    <3> QED
      BY <3>2, <3>3, <3>4
  <2>8. cache[Q(c)].expire = stored[<<d, "sent">>] + ttl /\ stored[<<d, "sent">>] \in Nat
    BY <2>2, <2>5, <2>7, CacheAssumption DEF KeptBy, Expiry, Time
  <2>9. now \in Nat /\ cache[Q(c)].expire \in Nat
    BY <1>1, <2>8, Types
  <2>10. PICK x \in Nat : x = Remaining(Q(c)) * Second /\ now + x <= stored[<<d, "sent">>] + ttl
    <3>1. Remaining(Q(c)) \in Nat /\ Second \in Nat
      BY <2>1, <2>9, RemainingFits, CacheAssumption
    <3>2. Remaining(Q(c)) * Second \in Nat
      BY <3>1
    <3> QED
      BY <2>1, <2>8, <2>9, <3>2, RemainingFits
  <2>11. PICK y \in Nat : y = Raised(s[i]) * Second /\ ttl <= y
    <3>1. PICK r \in Nat : r = Raised(s[i])
      BY <2>6, CacheAssumption DEF Raised
    <3>2. Second \in Nat /\ Second >= 1
      BY CacheAssumption
    <3>3. r * Second \in Nat /\ r <= r * Second
      BY <3>2
    <3>4. ttl <= r * Second
      BY <2>7, <3>1, <3>3
    <3> QED
      BY <3>1, <3>3, <3>4
  <2>12. now + x <= stored[<<d, "sent">>] + y
    BY <2>8, <2>9, <2>10, <2>11
  <2>13. msg'[hit'[c][2]].ttls[i] = s[i] /\ stored'[hit'[c][2]] = stored[<<d, "sent">>]
    BY <2>3, <2>4, <2>5
  <2>14. msg'[ret'[c]].ttls[i] * Second = x /\ Raised(msg'[hit'[c][2]].ttls[i]) * Second = y
    BY <2>4, <2>10, <2>11, <2>13, Zenon
  <2> QED
    BY <2>4, <2>12, <2>13, <2>14
<1>6. CASE pc[c] # "returned" /\ ~Hit(c)
  <2>1. hit[c] = None
    BY <1>1, <1>6 DEF Calls
  <2>2. FormatError(c) \/ Uncached(c) \/ Finish(c)
    BY <1>1, <1>2, <1>6, ReturnStep
  <2>3. hit' = hit
    BY <2>2 DEF FormatError, Uncached, Finish
  <2> QED
    BY <2>1, <2>3
<1> QED
  BY <1>4, <1>5, <1>6

-----------------------------------------------------------------------------
(* The theorems.                                                           *)

\* The invariant holds in every state of the cache.
THEOREM DInvariant == Spec => []DInv
<1>1. Init => DInv
  <2> SUFFICES ASSUME Init PROVE DInv
    OBVIOUS
  <2>1. TypeOK
    <3>1. now \in Time /\ panicked \in BOOLEAN /\ \A c \in Caller : asks[c] \in Asks[c]
      <4>1. now \in Time
        BY CacheAssumption DEF Init, Time
      <4>2. panicked \in BOOLEAN
        BY DEF Init
      <4>3. \A c \in Caller : asks[c] \in Asks[c]
        BY Zenon DEF Init
      <4> QED
        BY <4>1, <4>2, <4>3
    <3>2. /\ cache \in [Question -> [expire : 0..(MaxTime + Ceiling), message : Pointer] \cup {None}]
          /\ flight \in [Key -> Caller \cup {None}]
          /\ msg \in [Pointer -> Message \cup {None}]
          /\ stored \in [Pointer -> Time \cup {None}]
      BY DEF Init
    <3>3. /\ pc \in [Caller -> {"idle", "stale", "miss", "construct", "store", "end", "wait",
                                "finish", "returned"}]
          /\ leader \in [Caller -> Caller \cup {None}]
          /\ val \in [Caller -> Pointer \cup {None, Failed}]
          /\ ret \in [Caller -> Pointer \cup {None, Failed}]
          /\ hit \in [Caller -> (Time \X Pointer) \cup {None}]
      BY DEF Init
    <3> QED
      BY <3>1, <3>2, <3>3 DEF TypeOK
  <2>2. Calls
    BY CacheAssumption DEF Init, Calls
  <2>3. Sent /\ Flights /\ Kept /\ HitKept
    <3>1. Sent
      BY CacheAssumption DEF Init, Sent, Pointer
    <3>2. Flights
      BY DEF Init, Flights
    <3>3. Kept /\ HitKept
      BY DEF Init, Kept, HitKept
    <3> QED
      BY <3>1, <3>2, <3>3
  <2>4. OwnReply /\ RightAnswer /\ NoLongerThanTTL
    <3>1. \A c \in Caller : ret[c] \notin Pointer
      BY CacheAssumption DEF Init
    <3>2. OwnReply /\ RightAnswer
      BY <3>1 DEF OwnReply, RightAnswer, Answered
    <3>3. NoLongerThanTTL
      BY DEF Init, NoLongerThanTTL
    <3> QED
      BY <3>2, <3>3
  <2> QED
    BY <2>1, <2>2, <2>3, <2>4 DEF DInv
<1>2. DInv /\ [Next]_vars => DInv'
  <2> SUFFICES ASSUME DInv, [Next]_vars PROVE DInv'
    OBVIOUS
  <2>1. TypeOK' /\ Calls' /\ Sent' /\ Flights' /\ Kept' /\ HitKept'
    BY TypeStep, CallsStep, SentStep, FlightsStep, KeptStep, HitKeptStep DEF DInv
  <2>2. OwnReply' /\ RightAnswer' /\ NoLongerThanTTL'
    BY <2>1, ReplyStep, TTLStep
  <2> QED
    BY <2>1, <2>2 DEF DInv
<1> QED
  BY <1>1, <1>2, PTL DEF Spec

\* Callers of a flight, and of the cache, hold messages of their own, stamped
\* with their Id and no higher EDNS version than they asked with.
THEOREM RepliesAreOwn == Spec => []OwnReply
<1>1. DInv => OwnReply
  BY DEF DInv
<1> QED
  BY <1>1, DInvariant, PTL

\* A caller's answer is one to its question, or to one with the same hash.
THEOREM AnswersAreRight == Spec => []RightAnswer
<1>1. DInv => RightAnswer
  BY DEF DInv
<1> QED
  BY <1>1, DInvariant, PTL

\* No reply from the cache promises a record behind the last zero TTL for
\* longer than its own TTL, or MinTTL if that is more, from when it was stored:
\* the shortest TTL is found among any number of records, and the seconds left
\* are rounded down, whatever the bounds and the unit of the clock are.
THEOREM NeverLonger == Spec => []NoLongerThanTTL
<1>1. DInv => NoLongerThanTTL
  BY DEF DInv
<1> QED
  BY <1>1, DInvariant, PTL
=============================================================================
