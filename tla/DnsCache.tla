------------------------------ MODULE DnsCache ------------------------------
(***************************************************************************)
(* The answer cache of the DNS client (resolve/cache.go) as its clients    *)
(* reach it through ExchangeTransport (resolve/client.go): LoadOrStore     *)
(* looks the question up, and on a miss lets one of the concurrent callers *)
(* run the constructor (the exchange of a transport) for all of them.      *)
(*                                                                         *)
(* Messages live at pointers, because the code shares them: a message that *)
(* a constructor returned is handed to every caller of the flight and put  *)
(* into the cache.  <<c, "sent">> is what the constructor run by c         *)
(* returned, <<c, "own">> the message c allocates for its reply.           *)
(*                                                                         *)
(* The constructor is never nil: ExchangeTransport, the only caller,       *)
(* passes trans.Exchange.                                                  *)
(*                                                                         *)
(* The clock counts ticks, Second of them per second; a tick stands for    *)
(* the nanosecond that is time.Duration's unit.                            *)
(***************************************************************************)
EXTENDS Integers, Sequences, FiniteSets

CONSTANTS
  Caller,        \* calls of LoadOrStore
  Question,      \* values of dns.Question
  Asks,          \* Asks[c]: the questions c may ask, a set of sequences
  Edns,          \* Edns[c]: 0, or 1 + the EDNS version of c's message
  Hash,          \* hashQuestion
  Upstream,      \* what servers answer: records [ttls, edns]
  MinTTL, MaxTTL,
  Second,        \* bound: ticks of a second
  MaxTime,       \* bound: ticks of a behaviour
  None, Failed   \* no value, and an error

Pointer == Caller \X {"sent", "own"}

ASSUME CacheAssumption ==
  /\ \A c \in Caller : \A a \in Asks[c] : a \in Seq(Question)
  /\ Edns \in [Caller -> Nat]
  /\ Upstream \subseteq [ttls : Seq(Nat), edns : Nat]
  /\ MinTTL \in Nat /\ MaxTTL \in Nat /\ MaxTime \in Nat /\ Second \in Nat \ {0}
  /\ None \notin Caller /\ None \notin Question
  /\ None \notin Pointer /\ Failed \notin Pointer /\ None # Failed

VARIABLES
  now,       \* the clock
  cache,     \* c.lru: question -> [expire, message], or None
  flight,    \* c.sf: key -> the caller that runs the constructor, or None
  msg,       \* the heap: pointer -> message, or None
  pc,        \* where a call is
  asks,      \* the questions of a call's message
  leader,    \* the caller whose flight a call joined, or None
  val,       \* the result of the flight a caller leads: pointer, None, or Failed
  ret,       \* what a call returned, likewise
  hit,       \* history: when, and with which entry, the cache answered, or None
  stored,    \* history: when a pointer was put into the cache, or None
  panicked   \* nil was dereferenced

callVars == <<pc, asks, leader, val, ret, hit>>
vars == <<now, cache, flight, msg, callVars, stored, panicked>>

Time == 0..MaxTime
Key == {Hash[q] : q \in Question}

\* NewCacheSize raises MaxTTL to MinTTL.
Ceiling == IF MaxTTL < MinTTL THEN MinTTL ELSE MaxTTL

Message ==
  [id : Caller \cup {None}, question : Question \cup {None}, ttls : Seq(Nat), edns : Nat,
   rcode : {"ok", "fail", "formerr"}, for : Question \cup {None}]

TypeOK ==
  /\ now \in Time
  /\ cache \in [Question -> [expire : 0..(MaxTime + Ceiling), message : Pointer] \cup {None}]
  /\ flight \in [Key -> Caller \cup {None}]
  /\ msg \in [Pointer -> Message \cup {None}]
  /\ pc \in [Caller -> {"idle", "stale", "miss", "construct", "store", "end", "wait",
                        "finish", "returned"}]
  /\ \A c \in Caller : asks[c] \in Asks[c]
  /\ leader \in [Caller -> Caller \cup {None}]
  /\ val \in [Caller -> Pointer \cup {None, Failed}]
  /\ ret \in [Caller -> Pointer \cup {None, Failed}]
  /\ hit \in [Caller -> (Time \X Pointer) \cup {None}]
  /\ stored \in [Pointer -> Time \cup {None}]
  /\ panicked \in BOOLEAN

Init ==
  /\ now = 0
  /\ cache = [q \in Question |-> None]
  /\ flight = [k \in Key |-> None]
  /\ msg = [p \in Pointer |-> None]
  /\ pc = [c \in Caller |-> "idle"]
  /\ asks \in [Caller -> UNION {Asks[c] : c \in Caller}] /\ \A c \in Caller : asks[c] \in Asks[c]
  /\ leader = [c \in Caller |-> None]
  /\ val = [c \in Caller |-> None]
  /\ ret = [c \in Caller |-> None]
  /\ hit = [c \in Caller |-> None]
  /\ stored = [p \in Pointer |-> None]
  /\ panicked = FALSE

-----------------------------------------------------------------------------

\* The TTLs of the records in message order.  A zero counts as "none yet".
CalculateTTL(ttls) ==
  LET at[i \in 0..Len(ttls)] ==
        IF i = 0 THEN 0
        ELSE IF at[i - 1] = 0 \/ at[i - 1] > ttls[i] THEN ttls[i] ELSE at[i - 1]
  IN  at[Len(ttls)]

overwriteTTL(ttl) ==
  LET raised == IF ttl < MinTTL THEN MinTTL ELSE ttl
  IN  IF raised > Ceiling THEN Ceiling ELSE raised

\* Mutant: the records keep the TTLs they came with.
KeepTTL(ttls, ttl) == ttls

OverwriteTTL(ttls, ttl) == [i \in DOMAIN ttls |-> ttl]

\* The EDNS record (OPT) has no TTL: the field holds the EDNS version, in its
\* second byte, which OverwriteTTL writes over as well.
OptVersion(edns, ttl) == IF edns = 0 THEN 0 ELSE 1 + ((ttl \div 65536) % 256)

\* What is left of a reply's EDNS record: none for a request without one,
\* version 0 for a request of a lower version.
EdnsBackwards(req, resp) == IF resp > req THEN (IF req = 0 THEN 0 ELSE 1) ELSE resp

\* Mutant: the message is not copied.
CopyShared(c, p) == p

\* Msg.Copy: where c's copy of the message at p is.
Copy(c, p) == <<c, "own">>

Q(c) == asks[c][1]

\* Mutant: flights are not told apart.
FlightKeyOne(q) == Hash[CHOOSE r \in Question : TRUE]

FlightKey(q) == Hash[q]

\* A panic ends the process.
At(c, l) == ~panicked /\ pc[c] = l

Goto(c, l) == pc' = [pc EXCEPT ![c] = l]

Return(c, v) == ret' = [ret EXCEPT ![c] = v] /\ Goto(c, "returned")

\* Whole seconds before the entry of q expires; 0 once it has.
Remaining(q) == IF cache[q].expire < now THEN 0 ELSE (cache[q].expire - now) \div Second

-----------------------------------------------------------------------------

\* No question: a format error of c's own.
FormatError(c) ==
  /\ At(c, "idle")
  /\ asks[c] = <<>>
  /\ msg' = [msg EXCEPT ![<<c, "own">>] =
       [id |-> c, question |-> None, ttls |-> <<>>, edns |-> 0, rcode |-> "formerr", for |-> None]]
  /\ Return(c, <<c, "own">>)
  /\ UNCHANGED <<now, cache, flight, asks, leader, val, hit, stored, panicked>>

\* What a constructor run by c returns: an error, nil, or a message.  Nothing
\* ties the question of the message to the one that was asked: the search
\* list of LocalTransport changes it, and no transport compares them.  (That
\* of a failure is of no consequence, and taken to be the same.)
Constructed(c) ==
  \/ val' = [val EXCEPT ![c] = Failed] /\ UNCHANGED msg
  \/ UNCHANGED <<val, msg>>
  \/ \E up \in Upstream, q \in Question \cup {None}, rcode \in {"ok", "fail"} :
       /\ rcode = "fail" => q = Q(c)
       /\ msg' = [msg EXCEPT ![<<c, "sent">>] =
            [id |-> None, question |-> q, ttls |-> up.ttls, edns |-> up.edns, rcode |-> rcode,
             for |-> Q(c)]]
       /\ val' = [val EXCEPT ![c] = <<c, "sent">>]

\* ExchangeTransport hands the reply v on, or panics on a nil one.
ExchangeTransport(v) == panicked' = (v = None)

\* More than one question: straight to the constructor.
Uncached(c) ==
  /\ At(c, "idle")
  /\ Len(asks[c]) > 1
  /\ Constructed(c)
  /\ Return(c, val'[c])
  /\ ExchangeTransport(val'[c])
  /\ UNCHANGED <<now, cache, flight, asks, leader, hit, stored>>

\* The entry is there and has a second left: the reply is a copy of it.
Hit(c) ==
  /\ At(c, "idle")
  /\ Len(asks[c]) = 1
  /\ cache[Q(c)] # None
  /\ Remaining(Q(c)) > 0
  /\ LET p == cache[Q(c)].message
         m == msg[p]
     IN  /\ msg' = [msg EXCEPT ![Copy(c, p)] =
              [m EXCEPT !.id = c,
                        !.ttls = OverwriteTTL(m.ttls, Remaining(Q(c))),
                        !.edns = EdnsBackwards(Edns[c], OptVersion(m.edns, Remaining(Q(c))))]]
         /\ Return(c, Copy(c, p))
  /\ hit' = [hit EXCEPT ![c] = <<now, cache[Q(c)].message>>]
  /\ UNCHANGED <<now, cache, flight, asks, leader, val, stored, panicked>>

Miss(c) ==
  /\ At(c, "idle")
  /\ Len(asks[c]) = 1
  /\ \/ cache[Q(c)] = None /\ Goto(c, "miss")
     \/ cache[Q(c)] # None /\ Remaining(Q(c)) = 0 /\ Goto(c, "stale")
  /\ UNCHANGED <<now, cache, flight, msg, asks, leader, val, ret, hit, stored, panicked>>

\* lru.Remove, of whatever entry the question has by now.
Remove(c) ==
  /\ At(c, "stale")
  /\ cache' = [cache EXCEPT ![Q(c)] = None]
  /\ Goto(c, "miss")
  /\ UNCHANGED <<now, flight, msg, asks, leader, val, ret, hit, stored, panicked>>

\* sf.Do: c leads a flight of its own, or waits for the one under way.
Lead(c) ==
  /\ At(c, "miss")
  /\ flight[FlightKey(Q(c))] = None
  /\ flight' = [flight EXCEPT ![FlightKey(Q(c))] = c]
  /\ leader' = [leader EXCEPT ![c] = c]
  /\ Goto(c, "construct")
  /\ UNCHANGED <<now, cache, msg, asks, val, ret, hit, stored, panicked>>

Join(c) ==
  /\ At(c, "miss")
  /\ flight[FlightKey(Q(c))] # None
  /\ leader' = [leader EXCEPT ![c] = flight[FlightKey(Q(c))]]
  /\ Goto(c, "wait")
  /\ UNCHANGED <<now, cache, flight, msg, asks, val, ret, hit, stored, panicked>>

\* The constructor's message goes on to Store.
Stores(v) == v \notin {None, Failed} /\ msg'[v].rcode = "ok"

Construct(c) ==
  /\ At(c, "construct")
  /\ Constructed(c)
  /\ Goto(c, IF Stores(val'[c]) THEN "store" ELSE "end")
  /\ UNCHANGED <<now, cache, flight, asks, leader, ret, hit, stored, panicked>>

\* Store: under the question of the answer, until ttl ticks from now.
Store(c) ==
  /\ At(c, "store")
  /\ LET m   == msg[val[c]]
         ttl == overwriteTTL(CalculateTTL(m.ttls))
     IN  IF m.question = None \/ ttl <= 1
         THEN UNCHANGED <<cache, stored>>
         ELSE /\ cache' = [cache EXCEPT ![m.question] = [expire |-> now + ttl, message |-> val[c]]]
              /\ stored' = [stored EXCEPT ![val[c]] = now]
  /\ Goto(c, "end")
  /\ UNCHANGED <<now, flight, msg, asks, leader, val, ret, hit, panicked>>

\* Mutant: a flight that failed is left in the group.
FlightEndOk(c) ==
  /\ At(c, "end") /\ val[c] # Failed
  /\ flight' = [flight EXCEPT ![FlightKey(Q(c))] = None]
  /\ Goto(c, "finish")
  /\ UNCHANGED <<now, cache, msg, asks, leader, val, ret, hit, stored, panicked>>

\* The function given to sf.Do has returned.
FlightEnd(c) ==
  /\ At(c, "end")
  /\ flight' = [flight EXCEPT ![FlightKey(Q(c))] = None]
  /\ Goto(c, "finish")
  /\ UNCHANGED <<now, cache, msg, asks, leader, val, ret, hit, stored, panicked>>

\* sf.Do returns to the callers that waited.
Wake(c) ==
  /\ At(c, "wait")
  /\ pc[leader[c]] \in {"finish", "returned"}
  /\ Goto(c, "finish")
  /\ UNCHANGED <<now, cache, flight, msg, asks, leader, val, ret, hit, stored, panicked>>

\* The flight's error, or a copy of its message; a nil message is dereferenced.
Finish(c) ==
  /\ At(c, "finish")
  /\ LET v == val[leader[c]]
     IN  \/ v = Failed /\ Return(c, Failed) /\ UNCHANGED <<msg, panicked>>
         \/ v = None /\ panicked' = TRUE /\ UNCHANGED <<pc, ret, msg>>
         \/ /\ v \in Pointer
            /\ msg' = [msg EXCEPT ![Copy(c, v)] =
                 [msg[v] EXCEPT !.id = c, !.edns = EdnsBackwards(Edns[c], msg[v].edns)]]
            /\ Return(c, Copy(c, v))
            /\ UNCHANGED panicked
  /\ UNCHANGED <<now, cache, flight, asks, leader, val, hit, stored>>

Clear ==
  /\ ~panicked
  /\ cache' = [q \in Question |-> None]
  /\ UNCHANGED <<now, flight, msg, callVars, stored, panicked>>

\* freelru drops the oldest entry of a full shard.
Evict(q) ==
  /\ ~panicked
  /\ cache[q] # None
  /\ cache' = [cache EXCEPT ![q] = None]
  /\ UNCHANGED <<now, flight, msg, callVars, stored, panicked>>

Tick ==
  /\ ~panicked
  /\ now < MaxTime
  /\ now' = now + 1
  /\ UNCHANGED <<cache, flight, msg, callVars, stored, panicked>>

CallStep(c) ==
  \/ Remove(c) \/ Lead(c) \/ Join(c) \/ Construct(c) \/ Store(c) \/ FlightEnd(c)
  \/ Wake(c) \/ Finish(c)

Next ==
  \/ \E c \in Caller : FormatError(c) \/ Uncached(c) \/ Hit(c) \/ Miss(c) \/ CallStep(c)
  \/ Clear \/ Tick
  \/ \E q \in Question : Evict(q)

Spec == Init /\ [][Next]_vars

\* The goroutines are scheduled.  Nothing is assumed of a constructor: the
\* exchange of a transport may end only with the context of its caller.
FairSpec == Spec /\ \A c \in Caller : WF_vars(pc[c] # "construct" /\ CallStep(c))

-----------------------------------------------------------------------------

Answered(c) == Len(asks[c]) = 1 /\ ret[c] \in Pointer

\* Callers share what a flight or the cache gives them and stamp it with
\* their own Id and EDNS version, so each must hold a message of its own: no
\* later caller changes it, and it is not the one the cache keeps.
OwnReply ==
  \A c \in Caller : Answered(c) =>
    /\ msg[ret[c]].id = c /\ msg[ret[c]].edns <= Edns[c]
    /\ \A q \in Question : cache[q] # None => cache[q].message # ret[c]

\* A caller gets an answer to its own question, fetched for it or kept under
\* it, or one that was fetched for a question with the same 32-bit hash.
RightAnswer ==
  \A c \in Caller : Answered(c) =>
    LET m == msg[ret[c]]
    IN  m.for = Q(c) \/ m.question = Q(c) \/ Hash[m.for] = Hash[Q(c)]

\* However late the cache serves it, a record is never promised for longer
\* than the TTL its server gave it, counted from when it was stored, or than
\* MinTTL, to which the cache raises a lower one.  This is of the records with
\* no TTL of zero at or after them: CalculateTTL starts again at a zero, so
\* the records up to it have no bound but that of the ones behind it.
NoLongerThanTTL ==
  \A c \in Caller : hit[c] # None =>
    LET kept   == msg[hit[c][2]].ttls
        served == msg[ret[c]].ttls
    IN  \A i \in DOMAIN served :
          (\A j \in i..Len(kept) : kept[j] # 0) =>
            hit[c][1] + served[i] * Second
              <= stored[hit[c][2]] + (IF kept[i] < MinTTL THEN MinTTL ELSE kept[i]) * Second

\* A call that missed gets into a flight, whatever became of the earlier ones
\* of its question; and once the constructor of its flight has returned, with
\* an error too, and whoever ran it, the call returns.
CallReturns ==
  \A c \in Caller :
    /\ pc[c] \in {"stale", "miss"} ~> leader[c] # None \/ panicked
    /\ (leader[c] # None /\ pc[leader[c]] # "construct") ~> pc[c] = "returned" \/ panicked

\* TTLs are seconds: an answer is served from the cache while more than a
\* second of its TTL is left.
ServedForTTL ==
  \A q \in Question : cache[q] # None =>
    LET ttl == overwriteTTL(CalculateTTL(msg[cache[q].message].ttls))
    IN  now + Second < stored[cache[q].message] + ttl * Second => Remaining(q) > 0
=============================================================================
