-------------------------- MODULE EndpointsProofs ---------------------------
(***************************************************************************)
(* Proofs about calls for a name and the DialParallel they end in, for     *)
(* lists of any length: no connection is lost, the fallback starts once,   *)
(* an error means that every address was tried, the dial implements        *)
(* ConnRace, and between the answer and the socket no address changes its  *)
(* family or is left out.                                                  *)
(***************************************************************************)
EXTENDS Endpoints, WellFoundedInduction, FiniteSetTheorems, TLAPS

-----------------------------------------------------------------------------
(* The inductive invariant.                                                *)

ControlType ==
  /\ main \in {"start", "serial", "race", "returned"}
  /\ pc \in [Walker -> {"off", "dialing", "offer", "done"}]
  /\ open \subseteq Walker
  /\ seen \subseteq Racer
  /\ timer \in {"off", "armed", "now", "fired"}
  /\ ret \in Walker \cup {"pending", "error"}

\* Which walkers run in which phase of DialParallel.
Phase ==
  /\ main = "start" => \A w \in Walker : pc[w] = "off"
  /\ main = "serial" => pc["caller"] \in {"dialing", "offer"} /\ \A w \in Racer : pc[w] = "off"
  /\ main = "race" => timer # "off" /\ pc["caller"] = "off"
  /\ main = "race" => \A w \in Racer : pc[w] = "done" => w \in seen
  /\ main = "returned" => pc["caller"] \in {"off", "done"}
  /\ ret = "pending" <=> main # "returned"

\* Who has a connection, and what was returned.
Holding ==
  /\ \A w \in Walker : w \in open => pc[w] \in {"offer", "done"}
  /\ \A w \in seen : pc[w] = "done" /\ w \notin open
  /\ ret \in Walker => ret \in open /\ pc[ret] = "done"
  /\ ret = "error" => open = {} /\ \A w \in Walker : pc[w] \in {"off", "done"}

RInv == ControlType /\ Phase /\ Holding /\ NoConnLeak /\ FallbackOnce

\* What an address must be to get past the filter of DialSerial.
Fits(i) ==
  /\ req.version = "4" => req.addresses[i] \notin {"6", "46"}
  /\ req.version = "6" => req.addresses[i] # "4"

\* The addresses to be tried.  DialSerial without a delay knows no strategy.
Due(i) ==
  /\ req.addresses[i] # "bad"
  /\ Fits(i)
  /\ req.version = "dual" /\ ~(req.eyeball /\ req.noDelay) =>
       /\ req.strategy = "only4" => req.addresses[i] \in Is4
       /\ req.strategy = "only6" => req.addresses[i] \in Is6

In(i, s) == \E k \in DOMAIN s : s[k] = i

ListType == req.addresses \in Seq(Family) /\ todo \in [Walker -> Seq(Nat)]

\* What is in the lists, and when; a walker keeps the address it has reached.
Listed ==
  /\ \A w \in Walker : \A k \in DOMAIN todo[w] :
       todo[w][k] \in DOMAIN req.addresses /\ Fits(todo[w][k])
  /\ main = "start" => failed = {} /\ \A w \in Walker : todo[w] = <<>>
  /\ \A w \in open : todo[w] # <<>> /\ req.addresses[Head(todo[w])] # "bad"
  /\ failed \subseteq DOMAIN req.addresses

\* An address that is due is still in a list of those who walk, or has failed.
Remaining ==
  \A i \in DOMAIN req.addresses : Due(i) =>
    /\ main = "serial" => i \in failed \/ In(i, todo["caller"])
    /\ main = "race" => i \in failed \/ \E w \in Racer : In(i, todo[w])

\* A walker gives up only at the end of its list.
WalkedAll ==
  main # "returned" =>
    \A w \in Walker : pc[w] \in {"offer", "done"} /\ w \notin open => todo[w] = <<>>

DueFailed == ret = "error" => \A i \in DOMAIN req.addresses : Due(i) => i \in failed

LInv == ListType /\ Listed /\ Remaining /\ WalkedAll /\ DueFailed

\* What a look-up has found, and for which types it was asked.
LookupState ==
  /\ lookup \in [QType -> {"off", "asked", "answered", "failed"}]
  /\ found \in [QType -> Seq(Family)]
  /\ \A t \in QType : lookup[t] # "answered" => found[t] = <<>>
  /\ stage = "start" => \A t \in QType : lookup[t] = "off"
  /\ call.kind = "dial" => \A t \in QType : t \notin QTypes(call.strategy) => lookup[t] = "off"

\* The dial of a name is of all that was found, for the call's network, and
\* its strategy is in what was found or drops nothing.
DialState ==
  /\ stage # "dial" => main = "start"
  /\ call.kind = "dial" /\ stage = "dial" =>
       /\ req.addresses = Found
       /\ req.version = call.net.version
       /\ (req.eyeball /\ req.noDelay) \/ req.strategy \in {"prefer4", "prefer6"}

\* A call that has failed without a dial had nothing to try, or tried it all.
TriedState ==
  /\ call.kind = "listen" => call.net.protocol \in {"tcp", "udp"}
  /\ stage = "returned" /\ outcome = "error" /\ call.net.protocol # "udp" =>
       Found = <<>> \/ tried = IF call.kind = "listen" THEN Resolved(Found) ELSE DOMAIN Found

EInv == RInv /\ LInv /\ LookupState /\ DialState /\ TriedState

-----------------------------------------------------------------------------

\* Every step of DialParallel keeps the invariant of the race.
LEMMA RaceStep ==
  ASSUME RInv, [Next]_vars
  PROVE  RInv'
<1> USE DEF Walker, Racer
<1> USE DEF RInv, ControlType, Phase, Holding, NoConnLeak, FallbackOnce
<1>1. ASSUME NEW w \in Walker, DialOk(w) PROVE RInv'
  BY <1>1 DEF DialOk
<1>2. ASSUME NEW w \in Walker, DialErr(w) PROVE RInv'
  BY <1>2 DEF DialErr
<1>3. ASSUME NEW w \in Walker, AllFailed(w) PROVE RInv'
  BY <1>3 DEF AllFailed
<1>4. CASE EnterSerial
  BY <1>4 DEF EnterSerial
<1>5. CASE EnterRace
  BY <1>5 DEF EnterRace
<1>6. CASE ReturnSerial
  BY <1>6 DEF ReturnSerial, Result
<1>7. CASE TimerFires
  BY <1>7 DEF TimerFires
<1>8. ASSUME NEW w \in Racer, ReceiveConn(w) PROVE RInv'
  BY <1>8 DEF ReceiveConn
<1>9. ASSUME NEW w \in Racer, ReceiveErr(w) PROVE RInv'
  <2>1. CASE BothDone(seen')
    <3>1. open = {}
      BY <1>9, <2>1 DEF ReceiveErr, BothDone
    <3> QED
      BY <1>9, <2>1, <3>1 DEF ReceiveErr, BothDone
  <2>2. CASE ~BothDone(seen')
    <3>1. timer' \in {timer, "now"} /\ (timer' = "now" => timer # "fired")
      BY <1>9, <2>2 DEF ReceiveErr, Rearmed
    <3> QED
      BY <1>9, <2>2, <3>1 DEF ReceiveErr
  <2> QED
    BY <2>1, <2>2
<1>10. ASSUME NEW w \in Racer, CloseLoser(w) PROVE RInv'
  BY <1>10 DEF CloseLoser
<1>11. CASE UNCHANGED vars
  BY <1>11 DEF vars
<1> QED
  BY <1>1, <1>2, <1>3, <1>4, <1>5, <1>6, <1>7, <1>8, <1>9, <1>10, <1>11
  DEF Next, Caller, Walk

\* The invariant holds initially and every step keeps it.
THEOREM RInvariant == Spec => []RInv
<1>1. Init => RInv
  BY DEF Init, RInv, ControlType, Phase, Holding, NoConnLeak, FallbackOnce, Walker, Racer
<1>2. RInv /\ [Next]_vars => RInv'
  BY RaceStep
<1> QED
  BY <1>1, <1>2, PTL DEF Spec

\* No connection is lost between a racer and the caller of DialParallel.
THEOREM NoLeak == Spec => []NoConnLeak
<1>1. RInv => NoConnLeak
  BY DEF RInv
<1> QED
  BY <1>1, RInvariant, PTL

\* The timer starts the fallback racer at most once, Stop and Reset included.
THEOREM OneFallback == Spec => []FallbackOnce
<1>1. RInv => FallbackOnce
  BY DEF RInv
<1> QED
  BY <1>1, RInvariant, PTL

\* Every step of DialParallel is one of the abstract race, or none.
LEMMA StepOfRace ==
  ASSUME RInv, [Next]_vars
  PROVE  Race!Next \/ UNCHANGED <<open, ret>>
<1> USE DEF Walker, Racer
<1>1. ASSUME NEW w \in Walker, DialOk(w) PROVE Race!Open(w)
  BY <1>1 DEF DialOk, Race!Open, RInv, ControlType, Holding
<1>2. ASSUME NEW w \in Walker, DialErr(w) \/ AllFailed(w) PROVE UNCHANGED <<open, ret>>
  BY <1>2 DEF DialErr, AllFailed
<1>3. CASE EnterSerial \/ EnterRace \/ TimerFires
  BY <1>3 DEF EnterSerial, EnterRace, TimerFires
<1>4. CASE ReturnSerial
  <2>1. CASE "caller" \in open
    BY <1>4, <2>1 DEF ReturnSerial, Result, Race!Next, Race!Return, RInv, Phase
  <2>2. CASE "caller" \notin open
    BY <1>4, <2>2
    DEF ReturnSerial, Result, Race!Next, Race!Fail, RInv, ControlType, Phase, Holding
  <2> QED
    BY <2>1, <2>2
<1>5. ASSUME NEW w \in Racer, ReceiveConn(w) PROVE Race!Return(w)
  BY <1>5 DEF ReceiveConn, Race!Return, RInv, Phase
<1>6. ASSUME NEW w \in Racer, ReceiveErr(w) PROVE Race!Fail \/ UNCHANGED <<open, ret>>
  <2>1. CASE BothDone(seen')
    <3>1. open = {}
      BY <1>6, <2>1 DEF ReceiveErr, BothDone, RInv, ControlType, Phase, Holding
    <3> QED
      BY <1>6, <2>1, <3>1 DEF ReceiveErr, Race!Fail, RInv, Phase
  <2>2. CASE ~BothDone(seen')
    BY <1>6, <2>2 DEF ReceiveErr
  <2> QED
    BY <2>1, <2>2
<1>7. ASSUME NEW w \in Racer, CloseLoser(w)
      PROVE  Race!CloseLoser(w) \/ UNCHANGED <<open, ret>>
  <2>1. ret # "pending" /\ ret # w
    BY <1>7 DEF CloseLoser, RInv, ControlType, Phase, Holding
  <2> QED
    BY <1>7, <2>1 DEF CloseLoser, Race!CloseLoser
<1>8. CASE UNCHANGED vars
  BY <1>8 DEF vars
<1> QED
  BY <1>1, <1>2, <1>3, <1>4, <1>5, <1>6, <1>7, <1>8 DEF Next, Caller, Walk, Race!Next

\* DialParallel implements the abstract race for a connection.
THEOREM ImplementsRace == Spec => RaceSpec
<1>1. Init => Race!Init
  BY DEF Init, Race!Init
<1>2. RInv /\ [Next]_vars => [Race!Next]_<<open, ret>>
  BY StepOfRace
<1> QED
  BY <1>1, <1>2, RInvariant, PTL DEF Spec, RaceSpec, Race!Spec

-----------------------------------------------------------------------------
(* Which addresses the lists hold.                                         *)

\* A set of natural numbers has a least element.
LEMMA NatLeast ==
  ASSUME NEW T \in SUBSET Nat, T # {}
  PROVE  \E x \in T : \A y \in T : x <= y
<1> DEFINE R == OpToRel(<, Nat)
<1>1. IsWellFoundedOn(R, Nat)
  BY NatLessThanWellFounded
<1>2. \A x, y \in Nat : y < x => <<y, x>> \in R
  BY DEF OpToRel
<1> HIDE DEF R
<1>3. \E x \in T : \A y \in T : ~ (<<y, x>> \in R)
  BY <1>1, WFMin
<1>4. PICK x \in T : \A y \in T : ~ (<<y, x>> \in R)
  BY <1>3
<1>5. \A y \in T : x \in Nat /\ y \in Nat /\ ~(y < x)
  BY <1>2, <1>4
<1>6. \A y \in T : x <= y
  BY <1>5
<1> QED
  BY <1>4, <1>6

\* A set with zero, and with every successor of its members, has them all.
LEMMA SetInduction ==
  ASSUME NEW S, 0 \in S, \A k \in Nat : k \in S => k + 1 \in S
  PROVE  Nat \subseteq S
<1> SUFFICES ASSUME Nat \ S # {} PROVE FALSE
  OBVIOUS
<1>1. PICK x \in Nat \ S : \A y \in Nat \ S : x <= y
  BY NatLeast
<1>2. x # 0 /\ x - 1 \in Nat /\ x - 1 \in S
  BY <1>1
<1>3. (x - 1) + 1 \in S
  BY <1>2
<1> QED
  BY <1>1, <1>2, <1>3

\* Appending, joining and dropping the head, for the members of a list.
LEMMA AppendIn ==
  ASSUME NEW S, NEW x \in Seq(S), NEW v \in S
  PROVE  /\ Append(x, v) \in Seq(S)
         /\ \A y : In(y, Append(x, v)) <=> In(y, x) \/ y = v
<1>1. /\ Append(x, v) \in Seq(S)
      /\ DOMAIN Append(x, v) = 1..(Len(x) + 1)
      /\ DOMAIN x = 1..Len(x) /\ Len(x) \in Nat
      /\ Append(x, v)[Len(x) + 1] = v
      /\ \A k \in 1..Len(x) : Append(x, v)[k] = x[k]
  OBVIOUS
<1>2. /\ Len(x) + 1 \in 1..(Len(x) + 1) /\ 1..Len(x) \subseteq 1..(Len(x) + 1)
      /\ \A k \in 1..(Len(x) + 1) : k \in 1..Len(x) \/ k = Len(x) + 1
  BY <1>1
<1>3. ASSUME NEW y, In(y, Append(x, v)) PROVE In(y, x) \/ y = v
  BY <1>1, <1>2, <1>3, Zenon DEF In
<1>4. ASSUME NEW y, In(y, x) \/ y = v PROVE In(y, Append(x, v))
  BY <1>1, <1>2, <1>4, Zenon DEF In
<1> QED
  BY <1>1, <1>3, <1>4

LEMMA JoinIn ==
  ASSUME NEW S, NEW x \in Seq(S), NEW z \in Seq(S)
  PROVE  /\ x \o z \in Seq(S)
         /\ \A y : In(y, x \o z) <=> In(y, x) \/ In(y, z)
<1>1. /\ x \o z \in Seq(S)
      /\ DOMAIN (x \o z) = 1..(Len(x) + Len(z))
      /\ DOMAIN x = 1..Len(x) /\ Len(x) \in Nat
      /\ DOMAIN z = 1..Len(z) /\ Len(z) \in Nat
      /\ \A k \in 1..Len(x) : (x \o z)[k] = x[k]
  OBVIOUS
<1>2. \A k \in 1..Len(z) : (x \o z)[Len(x) + k] = z[k]
  OBVIOUS
<1>3. \A k \in 1..Len(x) : k \in 1..(Len(x) + Len(z))
  BY <1>1
<1>4. \A k \in 1..Len(z) : Len(x) + k \in 1..(Len(x) + Len(z))
  BY <1>1
<1>5. \A k \in 1..(Len(x) + Len(z)) : k \in 1..Len(x) \/ \E m \in 1..Len(z) : k = Len(x) + m
  <2> SUFFICES ASSUME NEW k \in 1..(Len(x) + Len(z)), k \notin 1..Len(x)
               PROVE  \E m \in 1..Len(z) : k = Len(x) + m
    OBVIOUS
  <2>1. k - Len(x) \in 1..Len(z) /\ k = Len(x) + (k - Len(x))
    BY <1>1
  <2> QED
    BY <2>1
<1>6. ASSUME NEW y, In(y, x) \/ In(y, z) PROVE In(y, x \o z)
  BY <1>1, <1>2, <1>3, <1>4, <1>6, Zenon DEF In
<1>7. ASSUME NEW y, In(y, x \o z) PROVE In(y, x) \/ In(y, z)
  <2>1. PICK k \in 1..(Len(x) + Len(z)) : (x \o z)[k] = y
    BY <1>1, <1>7 DEF In
  <2> QED
    BY <1>1, <1>2, <1>5, <2>1, Zenon DEF In
<1> QED
  BY <1>1, <1>6, <1>7

LEMMA TailIn ==
  ASSUME NEW S, NEW x \in Seq(S), x # <<>>
  PROVE  /\ Tail(x) \in Seq(S)
         /\ In(Head(x), x)
         /\ \A y : In(y, x) => y = Head(x) \/ In(y, Tail(x))
         /\ \A y : In(y, Tail(x)) => In(y, x)
<1>1. /\ Tail(x) \in Seq(S) /\ Head(x) = x[1]
      /\ DOMAIN x = 1..Len(x) /\ Len(x) \in Nat
      /\ DOMAIN Tail(x) = 1..(Len(x) - 1)
  OBVIOUS
<1>2. \A k \in 1..(Len(x) - 1) : Tail(x)[k] = x[k + 1]
  OBVIOUS
<1>3. \A k \in 1..Len(x) : k = 1 \/ (k - 1 \in 1..(Len(x) - 1) /\ (k - 1) + 1 = k)
  BY <1>1
<1>4. ASSUME NEW y, In(y, x), y # Head(x) PROVE In(y, Tail(x))
  <2>1. PICK k \in 1..Len(x) : x[k] = y
    BY <1>1, <1>4 DEF In
  <2>2. k # 1
    BY <1>1, <1>4, <2>1
  <2>3. PICK m \in 1..(Len(x) - 1) : m + 1 = k
    BY <1>3, <2>2
  <2>4. Tail(x)[m] = y
    BY <1>2, <2>1, <2>3
  <2> QED
    BY <1>1, <2>3, <2>4 DEF In
<1>5. 1 \in 1..Len(x) /\ \A k \in 1..(Len(x) - 1) : k + 1 \in 1..Len(x)
  <2>1. Len(x) # 0
    OBVIOUS
  <2> QED
    BY <1>1, <2>1
<1>6. ASSUME NEW y, In(y, Tail(x)) PROVE In(y, x)
  BY <1>1, <1>2, <1>5, <1>6 DEF In
<1>7. In(Head(x), x)
  BY <1>1, <1>5 DEF In
<1> QED
  BY <1>1, <1>4, <1>6, <1>7

\* Filter is defined for lists of every length, and keeps exactly the members
\* that are to be kept.
LEMMA FilterIn ==
  ASSUME NEW S, NEW s \in Seq(S), NEW T
  PROVE  /\ Filter(s, T) \in Seq(S)
         /\ \A y : In(y, Filter(s, T)) <=> In(y, s) /\ y \in T
<1> DEFINE N == Len(s)
           Step(x, i) == IF s[i] \in T THEN Append(x, s[i]) ELSE x
           Is(f, k) == f = [i \in 0..k |-> IF i = 0 THEN <<>> ELSE Step(f[i - 1], i)]
           at == CHOOSE f : Is(f, N)
           Made == {k \in Nat : \E f : Is(f, k)}
           Holds(x, k) ==
             /\ x \in Seq(S)
             /\ \A y : In(y, x) <=> \E j \in 1..k : s[j] = y /\ y \in T
           Fine == {k \in Nat : k <= N => Holds(at[k], k)}
<1>1. Filter(s, T) = at[N]
  BY DEF Filter
<1>2. N \in Nat /\ DOMAIN s = 1..N /\ \A i \in 1..N : s[i] \in S
  OBVIOUS
<1> HIDE DEF N
<1>3. 0 \in Made
  <2>1. Is([i \in 0..0 |-> <<>>], 0)
    OBVIOUS
  <2> QED
    BY <2>1
<1>4. ASSUME NEW k \in Nat, k \in Made PROVE k + 1 \in Made
  <2> HIDE DEF Step
  <2>1. PICK f : Is(f, k)
    BY <1>4
  <2> DEFINE g == [i \in 0..(k + 1) |-> IF i = k + 1 THEN Step(f[k], k + 1) ELSE f[i]]
  <2>2. g = [i \in 0..(k + 1) |-> g[i]]
    BY Zenon
  <2>3. g[k + 1] = Step(f[k], k + 1) /\ \A i \in 0..k : g[i] = f[i]
    OBVIOUS
  <2> HIDE DEF g
  <2>4. ASSUME NEW i \in 0..(k + 1)
        PROVE  g[i] = IF i = 0 THEN <<>> ELSE Step(g[i - 1], i)
    <3>1. CASE i = k + 1
      <4>1. i - 1 = k /\ i # 0 /\ g[i - 1] = f[k]
        BY <2>3, <3>1
      <4> QED
        BY <2>3, <3>1, <4>1
    <3>2. CASE i \in 1..k
      <4>1. i - 1 \in 0..k /\ i # 0 /\ g[i - 1] = f[i - 1] /\ g[i] = f[i]
        BY <2>3, <3>2
      <4> QED
        BY <2>1, <3>2, <4>1
    <3>3. CASE i = 0
      BY <2>1, <2>3, <3>3
    <3> QED
      BY <3>1, <3>2, <3>3
  <2>5. Is(g, k + 1)
    BY <2>2, <2>4
  <2> QED
    BY <2>5
<1>5. N \in Made
  <2> HIDE DEF Made
  <2> QED
    BY <1>2, <1>3, <1>4, SetInduction
<1>6. Is(at, N)
  BY <1>5
<1> HIDE DEF at
<1>7. 0 \in Fine
  <2>1. at[0] = <<>>
    BY <1>2, <1>6
  <2>2. <<>> \in Seq(S) /\ \A y : ~In(y, <<>>) /\ \A j \in 1..0 : FALSE
    BY DEF In
  <2>3. Holds(at[0], 0)
    BY <2>1, <2>2, Zenon
  <2> HIDE DEF Holds
  <2> QED
    BY <2>3
<1>8. ASSUME NEW k \in Nat, k \in Fine PROVE k + 1 \in Fine
  <2> SUFFICES ASSUME k + 1 <= N PROVE Holds(at[k + 1], k + 1)
    OBVIOUS
  <2>1. k + 1 \in 0..N /\ (k + 1) - 1 = k /\ k + 1 # 0 /\ k + 1 \in 1..N /\ s[k + 1] \in S
    BY <1>2
  <2>2. Holds(at[k], k)
    BY <1>2, <1>8
  <2>3. at[k + 1] = Step(at[k], k + 1)
    <3> HIDE DEF Step
    <3> QED
      BY <1>6, <2>1
  <2>4. PICK x : x = at[k]
    OBVIOUS
  <2>5. PICK v \in S : v = s[k + 1]
    BY <2>1
  <2>6. x \in Seq(S) /\ \A y : In(y, x) <=> \E j \in 1..k : s[j] = y /\ y \in T
    BY <2>2, <2>4
  <2>7. Append(x, v) \in Seq(S) /\ \A y : In(y, Append(x, v)) <=> In(y, x) \/ y = v
    BY <2>6, AppendIn
  <2>8. \A j : j \in 1..(k + 1) <=> j \in 1..k \/ j = k + 1
    OBVIOUS
  <2>9. \A y : (\E j \in 1..(k + 1) : s[j] = y /\ y \in T)
             <=> (\E j \in 1..k : s[j] = y /\ y \in T) \/ (v = y /\ y \in T)
    BY <2>5, <2>8, Zenon
  <2>10. CASE v \in T
    <3>1. at[k + 1] = Append(x, v)
      BY <2>3, <2>4, <2>5, <2>10
    <3>2. \A y : In(y, Append(x, v)) <=> \E j \in 1..(k + 1) : s[j] = y /\ y \in T
      BY <2>6, <2>7, <2>9, <2>10, Zenon
    <3> QED
      BY <2>7, <3>1, <3>2
  <2>11. CASE v \notin T
    <3>1. at[k + 1] = x
      BY <2>3, <2>4, <2>5, <2>11
    <3>2. \A y : In(y, x) <=> \E j \in 1..(k + 1) : s[j] = y /\ y \in T
      BY <2>6, <2>9, <2>11, Zenon
    <3> QED
      BY <2>6, <3>1, <3>2
  <2> QED
    BY <2>10, <2>11
<1>9. N \in Fine
  <2> HIDE DEF Fine
  <2> QED
    BY <1>2, <1>7, <1>8, SetInduction
<1>10. Holds(at[N], N)
  BY <1>2, <1>9
<1>11. \A y : In(y, s) <=> \E j \in 1..N : s[j] = y
  BY <1>2 DEF In
<1> QED
  BY <1>1, <1>10, <1>11, Zenon

\* A list of positions in the request.
Of(s) == s \in Seq(Nat) /\ \A y : In(y, s) => y \in DOMAIN req.addresses

LEMMA OnlyIn ==
  ASSUME NEW s, Of(s), NEW F
  PROVE  Of(Only(s, F)) /\ \A y : In(y, Only(s, F)) <=> In(y, s) /\ req.addresses[y] \in F
<1> DEFINE T == {i \in DOMAIN req.addresses : req.addresses[i] \in F}
<1>1. Only(s, F) = Filter(s, T)
  BY DEF Only
<1>2. Filter(s, T) \in Seq(Nat) /\ \A y : In(y, Filter(s, T)) <=> In(y, s) /\ y \in T
  <2> HIDE DEF T
  <2> QED
    BY FilterIn DEF Of
<1>3. \A y : In(y, s) => (y \in T <=> req.addresses[y] \in F)
  BY DEF Of
<1> QED
  BY <1>1, <1>2, <1>3 DEF Of

\* Sorting loses no address, and the filter of DialSerial none that fits.
LEMMA SortIn ==
  ASSUME req.addresses \in Seq(Family), NEW s, Of(s)
  PROVE  Of(SortAddresses(s)) /\ \A y : In(y, SortAddresses(s)) <=> In(y, s)
<1> DEFINE a == Only(s, {"4"})
           b == Only(s, Family \ {"4"})
<1>1. Of(a) /\ \A y : In(y, a) <=> In(y, s) /\ req.addresses[y] \in {"4"}
  BY OnlyIn
<1>2. Of(b) /\ \A y : In(y, b) <=> In(y, s) /\ req.addresses[y] \in Family \ {"4"}
  BY OnlyIn
<1>3. \A y : In(y, s) => req.addresses[y] \in Family
  BY DEF Of
<1>4. \A y : In(y, a) \/ In(y, b) <=> In(y, s)
  <2> HIDE DEF a, b
  <2> QED
    BY <1>1, <1>2, <1>3
<1>5. SortAddresses(s) \in {a \o b, b \o a, s}
  BY DEF SortAddresses
<1> HIDE DEF a, b
<1>6. /\ a \o b \in Seq(Nat) /\ \A y : In(y, a \o b) <=> In(y, a) \/ In(y, b)
      /\ b \o a \in Seq(Nat) /\ \A y : In(y, b \o a) <=> In(y, b) \/ In(y, a)
  BY <1>1, <1>2, JoinIn DEF Of
<1>7. Of(a \o b) /\ Of(b \o a)
  BY <1>1, <1>2, <1>6 DEF Of
<1>8. CASE SortAddresses(s) = s
  BY <1>8
<1>9. CASE SortAddresses(s) = a \o b
  BY <1>4, <1>6, <1>7, <1>9
<1>10. CASE SortAddresses(s) = b \o a
  BY <1>4, <1>6, <1>7, <1>10
<1> QED
  BY <1>5, <1>8, <1>9, <1>10

LEMMA VersionIn ==
  ASSUME req.addresses \in Seq(Family), NEW s, Of(s)
  PROVE  Of(OfVersion(s)) /\ \A y : In(y, OfVersion(s)) <=> In(y, s) /\ Fits(y)
<1>1. \A y : In(y, s) => req.addresses[y] \in Family
  BY DEF Of
<1>2. CASE req.version = "4"
  <2>1. OfVersion(s) = Only(s, Family \ {"6", "46"})
    BY <1>2 DEF OfVersion
  <2>2. /\ Of(OfVersion(s))
        /\ \A y : In(y, OfVersion(s)) <=> In(y, s) /\ req.addresses[y] \in Family \ {"6", "46"}
    BY <2>1, OnlyIn
  <2> QED
    BY <1>1, <1>2, <2>2 DEF Fits
<1>3. CASE req.version = "6"
  <2>1. OfVersion(s) = Only(s, Family \ {"4"})
    BY <1>3 DEF OfVersion
  <2>2. /\ Of(OfVersion(s))
        /\ \A y : In(y, OfVersion(s)) <=> In(y, s) /\ req.addresses[y] \in Family \ {"4"}
    BY <2>1, OnlyIn
  <2> QED
    BY <1>1, <1>3, <2>2 DEF Fits
<1>4. CASE req.version \notin {"4", "6"}
  <2>1. OfVersion(s) = s
    BY <1>4 DEF OfVersion
  <2> QED
    BY <1>4, <2>1 DEF Fits
<1> QED
  BY <1>2, <1>3, <1>4

\* The list of all addresses.
LEMMA AllIn ==
  ASSUME req.addresses \in Seq(Family)
  PROVE  Of(All) /\ \A y : In(y, All) <=> y \in DOMAIN req.addresses
<1>1. PICK n \in Nat : n = Len(req.addresses)
  OBVIOUS
<1>2. DOMAIN req.addresses = 1..n /\ All = [i \in 1..n |-> i]
  BY <1>1 DEF All
<1>3. All \in Seq(Nat) /\ DOMAIN All = 1..n /\ \A i \in 1..n : All[i] = i
  BY <1>2
<1>4. \A y : In(y, All) <=> y \in 1..n
  BY <1>3, Zenon DEF In
<1> QED
  BY <1>2, <1>3, <1>4 DEF Of

\* Whichever way DialParallel makes a single list, it holds what is due, and
\* only what fits.
LEMMA SerialHasDue ==
  ASSUME req.addresses \in Seq(Family), Serial
  PROVE  /\ Of(SerialList)
         /\ \A y : In(y, SerialList) => Fits(y)
         /\ \A i \in DOMAIN req.addresses : Due(i) => In(i, SerialList)
<1>1. Of(All) /\ \A y : In(y, All) <=> y \in DOMAIN req.addresses
  BY AllIn
<1>2. CASE req.eyeball /\ (req.noDelay \/ OneVersion)
  <2>1. SerialList = OfVersion(All)
    BY <1>2 DEF SerialList
  <2>2. Of(SerialList) /\ \A y : In(y, SerialList) <=> In(y, All) /\ Fits(y)
    BY <1>1, <2>1, VersionIn
  <2> QED
    BY <1>1, <2>2 DEF Due
<1>3. CASE ~(req.eyeball /\ (req.noDelay \/ OneVersion)) /\ OneVersion
  <2>1. SerialList = OfVersion(SortAddresses(All))
    BY <1>3 DEF SerialList
  <2>2. Of(SortAddresses(All)) /\ \A y : In(y, SortAddresses(All)) <=> In(y, All)
    BY <1>1, SortIn
  <2>3. Of(SerialList) /\ \A y : In(y, SerialList) <=> In(y, SortAddresses(All)) /\ Fits(y)
    BY <2>1, <2>2, VersionIn
  <2> QED
    BY <1>1, <2>2, <2>3 DEF Due
<1>4. CASE ~(req.eyeball /\ (req.noDelay \/ OneVersion)) /\ ~OneVersion
  <2>1. req.version = "dual" /\ ~(req.eyeball /\ req.noDelay) /\ \A y : Fits(y)
    BY <1>4 DEF OneVersion, Fits
  <2>2. CASE Only(All, Is4) = <<>> \/ Only(All, Is6) = <<>>
    <3>1. SerialList = All
      BY <1>4, <2>2 DEF SerialList
    <3> QED
      BY <1>1, <2>1, <3>1
  <2>3. CASE ~(Only(All, Is4) = <<>> \/ Only(All, Is6) = <<>>)
    <3>1. req.strategy \in {"only4", "only6"}
      BY <2>1, <2>3, <1>4 DEF Serial
    <3>2. CASE req.strategy = "only4"
      <4>1. SerialList = Only(All, Is4)
        BY <1>4, <2>3, <3>2 DEF SerialList
      <4>2. Of(SerialList) /\ \A y : In(y, SerialList) <=> In(y, All) /\ req.addresses[y] \in Is4
        BY <1>1, <4>1, OnlyIn
      <4> QED
        BY <1>1, <2>1, <3>2, <4>2 DEF Due
    <3>3. CASE req.strategy = "only6"
      <4>1. SerialList = Only(All, Is6)
        BY <1>4, <2>3, <3>3 DEF SerialList
      <4>2. Of(SerialList) /\ \A y : In(y, SerialList) <=> In(y, All) /\ req.addresses[y] \in Is6
        BY <1>1, <4>1, OnlyIn
      <4> QED
        BY <1>1, <2>1, <3>3, <4>2 DEF Due
    <3> QED
      BY <3>1, <3>2, <3>3
  <2> QED
    BY <2>2, <2>3
<1> QED
  BY <1>2, <1>3, <1>4

\* The two lists of a race hold it together.
LEMMA RaceHasDue ==
  ASSUME req.addresses \in Seq(Family), ~Serial
  PROVE  /\ Of(Primaries) /\ Of(Fallbacks)
         /\ \A y : Fits(y)
         /\ \A i \in DOMAIN req.addresses : Due(i) => In(i, Primaries) \/ In(i, Fallbacks)
<1> DEFINE a == Only(All, Is4)
           b == Only(All, Is6)
<1>1. Of(All) /\ \A y : In(y, All) <=> y \in DOMAIN req.addresses
  BY AllIn
<1>2. Of(a) /\ \A y : In(y, a) <=> In(y, All) /\ req.addresses[y] \in Is4
  BY <1>1, OnlyIn
<1>3. Of(b) /\ \A y : In(y, b) <=> In(y, All) /\ req.addresses[y] \in Is6
  BY <1>1, OnlyIn
<1>4. \A i \in DOMAIN req.addresses : Due(i) => req.addresses[i] \in Is4 \/ req.addresses[i] \in Is6
  BY DEF Due, Family, Is4, Is6
<1>5. (Primaries = a /\ Fallbacks = b) \/ (Primaries = b /\ Fallbacks = a)
  BY DEF Primaries, Fallbacks
<1>6. \A y : Fits(y)
  BY DEF Fits, Serial, OneVersion
<1> HIDE DEF a, b
<1> QED
  BY <1>1, <1>2, <1>3, <1>4, <1>5, <1>6

\* What the request allows is due.
LEMMA AllowedIsDue ==
  ASSUME NEW i, Allowed(i)
  PROVE  Due(i)
BY DEF Allowed, Due, Fits

-----------------------------------------------------------------------------

\* What is due depends on the request alone.
LEMMA DueStays ==
  ASSUME UNCHANGED req
  PROVE  \A i : (Due(i)' <=> Due(i)) /\ (Fits(i)' <=> Fits(i))
BY DEF Due, Fits

\* Every step keeps the invariant of the lists.
LEMMA ListsStep ==
  ASSUME RInv, LInv, [Next]_vars
  PROVE  LInv'
<1> USE DEF Walker, Racer
<1>1. /\ req.addresses \in Seq(Family) /\ todo \in [Walker -> Seq(Nat)]
      /\ Listed /\ Remaining /\ WalkedAll /\ DueFailed
  BY DEF LInv, ListType
<1>2. UNCHANGED req
  BY DEF Next, Caller, Walk, DialOk, DialErr, AllFailed, EnterSerial, EnterRace,
     ReturnSerial, TimerFires, ReceiveConn, ReceiveErr, CloseLoser, vars
<1>3. \A i : (Due(i)' <=> Due(i)) /\ (Fits(i)' <=> Fits(i))
  BY <1>2, DueStays
<1>4. /\ pc \in [Walker -> {"off", "dialing", "offer", "done"}] /\ open \subseteq Walker
      /\ seen \subseteq Racer
      /\ main \in {"start", "serial", "race", "returned"}
      /\ ret \in Walker \cup {"pending", "error"}
      /\ ret = "pending" <=> main # "returned"
      /\ main = "start" => \A w \in Walker : pc[w] = "off"
      /\ \A w \in seen : pc[w] = "done" /\ w \notin open
      /\ \A w \in Walker : w \in open => pc[w] \in {"offer", "done"}
  BY DEF RInv, ControlType, Phase, Holding
<1>5. ASSUME NEW w \in Walker, DialOk(w) PROVE LInv'
  <2>1. WalkedAll'
    BY <1>1, <1>4, <1>5 DEF DialOk, WalkedAll
  <2>2. Listed'
    BY <1>1, <1>2, <1>3, <1>5 DEF DialOk, Listed
  <2> QED
    BY <1>1, <1>2, <1>3, <1>5, <2>1, <2>2 DEF DialOk, LInv, ListType, Remaining, DueFailed
<1>6. ASSUME NEW w \in Walker, DialErr(w) PROVE LInv'
  <2>1. PICK x \in Seq(Nat) : x = todo[w] /\ x # <<>>
    BY <1>1, <1>6 DEF DialErr
  <2>2. /\ Tail(x) \in Seq(Nat) /\ In(Head(x), x)
        /\ \A y : In(y, x) => y = Head(x) \/ In(y, Tail(x))
        /\ \A y : In(y, Tail(x)) => In(y, x)
    BY <2>1, TailIn
  <2>3. todo' \in [Walker -> Seq(Nat)] /\ todo' = [todo EXCEPT ![w] = Tail(x)]
    BY <1>1, <1>6, <2>1, <2>2 DEF DialErr
  <2>4. failed' = failed \cup {Head(x)} /\ main # "start" /\ pc[w] = "dialing"
    BY <1>4, <1>6, <2>1 DEF DialErr
  <2>5. \A v \in Walker : \A y : In(y, todo[v]) => y \in failed' \/ In(y, todo'[v])
    <3> SUFFICES ASSUME NEW v \in Walker, NEW y, In(y, todo[v]) PROVE y \in failed' \/ In(y, todo'[v])
      OBVIOUS
    <3>1. CASE v = w
      <4>1. todo'[v] = Tail(x) /\ todo[v] = x
        BY <1>1, <2>1, <2>3, <3>1
      <4> QED
        BY <2>2, <2>4, <4>1
    <3>2. CASE v # w
      <4>1. todo'[v] = todo[v]
        BY <1>1, <2>3, <3>2
      <4> QED
        BY <4>1
    <3> QED
      BY <3>1, <3>2
  <2>6. Remaining'
    BY <1>1, <1>2, <1>3, <1>6, <2>4, <2>5 DEF DialErr, Remaining
  <2>7. WalkedAll'
    <3> SUFFICES ASSUME main' # "returned", NEW v \in Walker, pc'[v] \in {"offer", "done"}, v \notin open'
                 PROVE  todo'[v] = <<>>
      BY DEF WalkedAll
    <3>1. v # w /\ todo[v] = <<>>
      BY <1>1, <1>4, <1>6 DEF DialErr, WalkedAll
    <3> QED
      BY <1>1, <2>3, <3>1
  <2>8. DueFailed'
    BY <1>1, <1>2, <1>3, <1>6, <2>4 DEF DialErr, DueFailed
  <2>9. Listed'
    <3>1. \A y : In(y, x) => y \in DOMAIN req.addresses /\ Fits(y)
      BY <1>1, <2>1 DEF Listed, In
    <3>2. \A k \in DOMAIN Tail(x) : Tail(x)[k] \in DOMAIN req.addresses /\ Fits(Tail(x)[k])
      BY <2>2, <3>1 DEF In
    <3>3. ASSUME NEW v \in Walker, NEW k \in DOMAIN todo'[v]
          PROVE  todo'[v][k] \in DOMAIN req.addresses /\ Fits(todo'[v][k])
      <4>1. todo'[v] = Tail(x) \/ todo'[v] = todo[v]
        BY <1>1, <2>3
      <4> QED
        BY <1>1, <3>2, <4>1 DEF Listed
    <3>4. \A v \in open' : todo'[v] # <<>> /\ req'.addresses[Head(todo'[v])] # "bad"
      <4>1. open' = open /\ w \notin open
        BY <1>4, <1>6, <2>4 DEF DialErr
      <4>2. \A v \in open : todo'[v] = todo[v]
        BY <1>1, <1>4, <2>3, <4>1
      <4> QED
        BY <1>1, <1>2, <4>1, <4>2 DEF Listed
    <3>5. failed' \subseteq DOMAIN req.addresses
      BY <1>1, <2>2, <2>4, <3>1 DEF Listed
    <3>6. main' # "start"
      BY <1>6, <2>4 DEF DialErr
    <3>7. \A v \in Walker : \A k \in DOMAIN todo'[v] :
            todo'[v][k] \in DOMAIN req'.addresses /\ Fits(todo[v][k])'
      BY <1>2, <3>3 DEF Fits
    <3> QED
      BY <1>2, <3>4, <3>5, <3>6, <3>7 DEF Listed
  <2> QED
    BY <1>1, <1>2, <2>3, <2>6, <2>7, <2>8, <2>9 DEF LInv, ListType
<1>7. ASSUME NEW w \in Walker, AllFailed(w) PROVE LInv'
  <2>1. WalkedAll'
    BY <1>1, <1>4, <1>7 DEF AllFailed, WalkedAll
  <2>2. Listed'
    BY <1>1, <1>2, <1>3, <1>7 DEF AllFailed, Listed
  <2> QED
    BY <1>1, <1>2, <1>3, <1>7, <2>1, <2>2 DEF AllFailed, LInv, ListType, Remaining, DueFailed
<1>8. CASE EnterSerial
  <2>1. PICK x \in Seq(Nat) :
          /\ x = SerialList
          /\ \A k \in DOMAIN x : x[k] \in DOMAIN req.addresses /\ Fits(x[k])
          /\ \A i \in DOMAIN req.addresses : Due(i) => In(i, x)
    BY <1>1, <1>8, SerialHasDue DEF EnterSerial, Of, In
  <2>2. todo' = [todo EXCEPT !["caller"] = x] /\ main' = "serial" /\ main = "start"
    BY <1>8, <2>1 DEF EnterSerial
  <2>3. todo' \in [Walker -> Seq(Nat)] /\ todo'["caller"] = x
    BY <1>1, <2>1, <2>2
  <2>4. Remaining'
    BY <1>2, <1>3, <2>1, <2>2, <2>3 DEF Remaining
  <2>5. WalkedAll'
    BY <1>4, <1>8 DEF EnterSerial, WalkedAll
  <2>6. DueFailed'
    BY <1>4, <1>8 DEF EnterSerial, DueFailed
  <2>7. Listed'
    <3>1. \A w \in Walker : todo'[w] = x \/ todo'[w] = todo[w]
      BY <1>1, <2>2
    <3>2. ASSUME NEW w \in Walker, NEW k \in DOMAIN todo'[w]
          PROVE  todo'[w][k] \in DOMAIN req.addresses /\ Fits(todo'[w][k])
      BY <1>1, <2>1, <3>1 DEF Listed
    <3>3. open' = {} /\ failed' = failed
      BY <1>4, <1>8 DEF EnterSerial
    <3>4. \A w \in Walker : \A k \in DOMAIN todo'[w] :
            todo'[w][k] \in DOMAIN req'.addresses /\ Fits(todo[w][k])'
      BY <1>2, <3>2 DEF Fits
    <3> QED
      BY <1>1, <1>2, <2>2, <3>3, <3>4 DEF Listed
  <2> QED
    BY <1>1, <1>2, <2>3, <2>4, <2>5, <2>6, <2>7 DEF LInv, ListType
<1>9. CASE EnterRace
  <2>1. PICK x \in Seq(Nat), z \in Seq(Nat) :
          /\ x = Primaries /\ z = Fallbacks
          /\ \A k \in DOMAIN x : x[k] \in DOMAIN req.addresses
          /\ \A k \in DOMAIN z : z[k] \in DOMAIN req.addresses
          /\ \A y : Fits(y)
          /\ \A i \in DOMAIN req.addresses : Due(i) => In(i, x) \/ In(i, z)
    BY <1>1, <1>9, RaceHasDue DEF EnterRace, Of, In
  <2>2. /\ todo' = [todo EXCEPT !["primary"] = x, !["fallback"] = z]
        /\ main' = "race" /\ main = "start"
    BY <1>9, <2>1 DEF EnterRace
  <2>3. todo' \in [Walker -> Seq(Nat)] /\ todo'["primary"] = x /\ todo'["fallback"] = z
    BY <1>1, <2>1, <2>2
  <2>4. Remaining'
    BY <1>2, <1>3, <2>1, <2>2, <2>3 DEF Remaining
  <2>5. WalkedAll'
    BY <1>4, <1>9 DEF EnterRace, WalkedAll
  <2>6. DueFailed'
    BY <1>4, <1>9 DEF EnterRace, DueFailed
  <2>7. Listed'
    <3>1. \A w \in Walker : todo'[w] = x \/ todo'[w] = z \/ todo'[w] = todo[w]
      BY <1>1, <2>2
    <3>2. ASSUME NEW w \in Walker, NEW k \in DOMAIN todo'[w]
          PROVE  todo'[w][k] \in DOMAIN req.addresses /\ Fits(todo'[w][k])
      BY <1>1, <2>1, <3>1 DEF Listed
    <3>3. open' = {} /\ failed' = failed
      BY <1>4, <1>9 DEF EnterRace
    <3>4. \A w \in Walker : \A k \in DOMAIN todo'[w] :
            todo'[w][k] \in DOMAIN req'.addresses /\ Fits(todo[w][k])'
      BY <1>2, <3>2 DEF Fits
    <3> QED
      BY <1>1, <1>2, <2>2, <3>3, <3>4 DEF Listed
  <2> QED
    BY <1>1, <1>2, <2>3, <2>4, <2>5, <2>6, <2>7 DEF LInv, ListType
<1>10. \A y : ~In(y, <<>>)
  BY DEF In
<1>11. CASE ReturnSerial
  <2>1. DueFailed'
    <3> SUFFICES ASSUME ret' = "error", NEW i \in DOMAIN req.addresses, Due(i) PROVE i \in failed
      BY <1>2, <1>3, <1>11 DEF ReturnSerial, DueFailed
    <3>1. "caller" \notin open /\ main = "serial" /\ pc["caller"] = "offer"
      BY <1>11 DEF ReturnSerial, Result
    <3>2. todo["caller"] = <<>>
      BY <1>1, <3>1 DEF WalkedAll
    <3> QED
      BY <1>1, <1>10, <3>1, <3>2 DEF Remaining
  <2>2. Listed'
    BY <1>1, <1>2, <1>3, <1>11 DEF ReturnSerial, Listed
  <2> QED
    BY <1>1, <1>2, <1>11, <2>1, <2>2 DEF ReturnSerial, LInv, ListType, Remaining, WalkedAll
<1>12. CASE TimerFires
  <2>1. WalkedAll'
    BY <1>1, <1>4, <1>12 DEF TimerFires, WalkedAll
  <2>2. Listed'
    BY <1>1, <1>2, <1>3, <1>12 DEF TimerFires, Listed
  <2> QED
    BY <1>1, <1>2, <1>3, <1>12, <2>1, <2>2 DEF TimerFires, LInv, ListType, Remaining, DueFailed
<1>13. ASSUME NEW w \in Racer, ReceiveConn(w) PROVE LInv'
  <2>1. Listed'
    BY <1>1, <1>2, <1>3, <1>13 DEF ReceiveConn, Listed
  <2> QED
    BY <1>1, <1>2, <1>13, <2>1 DEF ReceiveConn, LInv, ListType, Remaining, WalkedAll, DueFailed
<1>14. ASSUME NEW w \in Racer, ReceiveErr(w) PROVE LInv'
  <2>1. main = "race" /\ pc[w] = "offer" /\ w \notin open /\ todo[w] = <<>>
    BY <1>1, <1>14 DEF ReceiveErr, WalkedAll
  <2>2. CASE BothDone(seen')
    <3>1. main' = "returned" /\ ret' = "error" /\ UNCHANGED <<todo, failed, open>>
      BY <1>14, <2>2 DEF ReceiveErr
    <3>2. \A v \in Racer : todo[v] = <<>>
      <4>1. \A v \in Racer : v = w \/ v \in seen
        BY <1>14, <2>2 DEF ReceiveErr, BothDone
      <4> QED
        BY <1>1, <1>4, <2>1, <4>1 DEF WalkedAll
    <3>3. \A i \in DOMAIN req.addresses : Due(i) => i \in failed
      BY <1>1, <1>10, <2>1, <3>2 DEF Remaining
    <3>4. Listed'
      BY <1>1, <1>2, <1>3, <3>1 DEF Listed
    <3> QED
      BY <1>1, <1>2, <1>3, <3>1, <3>3, <3>4 DEF LInv, ListType, Remaining, WalkedAll, DueFailed
  <2>3. CASE ~BothDone(seen')
    <3>1. /\ UNCHANGED <<main, ret, todo, failed, open>>
          /\ pc' = [pc EXCEPT ![w] = "done"]
      BY <1>14, <2>3 DEF ReceiveErr
    <3>2. WalkedAll'
      BY <1>1, <1>4, <2>1, <3>1 DEF WalkedAll
    <3>3. Listed'
      BY <1>1, <1>2, <1>3, <3>1 DEF Listed
    <3> QED
      BY <1>1, <1>2, <1>3, <3>1, <3>2, <3>3 DEF LInv, ListType, Remaining, DueFailed
  <2> QED
    BY <2>2, <2>3
<1>15. ASSUME NEW w \in Racer, CloseLoser(w) PROVE LInv'
  <2>1. Listed'
    BY <1>1, <1>2, <1>3, <1>15 DEF CloseLoser, Listed
  <2> QED
    BY <1>1, <1>2, <1>3, <1>15, <2>1 DEF CloseLoser, LInv, ListType, Remaining, WalkedAll, DueFailed
<1>16. CASE UNCHANGED vars
  <2>1. Listed'
    BY <1>1, <1>2, <1>3, <1>16 DEF vars, Listed
  <2> QED
    BY <1>1, <1>3, <1>16, <2>1 DEF vars, LInv, ListType, Remaining, WalkedAll, DueFailed
<1> QED
  BY <1>5, <1>6, <1>7, <1>8, <1>9, <1>11, <1>12, <1>13, <1>14, <1>15, <1>16
  DEF Next, Caller, Walk

\* The lists of the walkers hold what has not failed, from the start on.
LEMMA ListsInit ==
  ASSUME Init
  PROVE  LInv
<1>1. req.addresses \in Seq(Family)
  <2>1. PICK n \in 0..MaxAddr : req.addresses \in [1..n -> Family]
    BY DEF Init, Request
  <2>2. n \in Nat
    BY <2>1, MaxAddrAssumption
  <2> QED
    BY <2>1, <2>2
<1>2. todo \in [Walker -> Seq(Nat)] /\ \A w \in Walker : todo[w] = <<>>
  BY DEF Init
<1> QED
  BY <1>1, <1>2 DEF Init, LInv, ListType, Listed, Remaining, WalkedAll, DueFailed

LEMMA DueSuffices ==
  ASSUME LInv
  PROVE  ErrorMeansAllFailed
BY AllowedIsDue DEF LInv, DueFailed, ErrorMeansAllFailed

\* When a dial ends with an error, every address that the network version and
\* the strategy allow was tried and failed, by whichever walker had it.
THEOREM ErrorsTryAll == Spec => []ErrorMeansAllFailed
<1>1. Init => LInv
  BY ListsInit
<1>2. RInv /\ LInv /\ [Next]_vars => LInv'
  BY ListsStep
<1>3. LInv => ErrorMeansAllFailed
  BY DueSuffices
<1> QED
  BY <1>1, <1>2, <1>3, RInvariant, PTL DEF Spec

-----------------------------------------------------------------------------
(* Calls.                                                                  *)

\* What is found is listed whole, in one order or the other.
LEMMA FoundIs ==
  /\ call.kind = "dial" => LookupStrategy = call.strategy
  /\ Found = found["AAAA"] \o found["A"] \/ Found = found["A"] \o found["AAAA"]
BY DEF Found, sortAddresses, LookupStrategy

LEMMA FoundIn ==
  ASSUME LookupState
  PROVE  /\ Found \in Seq(Family)
         /\ \A k \in DOMAIN Found : In(Found[k], found["A"]) \/ In(Found[k], found["AAAA"])
         /\ (\A t \in QType : found[t] = <<>>) => Found = <<>>
<1>1. found["A"] \in Seq(Family) /\ found["AAAA"] \in Seq(Family)
  BY DEF LookupState, QType
<1>2. PICK x \in Seq(Family), z \in Seq(Family) :
        /\ Found = x \o z
        /\ (x = found["A"] /\ z = found["AAAA"]) \/ (z = found["A"] /\ x = found["AAAA"])
  BY <1>1, FoundIs
<1>3. x \o z \in Seq(Family) /\ \A y : In(y, x \o z) <=> In(y, x) \/ In(y, z)
  BY JoinIn
<1>4. \A k \in DOMAIN Found : In(Found[k], Found)
  BY DEF In
<1>5. \A k \in DOMAIN Found : In(Found[k], found["A"]) \/ In(Found[k], found["AAAA"])
  BY <1>2, <1>3, <1>4
<1>6. (\A t \in QType : found[t] = <<>>) => Found = <<>>
  <2>1. <<>> \o <<>> = <<>>
    OBVIOUS
  <2> QED
    BY <1>2, <2>1 DEF QType
<1> QED
  BY <1>2, <1>3, <1>5, <1>6

\* The addresses that a message carries.
LEMMA MessageIn ==
  ASSUME NEW m \in Section
  PROVE  DNSMessageToAddresses(m) \in Seq(Family)
<1> DEFINE x == DNSMessageToAddresses(m)
<1>1. PICK n \in 0..MaxAnswer : m \in [1..n -> Record]
  BY DEF Section
<1>2. n \in Nat
  BY <1>1, MaxAnswerAssumption
<1>3. m \in Seq(Record)
  BY <1>1, <1>2
<1>4. x = Filter(m, Family)
  BY DEF DNSMessageToAddresses, Family
<1> HIDE DEF x
<1>5. x \in Seq(Record) /\ \A y : In(y, x) <=> In(y, m) /\ y \in Family
  BY <1>3, <1>4, FilterIn
<1>6. \A k \in DOMAIN x : x[k] \in Family
  BY <1>5 DEF In
<1>7. x \in Seq(Family)
  BY <1>5, <1>6
<1> QED
  BY <1>7 DEF x

\* A step of the look-up keeps what is known of it.
LEMMA LookupKeeps ==
  ASSUME LookupState, NEW t \in QType, LookupStep(t)
  PROVE  LookupState'
<1>1. UNCHANGED callVars /\ stage = "lookup" /\ lookup[t] = "asked"
  BY DEF LookupStep, Answered, LookupFailed
<1>2. PICK v \in {"answered", "failed"}, x \in Seq(Family) :
        /\ lookup' = [lookup EXCEPT ![t] = v] /\ found' = [found EXCEPT ![t] = x]
        /\ v # "answered" => x = <<>>
  <2>1. CASE Answered(t)
    <3>1. PICK m \in Section : found' = [found EXCEPT ![t] = DNSMessageToAddresses(m)]
      BY <2>1 DEF Answered
    <3>2. DNSMessageToAddresses(m) \in Seq(Family)
      BY MessageIn
    <3>3. lookup' = [lookup EXCEPT ![t] = "answered"]
      BY <2>1 DEF Answered
    <3> QED
      BY <3>1, <3>2, <3>3
  <2>2. CASE LookupFailed(t)
    <3>1. lookup' = [lookup EXCEPT ![t] = "failed"] /\ found' = found
      BY <2>2 DEF LookupFailed
    <3>2. found[t] = <<>> /\ found = [found EXCEPT ![t] = <<>>]
      BY <1>1 DEF LookupState
    <3>3. <<>> \in Seq(Family)
      OBVIOUS
    <3> QED
      BY <3>1, <3>2, <3>3
  <2> QED
    BY <2>1, <2>2 DEF LookupStep
<1>3. /\ lookup' \in [QType -> {"off", "asked", "answered", "failed"}]
      /\ found' \in [QType -> Seq(Family)]
      /\ \A u \in QType : found'[u] = IF u = t THEN x ELSE found[u]
      /\ \A u \in QType : lookup'[u] = IF u = t THEN v ELSE lookup[u]
  BY <1>2 DEF LookupState
<1>4. \A u \in QType : lookup'[u] # "answered" => found'[u] = <<>>
  BY <1>2, <1>3 DEF LookupState
<1>5. stage' # "start" /\ call' = call
  BY <1>1 DEF callVars
<1>6. call.kind = "dial" => \A u \in QType : u \notin QTypes(call.strategy) => lookup'[u] = "off"
  BY <1>1, <1>3 DEF LookupState
<1> QED
  BY <1>3, <1>4, <1>5, <1>6 DEF LookupState, QTypes

\* What is found does not change once the look-up is over.
LEMMA FoundStays ==
  ASSUME UNCHANGED <<call, found>>
  PROVE  Found' = Found
BY DEF Found, sortAddresses, LookupStrategy

\* A walk that ends without a socket has tried every address that was due.
LEMMA WalkTriesAll ==
  ASSUME NEW due, 0 \notin due, NEW can, NEW w \in Walks(due, can), w.got = 0
  PROVE  w.tried = due
BY DEF Walks

\* A call that returns, or waits for its exchange, without a look-up.
LEMMA Directly ==
  ASSUME EInv, stage = "start", stage' \in {"returned", "exchange"},
         UNCHANGED <<call, vars, lookupVars>>
  PROVE  EInv'
<1>1. RInv' /\ LInv'
  BY RaceStep, ListsStep DEF EInv
<1>2. LookupState /\ DialState /\ TriedState
  BY DEF EInv
<1>3. UNCHANGED <<main, lookup, found>>
  BY DEF vars, lookupVars
<1>4. LookupState'
  BY <1>2, <1>3 DEF LookupState, QTypes
<1>5. DialState'
  BY <1>2, <1>3 DEF DialState
<1>6. Found' = <<>>
  <2>1. \A t \in QType : found[t] = <<>>
    BY <1>2 DEF LookupState
  <2>2. Found = <<>>
    BY <1>2, <2>1, FoundIn
  <2> QED
    BY <1>3, <2>2, FoundStays
<1> QED
  BY <1>1, <1>2, <1>4, <1>5, <1>6 DEF EInv, TriedState

\* Every step of a call keeps the invariant.
LEMMA CallKeeps ==
  ASSUME EInv, CallStep
  PROVE  EInv'
<1>1. RInv /\ LInv /\ LookupState /\ DialState /\ TriedState
  BY DEF EInv
<1>2. CASE DialContext
  <2>1. stage = "start" /\ UNCHANGED <<call, vars, lookupVars>> /\ stage' = "returned"
    BY <1>2 DEF DialContext, Returns
  <2> QED
    BY <2>1, Directly
<1>3. CASE ListenPacket
  <2>1. stage = "start" /\ UNCHANGED <<call, vars, lookupVars>> /\ stage' = "returned"
    BY <1>3 DEF ListenPacket, Returns
  <2> QED
    BY <2>1, Directly
<1>4. CASE Listen
  <2>1. stage = "start" /\ UNCHANGED <<call, vars, lookupVars>> /\ stage' = "returned"
    BY <1>4 DEF Listen, Returns
  <2> QED
    BY <2>1, Directly
<1>5. CASE StartExchange
  <2>1. stage = "start" /\ UNCHANGED <<call, vars, lookupVars>> /\ stage' = "exchange"
    BY <1>5 DEF StartExchange
  <2> QED
    BY <2>1, Directly
<1>6. CASE StartLookup
  <2>1. CASE Returns("error") /\ UNCHANGED lookupVars
    <3>1. stage = "start" /\ UNCHANGED <<call, vars, lookupVars>> /\ stage' = "returned"
      BY <1>6, <2>1 DEF StartLookup, Returns
    <3> QED
      BY <3>1, Directly
  <2>2. CASE stage' = "lookup" /\ LookupTransport(LookupStrategy)
    <3>1. UNCHANGED <<call, vars, found>> /\ stage = "start"
      BY <1>6, <2>2 DEF StartLookup, LookupTransport
    <3>2. RInv' /\ LInv'
      BY <1>1, <3>1, RaceStep, ListsStep
    <3>3. \A t \in QType : found[t] = <<>>
      BY <1>1, <3>1 DEF LookupState
    <3>4. LookupState'
      <4>1. lookup' \in [QType -> {"off", "asked", "answered", "failed"}]
        BY <2>2 DEF LookupTransport
      <4>2. call.kind = "dial" =>
              \A t \in QType : t \notin QTypes(call.strategy) => lookup'[t] = "off"
        BY <2>2, FoundIs DEF LookupTransport
      <4> QED
        BY <1>1, <2>2, <3>1, <3>3, <4>1, <4>2 DEF LookupState, QTypes
    <3>5. main' = main
      BY <3>1 DEF vars
    <3> QED
      BY <1>1, <2>2, <3>1, <3>2, <3>4, <3>5 DEF EInv, DialState, TriedState
  <2> QED
    BY <1>6, <2>1, <2>2 DEF StartLookup
<1>7. CASE LookupError
  <2>1. /\ stage' = "returned" /\ UNCHANGED <<call, vars, lookup, found>> /\ stage = "lookup"
        /\ \A t \in QType : found[t] = <<>>
    BY <1>7 DEF LookupError, LookupErr, Returns, lookupVars
  <2>2. RInv' /\ LInv'
    BY <1>1, <2>1, RaceStep, ListsStep
  <2>3. LookupState'
    BY <1>1, <2>1 DEF LookupState, QTypes
  <2>4. Found' = <<>>
    BY <1>1, <2>1, FoundIn, FoundStays
  <2>5. main' = main
    BY <2>1 DEF vars
  <2> QED
    BY <1>1, <2>1, <2>2, <2>3, <2>4, <2>5 DEF EInv, DialState, TriedState
<1>8. CASE DialFound
  <2>1. /\ stage = "lookup" /\ stage' = "dial" /\ UNCHANGED <<call, lookup, found>>
        /\ UNCHANGED <<main, pc, todo, failed, open, seen, timer, ret>>
        /\ main = "start" /\ call.kind = "dial"
    BY <1>1, <1>8 DEF DialFound, DialState, lookupVars
  <2>2. PICK v \in Strategy \cup {call.strategy}, e \in BOOLEAN, d \in BOOLEAN :
          /\ req' = Ask(Found, call.net, v, e, d)
          /\ (e /\ d) \/ v \in {"prefer4", "prefer6"}
    <3>1. CASE ~InParallel
      BY <1>8, <3>1 DEF DialFound
    <3>2. CASE InParallel
      <4>1. call.strategy \in {"prefer4", "prefer6"}
        BY <3>2 DEF InParallel
      <4>2. CASE call.dialer = "over-default"
        BY <1>8, <3>2, <4>2 DEF DialFound, Strategy
      <4>3. CASE call.dialer # "over-default"
        BY <1>8, <3>2, <4>1, <4>3 DEF DialFound
      <4> QED
        BY <4>2, <4>3
    <3> QED
      BY <3>1, <3>2
  <2>3. /\ req'.addresses = Found /\ req'.version = call.net.version
        /\ (req'.eyeball /\ req'.noDelay) \/ req'.strategy \in {"prefer4", "prefer6"}
    BY <2>2 DEF Ask
  <2>4. RInv'
    BY <1>1, <2>1 DEF RInv, ControlType, Phase, Holding, NoConnLeak, FallbackOnce
  <2>5. LInv'
    <3>1. /\ \A w \in Walker : todo[w] = <<>> /\ pc[w] = "off"
          /\ open = {} /\ ret = "pending"
      BY <1>1, <2>1 DEF LInv, Listed, RInv, ControlType, Phase, Holding
    <3>2. failed = {}
      BY <1>1, <2>1 DEF LInv, Listed
    <3>3. Found \in Seq(Family)
      BY <1>1, FoundIn
    <3>4. ListType'
      BY <1>1, <2>1, <2>3, <3>3 DEF LInv, ListType
    <3>5. Listed'
      BY <2>1, <3>1, <3>2 DEF Listed
    <3> QED
      BY <2>1, <3>1, <3>4, <3>5 DEF LInv, Remaining, WalkedAll, DueFailed
  <2>6. LookupState'
    BY <1>1, <2>1 DEF LookupState, QTypes
  <2>7. DialState'
    BY <2>1, <2>3, FoundStays DEF DialState
  <2> QED
    BY <1>1, <2>1, <2>4, <2>5, <2>6, <2>7 DEF EInv, TriedState
<1>9. ASSUME stage = "lookup", stage' = "returned", UNCHANGED <<call, vars, lookupVars>>,
             outcome' = "error" /\ call.net.protocol # "udp" =>
               tried' = IF call.kind = "listen" THEN Resolved(Found) ELSE DOMAIN Found
      PROVE  EInv'
  <2>1. RInv' /\ LInv'
    BY <1>1, <1>9, RaceStep, ListsStep
  <2>2. UNCHANGED <<main, lookup, found>>
    BY <1>9 DEF vars, lookupVars
  <2>3. LookupState'
    BY <1>1, <1>9, <2>2 DEF LookupState, QTypes
  <2>4. Found' = Found
    BY <1>9, <2>2, FoundStays
  <2> QED
    BY <1>1, <1>9, <2>1, <2>2, <2>3, <2>4 DEF EInv, DialState, TriedState
<1>10. 0 \notin DOMAIN Found /\ 0 \notin Resolved(Found)
  BY <1>1, FoundIn DEF Resolved
<1>11. CASE PacketFound
  <2>1. PICK w \in Walks(DOMAIN Found, DOMAIN Found) :
          /\ Returns(IF Found = <<>> THEN "panic" ELSE IF w.got = 0 THEN "error" ELSE "socket")
          /\ tried' = w.tried
    BY <1>11 DEF PacketFound
  <2>2. outcome' = "error" => w.got = 0
    BY <2>1 DEF Returns
  <2>3. outcome' = "error" => tried' = DOMAIN Found
    BY <1>10, <2>1, <2>2, WalkTriesAll
  <2>4. /\ stage = "lookup" /\ stage' = "returned" /\ UNCHANGED <<call, vars, lookupVars>>
        /\ call.kind # "listen"
    BY <1>11, <2>1 DEF PacketFound, Returns
  <2> QED
    BY <1>9, <2>3, <2>4
<1>12. CASE ListenFound
  <2>1. /\ stage = "lookup" /\ stage' = "returned" /\ UNCHANGED <<call, vars, lookupVars>>
        /\ call.kind = "listen"
    BY <1>12 DEF ListenFound, Returns
  <2>2. ASSUME outcome' = "error", call.net.protocol # "udp" PROVE tried' = Resolved(Found)
    <3>1. call.net.protocol = "tcp"
      BY <1>1, <1>12, <2>2 DEF ListenFound, TriedState
    <3>2. PICK w \in ListenTCPSerial(call.net, Found) :
            /\ \E o \in Listened(Found, w) : Returns(o)
            /\ tried' = w.tried
      BY <1>12, <3>1 DEF ListenFound
    <3>3. w.got = 0
      BY <2>2, <3>2 DEF Listened, Returns
    <3>4. w \in Walks(Resolved(Found), Listenable(call.net, Found))
      BY <3>2 DEF ListenTCPSerial
    <3> QED
      BY <1>10, <3>2, <3>3, <3>4, WalkTriesAll
  <2> QED
    BY <1>9, <2>1, <2>2
<1> QED
  BY <1>2, <1>3, <1>4, <1>5, <1>6, <1>7, <1>8, <1>11, <1>12 DEF CallStep

\* The invariant holds initially and every step keeps it.
THEOREM EInvariant == EndpointsSpec => []EInv
<1>1. EInit => EInv
  <2> SUFFICES ASSUME EInit PROVE EInv
    OBVIOUS
  <2>1. Init /\ LookupInit /\ call \in Calls /\ outcome = "pending"
        /\ stage = IF call.kind = "direct" THEN "dial" ELSE "start"
    BY DEF EInit
  <2>2. RInv
    BY <2>1
    DEF Init, RInv, ControlType, Phase, Holding, NoConnLeak, FallbackOnce, Walker, Racer
  <2>3. LInv
    BY <2>1, ListsInit
  <2>4. LookupState
    <3>1. <<>> \in Seq(Family)
      OBVIOUS
    <3> QED
      BY <2>1, <3>1 DEF LookupInit, LookupState, QType
  <2>5. DialState
    BY <2>1 DEF Init, DialState
  <2>6. TriedState
    <3>1. call.kind = "listen" => call.net.protocol \in {"tcp", "udp"}
      BY <2>1 DEF Calls, UDPNetwork, TCPNetwork
    <3> QED
      BY <2>1, <3>1 DEF TriedState
  <2> QED
    BY <2>2, <2>3, <2>4, <2>5, <2>6 DEF EInv
<1>2. EInv /\ [ENext]_allVars => EInv'
  <2> SUFFICES ASSUME EInv, [ENext]_allVars PROVE EInv'
    OBVIOUS
  <2>1. RInv /\ LInv /\ LookupState /\ DialState /\ TriedState
    BY DEF EInv
  <2>2. ASSUME NEW t \in QType, LookupStep(t) PROVE EInv'
    <3>1. UNCHANGED <<callVars, vars>> /\ stage = "lookup"
      BY <2>2 DEF LookupStep
    <3>2. RInv' /\ LInv'
      BY <2>1, <3>1, RaceStep, ListsStep
    <3>3. LookupState'
      BY <2>1, <2>2, LookupKeeps
    <3>4. UNCHANGED <<main, stage, call>>
      BY <3>1 DEF vars, callVars
    <3> QED
      BY <2>1, <3>1, <3>2, <3>3, <3>4 DEF EInv, DialState, TriedState
  <2>3. ASSUME [Next]_vars, UNCHANGED <<callVars, lookupVars>>, stage = "dial" \/ UNCHANGED vars
        PROVE  EInv'
    <3>1. RInv' /\ LInv'
      BY <2>1, <2>3, RaceStep, ListsStep
    <3>2. UNCHANGED <<stage, call, outcome, tried, lookup, found>>
      BY <2>3 DEF callVars, lookupVars
    <3>3. LookupState'
      BY <2>1, <3>2 DEF LookupState, QTypes
    <3>4. UNCHANGED req
      BY <2>3 DEF Next, Caller, Walk, DialOk, DialErr, AllFailed, EnterSerial, EnterRace,
         ReturnSerial, TimerFires, ReceiveConn, ReceiveErr, CloseLoser, vars
    <3>5. Found' = Found
      BY <3>2, FoundStays
    <3>6. stage # "dial" => main' = main
      BY <2>3 DEF vars
    <3> QED
      BY <2>1, <3>1, <3>2, <3>3, <3>4, <3>5, <3>6 DEF EInv, DialState, TriedState
  <2>4. CASE DialStep(Next)
    BY <2>3, <2>4 DEF DialStep
  <2>5. CASE ExchangeStep(TcpStep \/ TcpWatcher \/ TcpWorld)
    BY <2>3, <2>5 DEF ExchangeStep
  <2>6. CASE UNCHANGED allVars
    BY <2>3, <2>6 DEF allVars
  <2> QED
    BY <2>2, <2>4, <2>5, <2>6, CallKeeps DEF ENext
<1> QED
  BY <1>1, <1>2, PTL DEF EndpointsSpec

\* In a call for a name, too, the dial implements the abstract race: what the
\* call does before and after it opens and returns no connection.
THEOREM CallsRace == EndpointsSpec => RaceSpec
<1>1. EInit => Race!Init
  BY DEF EInit, Init, Race!Init
<1>2. EInv /\ [ENext]_allVars => [Race!Next]_<<open, ret>>
  <2> SUFFICES ASSUME EInv, [ENext]_allVars PROVE Race!Next \/ UNCHANGED <<open, ret>>
    OBVIOUS
  <2>1. RInv
    BY DEF EInv
  <2>2. CASE CallStep
    BY <2>2 DEF CallStep, DialContext, ListenPacket, Listen, StartLookup, LookupError, DialFound,
       PacketFound, ListenFound, StartExchange, vars
  <2>3. ASSUME NEW t \in QType, LookupStep(t) PROVE UNCHANGED <<open, ret>>
    BY <2>3 DEF LookupStep, vars
  <2>4. CASE DialStep(Next)
    BY <2>1, <2>4, StepOfRace DEF DialStep
  <2>5. CASE ExchangeStep(TcpStep \/ TcpWatcher \/ TcpWorld)
    BY <2>5 DEF ExchangeStep, vars
  <2>6. CASE UNCHANGED allVars
    BY <2>6 DEF allVars, vars
  <2> QED
    BY <2>2, <2>3, <2>4, <2>5, <2>6 DEF ENext
<1> QED
  BY <1>1, <1>2, EInvariant, PTL DEF EndpointsSpec, RaceSpec, Race!Spec

\* Nor does the rest of a call spoil the rest of what DialParallel promises.
THEOREM CallsDial == EndpointsSpec => [](NoConnLeak /\ FallbackOnce /\ ErrorMeansAllFailed)
<1>1. EInv => NoConnLeak /\ FallbackOnce /\ ErrorMeansAllFailed
  BY DueSuffices DEF EInv, RInv
<1> QED
  BY <1>1, EInvariant, PTL

\* Every address of a name was found with a type that its strategy asks for.
LEMMA StrategyKept ==
  ASSUME LookupState, call.kind = "dial", NEW k \in DOMAIN Found
  PROVE  \E t \in QTypes(call.strategy) : In(Found[k], found[t])
<1>1. PICK t \in QType : In(Found[k], found[t])
  BY FoundIn DEF QType
<1>2. \A y : ~In(y, <<>>)
  BY DEF In
<1>3. t \notin QTypes(call.strategy) => found[t] = <<>>
  BY DEF LookupState
<1> QED
  BY <1>1, <1>2, <1>3

\* Whatever records the answers of a look-up hold, the connection of a name is to
\* a valid address of a family that the network of its call admits, in whichever
\* walker's list it was, and one found with a type that the strategy asks for.
THEOREM FamiliesKept == EndpointsSpec => []FamilyKept
<1>1. EInv => FamilyKept
  <2> SUFFICES ASSUME EInv, call.kind = "dial", stage = "dial", ret \in Walker
               PROVE  LET f == req.addresses[Head(todo[ret])]
                      IN /\ f # "bad" /\ OfNetwork(f)
                         /\ \E t \in QTypes(call.strategy) :
                              \E k \in DOMAIN found[t] : found[t][k] = f
    BY DEF FamilyKept
  <2>1. /\ LookupState /\ req.addresses = Found /\ req.version = call.net.version
        /\ ret \in open /\ todo[ret] \in Seq(Nat) /\ todo[ret] # <<>>
        /\ req.addresses[Head(todo[ret])] # "bad"
    BY DEF EInv, DialState, RInv, Holding, LInv, ListType, Listed
  <2>2. PICK x \in Seq(Nat) : x = todo[ret] /\ x # <<>>
    BY <2>1
  <2>3. Head(x) = x[1] /\ 1 \in DOMAIN x
    BY <2>2
  <2>4. Head(x) \in DOMAIN req.addresses /\ Fits(Head(x))
    BY <2>2, <2>3 DEF EInv, LInv, Listed
  <2>5. PICK k \in DOMAIN Found : k = Head(todo[ret]) /\ Fits(k) /\ req.addresses[k] = Found[k]
    BY <2>1, <2>2, <2>4
  <2>6. Found[k] \in Family /\ Found[k] # "bad"
    BY <2>1, <2>5, FoundIn
  <2>7. OfNetwork(Found[k])
    BY <2>1, <2>5, <2>6 DEF Fits, OfNetwork, AddrIs4, AddrIs6, Family
  <2>8. \E t \in QTypes(call.strategy) : In(Found[k], found[t])
    BY <2>1, StrategyKept
  <2> QED
    BY <2>5, <2>6, <2>7, <2>8 DEF In
<1> QED
  BY <1>1, EInvariant, PTL

\* A list has a number of addresses of a family.
LEMMA CountIsNat ==
  ASSUME NEW S, NEW x \in Seq(S), NEW f
  PROVE  Count(x, f) \in Nat
<1> DEFINE A == {i \in DOMAIN x : x[i] = f}
<1>1. DOMAIN x = 1..Len(x) /\ Len(x) \in Int
  OBVIOUS
<1>2. IsFiniteSet(DOMAIN x) /\ A \in SUBSET DOMAIN x
  BY <1>1, FS_Interval
<1>3. IsFiniteSet(A)
  <2> HIDE DEF A
  <2> QED
    BY <1>2, FS_Subset
<1> QED
  BY <1>3, FS_CardinalityType DEF Count

\* Two lists joined have as many of a family as the two have.
LEMMA CountJoin ==
  ASSUME NEW S, NEW x \in Seq(S), NEW z \in Seq(S), NEW f
  PROVE  Count(x \o z, f) = Count(x, f) + Count(z, f)
<1> DEFINE m == Len(x)
           n == Len(z)
           A == {i \in 1..m : x[i] = f}
           B == {i \in 1..n : z[i] = f}
           C == {i \in (m + 1)..(m + n) : z[i - m] = f}
<1>1. /\ m \in Nat /\ n \in Nat /\ DOMAIN x = 1..m /\ DOMAIN z = 1..n
      /\ DOMAIN (x \o z) = 1..(m + n)
      /\ \A i \in 1..m : (x \o z)[i] = x[i]
  OBVIOUS
<1>2. \A i \in (m + 1)..(m + n) : (x \o z)[i] = z[i - m]
  OBVIOUS
<1> HIDE DEF m, n
<1>3. {i \in DOMAIN (x \o z) : (x \o z)[i] = f} = A \cup C
  <2>1. \A i : i \in 1..(m + n) <=> i \in 1..m \/ i \in (m + 1)..(m + n)
    BY <1>1
  <2> QED
    BY <1>1, <1>2, <2>1
<1>4. A \cap C = {}
  BY <1>1
<1>5. IsFiniteSet(A) /\ IsFiniteSet(B) /\ IsFiniteSet(C)
  <2>1. IsFiniteSet(1..m) /\ IsFiniteSet(1..n) /\ IsFiniteSet((m + 1)..(m + n))
    BY <1>1, FS_Interval
  <2>2. A \in SUBSET (1..m) /\ B \in SUBSET (1..n) /\ C \in SUBSET ((m + 1)..(m + n))
    OBVIOUS
  <2> HIDE DEF A, B, C
  <2> QED
    BY <2>1, <2>2, FS_Subset
<1>6. Cardinality(C) = Cardinality(B)
  <2> DEFINE g == [i \in B |-> m + i]
  <2>1. \A i \in B : m + i \in C
    BY <1>1
  <2>2. \A c \in C : c - m \in B /\ m + (c - m) = c
    BY <1>1
  <2>3. \A i, j \in B : m + i = m + j => i = j
    BY <1>1
  <2> HIDE DEF B, C
  <2>4. g \in [B -> C]
    BY <2>1
  <2>5. \A i, j \in B : g[i] = g[j] => i = j
    BY <2>3
  <2>6. \A c \in C : \E i \in B : g[i] = c
    BY <2>2
  <2> HIDE DEF g
  <2>7. g \in Bijection(B, C)
    BY <2>4, <2>5, <2>6 DEF Bijection, Injection, Surjection, IsInjective
  <2>8. ExistsBijection(B, C)
    BY <2>7 DEF ExistsBijection
  <2> QED
    BY <1>5, <2>8, FS_Bijection
<1>7. Count(x, f) = Cardinality(A) /\ Count(z, f) = Cardinality(B)
  BY <1>1 DEF Count
<1>8. Count(x \o z, f) = Cardinality(A \cup C)
  BY <1>3 DEF Count
<1> HIDE DEF A, B, C
<1>9. Cardinality(A \cup C) = Cardinality(A) + Cardinality(C) - Cardinality(A \cap C)
  BY <1>5, FS_Union
<1>10. Cardinality({}) = 0 /\ Cardinality(A) \in Nat /\ Cardinality(B) \in Nat
  BY <1>5, FS_EmptySet, FS_CardinalityType
<1>11. PICK a \in Nat, b \in Nat : a = Cardinality(A) /\ b = Cardinality(B)
  BY <1>10
<1>12. Cardinality(A \cup C) = a + b - 0
  BY <1>4, <1>6, <1>9, <1>10, <1>11, Zenon
<1>13. Count(x \o z, f) = a + b - 0 /\ Count(x, f) = a /\ Count(z, f) = b
  BY <1>7, <1>8, <1>11, <1>12, Zenon
<1>14. a + b - 0 = a + b
  OBVIOUS
<1> QED
  BY <1>13, <1>14, Zenon

\* A call for a name that fails has tried every valid address that the look-up
\* found and the network admits, as often as it was found.
THEOREM NamesTried == EndpointsSpec => []NameTried
<1>1. EInv => NameTried
  <2> SUFFICES ASSUME EInv PROVE NameTried
    OBVIOUS
  <2>1. LookupState /\ DialState /\ TriedState /\ LInv
    BY DEF EInv
  <2>2. ASSUME call.kind = "dial", stage = "dial", ret = "error",
               NEW f \in Family \ {"bad"}, OfNetwork(f)
        PROVE  Cardinality({k \in failed : req.addresses[k] = f}) = Given(f)
    <3>1. /\ req.addresses = Found /\ req.version = call.net.version
          /\ (req.eyeball /\ req.noDelay) \/ req.strategy \in {"prefer4", "prefer6"}
          /\ failed \subseteq DOMAIN Found
          /\ \A k \in DOMAIN Found : Due(k) => k \in failed
      BY <2>1, <2>2 DEF DialState, LInv, Listed, DueFailed
    <3>2. ASSUME NEW k \in DOMAIN Found, Found[k] = f PROVE k \in failed
      <4>1. Found[k] # "bad"
        BY <2>2, <3>2
      <4>2. Fits(k)
        BY <2>2, <3>1, <3>2 DEF Fits, OfNetwork, AddrIs4, AddrIs6
      <4>3. Due(k)
        BY <3>1, <4>1, <4>2 DEF Due
      <4> QED
        BY <3>1, <4>3
    <3>3. {k \in failed : req.addresses[k] = f} = {k \in DOMAIN Found : Found[k] = f}
      BY <3>1, <3>2
    <3>4. Count(Found, f) = Given(f)
      <4>1. found["A"] \in Seq(Family) /\ found["AAAA"] \in Seq(Family)
        BY <2>1 DEF LookupState, QType
      <4>2. /\ Count(found["A"] \o found["AAAA"], f) = Count(found["A"], f) + Count(found["AAAA"], f)
            /\ Count(found["AAAA"] \o found["A"], f) = Count(found["AAAA"], f) + Count(found["A"], f)
        BY <4>1, CountJoin
      <4>3. Count(found["A"], f) \in Nat /\ Count(found["AAAA"], f) \in Nat
        BY <4>1, CountIsNat
      <4>4. PICK a \in Nat, b \in Nat : a = Count(found["A"], f) /\ b = Count(found["AAAA"], f)
        BY <4>3
      <4>5. Count(Found, f) = a + b \/ Count(Found, f) = b + a
        BY <4>2, <4>4, FoundIs, Zenon
      <4>6. b + a = a + b
        OBVIOUS
      <4>7. Given(f) = a + b
        BY <4>4, Zenon DEF Given
      <4> QED
        BY <4>5, <4>6, <4>7, Zenon
    <3> QED
      BY <3>3, <3>4 DEF Count
  <2>3. ASSUME stage = "returned", outcome = "error", Found # <<>>
        PROVE  \/ call.net.protocol = "udp"
               \/ tried = IF call.kind = "listen" THEN Resolved(Found) ELSE DOMAIN Found
    BY <2>1, <2>3 DEF TriedState
  <2> QED
    BY <2>2, <2>3 DEF NameTried
<1> QED
  BY <1>1, EInvariant, PTL
=============================================================================
