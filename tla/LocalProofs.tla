---------------------------- MODULE LocalProofs -----------------------------
(***************************************************************************)
(* Proofs about the two files that a LocalTransport answers by, for any    *)
(* number of calls and any contents of the files: resolv.conf, reloaded by *)
(* the calls themselves (LocalTransport), and the hosts file behind its    *)
(* cache (Hosts).  Both are rewritten by others at any moment.             *)
(***************************************************************************)
EXTENDS LocalTransport, Hosts, WellFoundedInduction, FiniteSetTheorems, TLAPS

-----------------------------------------------------------------------------
(* LocalTransport: the inductive invariant.                                *)

\* resolv.conf at some time.
FileState == [version : Nat \ {0}, text : 0..Len(Files)]

LocalTypes ==
  /\ resolv \in FileState
  /\ version \in Nat
  /\ pc \in [Call -> {"idle", "init", "noreload", "acquire", "stat", "open", "read", "load",
                      "single", "select", "returned"}]
  /\ seen \in [Call -> FileState \cup {None}]

\* One call at a time looks at the file: first the one inside initOnce, then
\* the one that holds the semaphore.
Reloading == {"stat", "open", "read"}

Apart ==
  /\ once # "done" => sema = None
  /\ \A q \in Call : pc[q] \in Reloading => once = q \/ sema = q
  /\ \A q \in Call : pc[q] \in {"noreload", "acquire", "stat", "load"} => once = "done"

\* The file in a call's hands is no older than the configuration, and if it is
\* the current one it still says what it said.
Seen ==
  \A q \in Call : pc[q] = "read" =>
    /\ seen[q] \in FileState
    /\ version <= seen[q].version /\ seen[q].version <= resolv.version
    /\ seen[q].text # 0 /\ seen[q].version = resolv.version => seen[q] = resolv

\* A configuration with the time of no file, or with that of the file as it
\* is, is what dnsReadConfig makes of it.
Configured ==
  config # None =>
    /\ config.mtime \in 0..resolv.version
    /\ config.mtime = 0 => config = dnsReadConfig(Lines(0), 0)
    /\ config.mtime = resolv.version /\ resolv.text # 0 =>
         config = dnsReadConfig(Lines(resolv.text), resolv.version)

LInv == LocalTypes /\ Apart /\ version <= resolv.version /\ Seen /\ Configured

-----------------------------------------------------------------------------

\* No two calls look at the file at once.
LEMMA OneReload ==
  ASSUME LInv, NEW q \in Call, NEW r \in Call, pc[q] \in Reloading, pc[r] \in Reloading
  PROVE  q = r
<1>1. None \notin Call /\ "done" \notin Call
  BY LocalAssumption
<1> QED
  BY <1>1 DEF LInv, Apart

\* What a Read stores.
LEMMA ReadStores ==
  ASSUME LInv, NEW q \in Call, Read(q)
  PROVE  /\ version <= version' /\ version' <= resolv.version /\ version' \in Nat
         /\ config' # None =>
              /\ config'.mtime \in 0..resolv.version
              /\ config'.mtime = 0 => config' = dnsReadConfig(Lines(0), 0)
              /\ config'.mtime = resolv.version /\ resolv.text # 0 =>
                   config' = dnsReadConfig(Lines(resolv.text), resolv.version)
<1>1. PICK g \in ReadTexts(q) :
        config' = dnsReadConfig(Lines(g.text), ReadMtime(q)) /\ version' = g.version
  BY DEF Read
<1>2. /\ seen[q] \in FileState /\ resolv \in FileState /\ version \in Nat
      /\ version <= seen[q].version /\ seen[q].version <= resolv.version
      /\ seen[q].text # 0 /\ seen[q].version = resolv.version => seen[q] = resolv
  BY DEF LInv, LocalTypes, Seen, Read
<1>3. g \in FileState /\ version <= g.version /\ g.version <= resolv.version
  BY <1>1, <1>2 DEF ReadTexts, FileState
<1>4. config'.mtime = ReadMtime(q)
  BY <1>1 DEF dnsReadConfig
<1>5. ReadMtime(q) \in 0..resolv.version
  BY <1>2 DEF ReadMtime, Mtime, FileState
<1>6. ASSUME ReadMtime(q) = 0 PROVE config' = dnsReadConfig(Lines(0), 0)
  <2>1. seen[q].text = 0
    BY <1>2, <1>6 DEF ReadMtime, Mtime, FileState
  <2>2. g.text = 0
    BY <1>1, <2>1 DEF ReadTexts
  <2> QED
    BY <1>1, <1>6, <2>2
<1>7. ASSUME ReadMtime(q) = resolv.version, resolv.text # 0
      PROVE  config' = dnsReadConfig(Lines(resolv.text), resolv.version)
  <2>1. seen[q].text # 0 /\ seen[q].version = resolv.version
    BY <1>2, <1>7 DEF ReadMtime, Mtime, FileState
  <2>2. g = resolv
    BY <1>1, <1>2, <2>1 DEF ReadTexts
  <2> QED
    BY <1>1, <1>7, <2>2
<1> QED
  BY <1>1, <1>2, <1>3, <1>4, <1>5, <1>6, <1>7 DEF FileState

\* The steps that only move a call on its way, outside the reload.
LEMMA OtherSteps ==
  ASSUME LInv, UNCHANGED <<resolv, once, sema, config, version, seen>>,
         NEW q \in Call, pc' \in {pc, [pc EXCEPT ![q] = pc'[q]]},
         pc'[q] \in {"init", "load", "acquire", "single", "select", "returned"} \cup {pc[q]},
         pc'[q] \in {"load", "acquire"} => once = "done"
  PROVE  LInv'
<1>1. LocalTypes'
  BY DEF LInv, LocalTypes
<1>2. \A r \in Call : r # q => pc'[r] = pc[r]
  BY DEF LInv, LocalTypes
<1>3. Apart'
  BY <1>2 DEF LInv, Apart, Reloading
<1>4. Seen'
  BY <1>2 DEF LInv, Seen
<1>5. Configured' /\ (version <= resolv.version)'
  BY DEF LInv, Configured
<1> QED
  BY <1>1, <1>3, <1>4, <1>5 DEF LInv
\* The invariant holds initially and every step keeps it.
THEOREM LInvariant == Spec => []LInv
<1>1. Init => LInv
  <2> SUFFICES ASSUME Init PROVE LInv
    OBVIOUS
  <2>1. LocalTypes
    BY DEF Init, LocalTypes, FileState
  <2>2. Apart /\ Seen /\ Configured
    BY DEF Init, Apart, Reloading, Seen, Configured
  <2> QED
    BY <2>1, <2>2 DEF LInv, Init
<1>2. LInv /\ [Next]_vars => LInv'
  <2> SUFFICES ASSUME LInv, [Next]_vars PROVE LInv'
    OBVIOUS
  <2>0. /\ resolv \in FileState /\ version \in Nat /\ version <= resolv.version
        /\ None \notin Call /\ "done" \notin Call /\ None # "done"
    BY LocalAssumption DEF LInv, LocalTypes
  <2>1. ASSUME NEW q \in Call, Exchange(q) PROVE LInv'
    <3>1. UNCHANGED <<resolv, once, sema, config, version, seen>>
      BY <2>1 DEF Exchange, confVars
    <3>2. pc' = [pc EXCEPT ![q] = pc'[q]] /\ pc'[q] \in {"init", "returned"}
      BY <2>1 DEF Exchange, Goto, Return, LInv, LocalTypes
    <3> QED
      BY <3>1, <3>2, OtherSteps
  <2>2. ASSUME NEW q \in Call, InitOnce(q) PROVE LInv'
    <3>1. UNCHANGED <<resolv, sema, config, version, seen>>
      BY <2>2 DEF InitOnce
    <3>2. \/ once = None /\ once' = q /\ pc' = [pc EXCEPT ![q] = "open"]
          \/ once = "done" /\ once' = once /\ pc' = [pc EXCEPT ![q] = "noreload"]
      BY <2>2 DEF InitOnce, Goto
    <3>3. LocalTypes'
      BY <3>1, <3>2 DEF LInv, LocalTypes
    <3>4. \A r \in Call : r # q => pc'[r] = pc[r]
      BY <3>2 DEF LInv, LocalTypes
    <3>5. pc'[q] \in {"open", "noreload"} /\ (pc'[q] = "open" => once' = q /\ once = None)
          /\ (pc'[q] = "noreload" => once' = "done" /\ once = "done")
      BY <2>0, <3>2 DEF LInv, LocalTypes
    <3>6. Apart'
      BY <2>0, <3>1, <3>4, <3>5 DEF LInv, Apart, Reloading
    <3>7. Seen' /\ Configured'
      BY <3>1, <3>4, <3>5 DEF LInv, Seen, Configured
    <3> QED
      BY <2>0, <3>1, <3>3, <3>6, <3>7 DEF LInv
  <2>3. ASSUME NEW q \in Call, NoReload(q) PROVE LInv'
    <3>1. UNCHANGED <<resolv, once, sema, config, version, seen>>
      BY <2>3 DEF NoReload, confVars
    <3>2. pc' = [pc EXCEPT ![q] = pc'[q]] /\ pc'[q] \in {"load", "acquire"} /\ once = "done"
      BY <2>3 DEF NoReload, Goto, LInv, LocalTypes, Apart
    <3> QED
      BY <3>1, <3>2, OtherSteps
  <2>4. ASSUME NEW q \in Call, Acquire(q) PROVE LInv'
    <3>1. CASE sema = None /\ sema' = q /\ pc' = [pc EXCEPT ![q] = "stat"]
      <4>1. UNCHANGED <<resolv, once, config, version, seen>> /\ once = "done"
        BY <2>4 DEF Acquire, LInv, Apart
      <4>2. LocalTypes'
        BY <3>1, <4>1 DEF LInv, LocalTypes
      <4>3. pc'[q] = "stat" /\ \A r \in Call : r # q => pc'[r] = pc[r]
        BY <3>1 DEF LInv, LocalTypes
      <4>4. Apart'
        BY <2>0, <3>1, <4>1, <4>3 DEF LInv, Apart, Reloading
      <4>5. Seen' /\ Configured'
        BY <4>1, <4>3 DEF LInv, Seen, Configured
      <4> QED
        BY <2>0, <4>1, <4>2, <4>4, <4>5 DEF LInv
    <3>2. CASE pc' = [pc EXCEPT ![q] = "load"] /\ sema' = sema
      <4>1. UNCHANGED <<resolv, once, sema, config, version, seen>> /\ once = "done"
        BY <2>4, <3>2 DEF Acquire, LInv, Apart
      <4>2. pc' = [pc EXCEPT ![q] = pc'[q]] /\ pc'[q] = "load"
        BY <3>2 DEF LInv, LocalTypes
      <4> QED
        BY <4>1, <4>2, OtherSteps
    <3> QED
      BY <2>4, <3>1, <3>2 DEF Acquire, SemaFree, Goto
  <2>5. ASSUME NEW q \in Call, Stat(q) PROVE LInv'
    <3>1. UNCHANGED <<resolv, once, config, version, seen>> /\ once = "done" /\ sema = q
      BY <2>0, <2>5 DEF Stat, LInv, Apart, Reloading
    <3>2. \/ sema' = None /\ pc' = [pc EXCEPT ![q] = "load"]
          \/ sema' = sema /\ pc' = [pc EXCEPT ![q] = "open"]
      BY <2>5 DEF Stat, Goto
    <3>3. LocalTypes'
      BY <3>1, <3>2 DEF LInv, LocalTypes
    <3>4. \A r \in Call : r # q => pc'[r] = pc[r] /\ pc[r] \notin Reloading
      <4>1. \A r \in Call : r # q => pc'[r] = pc[r]
        BY <3>2 DEF LInv, LocalTypes
      <4>2. pc[q] \in Reloading
        BY <2>5 DEF Stat, Reloading
      <4> QED
        BY <4>1, <4>2, OneReload
    <3>5. pc'[q] = "load" \/ (pc'[q] = "open" /\ sema' = q)
      BY <3>1, <3>2 DEF LInv, LocalTypes
    <3>6. Apart'
      BY <2>0, <3>1, <3>4, <3>5 DEF LInv, Apart, Reloading
    <3>7. Seen' /\ Configured'
      BY <3>1, <3>4, <3>5 DEF LInv, Seen, Configured
    <3> QED
      BY <2>0, <3>1, <3>3, <3>6, <3>7 DEF LInv
  <2>6. ASSUME NEW q \in Call, Open(q) PROVE LInv'
    <3>1. UNCHANGED <<resolv, once, sema, config, version>> /\ pc' = [pc EXCEPT ![q] = "read"]
      BY <2>6 DEF Open, confVars, Goto
    <3>2. PICK g \in {resolv, [resolv EXCEPT !.text = 0]} : seen' = [seen EXCEPT ![q] = g]
      BY <2>6 DEF Open
    <3>3. g \in FileState /\ g.version = resolv.version /\ (g.text # 0 => g = resolv)
      BY <2>0, <3>2 DEF FileState
    <3>4. LocalTypes'
      BY <3>1, <3>2, <3>3 DEF LInv, LocalTypes
    <3>5. /\ pc'[q] = "read" /\ pc[q] = "open" /\ seen'[q] = g
          /\ \A r \in Call : r # q => pc'[r] = pc[r] /\ seen'[r] = seen[r]
      BY <2>6, <3>1, <3>2 DEF Open, LInv, LocalTypes
    <3>6. Apart'
      BY <3>1, <3>5 DEF LInv, Apart, Reloading
    <3>7. Seen'
      BY <2>0, <3>1, <3>3, <3>5 DEF LInv, Seen, FileState
    <3>8. Configured'
      BY <3>1 DEF LInv, Configured
    <3> QED
      BY <2>0, <3>1, <3>4, <3>6, <3>7, <3>8 DEF LInv
  <2>7. ASSUME NEW q \in Call, Read(q) PROVE LInv'
    <3>1. /\ version <= version' /\ version' <= resolv.version /\ version' \in Nat
          /\ config' # None =>
               /\ config'.mtime \in 0..resolv.version
               /\ config'.mtime = 0 => config' = dnsReadConfig(Lines(0), 0)
               /\ config'.mtime = resolv.version /\ resolv.text # 0 =>
                    config' = dnsReadConfig(Lines(resolv.text), resolv.version)
      BY <2>7, ReadStores
    <3>2. /\ resolv' = resolv /\ seen' = [seen EXCEPT ![q] = None]
          /\ \/ once = q /\ once' = "done" /\ sema' = sema /\ pc' = [pc EXCEPT ![q] = "noreload"]
             \/ once # q /\ once' = once /\ sema' = None /\ pc' = [pc EXCEPT ![q] = "load"]
      BY <2>7 DEF Read, Goto
    <3>3. LocalTypes'
      BY <3>1, <3>2 DEF LInv, LocalTypes
    <3>4. \A r \in Call : r # q => pc'[r] = pc[r] /\ pc[r] \notin Reloading
      <4>1. \A r \in Call : r # q => pc'[r] = pc[r]
        BY <3>2 DEF LInv, LocalTypes
      <4>2. pc[q] \in Reloading
        BY <2>7 DEF Read, Reloading
      <4> QED
        BY <4>1, <4>2, OneReload
    <3>5. pc[q] = "read" /\ pc'[q] \in {"noreload", "load"}
      BY <2>7, <3>2 DEF Read, LInv, LocalTypes
    <3>6. once' = "done"
      BY <2>0, <3>2, <3>5 DEF LInv, Apart, Reloading
    <3>7. Apart'
      BY <3>4, <3>5, <3>6 DEF LInv, Apart, Reloading
    <3>8. Seen'
      BY <3>4, <3>5 DEF Seen, Reloading
    <3>9. Configured'
      BY <3>1, <3>2 DEF Configured
    <3> QED
      BY <3>1, <3>2, <3>3, <3>7, <3>8, <3>9 DEF LInv
  <2>8. ASSUME NEW q \in Call, Load(q) PROVE LInv'
    <3>1. UNCHANGED <<resolv, once, sema, config, version, seen>>
      BY <2>8 DEF Load, confVars
    <3>2. pc' = [pc EXCEPT ![q] = pc'[q]] /\ pc'[q] \in {"single", "select", "returned"}
      BY <2>8 DEF Load, Goto, Return, LInv, LocalTypes
    <3> QED
      BY <3>1, <3>2, OtherSteps
  <2>9. ASSUME NEW q \in Call, NEW i \in 1..MaxJob, JobStep(q, i) \/ Report(q, i) PROVE LInv'
    <3>1. UNCHANGED <<resolv, once, sema, config, version, seen>>
      BY <2>9 DEF JobStep, Update, Pull, RacerEnd, Report, confVars
    <3>2. pc' = pc \/ pc' = [pc EXCEPT ![q] = "returned"]
      BY <2>9 DEF JobStep, Update, Pull, RacerEnd, Report, Goto, Return
    <3>3. /\ pc' \in {pc, [pc EXCEPT ![q] = pc'[q]]} /\ pc'[q] \in {"returned", pc[q]}
          /\ pc'[q] \in {"load", "acquire"} => once = "done"
      BY <3>2 DEF LInv, LocalTypes, Apart
    <3> QED
      BY <3>1, <3>3, OtherSteps
  <2>10. ASSUME NEW q \in Call, CtxDone(q) PROVE LInv'
    <3>1. UNCHANGED <<resolv, once, sema, config, version, seen>>
      BY <2>10 DEF CtxDone, confVars
    <3>2. pc' = [pc EXCEPT ![q] = pc'[q]] /\ pc'[q] = "returned"
      BY <2>10 DEF CtxDone, Goto, Return, LInv, LocalTypes
    <3> QED
      BY <3>1, <3>2, OtherSteps
  <2>11. CASE FileChange
    <3>1. UNCHANGED <<once, sema, config, version, seen, pc>>
      BY <2>11 DEF FileChange, confVars, callVars
    <3>2. resolv' \in FileState /\ resolv'.version = resolv.version + 1
      BY <2>0, <2>11 DEF FileChange, FileState
    <3>3. LocalTypes' /\ Apart'
      BY <3>1, <3>2 DEF LInv, LocalTypes, Apart
    <3>4. Seen'
      BY <2>0, <3>1, <3>2 DEF LInv, Seen, FileState
    <3>5. Configured'
      BY <2>0, <3>1, <3>2 DEF LInv, Configured, FileState
    <3> QED
      BY <2>0, <3>1, <3>2, <3>3, <3>4, <3>5 DEF LInv, FileState
  <2>12. CASE Tick \/ UNCHANGED vars
    <3>1. UNCHANGED <<resolv, once, sema, config, version, seen, pc>>
      BY <2>12 DEF Tick, vars, confVars, callVars
    <3> QED
      BY <3>1 DEF LInv, LocalTypes, Apart, Seen, Configured
  <2> QED
    BY <2>1, <2>2, <2>3, <2>4, <2>5, <2>6, <2>7, <2>8, <2>9, <2>10, <2>11, <2>12
       DEF Next, CallStep
<1> QED
  BY <1>1, <1>2, PTL DEF Spec

\* Reloads go forward: whoever stores a configuration has opened a file no
\* older than the one whose configuration it replaces.
THEOREM ReloadsForward == Spec => ConfigForward
<1>1. LInv /\ [Next]_vars => [version' >= version]_version
  <2> SUFFICES ASSUME LInv, [Next]_vars PROVE version' >= version \/ version' = version
    OBVIOUS
  <2>1. ASSUME NEW q \in Call, Read(q) PROVE version' >= version
    <3>1. version <= version' /\ version \in Nat /\ version' \in Nat
      BY <2>1, ReadStores DEF LInv, LocalTypes
    <3> QED
      BY <3>1
  <2>2. CASE UNCHANGED version
    BY <2>2
  <2> QED
    BY <2>1, <2>2 DEF Next, CallStep, JobStep, Exchange, InitOnce, NoReload, Acquire, Stat, Open,
       Load, Report, Update, Pull, RacerEnd, CtxDone, FileChange, Tick, vars, confVars
<1> QED
  BY <1>1, LInvariant, PTL DEF ConfigForward, Spec
-----------------------------------------------------------------------------
(* Induction over the natural numbers, for a set instead of a predicate,   *)
(* and the recursive functions over the lines of a file.                   *)

\* A set of natural numbers has a least element.
LEMMA NatLeast ==
  ASSUME NEW T \in SUBSET Nat, T # {}
  PROVE  \E x \in T : \A y \in T : x <= y
<1> DEFINE R == OpToRel(<, Nat)
<1>1. IsWellFoundedOn(R, Nat)
  BY NatLessThanWellFounded
<1>2. \A x, y \in Nat : y < x => <<y, x>> \in R
  BY DEF OpToRel
<1> HIDE DEF R
<1>3. \E x \in T : \A y \in T : ~ (<<y, x>> \in R)
  BY <1>1, WFMin
<1>4. PICK x \in T : \A y \in T : ~ (<<y, x>> \in R)
  BY <1>3
<1>5. \A y \in T : x \in Nat /\ y \in Nat /\ ~(y < x)
  BY <1>2, <1>4
<1>6. \A y \in T : x <= y
  BY <1>5
<1> QED
  BY <1>4, <1>6

\* A set with zero, and with every successor of its members, has them all.
LEMMA SetInduction ==
  ASSUME NEW S, 0 \in S, \A k \in Nat : k \in S => k + 1 \in S
  PROVE  Nat \subseteq S
<1> SUFFICES ASSUME Nat \ S # {} PROVE FALSE
  OBVIOUS
<1>1. PICK x \in Nat \ S : \A y \in Nat \ S : x <= y
  BY NatLeast
<1>2. x # 0 /\ x - 1 \in Nat /\ x - 1 \in S
  BY <1>1
<1>3. (x - 1) + 1 \in S
  BY <1>2
<1> QED
  BY <1>1, <1>2, <1>3

\* A function over 0..n may be defined by recursion.
Recursive(g, V, v0, F, n) ==
  g \in [0..n -> V] /\ g[0] = v0 /\ \A k \in 1..n : g[k] = F[k][g[k - 1]]

LEMMA Recursion ==
  ASSUME NEW V, NEW v0 \in V, NEW F \in [Nat -> [V -> V]], NEW n \in Nat
  PROVE  \E g : Recursive(g, V, v0, F, n)
<1> DEFINE Made == {m \in Nat : \E g : Recursive(g, V, v0, F, m)}
<1>1. 0 \in Made
  <2>1. Recursive([k \in 0..0 |-> v0], V, v0, F, 0)
    BY DEF Recursive
  <2> QED
    BY <2>1
<1>2. ASSUME NEW m \in Nat, m \in Made PROVE m + 1 \in Made
  <2>1. PICK h : Recursive(h, V, v0, F, m)
    BY <1>2
  <2> DEFINE g == [k \in 0..(m + 1) |-> IF k = m + 1 THEN F[m + 1][h[m]] ELSE h[k]]
  <2>2. h[m] \in V /\ F[m + 1][h[m]] \in V
    BY <2>1 DEF Recursive
  <2>3. g \in [0..(m + 1) -> V]
    BY <2>1, <2>2 DEF Recursive
  <2>4. g[m + 1] = F[m + 1][h[m]] /\ \A k \in 0..m : g[k] = h[k]
    OBVIOUS
  <2> HIDE DEF g
  <2>5. ASSUME NEW k \in 1..(m + 1) PROVE g[k] = F[k][g[k - 1]]
    <3>1. CASE k = m + 1
      <4>1. k - 1 = m /\ m \in 0..m
        BY <3>1
      <4> QED
        BY <2>4, <3>1, <4>1
    <3>2. CASE k # m + 1
      <4>1. k \in 1..m /\ k \in 0..m /\ k - 1 \in 0..m
        BY <3>2
      <4> QED
        BY <2>1, <2>4, <4>1 DEF Recursive
    <3> QED
      BY <3>1, <3>2
  <2>6. Recursive(g, V, v0, F, m + 1)
    BY <2>1, <2>3, <2>4, <2>5 DEF Recursive
  <2> QED
    BY <2>6
<1>3. n \in Made
  <2> HIDE DEF Made
  <2> QED
    BY <1>1, <1>2, SetInduction
<1> QED
  BY <1>3

-----------------------------------------------------------------------------
(* What the lists of a configuration hold.                                 *)

UpTo(I, k) == {i \in I : i <= k}

Rank(I, k) == Cardinality(UpTo(I, k))

\* How a rank grows.
LEMMA RankStep ==
  ASSUME NEW I, \A j \in I : j \in Nat /\ 1 <= j, NEW k \in Nat
  PROVE  /\ IsFiniteSet(UpTo(I, k)) /\ Rank(I, k) \in 0..k
         /\ Rank(I, k + 1) = IF k + 1 \in I THEN Rank(I, k) + 1 ELSE Rank(I, k)
<1>1. UpTo(I, k) \in SUBSET (1..k)
  BY DEF UpTo
<1>2. IsFiniteSet(1..k) /\ Cardinality(1..k) = k
  BY FS_Interval
<1>3. IsFiniteSet(UpTo(I, k)) /\ Cardinality(UpTo(I, k)) <= k
  BY <1>1, <1>2, FS_Subset
<1>4. Cardinality(UpTo(I, k)) \in Nat
  BY <1>3, FS_CardinalityType
<1>5. Rank(I, k) \in 0..k
  BY <1>3, <1>4 DEF Rank
<1>6. CASE k + 1 \in I
  <2>1. UpTo(I, k + 1) = UpTo(I, k) \cup {k + 1} /\ k + 1 \notin UpTo(I, k)
    BY <1>6 DEF UpTo
  <2>2. Cardinality(UpTo(I, k) \cup {k + 1}) = Cardinality(UpTo(I, k)) + 1
    BY <1>3, <2>1, FS_AddElement
  <2>3. Rank(I, k + 1) = Rank(I, k) + 1
    BY <2>1, <2>2, Zenon DEF Rank
  <2> QED
    BY <1>3, <1>5, <1>6, <2>3
<1>7. CASE k + 1 \notin I
  <2>1. UpTo(I, k + 1) = UpTo(I, k)
    BY <1>7 DEF UpTo
  <2> QED
    BY <1>3, <1>5, <1>7, <2>1 DEF Rank
<1> QED
  BY <1>6, <1>7

\* A later member has no lower rank.
LEMMA RankGrows ==
  ASSUME NEW I, \A j \in I : j \in Nat /\ 1 <= j, NEW k \in Nat, NEW i \in I, i <= k
  PROVE  Rank(I, i) \in 1..Rank(I, k)
<1>1. i \in Nat /\ UpTo(I, i) \in SUBSET UpTo(I, k) /\ i \in UpTo(I, i)
  BY DEF UpTo
<1>2. \A j \in Nat : IsFiniteSet(UpTo(I, j)) /\ Rank(I, j) \in 0..j
  BY RankStep
<1>3. Cardinality(UpTo(I, i)) <= Cardinality(UpTo(I, k))
  BY <1>1, <1>2, FS_Subset
<1>4. Cardinality(UpTo(I, i)) # 0
  BY <1>1, <1>2, FS_EmptySet
<1> QED
  BY <1>2, <1>3, <1>4 DEF Rank

\* A list of the values of from up to index k.
ListsTo(list, from, max, k) ==
  /\ Len(list) = IF Rank(DOMAIN from, k) < max THEN Rank(DOMAIN from, k) ELSE max
  /\ \A i \in DOMAIN from :
       i <= k /\ Rank(DOMAIN from, i) <= max => list[Rank(DOMAIN from, i)] = from[i]

\* The list of no values.
LEMMA ListBegins ==
  ASSUME NEW from, \A i \in DOMAIN from : i \in Nat /\ 1 <= i, NEW max \in Nat
  PROVE  ListsTo(<<>>, from, max, 0)
<1>1. Rank(DOMAIN from, 0) = 0
  BY RankStep
<1>2. \A i \in DOMAIN from : ~(i <= 0)
  OBVIOUS
<1> QED
  BY <1>1, <1>2 DEF ListsTo

\* It grows by the next value, as long as there is room.
LEMMA ListGrows ==
  ASSUME NEW S, NEW list \in Seq(S), NEW from, NEW max \in Nat, NEW k \in Nat,
         \A i \in DOMAIN from : i \in Nat /\ 1 <= i, ListsTo(list, from, max, k),
         k + 1 \in DOMAIN from => from[k + 1] \in S
  PROVE  ListsTo(IF k + 1 \in DOMAIN from /\ Len(list) < max
                   THEN Append(list, from[k + 1]) ELSE list, from, max, k + 1)
<1> DEFINE I == DOMAIN from
<1>1. /\ Rank(I, k) \in Nat
      /\ Rank(I, k + 1) = IF k + 1 \in I THEN Rank(I, k) + 1 ELSE Rank(I, k)
  BY RankStep
<1>2. \A i \in I : i <= k + 1 <=> i <= k \/ i = k + 1
  OBVIOUS
<1>3. \A i \in I : i <= k => Rank(I, i) \in 1..Rank(I, k)
  BY RankGrows
<1>4. /\ Len(list) = IF Rank(I, k) < max THEN Rank(I, k) ELSE max
      /\ \A i \in I : i <= k /\ Rank(I, i) <= max => list[Rank(I, i)] = from[i]
  BY DEF ListsTo
<1> HIDE DEF I
<1>5. CASE k + 1 \in I /\ Len(list) < max
  <2>1. Rank(I, k) = Len(list) /\ Rank(I, k + 1) = Len(list) + 1
    BY <1>1, <1>4, <1>5
  <2>2. PICK v \in S : v = from[k + 1]
    BY <1>5 DEF I
  <2>3. /\ Len(Append(list, v)) = Len(list) + 1 /\ Append(list, v)[Len(list) + 1] = v
        /\ \A m \in 1..Len(list) : Append(list, v)[m] = list[m]
    OBVIOUS
  <2>4. Len(Append(list, v)) = IF Rank(I, k + 1) < max THEN Rank(I, k + 1) ELSE max
    BY <1>5, <2>1, <2>3
  <2>5. ASSUME NEW i \in I, i <= k + 1, Rank(I, i) <= max
        PROVE  Append(list, v)[Rank(I, i)] = from[i]
    BY <1>2, <1>3, <1>4, <2>1, <2>2, <2>3, <2>5
  <2> QED
    BY <1>5, <2>2, <2>4, <2>5 DEF ListsTo, I
<1>6. CASE ~(k + 1 \in I /\ Len(list) < max)
  <2>1. Len(list) = IF Rank(I, k + 1) < max THEN Rank(I, k + 1) ELSE max
    BY <1>1, <1>4, <1>6
  <2>2. ASSUME NEW i \in I, i <= k + 1, Rank(I, i) <= max PROVE list[Rank(I, i)] = from[i]
    BY <1>1, <1>2, <1>4, <1>6, <2>2
  <2> QED
    BY <1>6, <2>1, <2>2 DEF ListsTo, I
<1> QED
  BY <1>5, <1>6

\* At the last index it is the whole list.
LEMMA ListEnds ==
  ASSUME NEW list, NEW from, NEW max \in Nat, NEW n \in Nat, \A i \in DOMAIN from : i \in 1..n,
         ListsTo(list, from, max, n)
  PROVE  Lists(list, from, max) /\ Len(list) \in Nat /\ (Len(list) = 0 => DOMAIN from = {} \/ max = 0)
<1>1. UpTo(DOMAIN from, n) = DOMAIN from
  BY DEF UpTo
<1>2. \A i \in DOMAIN from : i <= n
  OBVIOUS
<1>3. Lists(list, from, max)
  BY <1>1, <1>2 DEF Lists, ListsTo, Rank, UpTo
<1>4. IsFiniteSet(DOMAIN from) /\ Rank(DOMAIN from, n) \in Nat
  BY <1>1, RankStep
<1>5. Rank(DOMAIN from, n) = 0 => DOMAIN from = {}
  BY <1>1, <1>4, FS_EmptySet DEF Rank
<1> QED
  BY <1>3, <1>4, <1>5 DEF ListsTo
\* Filter is defined for lists of every length, and keeps the members that are
\* to be kept, in their order.
Picked(list, T) == [i \in {j \in DOMAIN list : list[j] \in T} |-> list[i]]

LEMMA FilterLists ==
  ASSUME NEW S, NEW list \in Seq(S), NEW T
  PROVE  /\ Filter(list, T) \in Seq(S)
         /\ ListsTo(Filter(list, T), Picked(list, T), Len(list), Len(list))
<1> DEFINE N == Len(list)
           P == Picked(list, T)
           Step(x, k) == IF list[k] \in T THEN Append(x, list[k]) ELSE x
           V == Seq(S)
           F == [k \in Nat |-> [x \in V |-> IF k \in 1..N THEN Step(x, k) ELSE x]]
           Is(g) == g = [k \in 0..N |-> IF k = 0 THEN <<>> ELSE Step(g[k - 1], k)]
           at == CHOOSE g : Is(g)
           Holds(x, k) == x \in Seq(S) /\ ListsTo(x, P, N, k)
           Fine == {k \in Nat : k <= N => Holds(at[k], k)}
<1>1. Filter(list, T) = at[N]
  BY DEF Filter
<1>2. N \in Nat /\ DOMAIN list = 1..N /\ \A k \in 1..N : list[k] \in S
  OBVIOUS
<1>3. /\ \A k : k \in DOMAIN P <=> k \in 1..N /\ list[k] \in T
      /\ \A k \in DOMAIN P : P[k] = list[k] /\ k \in Nat /\ 1 <= k
  BY <1>2 DEF Picked
<1> HIDE DEF N, P
<1>4. Is(at)
  <2>1. <<>> \in V /\ \A k \in 1..N, x \in V : Step(x, k) \in V
    BY <1>2
  <2> HIDE DEF V, Step
  <2>2. F \in [Nat -> [V -> V]]
    BY <2>1
  <2>3. \A k \in 1..N, x \in V : F[k][x] = Step(x, k)
    BY <1>2
  <2> HIDE DEF F
  <2>4. PICK g : Recursive(g, V, <<>>, F, N)
    BY <1>2, <2>1, <2>2, Recursion
  <2>5. ASSUME NEW k \in 0..N PROVE g[k] = IF k = 0 THEN <<>> ELSE Step(g[k - 1], k)
    <3>1. CASE k = 0
      BY <2>4, <3>1 DEF Recursive
    <3>2. CASE k # 0
      <4>1. k \in 1..N /\ k - 1 \in 0..N
        BY <1>2, <3>2
      <4>2. g[k - 1] \in V /\ g[k] = F[k][g[k - 1]]
        BY <2>4, <4>1 DEF Recursive
      <4> QED
        BY <2>3, <3>2, <4>1, <4>2
    <3> QED
      BY <3>1, <3>2
  <2>6. g = [k \in 0..N |-> g[k]]
    BY <2>4 DEF Recursive
  <2>7. Is(g)
    BY <2>5, <2>6
  <2> QED
    BY <2>7
<1> HIDE DEF at
<1>5. 0 \in Fine
  <2>1. at[0] = <<>>
    BY <1>2, <1>4
  <2>2. <<>> \in Seq(S) /\ ListsTo(<<>>, P, N, 0)
    BY <1>2, <1>3, ListBegins
  <2>3. Holds(at[0], 0)
    BY <2>1, <2>2, Zenon
  <2> HIDE DEF Holds
  <2> QED
    BY <2>3
<1>6. ASSUME NEW k \in Nat, k \in Fine PROVE k + 1 \in Fine
  <2> SUFFICES ASSUME k + 1 <= N PROVE Holds(at[k + 1], k + 1)
    OBVIOUS
  <2>1. /\ k + 1 \in 1..N /\ k + 1 \in 0..N /\ k + 1 # 0 /\ (k + 1) - 1 = k /\ k < N
        /\ list[k + 1] \in S
    BY <1>2
  <2>2. Holds(at[k], k)
    <3> HIDE DEF Holds
    <3> QED
      BY <1>2, <1>6, <2>1
  <2>3. PICK x \in Seq(S) : x = at[k] /\ ListsTo(x, P, N, k)
    BY <2>2, Zenon
  <2>4. at[k + 1] = IF list[k + 1] \in T THEN Append(x, list[k + 1]) ELSE x
    <3>1. at[k + 1] = Step(at[k], k + 1)
      <4> HIDE DEF Step
      <4> QED
        BY <1>4, <2>1
    <3> QED
      BY <2>3, <3>1, Zenon
  <2>5. Len(x) < N
    <3>1. Rank(DOMAIN P, k) \in 0..k
      BY <1>3, RankStep
    <3> QED
      BY <1>2, <2>1, <2>3, <3>1 DEF ListsTo
  <2>6. k + 1 \in DOMAIN P => P[k + 1] = list[k + 1] /\ P[k + 1] \in S
    BY <1>3, <2>1
  <2>7. ListsTo(IF k + 1 \in DOMAIN P /\ Len(x) < N THEN Append(x, P[k + 1]) ELSE x, P, N, k + 1)
    BY <1>2, <1>3, <2>3, <2>6, ListGrows
  <2>8. k + 1 \in DOMAIN P <=> list[k + 1] \in T
    BY <1>3, <2>1
  <2>9. CASE list[k + 1] \in T
    <3>1. at[k + 1] = Append(x, P[k + 1]) /\ at[k + 1] = Append(x, list[k + 1])
      BY <2>4, <2>6, <2>8, <2>9
    <3>2. ListsTo(Append(x, P[k + 1]), P, N, k + 1)
      BY <2>5, <2>7, <2>8, <2>9, Zenon
    <3> QED
      BY <2>1, <3>1, <3>2
  <2>10. CASE list[k + 1] \notin T
    BY <2>4, <2>7, <2>8, <2>10, Zenon
  <2> QED
    BY <2>9, <2>10
<1>7. N \in Fine
  <2> HIDE DEF Fine
  <2> QED
    BY <1>2, <1>5, <1>6, SetInduction
<1> QED
  BY <1>1, <1>2, <1>7 DEF N, P
\* What the arguments of a line are.
LEMMA LineTyped ==
  ASSUME NEW l \in FileLine
  PROVE  /\ l.key = "domain" => l.arg \in Suffix
         /\ l.key = "search" => l.arg \in Seq(Suffix)
BY DEF FileLine

\* The addresses of the lines that count.
GoodServers(lines) == [i \in {j \in DOMAIN lines : Good(lines[j])} |-> JoinHostPort(lines[i].arg)]

\* The servers are the first MaxServers of them, in the order of the lines.
LEMMA ServersList ==
  ASSUME NEW lines \in Seq(FileLine)
  PROVE  /\ ServersOf(lines) \in Seq({JoinHostPort(lines[i].arg) : i \in DOMAIN lines})
         /\ ListsTo(ServersOf(lines), GoodServers(lines), MaxServers, Len(lines))
<1> DEFINE N == Len(lines)
           P == GoodServers(lines)
           S == {JoinHostPort(lines[i].arg) : i \in DOMAIN lines}
           Step(x, k) == AddServer(x, lines[k])
           V == Seq(S)
           F == [k \in Nat |-> [x \in V |-> IF k \in 1..N THEN Step(x, k) ELSE x]]
           Is(g) == g = [k \in 0..N |-> IF k = 0 THEN <<>> ELSE Step(g[k - 1], k)]
           at == CHOOSE g : Is(g)
           Holds(x, k) == x \in V /\ ListsTo(x, P, MaxServers, k)
           Fine == {k \in Nat : k <= N => Holds(at[k], k)}
<1>1. ServersOf(lines) = at[N]
  BY DEF ServersOf
<1>2. N \in Nat /\ DOMAIN lines = 1..N /\ MaxServers \in Nat
  BY LocalAssumption
<1>3. /\ \A k : k \in DOMAIN P <=> k \in 1..N /\ Good(lines[k])
      /\ \A k \in DOMAIN P : P[k] = JoinHostPort(lines[k].arg) /\ k \in Nat /\ 1 <= k
      /\ \A k \in 1..N : JoinHostPort(lines[k].arg) \in S
  BY <1>2 DEF GoodServers
<1> HIDE DEF N, P, S
<1>4. Is(at)
  <2>1. <<>> \in V /\ \A k \in 1..N, x \in V : Step(x, k) \in V
    BY <1>3 DEF AddServer
  <2> HIDE DEF V, Step
  <2>2. F \in [Nat -> [V -> V]]
    BY <2>1
  <2>3. \A k \in 1..N, x \in V : F[k][x] = Step(x, k)
    BY <1>2
  <2> HIDE DEF F
  <2>4. PICK g : Recursive(g, V, <<>>, F, N)
    BY <1>2, <2>1, <2>2, Recursion
  <2>5. ASSUME NEW k \in 0..N PROVE g[k] = IF k = 0 THEN <<>> ELSE Step(g[k - 1], k)
    <3>1. CASE k = 0
      BY <2>4, <3>1 DEF Recursive
    <3>2. CASE k # 0
      <4>1. k \in 1..N /\ k - 1 \in 0..N
        BY <1>2, <3>2
      <4>2. g[k - 1] \in V /\ g[k] = F[k][g[k - 1]]
        BY <2>4, <4>1 DEF Recursive
      <4> QED
        BY <2>3, <3>2, <4>1, <4>2
    <3> QED
      BY <3>1, <3>2
  <2>6. g = [k \in 0..N |-> g[k]]
    BY <2>4 DEF Recursive
  <2>7. Is(g)
    BY <2>5, <2>6
  <2> QED
    BY <2>7
<1> HIDE DEF at
<1>5. 0 \in Fine
  <2>1. at[0] = <<>>
    BY <1>2, <1>4
  <2>2. <<>> \in V /\ ListsTo(<<>>, P, MaxServers, 0)
    BY <1>2, <1>3, ListBegins
  <2>3. Holds(at[0], 0)
    BY <2>1, <2>2, Zenon
  <2> HIDE DEF Holds
  <2> QED
    BY <2>3
<1>6. ASSUME NEW k \in Nat, k \in Fine PROVE k + 1 \in Fine
  <2> SUFFICES ASSUME k + 1 <= N PROVE Holds(at[k + 1], k + 1)
    OBVIOUS
  <2>1. k + 1 \in 1..N /\ k + 1 \in 0..N /\ k + 1 # 0 /\ (k + 1) - 1 = k
    BY <1>2
  <2>2. Holds(at[k], k)
    <3> HIDE DEF Holds
    <3> QED
      BY <1>2, <1>6, <2>1
  <2>3. PICK x \in Seq(S) : x = at[k] /\ ListsTo(x, P, MaxServers, k)
    BY <2>2, Zenon
  <2>4. at[k + 1] = AddServer(x, lines[k + 1])
    <3>1. at[k + 1] = Step(at[k], k + 1)
      <4> HIDE DEF Step
      <4> QED
        BY <1>4, <2>1
    <3> QED
      BY <2>3, <3>1, Zenon
  <2>5. k + 1 \in DOMAIN P => P[k + 1] = JoinHostPort(lines[k + 1].arg) /\ P[k + 1] \in S
    BY <1>3, <2>1
  <2>6. ListsTo(IF k + 1 \in DOMAIN P /\ Len(x) < MaxServers THEN Append(x, P[k + 1]) ELSE x,
                P, MaxServers, k + 1)
    BY <1>2, <1>3, <2>3, <2>5, ListGrows
  <2>7. k + 1 \in DOMAIN P <=> Good(lines[k + 1])
    BY <1>3, <2>1
  <2>8. CASE Good(lines[k + 1]) /\ Len(x) < MaxServers
    <3>1. at[k + 1] = Append(x, P[k + 1])
      BY <2>4, <2>5, <2>7, <2>8 DEF AddServer
    <3>2. ListsTo(Append(x, P[k + 1]), P, MaxServers, k + 1)
      BY <2>6, <2>7, <2>8, Zenon
    <3> QED
      BY <2>5, <2>7, <2>8, <3>1, <3>2
  <2>9. CASE ~(Good(lines[k + 1]) /\ Len(x) < MaxServers)
    <3>1. at[k + 1] = x
      BY <2>4, <2>9 DEF AddServer
    <3>2. ListsTo(x, P, MaxServers, k + 1)
      BY <2>6, <2>7, <2>9, Zenon
    <3> QED
      BY <3>1, <3>2, Zenon
  <2> QED
    BY <2>8, <2>9
<1>7. N \in Fine
  <2> HIDE DEF Fine
  <2> QED
    BY <1>2, <1>5, <1>6, SetInduction
<1> QED
  BY <1>1, <1>2, <1>7 DEF N, P, S

\* The lines that set the search list.
SetsSearch(l) == l.key \in {"domain", "search"}

\* The search list is that of the last of them.
LEMMA SearchLast ==
  ASSUME NEW lines \in Seq(FileLine)
  PROVE  /\ (\A i \in DOMAIN lines : ~SetsSearch(lines[i])) => SearchOf(lines) = <<>>
         /\ \A i \in DOMAIN lines :
              SetsSearch(lines[i]) /\ (\A j \in DOMAIN lines : SetsSearch(lines[j]) => j <= i) =>
                SearchOf(lines) = SetSearch(<<>>, lines[i])
<1> DEFINE N == Len(lines)
           Step(x, k) == SetSearch(x, lines[k])
           V == Seq(Suffix)
           F == [k \in Nat |-> [x \in V |-> IF k \in 1..N THEN Step(x, k) ELSE x]]
           Is(g) == g = [k \in 0..N |-> IF k = 0 THEN <<>> ELSE Step(g[k - 1], k)]
           at == CHOOSE g : Is(g)
           Holds(x, k) ==
             /\ (\A i \in 1..k : ~SetsSearch(lines[i])) => x = <<>>
             /\ \A i \in 1..k :
                  SetsSearch(lines[i]) /\ (\A j \in 1..k : SetsSearch(lines[j]) => j <= i) =>
                    x = SetSearch(<<>>, lines[i])
           Fine == {k \in Nat : k <= N => Holds(at[k], k)}
<1>1. SearchOf(lines) = at[N]
  BY DEF SearchOf
<1>2. N \in Nat /\ DOMAIN lines = 1..N /\ \A k \in 1..N : lines[k] \in FileLine
  OBVIOUS
<1>3. \A l, x, y : SetSearch(x, l) = IF SetsSearch(l) THEN SetSearch(y, l) ELSE x
  BY DEF SetSearch, SetsSearch
<1> HIDE DEF N
<1>4. Is(at)
  <2>1. <<>> \in V /\ \A k \in 1..N, x \in V : Step(x, k) \in V
    <3>1. ASSUME NEW k \in 1..N, NEW x \in V PROVE Step(x, k) \in V
      <4>1. lines[k].key = "domain" => <<lines[k].arg>> \in Seq(Suffix)
        BY <1>2, LineTyped
      <4>2. lines[k].key = "search" => Filter(lines[k].arg, Suffix \ {Root}) \in Seq(Suffix)
        BY <1>2, LineTyped, FilterLists
      <4> QED
        BY <4>1, <4>2 DEF SetSearch
    <3> QED
      BY <3>1
  <2> HIDE DEF V, Step
  <2>2. F \in [Nat -> [V -> V]]
    BY <2>1
  <2>3. \A k \in 1..N, x \in V : F[k][x] = Step(x, k)
    BY <1>2
  <2> HIDE DEF F
  <2>4. PICK g : Recursive(g, V, <<>>, F, N)
    BY <1>2, <2>1, <2>2, Recursion
  <2>5. ASSUME NEW k \in 0..N PROVE g[k] = IF k = 0 THEN <<>> ELSE Step(g[k - 1], k)
    <3>1. CASE k = 0
      BY <2>4, <3>1 DEF Recursive
    <3>2. CASE k # 0
      <4>1. k \in 1..N /\ k - 1 \in 0..N
        BY <1>2, <3>2
      <4>2. g[k - 1] \in V /\ g[k] = F[k][g[k - 1]]
        BY <2>4, <4>1 DEF Recursive
      <4> QED
        BY <2>3, <3>2, <4>1, <4>2
    <3> QED
      BY <3>1, <3>2
  <2>6. g = [k \in 0..N |-> g[k]]
    BY <2>4 DEF Recursive
  <2>7. Is(g)
    BY <2>5, <2>6
  <2> QED
    BY <2>7
<1> HIDE DEF at
<1>5. 0 \in Fine
  <2>1. at[0] = <<>>
    BY <1>2, <1>4
  <2> QED
    BY <2>1
<1>6. ASSUME NEW k \in Nat, k \in Fine PROVE k + 1 \in Fine
  <2> SUFFICES ASSUME k + 1 <= N PROVE Holds(at[k + 1], k + 1)
    OBVIOUS
  <2>1. k + 1 \in 1..N /\ k + 1 \in 0..N /\ k + 1 # 0 /\ (k + 1) - 1 = k
    BY <1>2
  <2>2. Holds(at[k], k)
    <3> HIDE DEF Holds
    <3> QED
      BY <1>2, <1>6, <2>1
  <2>3. at[k + 1] = SetSearch(at[k], lines[k + 1])
    <3>1. at[k + 1] = Step(at[k], k + 1)
      <4> HIDE DEF Step
      <4> QED
        BY <1>4, <2>1
    <3> QED
      BY <3>1
  <2>4. \A i : i \in 1..(k + 1) <=> i \in 1..k \/ i = k + 1
    OBVIOUS
  <2>5. \A i \in 1..k : i <= k + 1 /\ ~(k + 1 <= i)
    OBVIOUS
  <2>6. CASE SetsSearch(lines[k + 1])
    <3>1. at[k + 1] = SetSearch(<<>>, lines[k + 1])
      BY <1>3, <2>3, <2>6
    <3> QED
      BY <2>4, <2>5, <2>6, <3>1
  <2>7. CASE ~SetsSearch(lines[k + 1])
    <3>1. at[k + 1] = at[k]
      BY <1>3, <2>3, <2>7
    <3> QED
      BY <2>2, <2>4, <2>7, <3>1
  <2> QED
    BY <2>6, <2>7
<1>7. N \in Fine
  <2> HIDE DEF Fine
  <2> QED
    BY <1>2, <1>5, <1>6, SetInduction
<1>8. Holds(at[N], N)
  <2> HIDE DEF Holds
  <2> QED
    BY <1>2, <1>7
<1> QED
  BY <1>1, <1>2, <1>8
\* A set of indices that is not empty has a last one.
LEMMA LastIndex ==
  ASSUME NEW n \in Nat, NEW I, \A i \in I : i \in 1..n, I # {}
  PROVE  \E i \in I : \A j \in I : j <= i
<1> DEFINE T == {k \in Nat : \A j \in I : j <= k}
<1>1. n \in T /\ T \in SUBSET Nat
  OBVIOUS
<1>2. PICK x \in T : \A y \in T : x <= y
  <2> HIDE DEF T
  <2> QED
    BY <1>1, NatLeast
<1>3. x \in Nat /\ x # 0 /\ \A j \in I : j <= x
  BY <1>2
<1>4. x \in I
  <2> SUFFICES ASSUME x \notin I PROVE FALSE
    OBVIOUS
  <2>1. \A j \in I : j <= x - 1
    BY <1>3
  <2>2. x - 1 \in T
    BY <1>3, <2>1
  <2> QED
    BY <1>2, <1>3, <2>2
<1> QED
  BY <1>3, <1>4

\* A list that ends is empty just if there is nothing to list.
LEMMA ListEmpty ==
  ASSUME NEW S, NEW list \in Seq(S), NEW from, NEW max \in Nat \ {0}, NEW n \in Nat,
         \A i \in DOMAIN from : i \in 1..n, ListsTo(list, from, max, n)
  PROVE  Lists(list, from, max) /\ (list = <<>> <=> DOMAIN from = {})
<1>1. Lists(list, from, max) /\ (Len(list) = 0 => DOMAIN from = {})
  BY ListEnds
<1>2. ASSUME DOMAIN from = {} PROVE Len(list) = 0
  <2>1. UpTo(DOMAIN from, n) = {}
    BY <1>2 DEF UpTo
  <2>2. Rank(DOMAIN from, n) = 0
    BY <2>1, FS_EmptySet DEF Rank
  <2> QED
    BY <2>2 DEF ListsTo
<1> QED
  BY <1>1, <1>2

\* dnsReadConfig makes of a file what the file means: its servers,
LEMMA ReadsServers ==
  ASSUME NEW lines \in Seq(FileLine)
  PROVE  MeansServers(OrDefault(ServersOf(lines), defaultNS), lines)
<1> DEFINE n == Len(lines)
           good == {i \in DOMAIN lines : Good(lines[i])}
           S == {JoinHostPort(lines[i].arg) : i \in DOMAIN lines}
<1>1. n \in Nat /\ DOMAIN lines = 1..n /\ MaxServers \in Nat \ {0}
  BY LocalAssumption
<1>2. ServersOf(lines) \in Seq(S) /\ ListsTo(ServersOf(lines), GoodServers(lines), MaxServers, n)
  BY ServersList
<1>3. DOMAIN GoodServers(lines) = good /\ \A i \in good : i \in 1..n
  BY <1>1 DEF GoodServers
<1> HIDE DEF S, n
<1>4. /\ Lists(ServersOf(lines), GoodServers(lines), MaxServers)
      /\ ServersOf(lines) = <<>> <=> good = {}
  <2> HIDE DEF good
  <2> QED
    BY <1>1, <1>2, <1>3, ListEmpty
<1>5. GoodServers(lines) = [i \in good |-> JoinHostPort(lines[i].arg)]
  BY DEF GoodServers
<1> QED
  BY <1>4, <1>5 DEF MeansServers, OrDefault

\* and its search list.
LEMMA ReadsSearch ==
  ASSUME NEW lines \in Seq(FileLine)
  PROVE  MeansSearch(OrDefault(SearchOf(lines), DefaultSearch), lines)
<1> DEFINE n == Len(lines)
           of == {i \in DOMAIN lines : lines[i].key \in {"domain", "search"}}
           final == CHOOSE i \in of : \A j \in of : j <= i
           kept == {k \in DOMAIN lines[final].arg : lines[final].arg[k] # Root}
           list == OrDefault(SearchOf(lines), DefaultSearch)
<1>1. n \in Nat /\ DOMAIN lines = 1..n /\ \A i \in 1..n : lines[i] \in FileLine
  OBVIOUS
<1>2. CASE of = {}
  <2>1. SearchOf(lines) = <<>>
    BY <1>2, SearchLast DEF SetsSearch
  <2> QED
    BY <1>2, <2>1 DEF MeansSearch, OrDefault
<1>3. CASE of # {}
  <2>1. final \in of /\ \A j \in of : j <= final
    <3>1. \A i \in of : i \in 1..n
      BY <1>1
    <3> HIDE DEF of, n
    <3> QED
      BY <1>1, <1>3, <3>1, LastIndex
  <2> HIDE DEF final
  <2>2. SearchOf(lines) = SetSearch(<<>>, lines[final])
    BY <2>1, SearchLast DEF SetsSearch
  <2>3. lines[final] \in FileLine
    BY <1>1, <2>1
  <2>4. CASE lines[final].key = "domain"
    <3>1. SearchOf(lines) = <<lines[final].arg>>
      BY <2>2, <2>4 DEF SetSearch
    <3>2. list = <<lines[final].arg>>
      BY <3>1 DEF OrDefault
    <3> QED
      BY <1>3, <2>4, <3>2 DEF MeansSearch, final
  <2>5. CASE lines[final].key = "search"
    <3>1. PICK arg \in Seq(Suffix) : arg = lines[final].arg
      BY <2>3, <2>5, LineTyped
    <3> DEFINE s == Filter(arg, Suffix \ {Root})
               from == Picked(arg, Suffix \ {Root})
               in == {k \in DOMAIN arg : arg[k] # Root}
    <3>2. SearchOf(lines) = s
      BY <2>2, <2>5, <3>1 DEF SetSearch
    <3>3. s \in Seq(Suffix) /\ ListsTo(s, from, Len(arg), Len(arg))
      BY FilterLists
    <3>4. DOMAIN arg = 1..Len(arg) /\ Len(arg) \in Nat /\ \A k \in 1..Len(arg) : arg[k] \in Suffix
      OBVIOUS
    <3>5. in = {k \in DOMAIN arg : arg[k] \in Suffix \ {Root}}
      BY <3>4
    <3>6. from = [k \in in |-> arg[k]]
      BY <3>5, Zenon DEF Picked
    <3>7. DOMAIN from = in /\ \A k \in in : k \in 1..Len(arg)
      BY <3>4, <3>6
    <3> HIDE DEF s, from
    <3>8. CASE in = {}
      <4>1. Rank(DOMAIN from, Len(arg)) = 0
        <5>1. UpTo(DOMAIN from, Len(arg)) = {}
          BY <3>7, <3>8 DEF UpTo
        <5> QED
          BY <5>1, FS_EmptySet DEF Rank
      <4>2. Len(s) = 0
        BY <3>3, <3>4, <4>1 DEF ListsTo
      <4>3. s = <<>>
        BY <3>3, <4>2
      <4>4. list = DefaultSearch
        BY <3>2, <4>3 DEF OrDefault
      <4> QED
        BY <1>3, <2>5, <3>1, <3>8, <4>4 DEF MeansSearch, final
    <3>9. CASE in # {}
      <4>1. Len(arg) # 0
        BY <3>4, <3>7, <3>9
      <4>2. Lists(s, from, Len(arg)) /\ s # <<>>
        <5> HIDE DEF in
        <5> QED
          BY <3>3, <3>4, <3>7, <3>9, <4>1, ListEmpty
      <4>3. list = s
        BY <3>2, <4>2 DEF OrDefault
      <4>4. kept = in
        BY <3>1
      <4>5. Lists(list, [k \in kept |-> lines[final].arg[k]], Len(lines[final].arg))
        BY <3>1, <3>6, <4>2, <4>3, <4>4, Zenon
      <4> QED
        BY <1>3, <2>5, <3>9, <4>4, <4>5 DEF MeansSearch, final
    <3> QED
      BY <3>8, <3>9
  <2> QED
    BY <2>1, <2>4, <2>5
<1> QED
  BY <1>2, <1>3

\* The configuration on record is current: one with the modification time of
\* the file, which tryUpdate keeps, has the servers and the search list that
\* the file means.
THEOREM ConfigIsCurrent == Spec => []ConfigCurrent
<1>1. LInv => ConfigCurrent
  <2> SUFFICES ASSUME LInv, config # None, config.mtime = Mtime(resolv)
               PROVE  /\ MeansServers(config.servers, Lines(resolv.text))
                      /\ MeansSearch(config.search, Lines(resolv.text))
    BY DEF ConfigCurrent
  <2>1. resolv \in FileState
    BY DEF LInv, LocalTypes
  <2>2. config = dnsReadConfig(Lines(resolv.text), Mtime(resolv))
    <3>1. CASE resolv.text = 0
      BY <3>1 DEF LInv, Configured, Mtime
    <3>2. CASE resolv.text # 0
      BY <3>2 DEF LInv, Configured, Mtime
    <3> QED
      BY <3>1, <3>2
  <2>3. PICK lines : lines = Lines(resolv.text)
    OBVIOUS
  <2>4. lines \in Seq(FileLine)
    BY <2>1, <2>3, LocalAssumption DEF Lines, FileState
  <2>5. /\ config.servers = OrDefault(ServersOf(lines), defaultNS)
        /\ config.search = OrDefault(SearchOf(lines), DefaultSearch)
    BY <2>2, <2>3 DEF dnsReadConfig
  <2> QED
    BY <2>3, <2>4, <2>5, ReadsServers, ReadsSearch
<1> QED
  BY <1>1, LInvariant, PTL

-----------------------------------------------------------------------------
(* Hosts: the hosts file and its cache.                                    *)

TextType == [lines : Seq(LineType), ended : BOOLEAN]
FileType == [text : TextType, mtime : Nat, size : Nat, there : BOOLEAN]
ByName == [Names -> Seq(Addr)]

HostsTypes ==
  /\ clock \in Nat /\ changed \in Nat /\ now \in Nat /\ pos \in Nat
  /\ file \in FileType /\ handle \in FileType
  /\ f \in [byName : ByName, expire : Nat, modTime : Nat, size : Nat]
  /\ stat \in [mtime : Nat, size : Nat]
  /\ byName \in ByName
  /\ step \in {"idle", "stat", "open", "read"}
  /\ missed \in BOOLEAN

\* A time and a size are the file's own; they are no later than the file's.
Same(mtime, size) == mtime = file.mtime /\ size = file.size
NotAfter(mtime, size) == mtime < file.mtime \/ (mtime = file.mtime /\ size <= file.size)

\* A file that changes has a later time, or the same and a larger size: what
\* was once another file's time and size is never the file's again.
Stamps ==
  /\ file.mtime >= 1
  /\ NotAfter(f.modTime, f.size)
  /\ step \in {"open", "read"} => NotAfter(stat.mtime, stat.size)

\* While the time and size that the update saw are the file's, what it has read
\* of the file is what the file says.
Reading ==
  /\ step # "read" => pos = 0 /\ byName = Nothing
  /\ step = "read" /\ Same(stat.mtime, stat.size) =>
       /\ handle.text = file.text
       /\ pos <= Counted(file.text)
       /\ \A n \in Names : Says(byName[n], file.text, n, pos)

\* Whatever was looked at after the last change is the file.
Ages ==
  /\ now <= clock /\ changed <= clock /\ f.expire <= clock + cacheMaxAge
  /\ step \in {"open", "read"} /\ now > changed => Same(stat.mtime, stat.size)
  /\ f.expire > changed + cacheMaxAge => Same(f.modTime, f.size)
  /\ step = "idle" /\ ~missed /\ now >= changed + cacheMaxAge => Same(f.modTime, f.size)

HInv == HostsTypes /\ Stamps /\ Reading /\ Ages /\ HostsCurrent

\* A line has a name finitely often.
LEMMA UsesFinite ==
  ASSUME NEW line \in LineType, NEW n
  PROVE  Cardinality(Uses(line, n)) \in Nat
<1>1. line.names \in Seq(DOMAIN Canonical)
  BY DEF LineType
<1>2. DOMAIN line.names = 1..Len(line.names) /\ Len(line.names) \in Nat
  BY <1>1
<1>3. IsFiniteSet(1..Len(line.names))
  BY <1>2, FS_Interval
<1>4. Uses(line, n) \subseteq 1..Len(line.names)
  BY <1>2 DEF Uses
<1> QED
  BY <1>3, <1>4, FS_Subset, FS_CardinalityType

\* What a line adds to a name is a sequence of addresses.
LEMMA AddedTyped ==
  ASSUME NEW names \in ByName, NEW line \in LineType
  PROVE  Added(names, line) \in ByName
<1>1. CASE line.addr = BadAddr
  BY <1>1 DEF Added
<1>2. CASE line.addr # BadAddr
  <2>1. line.addr \in Addr
    BY <1>2 DEF LineType
  <2>2. ASSUME NEW n \in Names
        PROVE  names[n] \o [j \in 1..Cardinality(Uses(line, n)) |-> line.addr] \in Seq(Addr)
    <3>1. PICK c \in Nat : c = Cardinality(Uses(line, n))
      BY UsesFinite
    <3>2. [j \in 1..c |-> line.addr] \in Seq(Addr)
      BY <2>1
    <3>3. names[n] \in Seq(Addr)
      BY DEF ByName
    <3> QED
      BY <3>1, <3>2, <3>3
  <2> QED
    BY <1>2, <2>2 DEF Added, ByName
<1> QED
  BY <1>1, <1>2

\* No line says nothing.
LEMMA SaysNothing ==
  ASSUME NEW t, NEW n
  PROVE  Says(<<>>, t, n, 0)
<1>1. DOMAIN <<>> = {}
  OBVIOUS
<1>2. [j \in {} |-> 1] \in [{} -> 1..0]
  OBVIOUS
<1>3. 1..0 = {}
  OBVIOUS
<1> QED
  BY <1>1, <1>2, <1>3 DEF Says

\* One line more says what its reader adds.
LEMMA SaysMore ==
  ASSUME NEW t \in TextType, NEW n \in Names, NEW k \in Nat, k < Len(t.lines),
         NEW names \in ByName, Says(names[n], t, n, k)
  PROVE  Says(Added(names, t.lines[k + 1])[n], t, n, k + 1)
<1>1. PICK s \in Seq(Addr) : s = names[n]
  BY DEF ByName
<1>2. PICK line \in LineType : line = t.lines[k + 1]
  <2>1. t.lines \in Seq(LineType)
    BY DEF TextType
  <2> QED
    BY <2>1
<1>3. PICK by \in [DOMAIN s -> 1..k] :
        /\ \A i, j \in DOMAIN s : i <= j => by[i] <= by[j]
        /\ \A j \in DOMAIN s : s[j] = t.lines[by[j]].addr
        /\ \A i \in 1..k : Cardinality({j \in DOMAIN s : by[j] = i}) =
                            IF t.lines[i].addr = BadAddr THEN 0 ELSE Cardinality(Uses(t.lines[i], n))
  BY <1>1 DEF Says
<1>4. PICK len \in Nat : len = Len(s) /\ DOMAIN s = 1..len
  BY <1>1
<1>5. CASE line.addr = BadAddr
  <2>1. Added(names, line)[n] = s
    BY <1>1, <1>5 DEF Added
  <2>2. by \in [DOMAIN s -> 1..(k + 1)]
    BY <1>3
  <2>3. ASSUME NEW i \in 1..(k + 1)
        PROVE  Cardinality({j \in DOMAIN s : by[j] = i}) =
                 IF t.lines[i].addr = BadAddr THEN 0 ELSE Cardinality(Uses(t.lines[i], n))
    <3>1. CASE i \in 1..k
      BY <1>3, <3>1
    <3>2. CASE i = k + 1
      <4>1. {j \in DOMAIN s : by[j] = i} = {}
        BY <1>3, <3>2
      <4> QED
        BY <1>2, <1>5, <3>2, <4>1, FS_EmptySet
    <3> QED
      BY <3>1, <3>2
  <2>4. Says(s, t, n, k + 1)
    BY <1>3, <2>2, <2>3 DEF Says
  <2> QED
    BY <1>2, <2>1, <2>4, Zenon
<1>6. CASE line.addr # BadAddr
  <2>1. PICK c \in Nat : c = Cardinality(Uses(line, n))
    BY UsesFinite
  <2>2. PICK more : more = s \o [j \in 1..c |-> line.addr]
    OBVIOUS
  <2>3. Added(names, line)[n] = more
    BY <1>1, <1>6, <2>1, <2>2 DEF Added
  <2>4. /\ DOMAIN more = 1..(len + c)
        /\ \A j \in 1..len : more[j] = s[j]
        /\ \A j \in (len + 1)..(len + c) : more[j] = line.addr
    <3>1. line.addr \in Addr
      BY <1>6 DEF LineType
    <3>2. [j \in 1..c |-> line.addr] \in Seq(Addr) /\ Len([j \in 1..c |-> line.addr]) = c
      BY <3>1
    <3> QED
      BY <1>4, <2>2, <3>2
  <2>5. PICK all : all = [j \in 1..(len + c) |-> IF j <= len THEN by[j] ELSE k + 1]
    OBVIOUS
  <2>6. /\ all \in [DOMAIN more -> 1..(k + 1)]
        /\ \A j \in 1..len : all[j] = by[j] /\ by[j] \in 1..k
        /\ \A j \in (len + 1)..(len + c) : all[j] = k + 1
    <3>1. \A j \in 1..len : by[j] \in 1..k
      BY <1>3, <1>4
    <3>2. ASSUME NEW j \in 1..(len + c)
          PROVE  /\ all[j] \in 1..(k + 1)
                 /\ j <= len => all[j] = by[j]
                 /\ ~ j <= len => all[j] = k + 1
      <4>1. all[j] = IF j <= len THEN by[j] ELSE k + 1
        BY <2>5
      <4>2. j <= len => by[j] \in 1..k
        BY <3>1
      <4> QED
        BY <4>1, <4>2
    <3>3. all \in [DOMAIN more -> 1..(k + 1)]
      BY <2>4, <2>5, <3>2, Zenon
    <3>4. \A j \in 1..len : all[j] = by[j]
      BY <3>2
    <3>5. \A j \in (len + 1)..(len + c) : all[j] = k + 1
      BY <3>2
    <3> QED
      BY <3>1, <3>3, <3>4, <3>5
  <2>7. \A i, j \in DOMAIN more : i <= j => all[i] <= all[j]
    <3> SUFFICES ASSUME NEW i \in 1..(len + c), NEW j \in 1..(len + c), i <= j
                 PROVE  all[i] <= all[j]
      BY <2>4
    <3>1. CASE j <= len
      <4>1. i \in DOMAIN s /\ j \in DOMAIN s
        BY <1>4, <3>1
      <4>2. by[i] <= by[j]
        BY <1>3, <4>1
      <4> QED
        BY <1>4, <2>6, <4>1, <4>2
    <3>2. CASE j > len
      <4>1. all[j] = k + 1
        BY <2>6, <3>2
      <4>2. all[i] \in 1..(k + 1)
        BY <2>4, <2>6
      <4> QED
        BY <4>1, <4>2
    <3> QED
      BY <3>1, <3>2
  <2>8. \A j \in DOMAIN more : more[j] = t.lines[all[j]].addr
    <3> SUFFICES ASSUME NEW j \in 1..(len + c)
                 PROVE  more[j] = t.lines[all[j]].addr
      BY <2>4
    <3>1. CASE j <= len
      <4>1. j \in DOMAIN s /\ j \in 1..len
        BY <1>4, <3>1
      <4>2. s[j] = t.lines[by[j]].addr
        BY <1>3, <4>1
      <4>3. more[j] = s[j] /\ all[j] = by[j]
        BY <2>4, <2>6, <4>1
      <4> QED
        BY <4>2, <4>3, Zenon
    <3>2. CASE j > len
      BY <1>2, <2>4, <2>6, <3>2
    <3> QED
      BY <3>1, <3>2
  <2>9. ASSUME NEW i \in 1..(k + 1)
        PROVE  Cardinality({j \in DOMAIN more : all[j] = i}) =
                 IF t.lines[i].addr = BadAddr THEN 0 ELSE Cardinality(Uses(t.lines[i], n))
    <3>1. CASE i \in 1..k
      <4>1. {j \in DOMAIN more : all[j] = i} = {j \in DOMAIN s : by[j] = i}
        BY <1>4, <2>4, <2>6, <3>1
      <4> QED
        BY <1>3, <3>1, <4>1
    <3>2. CASE i = k + 1
      <4>1. {j \in DOMAIN more : all[j] = i} = (len + 1)..(len + c)
        BY <2>4, <2>6, <3>2
      <4>2. Cardinality((len + 1)..(len + c)) = c
        <5>1. CASE c = 0
          <6>1. (len + 1)..(len + c) = {}
            BY <5>1
          <6> QED
            BY <5>1, <6>1, FS_EmptySet
        <5>2. CASE c # 0
          BY <5>2, FS_Interval
        <5> QED
          BY <5>1, <5>2
      <4> QED
        BY <1>2, <1>6, <2>1, <3>2, <4>1, <4>2
    <3> QED
      BY <3>1, <3>2
  <2>10. Says(more, t, n, k + 1)
    BY <2>6, <2>7, <2>8, <2>9 DEF Says
  <2> QED
    BY <1>2, <2>3, <2>10, Zenon
<1> QED
  BY <1>5, <1>6

\* The cache is trusted for a time.
LEMMA AgeTyped == cacheMaxAge \in Nat \ {0}
  BY HostsAssumption

\* The lines that count, and where their reader stops.
LEMMA CountedLines ==
  ASSUME NEW t \in TextType, NEW k \in Nat, k <= Counted(t)
  PROVE  LET len == Len(t.lines)
             last == k + 1 = len /\ t.lines[k + 1].fills /\ ~t.ended
         IN /\ k >= len \/ last => k = Counted(t)
            /\ ~(k >= len \/ last) => k < len /\ k + 1 <= Counted(t)
<1>1. Len(t.lines) \in Nat
  BY DEF TextType
<1> QED
  BY <1>1 DEF Counted

\* A Lookup that ends leaves nothing of its update behind.
LEMMA EndTyped ==
  ASSUME NEW failed \in BOOLEAN, LookupEnd(failed)
  PROVE  /\ step' = "idle" /\ missed' = failed
         /\ stat' \in [mtime : Nat, size : Nat]
         /\ handle' \in FileType
         /\ pos' = 0 /\ pos' \in Nat
         /\ byName' = Nothing /\ byName' \in ByName
<1>1. <<>> \in Seq(LineType) /\ <<>> \in Seq(Addr)
  OBVIOUS
<1>2. [lines |-> <<>>, ended |-> TRUE] \in TextType
  BY <1>1 DEF TextType
<1>3. NoFile \in FileType
  BY <1>2 DEF NoFile, FileType
<1>4. Nothing \in ByName
  BY <1>1 DEF Nothing, ByName
<1> QED
  BY <1>3, <1>4 DEF LookupEnd

\* A Lookup that finds the cache to be trusted, or begins an update.
LEMMA LookupHosts == HInv /\ Lookup => HInv'
<1> SUFFICES ASSUME HInv, Lookup PROVE HInv'
  OBVIOUS
<1> USE AgeTyped
<1>1. CASE Hit
  <2>1. LookupEnd(FALSE)
    BY <1>1 DEF Lookup
  <2>2. /\ UNCHANGED <<clock, file, changed, f>> /\ now' = clock
        /\ step' = "idle" /\ ~missed' /\ pos' = 0 /\ byName' = Nothing
    BY <2>1, EndTyped DEF Lookup
  <2>3. HostsTypes'
    BY <2>1, <2>2, EndTyped DEF HInv, HostsTypes
  <2>4. Stamps' /\ Reading'
    BY <2>2 DEF HInv, Stamps, Reading, NotAfter
  <2>5. Ages'
    BY <1>1, <2>2 DEF HInv, HostsTypes, Ages, Hit, Same
  <2>6. HostsCurrent'
    BY <2>2 DEF HInv, HostsCurrent, SaysFile
  <2> QED
    BY <2>3, <2>4, <2>5, <2>6 DEF HInv
<1>2. CASE ~Hit
  <2>1. /\ UNCHANGED <<clock, file, changed, f, stat, handle, pos, byName, missed>>
        /\ now' = clock /\ step = "idle" /\ step' = "stat"
    BY <1>2 DEF Lookup
  <2>2. HostsTypes'
    BY <2>1 DEF HInv, HostsTypes
  <2>3. Stamps' /\ Reading'
    BY <2>1 DEF HInv, Stamps, Reading, NotAfter
  <2>4. Ages'
    BY <2>1 DEF HInv, HostsTypes, Ages, Same
  <2>5. HostsCurrent'
    BY <2>1 DEF HInv, HostsCurrent, SaysFile
  <2> QED
    BY <2>2, <2>3, <2>4, <2>5 DEF HInv
<1> QED
  BY <1>1, <1>2

\* A Lookup that cannot access the file ends, and leaves the cache as it is.
LEMMA MissedHosts ==
  ASSUME HInv, LookupEnd(TRUE), UNCHANGED <<clock, file, changed, f, now>>
  PROVE  HInv'
<1>1. step' = "idle" /\ missed' /\ pos' = 0 /\ byName' = Nothing
  BY EndTyped
<1>2. HostsTypes'
  BY EndTyped DEF HInv, HostsTypes
<1>3. Stamps' /\ Reading'
  BY <1>1 DEF HInv, Stamps, Reading, NotAfter
<1>4. Ages'
  BY <1>1 DEF HInv, Ages, Same
<1>5. HostsCurrent'
  BY DEF HInv, HostsCurrent, SaysFile
<1> QED
  BY <1>2, <1>3, <1>4, <1>5 DEF HInv

\* A Lookup that ends with the file's names on record, looked at no earlier
\* than its beginning.
LEMMA RecordedHosts ==
  ASSUME HInv, LookupEnd(FALSE), UNCHANGED <<clock, file, changed, now>>,
         f' \in [byName : ByName, expire : Nat, modTime : Nat, size : Nat],
         f'.expire = now + cacheMaxAge,
         NotAfter(f'.modTime, f'.size),
         now > changed => Same(f'.modTime, f'.size),
         Same(f'.modTime, f'.size) =>
           \A n \in Names : Says(f'.byName[n], file.text, n, Counted(file.text))
  PROVE  HInv'
<1> USE AgeTyped
<1>1. step' = "idle" /\ ~missed' /\ pos' = 0 /\ byName' = Nothing
  BY EndTyped
<1>2. HostsTypes'
  BY EndTyped DEF HInv, HostsTypes
<1>3. Stamps' /\ Reading'
  BY <1>1 DEF HInv, Stamps, Reading, NotAfter
<1>4. Ages'
  <2>1. now \in Nat /\ changed \in Nat /\ clock \in Nat /\ now <= clock /\ changed <= clock
    BY DEF HInv, HostsTypes, Ages
  <2>2. (Same(f.modTime, f.size))' <=> Same(f'.modTime, f'.size)
    BY DEF Same
  <2> QED
    BY <1>1, <2>1, <2>2 DEF Ages
<1>5. HostsCurrent'
  BY DEF HostsCurrent, SaysFile, Same
<1> QED
  BY <1>2, <1>3, <1>4, <1>5 DEF HInv

\* os.Stat fails, finds the file as it was recorded, or another.
LEMMA StatHosts == HInv /\ StatFile => HInv'
<1> SUFFICES ASSUME HInv, StatFile PROVE HInv'
  OBVIOUS
<1> USE AgeTyped
<1>1. step = "stat" /\ UNCHANGED <<clock, file, changed, now>>
  BY DEF StatFile
<1>2. CASE LookupEnd(TRUE) /\ UNCHANGED f
  BY <1>1, <1>2, MissedHosts
<1>3. CASE StatEqual /\ f' = [f EXCEPT !.expire = now + cacheMaxAge] /\ LookupEnd(FALSE)
  <2>1. f' = [f EXCEPT !.expire = now + cacheMaxAge] /\ LookupEnd(FALSE)
    BY <1>3
  <2>2. /\ f' \in [byName : ByName, expire : Nat, modTime : Nat, size : Nat]
        /\ f'.expire = now + cacheMaxAge
        /\ f'.byName = f.byName /\ f'.modTime = f.modTime /\ f'.size = f.size
    <3>1. /\ f \in [byName : ByName, expire : Nat, modTime : Nat, size : Nat]
          /\ now + cacheMaxAge \in Nat
      BY DEF HInv, HostsTypes
    <3> QED
      BY <2>1, <3>1
  <2>3. Same(f'.modTime, f'.size) /\ NotAfter(f'.modTime, f'.size)
    BY <1>3, <2>2 DEF StatEqual, Same, NotAfter, HInv, HostsTypes, FileType
  <2>4. \A n \in Names : Says(f'.byName[n], file.text, n, Counted(file.text))
    BY <1>3, <2>2 DEF StatEqual, HInv, HostsCurrent, SaysFile
  <2> QED
    BY <1>1, <2>1, <2>2, <2>3, <2>4, RecordedHosts
<1>4. CASE /\ step' = "open" /\ stat' = [mtime |-> file.mtime, size |-> file.size]
           /\ UNCHANGED <<f, handle, pos, byName, missed>>
  <2>1. /\ step' = "open" /\ stat' = [mtime |-> file.mtime, size |-> file.size]
        /\ UNCHANGED <<f, handle, pos, byName, missed>>
    BY <1>4
  <2>2. HostsTypes'
    BY <1>1, <2>1 DEF HInv, HostsTypes, FileType
  <2>3. Stamps' /\ Reading'
    BY <1>1, <2>1 DEF HInv, HostsTypes, FileType, Stamps, Reading, NotAfter
  <2>4. Ages'
    BY <1>1, <2>1 DEF HInv, Ages, Same
  <2>5. HostsCurrent'
    BY <1>1, <2>1 DEF HInv, HostsCurrent, SaysFile
  <2> QED
    BY <2>2, <2>3, <2>4, <2>5 DEF HInv
<1> QED
  BY <1>2, <1>3, <1>4 DEF StatFile

\* os.Open: nothing is read yet.
LEMMA OpenHosts == HInv /\ OpenFile => HInv'
<1> SUFFICES ASSUME HInv, OpenFile PROVE HInv'
  OBVIOUS
<1> USE AgeTyped
<1>1. step = "open" /\ UNCHANGED <<clock, file, changed, f, now>>
  BY DEF OpenFile
<1>2. CASE LookupEnd(TRUE)
  BY <1>1, <1>2, MissedHosts
<1>3. CASE step' = "read" /\ handle' = file /\ UNCHANGED <<stat, pos, byName, missed>>
  <2>1. step' = "read" /\ handle' = file /\ UNCHANGED <<stat, pos, byName, missed>>
    BY <1>3
  <2>2. HostsTypes'
    BY <1>1, <2>1 DEF HInv, HostsTypes
  <2>3. Stamps'
    BY <1>1, <2>1 DEF HInv, Stamps, NotAfter
  <2>4. Reading'
    <3>1. pos = 0 /\ byName = Nothing
      BY <1>1 DEF HInv, Reading
    <3>2. Counted(file.text) \in Nat
      BY DEF HInv, HostsTypes, FileType, TextType, Counted
    <3>3. \A n \in Names : Says(byName[n], file.text, n, 0)
      BY <3>1, SaysNothing DEF Nothing
    <3> QED
      BY <1>1, <2>1, <3>1, <3>2, <3>3 DEF Reading
  <2>5. Ages'
    BY <1>1, <2>1 DEF HInv, Ages, Same
  <2>6. HostsCurrent'
    BY <1>1, <2>1 DEF HInv, HostsCurrent, SaysFile
  <2> QED
    BY <2>2, <2>3, <2>4, <2>5, <2>6 DEF HInv
<1> QED
  BY <1>2, <1>3 DEF OpenFile

\* One line is read of the file that is open.
LEMMA ReadHosts == HInv /\ ReadLine => HInv'
<1> SUFFICES ASSUME HInv, ReadLine PROVE HInv'
  OBVIOUS
<1> USE AgeTyped
<1>1. /\ step = "read" /\ ~AtEnd
      /\ byName' = Added(byName, handle.text.lines[pos + 1])
      /\ pos' = pos + 1
      /\ UNCHANGED <<clock, file, changed, f, step, now, stat, handle, missed>>
  BY DEF ReadLine
<1>2. handle.text \in TextType /\ pos \in Nat /\ byName \in ByName
  BY DEF HInv, HostsTypes, FileType
<1>3. pos < Len(handle.text.lines) /\ handle.text.lines[pos + 1] \in LineType
  <2>1. handle.text.lines \in Seq(LineType)
    BY <1>2 DEF TextType
  <2>2. pos < Len(handle.text.lines)
    BY <1>1, <1>2, <2>1 DEF AtEnd
  <2> QED
    BY <1>2, <2>1, <2>2
<1>4. HostsTypes'
  <2>1. byName' \in ByName
    BY <1>1, <1>2, <1>3, AddedTyped
  <2> QED
    BY <1>1, <2>1 DEF HInv, HostsTypes
<1>5. Stamps'
  BY <1>1 DEF HInv, Stamps, NotAfter
<1>6. Reading'
  <2> SUFFICES ASSUME Same(stat.mtime, stat.size)
               PROVE  /\ handle.text = file.text
                      /\ pos + 1 <= Counted(file.text)
                      /\ \A n \in Names : Says(byName'[n], file.text, n, pos + 1)
    BY <1>1 DEF Reading, Same
  <2>1. /\ handle.text = file.text
        /\ pos <= Counted(file.text)
        /\ \A n \in Names : Says(byName[n], file.text, n, pos)
    BY <1>1 DEF HInv, Reading
  <2>2. pos + 1 <= Counted(file.text)
    BY <1>1, <1>2, <2>1, CountedLines DEF AtEnd
  <2>3. ASSUME NEW n \in Names
        PROVE  Says(byName'[n], file.text, n, pos + 1)
    BY <1>1, <1>2, <1>3, <2>1, SaysMore
  <2> QED
    BY <2>1, <2>2, <2>3
<1>7. Ages'
  BY <1>1 DEF HInv, Ages, Same
<1>8. HostsCurrent'
  BY <1>1 DEF HInv, HostsCurrent, SaysFile
<1> QED
  BY <1>4, <1>5, <1>6, <1>7, <1>8 DEF HInv

\* The end of the file that is open: what was read is recorded.
LEMMA EofHosts == HInv /\ ReadEOF => HInv'
<1> SUFFICES ASSUME HInv, ReadEOF PROVE HInv'
  OBVIOUS
<1> USE AgeTyped
<1>1. /\ step = "read" /\ AtEnd /\ f' = Record
      /\ LookupEnd(FALSE) /\ UNCHANGED <<clock, file, changed, now>>
  BY DEF ReadEOF
<1>2. /\ f' \in [byName : ByName, expire : Nat, modTime : Nat, size : Nat]
      /\ f'.expire = now + cacheMaxAge /\ f'.byName = byName
      /\ f'.modTime = stat.mtime /\ f'.size = stat.size
  BY <1>1 DEF Record, HInv, HostsTypes
<1>3. NotAfter(f'.modTime, f'.size) /\ (now > changed => Same(f'.modTime, f'.size))
  BY <1>1, <1>2 DEF HInv, Stamps, Ages
<1>4. ASSUME Same(f'.modTime, f'.size)
      PROVE  \A n \in Names : Says(f'.byName[n], file.text, n, Counted(file.text))
  <2>1. /\ handle.text = file.text
        /\ pos <= Counted(file.text)
        /\ \A n \in Names : Says(byName[n], file.text, n, pos)
    BY <1>1, <1>2, <1>4 DEF HInv, Reading
  <2>2. file.text \in TextType /\ pos \in Nat
    BY DEF HInv, HostsTypes, FileType
  <2>3. pos = Counted(file.text)
    BY <1>1, <2>1, <2>2, CountedLines DEF AtEnd
  <2> QED
    BY <1>2, <2>1, <2>3, Zenon
<1> QED
  BY <1>1, <1>2, <1>3, <1>4, RecordedHosts

\* The file changes: no time and size that was seen before is its own.
LEMMA ChangeHosts == HInv /\ Change => HInv'
<1> SUFFICES ASSUME HInv, Change PROVE HInv'
  OBVIOUS
<1> USE AgeTyped
<1>1. PICK t \in Texts, m \in {file.mtime, file.mtime + 1}, inPlace \in BOOLEAN :
        /\ m > file.mtime \/ Len(t.lines) > file.size
        /\ file' = [text |-> t, mtime |-> m, size |-> Len(t.lines), there |-> TRUE]
        /\ handle' = IF inPlace /\ handle = file THEN file' ELSE handle
  BY DEF Change
<1>2. changed' = clock /\ UNCHANGED <<clock, f, step, now, stat, pos, byName, missed>>
  BY DEF Change
<1>3. t \in TextType /\ Len(t.lines) \in Nat
  BY HostsAssumption DEF TextType
<1>4. file.mtime \in Nat /\ file.size \in Nat /\ m \in Nat
  BY <1>1 DEF HInv, HostsTypes, FileType
<1>5. file' \in FileType /\ file'.mtime = m /\ file'.size = Len(t.lines)
  BY <1>1, <1>3, <1>4 DEF FileType
<1>6. HostsTypes'
  BY <1>1, <1>2, <1>5 DEF HInv, HostsTypes
<1>7. ASSUME NEW mtime \in Nat, NEW size \in Nat, NotAfter(mtime, size)
      PROVE  /\ mtime < file'.mtime \/ (mtime = file'.mtime /\ size <= file'.size)
             /\ ~(mtime = file'.mtime /\ size = file'.size)
  BY <1>1, <1>3, <1>4, <1>5, <1>7 DEF NotAfter
<1>8. f.modTime \in Nat /\ f.size \in Nat /\ stat.mtime \in Nat /\ stat.size \in Nat
  BY DEF HInv, HostsTypes
<1>9. Stamps'
  <2>1. file'.mtime >= 1
    BY <1>1, <1>4, <1>5 DEF HInv, Stamps
  <2> QED
    BY <1>2, <1>7, <1>8, <2>1 DEF HInv, Stamps, NotAfter
<1>10. Reading'
  BY <1>2, <1>7, <1>8 DEF HInv, Stamps, Reading, Same
<1>11. Ages'
  BY <1>2 DEF HInv, HostsTypes, Ages
<1>12. HostsCurrent'
  BY <1>2, <1>7, <1>8 DEF HInv, Stamps, HostsCurrent
<1> QED
  BY <1>6, <1>9, <1>10, <1>11, <1>12 DEF HInv

\* The invariant of the hosts file and its cache.
THEOREM HInvariant == HostsSpec => []HInv
<1> USE AgeTyped
<1>1. HostsInit => HInv
  <2> SUFFICES ASSUME HostsInit PROVE HInv
    OBVIOUS
  <2>1. PICK t \in Texts :
          file = [text |-> t, mtime |-> 1, size |-> Len(t.lines), there |-> TRUE]
    BY DEF HostsInit
  <2>2. t \in TextType /\ Len(t.lines) \in Nat
    BY HostsAssumption DEF TextType
  <2>3. file \in FileType /\ file.mtime = 1 /\ file.size \in Nat
    BY <2>1, <2>2 DEF FileType
  <2>4. <<>> \in Seq(LineType) /\ <<>> \in Seq(Addr)
    OBVIOUS
  <2>5. Nothing \in ByName /\ NoFile \in FileType
    BY <2>4 DEF Nothing, ByName, NoFile, FileType, TextType
  <2>6. HostsTypes
    BY <2>3, <2>5 DEF HostsInit, HostsTypes
  <2>7. Stamps /\ Reading /\ Ages /\ HostsCurrent
    BY <2>3 DEF HostsInit, Stamps, NotAfter, Reading, Ages, Same, HostsCurrent
  <2> QED
    BY <2>6, <2>7 DEF HInv
<1>2. HInv /\ [HostsNext]_hostsVars => HInv'
  <2> SUFFICES ASSUME HInv, [HostsNext]_hostsVars PROVE HInv'
    OBVIOUS
  <2>1. CASE ReadErr
    BY <2>1, MissedHosts DEF ReadErr
  <2>2. CASE Unlink
    <3>1. file' = [file EXCEPT !.there = FALSE]
      BY <2>2 DEF Unlink
    <3>2. /\ file' \in FileType /\ file'.text = file.text
          /\ file'.mtime = file.mtime /\ file'.size = file.size
      BY <3>1 DEF HInv, HostsTypes, FileType
    <3>3. UNCHANGED <<clock, changed, f, step, now, stat, handle, pos, byName, missed>>
      BY <2>2 DEF Unlink
    <3>4. HostsTypes'
      BY <3>2, <3>3 DEF HInv, HostsTypes
    <3>5. Stamps' /\ Reading'
      BY <3>2, <3>3 DEF HInv, Stamps, NotAfter, Reading, Same
    <3>6. Ages' /\ HostsCurrent'
      BY <3>2, <3>3 DEF HInv, Ages, Same, HostsCurrent, SaysFile
    <3> QED
      BY <3>4, <3>5, <3>6 DEF HInv
  <2>3. CASE ClockTick
    <3>1. HostsTypes' /\ clock' = clock + 1
      BY <2>3 DEF ClockTick, HInv, HostsTypes
    <3>2. UNCHANGED <<file, changed, f, step, now, stat, handle, pos, byName, missed>>
      BY <2>3 DEF ClockTick
    <3>3. Stamps' /\ Reading'
      BY <3>2 DEF HInv, Stamps, NotAfter, Reading, Same
    <3>4. Ages'
      BY <3>1, <3>2 DEF HInv, HostsTypes, Ages, Same
    <3>5. HostsCurrent'
      BY <3>2 DEF HInv, HostsCurrent, SaysFile
    <3> QED
      BY <3>1, <3>3, <3>4, <3>5 DEF HInv
  <2>4. CASE UNCHANGED hostsVars
    BY <2>4 DEF hostsVars, HInv, HostsTypes, Stamps, NotAfter, Reading, Ages, Same,
                HostsCurrent, SaysFile
  <2> QED
    BY <2>1, <2>2, <2>3, <2>4, LookupHosts, StatHosts, OpenHosts, ReadHosts, EofHosts,
       ChangeHosts DEF HostsNext
<1> QED
  BY <1>1, <1>2, PTL DEF HostsSpec

\* The time and size on record vouch for the names on record: update stores
\* those of the os.Stat before it opens the file, so that a change between the
\* two, or while the file is read, is never taken for the file it recorded.
THEOREM HostsAreCurrent == HostsSpec => []HostsCurrent
<1>1. HInv => HostsCurrent
  BY DEF HInv
<1> QED
  BY <1>1, HInvariant, PTL

\* A Lookup that begins cacheMaxAge after the last change of the file, and can
\* access it, answers by what the file says: expire is counted from the time
\* before os.Stat.
THEOREM HostsAreFresh == HostsSpec => []HostsFresh
<1>1. HInv => HostsFresh
  BY DEF HInv, Ages, Same, HostsCurrent, HostsFresh
<1> QED
  BY <1>1, HInvariant, PTL
=============================================================================
