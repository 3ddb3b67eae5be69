-------------------------- MODULE SocketBindProofs --------------------------
(***************************************************************************)
(* Proofs about SocketBind for any sockets, interfaces and number of       *)
(* changes: a socket that goes on is bound to what it was asked to be.     *)
(***************************************************************************)
EXTENDS SocketBind, FiniteSetTheorems, TLAPS

-----------------------------------------------------------------------------
(* The inductive invariant.                                                *)

Entry == [name : Name, index : Nat]

Types ==
  /\ link \in [Name -> Nat]
  /\ changes \in Nat
  /\ data \in Seq(Entry)
  /\ length \in Nat
  /\ ask \in [Socket -> Asks]
  /\ pc \in [Socket -> {"start", "load", "scan", "byname", "update", "store", "setopt",
                        "bydev", "rest", "end"}]
  /\ got \in [Socket -> [data : Seq(Entry), length : Nat]]
  /\ new \in [Socket -> Seq(Entry)]
  /\ idx \in [Socket -> Int]
  /\ bound \in [Socket -> Int]
  /\ result \in [Socket -> {"pending", "ok", "error", "panic"}]

\* Every interface a finder or a socket knows of has had its index.
Had(list) == \A i \in DOMAIN list : list[i].index # 0 /\ <<list[i].name, list[i].index>> \in had

Known ==
  /\ \A n \in Name : link[n] # 0 => <<n, link[n]>> \in had
  /\ Had(data)
  /\ \A s \in Socket : Had(got[s].data) /\ Had(new[s])

\* An index that a socket may be bound to.
Right(s, i) == i # 0 /\ (i = ask[s].index \/ <<ask[s].name, i>> \in had)

\* A socket on its way has what it needs at its step.
OnTheWay ==
  \A s \in Socket :
    /\ pc[s] = "setopt" => Right(s, idx[s])
    /\ pc[s] = "rest" => ask[s].virtual \/ Right(s, bound[s])
    /\ result[s] = "ok" => pc[s] = "end" /\ (ask[s].virtual \/ Right(s, bound[s]))

BInv == Types /\ Known /\ OnTheWay

-----------------------------------------------------------------------------

\* What has been an index stays one that has been.
LEMMA HadStays ==
  ASSUME had \subseteq had'
  PROVE  /\ \A l : Had(l) => Had(l)'
         /\ UNCHANGED ask => \A s, i : Right(s, i) => Right(s, i)'
BY DEF Had, Right
\* Where the sockets are, and with what.
Places ==
  /\ pc \in [Socket -> {"start", "load", "scan", "byname", "update", "store", "setopt",
                        "bydev", "rest", "end"}]
  /\ idx \in [Socket -> Int]
  /\ bound \in [Socket -> Int]
  /\ result \in [Socket -> {"pending", "ok", "error", "panic"}]

\* A step of a socket leaves the other sockets where they are.
Alone(s) ==
  \A t \in Socket : t # s =>
    pc'[t] = pc[t] /\ result'[t] = result[t] /\ idx'[t] = idx[t] /\ bound'[t] = bound[t]

\* What such a step has to bring its own socket.
LEMMA WayStep ==
  ASSUME OnTheWay, NEW s \in Socket, UNCHANGED <<had, ask>>, Alone(s),
         pc'[s] = "setopt" => Right(s, idx'[s]),
         pc'[s] = "rest" => ask[s].virtual \/ Right(s, bound'[s]),
         result'[s] = "ok" => pc'[s] = "end" /\ (ask[s].virtual \/ Right(s, bound'[s]))
  PROVE  OnTheWay'
BY DEF OnTheWay, Right, Alone

\* Every step of a socket keeps the invariant.
LEMMA SocketKeeps ==
  ASSUME BInv, NEW s \in Socket, SocketStep(s)
  PROVE  BInv'
<1> DEFINE Same == UNCHANGED <<link, changes, had, ask>>
<1>1. Types /\ Known /\ OnTheWay
  BY DEF BInv
<1>2. Same
  BY DEF SocketStep, BindToInterface0, SetsockoptInt, BindToDevice, Rest, Load, Store, Scan,
     InterfaceByName, Update, system
<1>3. \A l : Had(l)' <=> Had(l)
  BY <1>2 DEF Had
<1>4. pc[s] # "end" => result[s] # "ok"
  BY <1>1 DEF OnTheWay
<1>5. Places
  BY <1>1 DEF Types, Places
<1>6. ask[s] \in [name : Name \cup {""}, index : Int \ {0}, virtual : BOOLEAN, prefer : BOOLEAN]
  BY <1>1, AsksAssumption DEF Types
<1>0. /\ got \in [Socket -> [data : Seq(Entry), length : Nat]]
       /\ new \in [Socket -> Seq(Entry)] /\ data \in Seq(Entry) /\ length \in Nat
  BY <1>1 DEF Types
<1> USE DEF Goto, End, AppendNext
<1>7. CASE BindToInterface0(s)
  <2>1. UNCHANGED <<data, length, got, new, bound>> /\ pc[s] = "start"
    BY <1>7 DEF BindToInterface0
  <2>2. /\ Places' /\ Alone(s)
        /\ pc'[s] = "setopt" => idx'[s] = ask[s].index
        /\ pc'[s] = "rest" => ask[s].virtual
        /\ result'[s] \in {result[s], "error"}
    <3> USE DEF Places, Alone
    <3>1. CASE ask[s].name = "" /\ ask[s].index = -1
      BY <1>5, <1>7, <3>1 DEF BindToInterface0
    <3>2. CASE ~(ask[s].name = "" /\ ask[s].index = -1) /\ ask[s].virtual
      BY <1>5, <1>7, <3>2 DEF BindToInterface0
    <3>3. CASE ~(ask[s].name = "" /\ ask[s].index = -1) /\ ~ask[s].virtual
      <4>1. CASE ifIndexDisabled
        BY <1>5, <1>7, <3>3, <4>1 DEF BindToInterface0
      <4>2. CASE ~ifIndexDisabled /\ ask[s].index # -1
        BY <1>5, <1>6, <1>7, <3>3, <4>2 DEF BindToInterface0
      <4>3. CASE ~ifIndexDisabled /\ ask[s].index = -1
        BY <1>5, <1>7, <3>3, <4>3 DEF BindToInterface0, ByName
      <4> QED
        BY <4>1, <4>2, <4>3
    <3> QED
      BY <3>1, <3>2, <3>3
  <2>3. Types'
    BY <1>1, <1>2, <2>1, <2>2 DEF Types, Places
  <2>4. Known'
    BY <1>1, <1>2, <1>3, <2>1 DEF Known
  <2>5. OnTheWay'
    <3>1. pc'[s] = "setopt" => Right(s, idx'[s])
      BY <1>6, <2>2 DEF Right
    <3>2. result'[s] # "ok"
      BY <1>4, <2>1, <2>2
    <3> QED
      BY <1>1, <1>2, <2>2, <3>1, <3>2, WayStep
  <2> QED
    BY <2>3, <2>4, <2>5 DEF BInv
<1>8. CASE SetsockoptInt(s)
  <2>1. UNCHANGED <<data, length, got, new, idx>> /\ pc[s] = "setopt" /\ Right(s, idx[s])
    BY <1>1, <1>8 DEF SetsockoptInt, OnTheWay
  <2>2. /\ Places' /\ Alone(s)
        /\ pc'[s] \in {"bydev", "rest", "end"}
        /\ pc'[s] = "rest" => bound'[s] = idx[s]
        /\ result'[s] \in {result[s], "error"}
    BY <1>5, <1>8 DEF SetsockoptInt, Places, Alone
  <2>3. Types'
    BY <1>1, <1>2, <2>1, <2>2 DEF Types, Places
  <2>4. Known'
    BY <1>1, <1>2, <1>3, <2>1 DEF Known
  <2>5. OnTheWay'
    <3>1. result'[s] # "ok"
      BY <1>4, <2>1, <2>2
    <3>2. pc'[s] = "rest" => Right(s, bound'[s])
      BY <2>1, <2>2
    <3> QED
      BY <1>1, <1>2, <2>2, <3>1, <3>2, WayStep
  <2> QED
    BY <2>3, <2>4, <2>5 DEF BInv
<1>9. CASE BindToDevice(s)
  <2>1. UNCHANGED <<data, length, got, new, idx>> /\ pc[s] = "bydev"
    BY <1>9 DEF BindToDevice
  <2>2. PICK b : /\ b = IF ask[s].name = "" THEN 0 ELSE link[ask[s].name]
                 /\ \/ bound' = [bound EXCEPT ![s] = b] /\ AppendNext(s, b = 0)
                    \/ bound' = bound /\ AppendNext(s, TRUE)
    BY <1>9 DEF BindToDevice
  <2>3. b \in Nat /\ (b # 0 => Right(s, b))
    BY <1>1, <1>6, <2>2 DEF Types, Known, Right
  <2>4. /\ Places' /\ Alone(s)
        /\ pc'[s] \in {"rest", "end"}
        /\ pc'[s] = "rest" => bound'[s] = b /\ b # 0
        /\ result'[s] \in {result[s], "error"}
    <3>1. b \in Int /\ bound \in [Socket -> Int]
      BY <1>5, <2>3 DEF Places
    <3>2. CASE bound' = [bound EXCEPT ![s] = b] /\ AppendNext(s, b = 0)
      <4>1. bound' \in [Socket -> Int] /\ bound'[s] = b
        BY <3>1, <3>2
      <4>2. CASE b = 0
        BY <1>5, <2>1, <3>2, <4>1, <4>2 DEF Places, Alone
      <4>3. CASE b # 0
        BY <1>5, <2>1, <3>2, <4>1, <4>3 DEF Places, Alone
      <4> QED
        BY <4>2, <4>3
    <3>3. CASE bound' = bound /\ AppendNext(s, TRUE)
      BY <1>5, <2>1, <3>3 DEF Places, Alone
    <3> QED
      BY <2>2, <3>2, <3>3
  <2>5. Types'
    BY <1>1, <1>2, <2>1, <2>4 DEF Types, Places
  <2>6. Known'
    BY <1>1, <1>2, <1>3, <2>1 DEF Known
  <2>7. OnTheWay'
    <3>1. result'[s] # "ok"
      BY <1>4, <2>1, <2>4
    <3> QED
      BY <1>1, <1>2, <2>3, <2>4, <3>1, WayStep
  <2> QED
    BY <2>5, <2>6, <2>7 DEF BInv
<1>10. CASE Rest(s)
  <2>1. UNCHANGED <<data, length, got, new, idx, bound>> /\ pc[s] = "rest"
    BY <1>10 DEF Rest
  <2>2. Places' /\ Alone(s) /\ pc'[s] = "end"
    BY <1>5, <1>10 DEF Rest, Places, Alone
  <2>3. Types'
    BY <1>1, <1>2, <2>1, <2>2 DEF Types, Places
  <2>4. Known'
    BY <1>1, <1>2, <1>3, <2>1 DEF Known
  <2>5. OnTheWay'
    <3>1. ask[s].virtual \/ Right(s, bound'[s])
      BY <1>1, <2>1 DEF OnTheWay
    <3> QED
      BY <1>1, <1>2, <2>2, <3>1, WayStep
  <2> QED
    BY <2>3, <2>4, <2>5 DEF BInv
<1>11. ASSUME NEW w \in Word, Load(s, w) PROVE BInv'
  <2>1. UNCHANGED <<data, length, new, idx, bound, result>> /\ pc[s] = "load"
    BY <1>11 DEF Load
  <2>2. Places' /\ Alone(s) /\ pc'[s] \in {"load", "scan"}
    BY <1>5, <1>11 DEF Load, Places, Alone
  <2>3. got' = [got EXCEPT ![s].data = data] \/ got' = [got EXCEPT ![s].length = length]
    BY <1>11 DEF Load
  <2>4. /\ got' \in [Socket -> [data : Seq(Entry), length : Nat]]
        /\ \A t \in Socket : got'[t].data \in {got[t].data, data}
    <3>1. got[s].data \in Seq(Entry) /\ got[s].length \in Nat
          /\ got[s] = [data |-> got[s].data, length |-> got[s].length]
      BY <1>0
    <3>2. CASE got' = [got EXCEPT ![s].data = data]
      <4> DEFINE g == [got[s] EXCEPT !.data = data]
      <4>1. g \in [data : Seq(Entry), length : Nat] /\ g.data = data
        BY <1>0, <3>1
      <4>2. got' = [got EXCEPT ![s] = g]
        BY <3>2
      <4> HIDE DEF g
      <4> QED
        BY <1>0, <4>1, <4>2
    <3>3. CASE got' = [got EXCEPT ![s].length = length]
      <4> DEFINE g == [got[s] EXCEPT !.length = length]
      <4>1. g \in [data : Seq(Entry), length : Nat] /\ g.data = got[s].data
        BY <1>0, <3>1
      <4>2. got' = [got EXCEPT ![s] = g]
        BY <3>3
      <4> HIDE DEF g
      <4> QED
        BY <1>0, <4>1, <4>2
    <3> QED
      BY <2>3, <3>2, <3>3
  <2>5. Types'
    BY <1>1, <1>2, <2>1, <2>2, <2>4 DEF Types, Places
  <2>6. Known'
    <3>1. \A t \in Socket : Had(got'[t].data) /\ Had(new[t])
      BY <1>1, <2>4 DEF Known
    <3> QED
      BY <1>1, <1>2, <2>1, <3>1 DEF Known, Had
  <2>7. OnTheWay'
    BY <1>1, <1>2, <1>4, <2>1, <2>2, WayStep
  <2> QED
    BY <2>5, <2>6, <2>7 DEF BInv
<1>12. CASE Scan(s)
  <2>1. UNCHANGED <<data, length, new, bound>> /\ pc[s] = "scan" /\ got' = [got EXCEPT ![s] = NoSlice]
    BY <1>12 DEF Scan
  <2>2. \A j \in Seen(s) : got[s].data[j].index \in Int /\ Right(s, got[s].data[j].index)
    <3> SUFFICES ASSUME NEW j \in Seen(s)
                 PROVE  got[s].data[j].index \in Int /\ Right(s, got[s].data[j].index)
      OBVIOUS
    <3>1. PICK list \in Seq(Entry) : list = got[s].data
      BY <1>0
    <3>2. j \in DOMAIN list /\ list[j].name = ask[s].name
      BY <3>1 DEF Seen
    <3>3. list[j].index \in Nat
      <4>1. list[j] \in Entry
        BY <3>2
      <4> QED
        BY <4>1 DEF Entry
    <3>4. list[j].index # 0 /\ <<list[j].name, list[j].index>> \in had
      BY <1>1, <3>1, <3>2 DEF Known, Had
    <3> QED
      BY <3>1, <3>2, <3>3, <3>4 DEF Right
  <2>3. /\ Places' /\ Alone(s)
        /\ pc'[s] \in {"setopt", "byname", "end"}
        /\ pc'[s] = "setopt" => Right(s, idx'[s])
        /\ result'[s] \in {result[s], "panic"}
    <3> HIDE DEF Goto, End
    <3>1. CASE /\ \E j \in Seen(s) : idx' = [idx EXCEPT ![s] = got[s].data[j].index]
               /\ Goto(s, "setopt") /\ UNCHANGED <<result, bound>>
      <4>1. PICK j \in Seen(s) : idx' = [idx EXCEPT ![s] = got[s].data[j].index]
        BY <3>1
      <4>2. PICK i \in Int : idx' = [idx EXCEPT ![s] = i] /\ Right(s, i)
        BY <2>2, <4>1
      <4> QED
        BY <1>5, <3>1, <4>2 DEF Places, Alone, Goto
    <3>2. CASE Goto(s, "byname") /\ UNCHANGED <<idx, result, bound>>
      BY <1>5, <3>2 DEF Places, Alone, Goto
    <3>3. CASE End(s, "panic") /\ UNCHANGED <<idx, bound>>
      BY <1>5, <3>3 DEF Places, Alone, Goto, End
    <3> QED
      BY <1>12, <3>1, <3>2, <3>3 DEF Scan
  <2>4. /\ got' \in [Socket -> [data : Seq(Entry), length : Nat]]
        /\ \A t \in Socket : Had(got'[t].data)
    <3>1. NoSlice \in [data : Seq(Entry), length : Nat] /\ Had(NoSlice.data)
      BY DEF NoSlice, Had
    <3> HIDE DEF NoSlice
    <3>2. \A t \in Socket : got'[t] = IF t = s THEN NoSlice ELSE got[t]
      BY <1>0, <2>1
    <3>3. got' \in [Socket -> [data : Seq(Entry), length : Nat]]
      BY <1>0, <2>1, <3>1
    <3> QED
      BY <1>1, <3>1, <3>2, <3>3 DEF Known
  <2>5. Types'
    BY <1>1, <1>2, <2>1, <2>3, <2>4 DEF Types, Places
  <2>6. Known'
    BY <1>1, <1>2, <2>1, <2>4 DEF Known, Had
  <2>7. OnTheWay'
    <3>1. result'[s] # "ok"
      BY <1>4, <2>1, <2>3
    <3> QED
      BY <1>1, <1>2, <2>3, <3>1, WayStep
  <2> QED
    BY <2>5, <2>6, <2>7 DEF BInv
<1>13. CASE InterfaceByName(s)
  <2>1. UNCHANGED <<data, length, got, new, idx, bound>> /\ pc[s] = "byname"
    BY <1>13 DEF InterfaceByName
  <2>2. /\ Places' /\ Alone(s)
        /\ pc'[s] \in {"update", "end"} /\ result'[s] \in {result[s], "error"}
    BY <1>5, <1>13 DEF InterfaceByName, Places, Alone
  <2>3. Types'
    BY <1>1, <1>2, <2>1, <2>2 DEF Types, Places
  <2>4. Known'
    BY <1>1, <1>2, <1>3, <2>1 DEF Known
  <2>5. OnTheWay'
    <3>1. result'[s] # "ok"
      BY <1>4, <2>1, <2>2
    <3> QED
      BY <1>1, <1>2, <2>2, <3>1, WayStep
  <2> QED
    BY <2>3, <2>4, <2>5 DEF BInv
<1>14. CASE Update(s)
  <2>1. UNCHANGED <<data, length, got, idx, bound>> /\ pc[s] = "update"
    BY <1>14 DEF Update
  <2>2. \A l \in Interfaces : l \in Seq(Entry) /\ Had(l)
    <3> SUFFICES ASSUME NEW l \in Interfaces PROVE l \in Seq(Entry) /\ Had(l)
      OBVIOUS
    <3> DEFINE up == {n \in Name : link[n] # 0}
               c == Cardinality(up)
    <3>1. c \in Nat
      BY NameAssumption, FS_Subset, FS_CardinalityType
    <3>2. PICK p \in [1..c -> up] : l = [i \in DOMAIN p |-> [name |-> p[i], index |-> link[p[i]]]]
      BY DEF Interfaces
    <3> HIDE DEF c
    <3>3. l = [i \in 1..c |-> [name |-> p[i], index |-> link[p[i]]]]
      BY <3>2
    <3>4. \A i \in 1..c : /\ p[i] \in Name /\ link[p[i]] # 0 /\ link[p[i]] \in Nat
                         /\ <<p[i], link[p[i]]>> \in had
      BY <1>1, <3>2 DEF Types, Known
    <3>5. l \in Seq(Entry)
      <4>1. \A i \in 1..c : l[i] \in Entry
        BY <3>3, <3>4 DEF Entry
      <4>2. l = [i \in 1..c |-> l[i]]
        BY <3>3, Zenon
      <4>3. l \in [1..c -> Entry]
        BY <4>1, <4>2
      <4> QED
        BY <3>1, <4>3
    <3>6. Had(l)
      BY <3>3, <3>4 DEF Had
    <3> QED
      BY <3>5, <3>6
  <2>3. /\ Places' /\ Alone(s)
        /\ pc'[s] \in {"store", "end"} /\ result'[s] \in {result[s], "error"}
    BY <1>5, <1>14 DEF Update, Places, Alone
  <2>4. PICK x \in Seq(Entry) : new' = [new EXCEPT ![s] = x] /\ Had(x)
    <3>1. CASE \E l \in Interfaces : new' = [new EXCEPT ![s] = l]
      BY <2>2, <3>1
    <3>2. CASE UNCHANGED new
      <4>1. new = [new EXCEPT ![s] = new[s]] /\ new[s] \in Seq(Entry) /\ Had(new[s])
        BY <1>1, <1>0 DEF Known
      <4> QED
        BY <3>2, <4>1
    <3> QED
      BY <1>14, <3>1, <3>2 DEF Update
  <2>5. Types'
    BY <1>1, <1>2, <2>1, <2>3, <2>4 DEF Types, Places
  <2>6. Known'
    <3>1. \A t \in Socket : Had(new'[t])
      BY <1>1, <1>0, <2>4 DEF Known
    <3> QED
      BY <1>1, <1>2, <2>1, <3>1 DEF Known, Had
  <2>7. OnTheWay'
    <3>1. result'[s] # "ok"
      BY <1>4, <2>1, <2>3
    <3> QED
      BY <1>1, <1>2, <2>3, <3>1, WayStep
  <2> QED
    BY <2>5, <2>6, <2>7 DEF BInv
<1>15. ASSUME NEW w \in Word, Store(s, w) PROVE BInv'
  <2>1. UNCHANGED <<got, idx, bound, result>> /\ pc[s] = "store"
    BY <1>15 DEF Store
  <2>2. Places' /\ Alone(s) /\ pc'[s] \in {"load", "store"}
    BY <1>5, <1>15 DEF Store, ByName, Places, Alone
  <2>3. new' = new \/ new' = [new EXCEPT ![s] = <<>>]
    BY <1>15 DEF Store
  <2>4. /\ new' \in [Socket -> Seq(Entry)]
        /\ \A t \in Socket : new'[t] = new[t] \/ new'[t] = <<>>
    <3>1. <<>> \in Seq(Entry)
      OBVIOUS
    <3> QED
      BY <1>0, <2>3, <3>1
  <2>5. data' \in {data, new[s]} /\ length' \in Nat
    BY <1>1, <1>15 DEF Store, Stored, Types
  <2>6. Types'
    BY <1>1, <1>2, <2>1, <2>2, <2>4, <2>5 DEF Types, Places
  <2>7. Known'
    <3>1. \A t \in Socket : Had(got[t].data) /\ Had(new'[t])
      <4>1. Had(<<>>)
        BY DEF Had
      <4> QED
        BY <1>1, <2>4, <4>1 DEF Known
    <3>2. Had(data')
      BY <1>1, <2>5 DEF Known
    <3> QED
      BY <1>1, <1>2, <2>1, <3>1, <3>2 DEF Known, Had
  <2>8. OnTheWay'
    BY <1>1, <1>2, <1>4, <2>1, <2>2, WayStep
  <2> QED
    BY <2>6, <2>7, <2>8 DEF BInv
<1> QED
  BY <1>7, <1>8, <1>9, <1>10, <1>11, <1>12, <1>13, <1>14, <1>15 DEF SocketStep

\* Interfaces that come, go or take a name leave what has been.
LEMMA LinkKeeps ==
  ASSUME BInv, LinkChange
  PROVE  BInv'
<1>1. Types /\ Known /\ OnTheWay
  BY DEF BInv
<1>2. /\ UNCHANGED <<data, length, ask, pc, got, new, idx, bound, result>>
      /\ had \subseteq had' /\ changes' = changes + 1
      /\ \A n \in Name : link'[n] # 0 => <<n, link'[n]>> \in had'
  BY DEF LinkChange
<1>3. link' \in [Name -> Nat]
  <2>1. link \in [Name -> Nat] /\ changes + 1 \in Nat
    BY <1>1 DEF Types
  <2> QED
    BY <2>1 DEF LinkChange
<1>4. Types'
  BY <1>1, <1>2, <1>3 DEF Types
<1>5. Known'
  BY <1>1, <1>2 DEF Known, Had
<1>6. OnTheWay'
  BY <1>1, <1>2 DEF OnTheWay, Right
<1> QED
  BY <1>4, <1>5, <1>6 DEF BInv

\* The invariant holds initially and every step keeps it.
THEOREM BInvariant == Spec => []BInv
<1>1. Init => BInv
  <2> SUFFICES ASSUME Init PROVE BInv
    OBVIOUS
  <2>1. Types
    BY DEF Init, Types, NoSlice
  <2>2. Known
    BY DEF Init, Known, Had, NoSlice
  <2>3. OnTheWay
    BY DEF Init, OnTheWay
  <2> QED
    BY <2>1, <2>2, <2>3 DEF BInv
<1>2. BInv /\ [Next]_vars => BInv'
  <2> SUFFICES ASSUME BInv, [Next]_vars PROVE BInv'
    OBVIOUS
  <2>1. CASE UNCHANGED vars
    BY <2>1 DEF vars, system, BInv, Types, Known, Had, OnTheWay, Right
  <2> QED
    BY <2>1, SocketKeeps, LinkKeeps DEF Next
<1> QED
  BY <1>1, <1>2, PTL DEF Spec

\* A socket that goes on to connect is bound to the index it was given or to
\* one that its interface has had, though all sockets read and write the
\* finder's list without a lock while interfaces come, go and are renamed.
THEOREM BindsRight == Spec => []BoundToNamed
<1>1. BInv => BoundToNamed
  BY DEF BInv, OnTheWay, Right, BoundToNamed
<1> QED
  BY <1>1, BInvariant, PTL
=============================================================================
