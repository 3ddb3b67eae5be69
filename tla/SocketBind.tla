----------------------------- MODULE SocketBind -----------------------------
(***************************************************************************)
(* The control functions of sockets on their way to a connection           *)
(* (control/interface.go), BindToInterface above all (control/bind.go,     *)
(* bind_linux.go) and the DefaultInterfaceFinder it asks                   *)
(* (bind_finder_default.go).                                               *)
(*                                                                         *)
(* All sockets of a dialer share its finder, and no lock guards it.  The   *)
(* slice f.interfaces is two words here, data and length; each is read and *)
(* written on its own.  ifIndexDisabled is shared by all sockets.          *)
(*                                                                         *)
(* pc of a socket:                                                         *)
(*   start -> load -> scan -> byname -> update -> store -> load again      *)
(*   scan -> setopt -> rest -> end, with bydev after a setopt refused.     *)
(***************************************************************************)
EXTENDS Integers, Sequences, FiniteSets

CONSTANTS
  Name,        \* names of interfaces
  Socket,
  Asks,        \* what BindToInterface0 is called with
  MaxChange    \* bound: changes of the system's interfaces

ASSUME MaxChangeAssumption == MaxChange \in Nat
ASSUME NameAssumption == IsFiniteSet(Name)

\* An index that is given is not zero, which the system takes for no interface;
\* it is -1 if there is none.  prefer: preferInterfaceName, which the library
\* itself never sets.
ASSUME AsksAssumption ==
  Asks \subseteq [name : Name \cup {""}, index : Int \ {0}, virtual : BOOLEAN, prefer : BOOLEAN]

VARIABLES
  link,             \* the system: the index of each name, 0 if there is none
  changes,          \* how often it has changed
  had,              \* the indices each name has had
  kernel,           \* whether the system knows SO_BINDTOIFINDEX
  data, length,     \* f.interfaces
  ifIndexDisabled,
  ask,
  pc,
  got,              \* the words of f.interfaces that a socket has loaded
  new,              \* the interfaces that its Update has found
  left,             \* the words of f.interfaces it has yet to load or store
  idx,
  bound,            \* the index the socket is bound to, or 0
  result            \* "pending", "ok", "error" or "panic"

system == <<link, changes, had, kernel>>
vars == <<system, data, length, ifIndexDisabled, ask, pc, got, new, left, idx, bound, result>>

Word == {"data", "length"}
NoSlice == [data |-> <<>>, length |-> 0]

Init ==
  /\ link \in [Name -> 0..1] /\ \A m, n \in Name : m # n => link[m] + link[n] < 2
  /\ changes = 1
  /\ had = {<<n, 1>> : n \in {m \in Name : link[m] = 1}}
  /\ kernel \in BOOLEAN
  /\ data = <<>> /\ length = 0
  /\ ifIndexDisabled = FALSE
  /\ ask \in [Socket -> Asks]
  /\ pc = [s \in Socket |-> "start"]
  /\ got = [s \in Socket |-> NoSlice]
  /\ new = [s \in Socket |-> <<>>]
  /\ left = [s \in Socket |-> {}]
  /\ idx = [s \in Socket |-> 0]
  /\ bound = [s \in Socket |-> 0]
  /\ result = [s \in Socket |-> "pending"]

Goto(s, l) == pc' = [pc EXCEPT ![s] = l]

\* The control functions end, and with an error the socket is closed.
End(s, r) == Goto(s, "end") /\ result' = [result EXCEPT ![s] = r]

\* Mutant: the error of the first function is lost.
AppendBoth(s, err) == Goto(s, "rest") /\ UNCHANGED result

\* The functions that Append put after the binding run without an error only.
AppendNext(s, err) == IF err THEN End(s, "error") ELSE Goto(s, "rest") /\ UNCHANGED result

-----------------------------------------------------------------------------
(* BindToInterface0 and bindToInterface.                                   *)

ByName(s) == Goto(s, "load") /\ left' = [left EXCEPT ![s] = Word]

BindToInterface0(s) ==
  /\ pc[s] = "start"
  /\ IF ask[s].name = "" /\ ask[s].index = -1
       THEN AppendNext(s, TRUE) /\ UNCHANGED <<left, idx>>
     ELSE IF ask[s].virtual
       THEN AppendNext(s, FALSE) /\ UNCHANGED <<left, idx>>
     ELSE IF ask[s].prefer \/ ifIndexDisabled
       THEN Goto(s, "bydev") /\ UNCHANGED <<left, idx, result>>
     ELSE IF ask[s].index # -1
       THEN /\ Goto(s, "setopt")
            /\ idx' = [idx EXCEPT ![s] = ask[s].index]
            /\ UNCHANGED <<left, result>>
       ELSE ByName(s) /\ UNCHANGED <<idx, result>>
  /\ UNCHANGED <<system, data, length, ifIndexDisabled, ask, got, new, bound>>

\* SO_BINDTOIFINDEX: the system does not ask whether there is such an
\* interface.  It may refuse for reasons of its own; that it does not know the
\* option, or that the index is negative, disables the option for all sockets.
SetsockoptInt(s) ==
  /\ pc[s] = "setopt"
  /\ \/ /\ kernel /\ idx[s] >= 0
        /\ bound' = [bound EXCEPT ![s] = idx[s]]
        /\ AppendNext(s, FALSE)
        /\ UNCHANGED ifIndexDisabled
     \/ /\ kernel
        /\ AppendNext(s, TRUE)
        /\ UNCHANGED <<ifIndexDisabled, bound>>
     \/ /\ ~kernel \/ idx[s] < 0
        /\ ifIndexDisabled' = TRUE
        /\ Goto(s, "bydev")
        /\ UNCHANGED <<bound, result>>
  /\ UNCHANGED <<system, data, length, ask, got, new, left, idx>>

\* SO_BINDTODEVICE, which takes a name, and may be refused too.
BindToDevice(s) ==
  /\ pc[s] = "bydev"
  /\ LET i == IF ask[s].name = "" THEN 0 ELSE link[ask[s].name]
     IN \/ bound' = [bound EXCEPT ![s] = i] /\ AppendNext(s, i = 0)
        \/ AppendNext(s, TRUE) /\ UNCHANGED bound
  /\ UNCHANGED <<system, data, length, ifIndexDisabled, ask, got, new, left, idx>>

\* RoutingMark, ReuseAddr, ReusePort and DisableUDPFragment.
Rest(s) ==
  /\ pc[s] = "rest"
  /\ End(s, "ok") \/ End(s, "error")
  /\ UNCHANGED <<system, data, length, ifIndexDisabled, ask, got, new, left, idx, bound>>

-----------------------------------------------------------------------------
(* DefaultInterfaceFinder.ByName.                                          *)

Load(s, w) ==
  /\ pc[s] = "load"
  /\ w \in left[s]
  /\ got' = IF w = "data" THEN [got EXCEPT ![s].data = data]
                            ELSE [got EXCEPT ![s].length = length]
  /\ left' = [left EXCEPT ![s] = @ \ {w}]
  /\ IF left[s] = {w} THEN Goto(s, "scan") ELSE UNCHANGED pc
  /\ UNCHANGED <<system, data, length, ifIndexDisabled, ask, new, idx, bound, result>>

\* The entries that a socket can see have their name, up to the end of the
\* array or of its length.
Seen(s) ==
  {i \in DOMAIN got[s].data : i <= got[s].length /\ got[s].data[i].name = ask[s].name}

\* Past the end of the array is no memory, or none with such a name.
Scan(s) ==
  /\ pc[s] = "scan"
  /\ \/ /\ Seen(s) # {}
        /\ \E i \in Seen(s) : idx' = [idx EXCEPT ![s] = got[s].data[i].index]
        /\ Goto(s, "setopt")
        /\ UNCHANGED result
     \/ /\ Seen(s) = {}
        /\ Goto(s, "byname")
        /\ UNCHANGED <<idx, result>>
     \/ /\ Seen(s) = {}
        /\ got[s].length > Len(got[s].data)
        /\ End(s, "panic")
        /\ UNCHANGED idx
  /\ got' = [got EXCEPT ![s] = NoSlice]
  /\ UNCHANGED <<system, data, length, ifIndexDisabled, ask, new, left, bound>>

InterfaceByName(s) ==
  /\ pc[s] = "byname"
  /\ IF link[ask[s].name] = 0 THEN AppendNext(s, TRUE) ELSE Goto(s, "update") /\ UNCHANGED result
  /\ UNCHANGED <<system, data, length, ifIndexDisabled, ask, got, new, left, idx, bound>>

\* net.Interfaces lists them in the order of their indices.
Interfaces ==
  LET up == {n \in Name : link[n] # 0}
  IN {[i \in DOMAIN p |-> [name |-> p[i], index |-> link[p[i]]]] :
        p \in {p \in [1..Cardinality(up) -> up] :
                 \A i, j \in DOMAIN p : i < j => link[p[i]] < link[p[j]]}}

\* Update, up to its assignment to f.interfaces; an interface that is gone
\* may fail it.
Update(s) ==
  /\ pc[s] = "update"
  /\ \/ /\ \E l \in Interfaces : new' = [new EXCEPT ![s] = l]
        /\ left' = [left EXCEPT ![s] = Word]
        /\ Goto(s, "store")
        /\ UNCHANGED result
     \/ AppendNext(s, TRUE) /\ UNCHANGED <<new, left>>
  /\ UNCHANGED <<system, data, length, ifIndexDisabled, ask, got, idx, bound>>

\* Mutant: Update forgets the assignment.
NotStored(s, w) == UNCHANGED <<data, length>>

Stored(s, w) ==
  IF w = "data" THEN data' = new[s] /\ UNCHANGED length
                ELSE length' = Len(new[s]) /\ UNCHANGED data

Store(s, w) ==
  /\ pc[s] = "store"
  /\ w \in left[s]
  /\ Stored(s, w)
  /\ IF left[s] = {w} THEN ByName(s) /\ new' = [new EXCEPT ![s] = <<>>]
                      ELSE left' = [left EXCEPT ![s] = @ \ {w}] /\ UNCHANGED <<pc, new>>
  /\ UNCHANGED <<system, ifIndexDisabled, ask, got, idx, bound, result>>

-----------------------------------------------------------------------------
(* The system.                                                             *)

\* An interface comes, goes, or takes another name; an index is used once.
LinkChange ==
  /\ changes < MaxChange
  /\ \E n \in Name :
       \/ link[n] = 0 /\ link' = [link EXCEPT ![n] = changes + 1]
       \/ link[n] # 0 /\ link' = [link EXCEPT ![n] = 0]
       \/ \E m \in Name : /\ link[n] # 0 /\ link[m] = 0
                          /\ link' = [link EXCEPT ![n] = 0, ![m] = link[n]]
  /\ had' = had \cup {<<n, link'[n]>> : n \in {m \in Name : link'[m] # 0}}
  /\ changes' = changes + 1
  /\ UNCHANGED <<kernel, data, length, ifIndexDisabled, ask, pc, got, new, left, idx, bound,
                 result>>

SocketStep(s) ==
  \/ BindToInterface0(s) \/ SetsockoptInt(s) \/ BindToDevice(s) \/ Rest(s)
  \/ \E w \in Word : Load(s, w) \/ Store(s, w)
  \/ Scan(s) \/ InterfaceByName(s) \/ Update(s)

Next == LinkChange \/ \E s \in Socket : SocketStep(s)

\* Goroutines are scheduled.
Spec == Init /\ [][Next]_vars /\ \A s \in Socket : WF_vars(SocketStep(s))

-----------------------------------------------------------------------------
(* Properties.                                                             *)

\* A socket that goes on to connect, to other than a loopback or multicast
\* address, is bound: to the index it was given, or to one that its interface
\* has had, however often interfaces come, go and take each other's names
\* between the steps of the finder, whichever option the system knows, and
\* though the finder is shared without a lock.
BoundToNamed ==
  \A s \in Socket : result[s] = "ok" /\ ~ask[s].virtual =>
    /\ bound[s] # 0
    /\ bound[s] = ask[s].index \/ <<ask[s].name, bound[s]>> \in had

\* The finder's recursion ends once the interfaces have settled: every socket
\* is bound or refused, or a torn read of the slice has ended the process.
BindReturns == \A s \in Socket : <>(pc[s] = "end")
=============================================================================
