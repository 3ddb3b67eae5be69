---------------------------- MODULE UdpNatProofs ----------------------------
(***************************************************************************)
(* Proofs about UdpNat for any number of packets, sources and connections, *)
(* and queues of any capacity: what may be orphaned, what UdpNat.Close     *)
(* closes, and what SetHandler leaves in the queue.                        *)
(***************************************************************************)
EXTENDS UdpNat, TLAPS

-----------------------------------------------------------------------------
(* The inductive invariant.                                                *)

\* An entry of the cache is a connection of its key.
CacheOwner ==
  /\ \A c \in 1..nconn : owner[c] \in Source
  /\ \A s \in Source : cache[s] # 0 => owner[cache[s]] = s

\* A call has a connection from where it delivers on, and made it before.
Placed ==
  \A p \in Packet :
    /\ pc[p] \in {"deliver", "enqueue"} => conn[p] # 0
    /\ made[p] => pc[p] \in {"deliver", "enqueue", "done"}

\* Where a call is about to make a connection, an open one in the cache has
\* been added since the call's look-up.
AddedSince ==
  \A p \in Packet : pc[p] = "prepare" =>
    LET c == cache[SourceOf[p]]
    IN c = 0 \/ c \in closed \/ seen[p] < c

\* What UdpNat.Close has not yet closed is in the cache, under a key that it
\* has still to visit.
ToVisit ==
  /\ natClose # "no" =>
       \A c \in 1..before :
         c \in closed \/ Overwritten(c) \/ (owner[c] \in closing /\ cache[owner[c]] = c)
  /\ natClose = "done" => closing = {}

\* Once the queue is drained, whoever is still on the way to it is in late.
Drained ==
  \A c \in Conn :
    /\ set[c] # "no" => c \in handler
    /\ set[c] = "done" => \A p \in Packet : pc[p] = "enqueue" /\ conn[p] = c => p \in late[c]

NInv ==
  /\ TypeOK /\ CacheOwner /\ Placed /\ AddedSince /\ OrphanOnlyByRace /\ ToVisit
  /\ Drained /\ HandlerTakesOver

-----------------------------------------------------------------------------

\* Every action keeps the types of the variables.
LEMMA TypeStep == TypeOK /\ Placed /\ [Next]_vars => TypeOK'
<1> SUFFICES ASSUME TypeOK, Placed, [Next]_vars PROVE TypeOK'
  OBVIOUS
<1> USE NatAssumption DEF TypeOK, Conn, connVars, callVars, natVars
<1>1. ASSUME NEW p \in Packet, Lookup(p) PROVE TypeOK'
  <2>1. exist' \in [Packet -> BOOLEAN]
    BY <1>1, Zenon DEF Lookup
  <2>2. cache[SourceOf[p]] \in 0..nconn
    OBVIOUS
  <2>3. conn' \in [Packet -> 0..nconn] /\ seen' \in [Packet -> 0..nconn]
    BY <1>1, <2>2 DEF Lookup
  <2>4. pc' \in [Packet -> {"idle", "prepare", "deliver", "enqueue", "done"}]
    <3>1. pc' = [pc EXCEPT ![p] = "deliver"] \/ pc' = [pc EXCEPT ![p] = "prepare"]
      BY <1>1, Zenon DEF Lookup, Goto
    <3> QED
      BY <3>1
  <2>5. UNCHANGED <<connVars, handler, queue, set, late, made, natVars>>
    BY <1>1 DEF Lookup
  <2> QED
    BY <2>1, <2>3, <2>4, <2>5
<1>2. ASSUME NEW p \in Packet, Refuse(p) PROVE TypeOK'
  BY <1>2 DEF Refuse, Goto
<1>3. ASSUME NEW p \in Packet, Create(p) PROVE TypeOK'
  <2>1. /\ nconn \in 0..MaxConn /\ nconn + 1 \in Conn /\ nconn' = nconn + 1
        /\ \A i \in 0..nconn : i \in 0..(nconn + 1)
        /\ \A i \in 1..nconn : i \in 1..(nconn + 1)
    BY <1>3 DEF Create
  <2>2. cache' \in [Source -> 0..nconn'] /\ owner' \in [Conn -> Source \cup {"none"}]
    BY <1>3, <2>1 DEF Create, Cached
  <2>3. closed' \subseteq 1..nconn' /\ handler' \subseteq 1..nconn'
    BY <1>3, <2>1 DEF Create
  <2>4. conn' \in [Packet -> 0..nconn'] /\ seen' \in [Packet -> 0..nconn'] /\ before' \in 0..nconn'
    BY <1>3, <2>1 DEF Create
  <2>5. made' \in [Packet -> BOOLEAN]
    BY <1>3, Zenon DEF Create
  <2>6. pc' \in [Packet -> {"idle", "prepare", "deliver", "enqueue", "done"}]
    BY <1>3 DEF Create, Goto
  <2>7. UNCHANGED <<queue, set, late, exist, closing, natClose>> /\ nconn' \in 0..MaxConn
    BY <1>3, <2>1 DEF Create
  <2> QED
    BY <2>2, <2>3, <2>4, <2>5, <2>6, <2>7
<1>4. ASSUME NEW p \in Packet, Deliver(p) PROVE TypeOK'
  BY <1>4 DEF Deliver, Goto
<1>5. ASSUME NEW p \in Packet, Enqueue(p) PROVE TypeOK'
  BY <1>5 DEF Enqueue, Goto, Room, Placed
<1>6. ASSUME NEW c \in Conn, SetHandler(c) PROVE TypeOK'
  <2>1. c \in 1..nconn
    BY <1>6 DEF SetHandler, Owned
  <2>2. handler' \subseteq 1..nconn /\ set' \in [Conn -> {"no", "drain", "done"}]
    BY <1>6, <2>1 DEF SetHandler, Store
  <2>3. UNCHANGED <<connVars, queue, late, callVars, natVars>>
    BY <1>6 DEF SetHandler
  <2> QED
    BY <2>2, <2>3
<1>7. ASSUME NEW c \in Conn, Drain(c) \/ Read(c) PROVE TypeOK'
  <2>1. Tail(queue[c]) \in Seq(Packet) /\ Len(Tail(queue[c])) <= Capacity
    BY <1>7 DEF Drain, Read
  <2> QED
    BY <1>7, <2>1 DEF Drain, Read
<1>8. ASSUME NEW c \in Conn, DrainEnd(c) PROVE TypeOK'
  BY <1>8 DEF DrainEnd
<1>9. ASSUME NEW c \in Conn, Close(c) PROVE TypeOK'
  BY <1>9 DEF Close, Owned
<1>10. ASSUME NEW s \in Source, Evict(s) PROVE TypeOK'
  <2>1. cache[s] \in 1..nconn
    BY <1>10 DEF Evict, Evicted
  <2>2. cache' \in [Source -> 0..nconn]
    BY <1>10, 0 \in 0..nconn DEF Evict, Evicted
  <2>4. closed' \subseteq 1..nconn
    BY <1>10, <2>1 DEF Evict, Evicted
  <2>3. UNCHANGED <<nconn, owner, handler, queue, set, late, pc, conn, exist, made, seen,
                    closing, natClose, before>>
    BY <1>10 DEF Evict
  <2> QED
    BY <2>2, <2>3, <2>4
<1>11. ASSUME NEW s \in Source, NatCloseKey(s) PROVE TypeOK'
  <2>1. cache[s] \in 0..nconn
    OBVIOUS
  <2>2. Visit(s) \subseteq 1..nconn
    BY <2>1 DEF Visit
  <2> QED
    BY <1>11, <2>2 DEF NatCloseKey
<1>12. CASE NatClose
  BY <1>12 DEF NatClose
<1>13. CASE NatCloseEnd
  BY <1>13 DEF NatCloseEnd
<1>14. CASE UNCHANGED vars
  BY <1>14 DEF vars
<1> QED
  BY <1>1, <1>2, <1>3, <1>4, <1>5, <1>6, <1>7, <1>8, <1>9, <1>10, <1>11, <1>12, <1>13, <1>14
  DEF Next

\* An entry of the cache stays a connection of its key.
LEMMA CacheOwnerStep == NInv /\ [Next]_vars => CacheOwner'
<1> SUFFICES ASSUME NInv, [Next]_vars PROVE CacheOwner'
  OBVIOUS
<1>1. /\ nconn \in Nat /\ cache \in [Source -> 0..nconn] /\ owner \in [Conn -> Source \cup {"none"}]
      /\ 1..nconn \subseteq Conn
  BY NatAssumption DEF NInv, TypeOK, Conn
<1>2. CacheOwner
  BY DEF NInv
<1>3. CASE UNCHANGED <<cache, nconn, owner>>
  BY <1>2, <1>3 DEF CacheOwner
<1>4. ASSUME NEW p \in Packet, Create(p) PROVE CacheOwner'
  <2>1. /\ nconn' = nconn + 1 /\ owner' = [owner EXCEPT ![nconn + 1] = SourceOf[p]]
        /\ cache' = [cache EXCEPT ![SourceOf[p]] = nconn + 1]
        /\ nconn + 1 \in Conn
    BY <1>1, <1>4, NatAssumption DEF Create, Cached, Conn
  <2>2. \A c \in 1..nconn : owner'[c] = owner[c]
    BY <1>1, <2>1
  <2>3. owner'[nconn + 1] = SourceOf[p] /\ SourceOf[p] \in Source
    BY <1>1, <2>1, NatAssumption
  <2>4. ASSUME NEW c \in 1..nconn' PROVE owner'[c] \in Source
    BY <1>1, <1>2, <2>1, <2>2, <2>3 DEF CacheOwner
  <2>5. ASSUME NEW s \in Source, cache'[s] # 0 PROVE owner'[cache'[s]] = s
    <3>1. CASE s = SourceOf[p]
      BY <1>1, <2>1, <2>3, <3>1
    <3>2. CASE s # SourceOf[p]
      <4>1. cache'[s] = cache[s] /\ cache[s] \in 1..nconn
        BY <1>1, <2>1, <2>5, <3>2
      <4>2. owner[cache[s]] = s
        BY <1>2, <4>1 DEF CacheOwner
      <4> QED
        BY <2>2, <4>1, <4>2
    <3> QED
      BY <3>1, <3>2
  <2> QED
    BY <2>4, <2>5 DEF CacheOwner
<1>5. ASSUME NEW s \in Source, Evict(s) PROVE CacheOwner'
  BY <1>1, <1>2, <1>5 DEF Evict, Evicted, CacheOwner
<1>6. CASE (\A p \in Packet : ~Create(p)) /\ (\A s \in Source : ~Evict(s))
  <2>1. UNCHANGED <<cache, nconn, owner>>
    BY <1>6
    DEF Next, Lookup, Refuse, Deliver, Enqueue, SetHandler, Drain, DrainEnd, Read, Close,
        NatCloseKey, NatClose, NatCloseEnd, vars, connVars
  <2> QED
    BY <1>3, <2>1
<1> QED
  BY <1>4, <1>5, <1>6

\* Only a call's own steps change where it is, what it found and what it made.
LEMMA CallStep ==
  ASSUME TypeOK, [Next]_vars, NEW q \in Packet, ~Lookup(q), ~Create(q)
  PROVE  /\ UNCHANGED <<conn[q], made[q], seen[q]>>
         /\ pc'[q] = pc[q] \/ (pc[q] = "prepare" /\ pc'[q] = "done")
              \/ (pc[q] = "deliver" /\ pc'[q] \in {"enqueue", "done"})
              \/ (pc[q] = "enqueue" /\ pc'[q] = "done")
<1> DEFINE Goal ==
      /\ UNCHANGED <<conn[q], made[q], seen[q]>>
      /\ pc'[q] = pc[q] \/ (pc[q] = "prepare" /\ pc'[q] = "done")
           \/ (pc[q] = "deliver" /\ pc'[q] \in {"enqueue", "done"})
           \/ (pc[q] = "enqueue" /\ pc'[q] = "done")
<1>1. /\ conn \in [Packet -> 0..nconn] /\ made \in [Packet -> BOOLEAN] /\ seen \in [Packet -> 0..nconn]
      /\ pc \in [Packet -> {"idle", "prepare", "deliver", "enqueue", "done"}]
  BY DEF TypeOK
<1>2. ASSUME NEW p \in Packet, Lookup(p) PROVE Goal
  BY <1>1, <1>2 DEF Lookup, Goto
<1>3. ASSUME NEW p \in Packet, Create(p) PROVE Goal
  BY <1>1, <1>3 DEF Create, Goto
<1>4. ASSUME NEW p \in Packet, Refuse(p) PROVE Goal
  BY <1>1, <1>4 DEF Refuse, Goto
<1>5. ASSUME NEW p \in Packet, Deliver(p) PROVE Goal
  BY <1>1, <1>5 DEF Deliver, Goto
<1>6. ASSUME NEW p \in Packet, Enqueue(p) PROVE Goal
  BY <1>1, <1>6 DEF Enqueue, Goto
<1>7. CASE UNCHANGED callVars
  BY <1>7 DEF callVars
<1>8. CASE \A p \in Packet : ~(Lookup(p) \/ Create(p) \/ Refuse(p) \/ Deliver(p) \/ Enqueue(p))
  <2>1. UNCHANGED callVars
    BY <1>8
    DEF Next, SetHandler, Drain, DrainEnd, Read, Close, Evict, NatCloseKey, NatClose,
        NatCloseEnd, vars
  <2> QED
    BY <1>7, <2>1
<1> QED
  BY <1>2, <1>3, <1>4, <1>5, <1>6, <1>8

\* A call has a connection where it needs one.
LEMMA PlacedStep == NInv /\ [Next]_vars => Placed'
<1> SUFFICES ASSUME NInv, [Next]_vars, NEW q \in Packet
             PROVE  /\ pc'[q] \in {"deliver", "enqueue"} => conn'[q] # 0
                    /\ made'[q] => pc'[q] \in {"deliver", "enqueue", "done"}
  BY DEF Placed
<1>1. TypeOK /\ Placed
  BY DEF NInv
<1>2. CASE Lookup(q)
  BY <1>1, <1>2 DEF Lookup, Goto, Usable, TypeOK, Placed
<1>3. CASE Create(q)
  <2>1. nconn \in Nat /\ pc'[q] = "deliver" /\ conn'[q] = nconn + 1
    BY <1>1, <1>3, NatAssumption DEF Create, Goto, TypeOK
  <2> QED
    BY <2>1
<1>4. CASE ~Lookup(q) /\ ~Create(q)
  BY <1>1, <1>4, CallStep DEF Placed
<1> QED
  BY <1>2, <1>3, <1>4

\* Only NewPacket makes connections.
LEMMA MakeStep ==
  [Next]_vars => UNCHANGED <<nconn, owner>> \/ \E p \in Packet : Create(p)
<1> SUFFICES ASSUME [Next]_vars, \A p \in Packet : ~Create(p) PROVE UNCHANGED <<nconn, owner>>
  OBVIOUS
<1> QED
  BY DEF Next, Lookup, Refuse, Deliver, Enqueue, SetHandler, Drain, DrainEnd, Read, Close, Evict,
         NatCloseKey, NatClose, NatCloseEnd, vars, connVars

\* What a step does to the table, seen from one source.
LEMMA TableStep ==
  ASSUME TypeOK, [Next]_vars, NEW s \in Source
  PROVE  /\ closed \subseteq closed'
         /\ \/ cache'[s] = cache[s]
            \/ cache'[s] = 0 /\ cache[s] \in closed'
            \/ \E p \in Packet : Create(p) /\ SourceOf[p] = s
<1> DEFINE Goal ==
      /\ closed \subseteq closed'
      /\ \/ cache'[s] = cache[s]
         \/ cache'[s] = 0 /\ cache[s] \in closed'
         \/ \E p \in Packet : Create(p) /\ SourceOf[p] = s
<1>1. cache \in [Source -> 0..nconn]
  BY DEF TypeOK
<1>2. ASSUME NEW p \in Packet, Create(p) PROVE Goal
  <2>1. closed' = closed /\ cache' = [cache EXCEPT ![SourceOf[p]] = nconn + 1]
    BY <1>2 DEF Create, Cached
  <2> QED
    BY <1>1, <1>2, <2>1
<1>3. ASSUME NEW t \in Source, Evict(t) PROVE Goal
  BY <1>1, <1>3 DEF Evict, Evicted
<1>4. ASSUME NEW t \in Source, NatCloseKey(t) PROVE Goal
  BY <1>4 DEF NatCloseKey
<1>5. ASSUME NEW c \in Conn, Close(c) PROVE Goal
  BY <1>5 DEF Close
<1>6. CASE /\ \A p \in Packet : ~Create(p)
           /\ \A t \in Source : ~Evict(t) /\ ~NatCloseKey(t)
           /\ \A c \in Conn : ~Close(c)
  <2>1. UNCHANGED connVars
    BY <1>6
    DEF Next, Lookup, Refuse, Deliver, Enqueue, SetHandler, Drain, DrainEnd, Read, NatClose,
        NatCloseEnd, vars
  <2> QED
    BY <2>1 DEF connVars
<1> QED
  BY <1>2, <1>3, <1>4, <1>5, <1>6

\* A call that has not made its connection yet looked its source up before
\* the open connection in the cache was added.
LEMMA AddedStep == NInv /\ [Next]_vars => AddedSince'
<1> SUFFICES ASSUME NInv, [Next]_vars, NEW q \in Packet, pc'[q] = "prepare"
             PROVE  \/ cache'[SourceOf[q]] = 0
                    \/ cache'[SourceOf[q]] \in closed'
                    \/ seen'[q] < cache'[SourceOf[q]]
  BY DEF AddedSince
<1>1. /\ TypeOK /\ AddedSince /\ SourceOf[q] \in Source /\ nconn \in Nat
      /\ seen[q] \in 0..nconn /\ cache[SourceOf[q]] \in 0..nconn
      /\ cache \in [Source -> 0..nconn] /\ SourceOf \in [Packet -> Source]
      /\ pc \in [Packet -> {"idle", "prepare", "deliver", "enqueue", "done"}]
  BY NatAssumption DEF NInv, TypeOK
<1>2. CASE Lookup(q)
  BY <1>1, <1>2 DEF Lookup, Goto, Usable, connVars
<1>3. CASE Create(q)
  BY <1>1, <1>3 DEF Create, Goto
<1>4. CASE ~Lookup(q) /\ ~Create(q)
  <2>1. pc[q] = "prepare" /\ seen'[q] = seen[q]
    BY <1>1, <1>4, CallStep
  <2>2. cache[SourceOf[q]] = 0 \/ cache[SourceOf[q]] \in closed \/ seen[q] < cache[SourceOf[q]]
    BY <1>1, <2>1 DEF AddedSince
  <2>3. CASE cache'[SourceOf[q]] = cache[SourceOf[q]]
    BY <1>1, <2>1, <2>2, <2>3, TableStep
  <2>4. ASSUME NEW p \in Packet, Create(p), SourceOf[p] = SourceOf[q]
        PROVE  seen'[q] < cache'[SourceOf[q]]
    <3>1. cache'[SourceOf[q]] = nconn + 1
      BY <1>1, <2>4 DEF Create, Cached
    <3> QED
      BY <1>1, <2>1, <3>1
  <2> QED
    BY <1>1, <2>3, <2>4, TableStep
<1> QED
  BY <1>2, <1>3, <1>4

\* A connection that overlapping calls have lost stays one they have lost.
LEMMA OverwrittenStays ==
  ASSUME NInv, [Next]_vars, NEW c \in 1..nconn, Overwritten(c)
  PROVE  Overwritten(c)'
<1>1. PICK q \in Packet : SourceOf[q] = owner[c] /\ made[q] /\ seen[q] < c /\ c < conn[q]
  BY DEF Overwritten
<1>2. TypeOK /\ pc[q] \in {"deliver", "enqueue", "done"}
  BY <1>1 DEF NInv, Placed
<1>3. UNCHANGED <<conn[q], made[q], seen[q]>>
  BY <1>2, CallStep DEF Lookup, Create
<1>4. owner'[c] = owner[c]
  <2>1. ASSUME NEW p \in Packet, Create(p) PROVE owner'[c] = owner[c]
    <3>1. nconn \in Nat /\ owner \in [Conn -> Source \cup {"none"}] /\ c \in Conn /\ c # nconn + 1
      BY <1>2, NatAssumption DEF TypeOK, Conn
    <3> QED
      BY <2>1, <3>1 DEF Create
  <2> QED
    BY <2>1, MakeStep
<1> QED
  BY <1>1, <1>3, <1>4 DEF Overwritten

\* A call that adds a connection over an open one has overlapped with the
\* call that added that one.
LEMMA AddOverwrites ==
  ASSUME NInv, NEW p \in Packet, Create(p), NEW c \in 1..nconn,
         cache[SourceOf[p]] = c, c \notin closed
  PROVE  Overwritten(c)'
<1>1. /\ nconn \in Nat /\ owner \in [Conn -> Source \cup {"none"}] /\ c \in Conn /\ c # nconn + 1
      /\ conn \in [Packet -> 0..nconn] /\ made \in [Packet -> BOOLEAN]
      /\ SourceOf[p] \in Source
  BY NatAssumption DEF NInv, TypeOK, Conn
<1>2. seen[p] < c
  BY <1>1 DEF NInv, AddedSince, Create
<1>3. owner[c] = SourceOf[p]
  BY <1>1 DEF NInv, CacheOwner
<1>4. conn'[p] = nconn + 1 /\ made'[p] /\ seen' = seen /\ owner'[c] = owner[c]
  BY <1>1 DEF Create
<1>5. c < conn'[p]
  BY <1>1, <1>4
<1> QED
  BY <1>2, <1>3, <1>4, <1>5 DEF Overwritten

\* Connections are orphaned by overlapping calls only.
LEMMA OrphanStep == NInv /\ [Next]_vars => OrphanOnlyByRace'
<1> SUFFICES ASSUME NInv, [Next]_vars, NEW c \in Conn,
                    c \in 1..nconn', c \notin closed', cache'[owner'[c]] # c
             PROVE  Overwritten(c)'
  BY DEF OrphanOnlyByRace, Open
<1>1. /\ TypeOK /\ nconn \in Nat /\ owner \in [Conn -> Source \cup {"none"}]
      /\ cache \in [Source -> 0..nconn] /\ SourceOf \in [Packet -> Source]
  BY NatAssumption DEF NInv, TypeOK
<1>2. ASSUME NEW p \in Packet, Create(p) PROVE c \in 1..nconn /\ owner'[c] = owner[c]
  <2>1. /\ nconn' = nconn + 1 /\ owner' = [owner EXCEPT ![nconn + 1] = SourceOf[p]]
        /\ cache' = [cache EXCEPT ![SourceOf[p]] = nconn + 1]
    BY <1>2 DEF Create, Cached
  <2>2. c # nconn + 1
    BY <1>1, <2>1
  <2> QED
    BY <1>1, <2>1, <2>2
<1>3. c \in 1..nconn /\ owner'[c] = owner[c] /\ owner[c] \in Source
  <2>1. c \in 1..nconn /\ owner'[c] = owner[c]
    BY <1>1, <1>2, MakeStep
  <2> QED
    BY <2>1 DEF NInv, CacheOwner
<1>4. CASE cache[owner[c]] # c
  <2>1. c \notin closed
    BY <1>1, <1>3, TableStep
  <2>2. Overwritten(c)
    BY <1>3, <1>4, <2>1 DEF NInv, OrphanOnlyByRace, Open
  <2> QED
    BY <1>3, <2>2, OverwrittenStays
<1>5. CASE cache[owner[c]] = c
  <2>1. c \notin closed
    BY <1>1, <1>3, TableStep
  <2>2. PICK p \in Packet : Create(p) /\ SourceOf[p] = owner[c]
    BY <1>1, <1>3, <1>5, TableStep
  <2> QED
    BY <1>3, <1>5, <2>1, <2>2, AddOverwrites
<1> QED
  BY <1>4, <1>5

\* UdpNat.Close closes what is in the cache under the keys it has visited.
LEMMA VisitStep == NInv /\ [Next]_vars => ToVisit'
<1> SUFFICES ASSUME NInv, [Next]_vars PROVE ToVisit'
  OBVIOUS
<1>1. /\ TypeOK /\ nconn \in Nat /\ before \in 0..nconn /\ closing \subseteq Source
      /\ cache \in [Source -> 0..nconn] /\ 1..nconn \subseteq Conn
      /\ owner \in [Conn -> Source \cup {"none"}]
  BY NatAssumption DEF NInv, TypeOK, Conn
<1>2. ToVisit /\ OrphanOnlyByRace /\ \A c \in 1..nconn : owner[c] \in Source
  BY DEF NInv, CacheOwner
<1>3. CASE NatClose
  <2>1. ASSUME NEW c \in 1..before'
        PROVE  c \in closed' \/ Overwritten(c)' \/ (owner'[c] \in closing' /\ cache'[owner'[c]] = c)
    <3>1. c \in 1..nconn /\ c \in Conn /\ UNCHANGED <<cache, nconn, owner, closed>>
      BY <1>1, <1>3, <2>1 DEF NatClose, connVars
    <3>2. CASE cache[owner[c]] = c
      BY <1>1, <1>2, <1>3, <3>1, <3>2 DEF NatClose
    <3>3. CASE c \notin closed /\ cache[owner[c]] # c
      <4>1. Overwritten(c)
        BY <1>2, <3>1, <3>3 DEF OrphanOnlyByRace, Open
      <4> QED
        BY <3>1, <4>1, OverwrittenStays
    <3> QED
      BY <3>1, <3>2, <3>3
  <2> QED
    BY <1>3, <2>1 DEF ToVisit, NatClose
<1>4. ASSUME NEW s \in Source, NatCloseKey(s) PROVE ToVisit'
  <2>1. /\ UNCHANGED <<cache, nconn, owner, natClose, before>>
        /\ closing' = closing \ {s} /\ closed' = closed \cup Visit(s) /\ s \in closing
    BY <1>4 DEF NatCloseKey
  <2>2. ASSUME natClose # "no", NEW c \in 1..before
        PROVE  c \in closed' \/ Overwritten(c)' \/ (owner[c] \in closing' /\ cache[owner[c]] = c)
    <3>1. c \in 1..nconn /\ owner[c] \in Source /\ c # 0
      BY <1>1, <1>2, <2>2
    <3>2. CASE Overwritten(c)
      BY <3>1, <3>2, OverwrittenStays
    <3>3. CASE c \in closed
      BY <2>1, <3>3
    <3>4. CASE owner[c] \in closing /\ cache[owner[c]] = c
      BY <2>1, <3>1, <3>4 DEF Visit
    <3> QED
      BY <1>2, <2>2, <3>2, <3>3, <3>4 DEF ToVisit
  <2>3. natClose # "done"
    BY <1>2, <2>1 DEF ToVisit
  <2> QED
    BY <2>1, <2>2, <2>3 DEF ToVisit
<1>5. CASE natClose # "no" /\ before' = before /\ closing' = closing
  <2>1. ASSUME NEW c \in 1..before
        PROVE  c \in closed' \/ Overwritten(c)' \/ (owner'[c] \in closing /\ cache'[owner'[c]] = c)
    <3>1. c \in 1..nconn /\ c \in Conn /\ owner[c] \in Source
      BY <1>1, <1>2, <2>1
    <3>2. CASE Overwritten(c)
      BY <3>1, <3>2, OverwrittenStays
    <3>3. CASE c \in closed
      BY <1>1, <3>1, <3>3, TableStep
    <3>4. CASE owner[c] \in closing /\ cache[owner[c]] = c /\ c \notin closed
      <4>1. owner'[c] = owner[c]
        <5>1. ASSUME NEW p \in Packet, Create(p) PROVE owner'[c] = owner[c]
          BY <1>1, <3>1, <5>1 DEF Create
        <5> QED
          BY <5>1, MakeStep
      <4>2. ASSUME NEW p \in Packet, Create(p), SourceOf[p] = owner[c] PROVE Overwritten(c)'
        BY <3>1, <3>4, <4>2, AddOverwrites
      <4> QED
        BY <1>1, <3>1, <3>4, <4>1, <4>2, TableStep
    <3> QED
      BY <1>2, <1>5, <2>1, <3>2, <3>3, <3>4 DEF ToVisit
  <2>2. natClose' = "done" => closing = {}
    <3>1. CASE NatCloseEnd
      BY <3>1 DEF NatCloseEnd
    <3>2. CASE natClose' = natClose
      BY <1>2, <3>2 DEF ToVisit
    <3>3. CASE NatClose
      BY <1>5, <3>3 DEF NatClose
    <3> QED
      BY <3>1, <3>2, <3>3
      DEF Next, Lookup, Refuse, Create, Deliver, Enqueue, SetHandler, Drain, DrainEnd, Read, Close,
          Evict, NatCloseKey, vars, natVars
  <2> QED
    BY <1>5, <2>1, <2>2 DEF ToVisit
<1>6. CASE natClose = "no" /\ natClose' = "no"
  BY <1>6 DEF ToVisit
<1>7. CASE ~NatClose /\ \A s \in Source : ~NatCloseKey(s)
  <2>1. before' = before /\ closing' = closing /\ (natClose = "no" => natClose' = "no")
    BY <1>7
    DEF Next, Lookup, Refuse, Create, Deliver, Enqueue, SetHandler, Drain, DrainEnd, Read, Close,
        Evict, NatCloseEnd, vars, natVars
  <2> QED
    BY <1>5, <1>6, <2>1
<1> QED
  BY <1>3, <1>4, <1>7

\* After the drain nobody sets out for the queue: a handler takes the packet.
LEMMA DrainedStep == NInv /\ [Next]_vars => Drained'
<1> SUFFICES ASSUME NInv, [Next]_vars, NEW c \in Conn
             PROVE  /\ set'[c] # "no" => c \in handler'
                    /\ set'[c] = "done" =>
                         \A p \in Packet : pc'[p] = "enqueue" /\ conn'[p] = c => p \in late'[c]
  BY DEF Drained
<1>1. /\ TypeOK /\ handler \subseteq 1..nconn
      /\ set \in [Conn -> {"no", "drain", "done"}] /\ late \in [Conn -> SUBSET Packet]
      /\ pc \in [Packet -> {"idle", "prepare", "deliver", "enqueue", "done"}]
      /\ conn \in [Packet -> 0..nconn]
  BY DEF NInv, TypeOK
<1>2. /\ set[c] # "no" => c \in handler
      /\ set[c] = "done" => \A p \in Packet : pc[p] = "enqueue" /\ conn[p] = c => p \in late[c]
  BY DEF NInv, Drained
<1>3. handler \subseteq handler'
  BY DEF Next, Lookup, Refuse, Create, Deliver, Enqueue, SetHandler, Store, Drain, DrainEnd, Read,
         Close, Evict, NatCloseKey, NatClose, NatCloseEnd, vars
<1>4. CASE DrainEnd(c)
  BY <1>1, <1>2, <1>4 DEF DrainEnd, callVars
<1>5. CASE SetHandler(c)
  BY <1>1, <1>5 DEF SetHandler, Store
<1>6. CASE set'[c] = set[c] /\ late'[c] = late[c]
  <2>1. ASSUME set[c] = "done", NEW q \in Packet, pc'[q] = "enqueue", conn'[q] = c
        PROVE  q \in late[c]
    <3>1. ~Lookup(q) /\ ~Create(q)
      BY <1>1, <2>1 DEF Lookup, Create, Goto
    <3>2. conn[q] = c /\ (pc[q] = "enqueue" \/ pc[q] = "deliver")
      BY <1>1, <2>1, <3>1, CallStep
    <3>3. CASE pc[q] = "deliver"
      <4>1. Deliver(q)
        <5>1. ASSUME NEW p \in Packet, p # q, Lookup(p) \/ Refuse(p) \/ Create(p) \/ Deliver(p) \/ Enqueue(p)
              PROVE  pc'[q] = pc[q]
          BY <1>1, <5>1 DEF Lookup, Refuse, Create, Deliver, Enqueue, Goto
        <5>2. ~Refuse(q) /\ ~Enqueue(q)
          BY <3>3 DEF Refuse, Enqueue
        <5>3. pc' # pc
          BY <2>1, <3>3
        <5>4. \E p \in Packet : Lookup(p) \/ Refuse(p) \/ Create(p) \/ Deliver(p) \/ Enqueue(p)
          BY <5>3
          DEF Next, SetHandler, Drain, DrainEnd, Read, Close, Evict, NatCloseKey, NatClose,
              NatCloseEnd, vars, callVars
        <5> QED
          BY <2>1, <3>1, <3>3, <5>1, <5>2, <5>4
      <4> QED
        BY <1>1, <1>2, <2>1, <3>2, <4>1 DEF Deliver, Goto
    <3> QED
      BY <1>2, <2>1, <3>2, <3>3
  <2> QED
    BY <1>2, <1>3, <1>6, <2>1
<1>7. CASE ~DrainEnd(c) /\ ~SetHandler(c)
  <2>1. ASSUME NEW d \in Conn, d # c, DrainEnd(d) \/ SetHandler(d)
        PROVE  set'[c] = set[c] /\ late'[c] = late[c]
    BY <1>1, <2>1 DEF DrainEnd, SetHandler
  <2>2. ASSUME \A d \in Conn : ~DrainEnd(d) /\ ~SetHandler(d)
        PROVE  set'[c] = set[c] /\ late'[c] = late[c]
    BY <2>2
    DEF Next, Lookup, Refuse, Create, Deliver, Enqueue, Drain, Read, Close, Evict, NatCloseKey,
        NatClose, NatCloseEnd, vars
  <2> QED
    BY <1>6, <1>7, <2>1, <2>2
<1> QED
  BY <1>4, <1>5, <1>7

\* After SetHandler the queue gets only the packets in late.
LEMMA HandlerStep == NInv /\ [Next]_vars => HandlerTakesOver'
<1> SUFFICES ASSUME NInv, [Next]_vars, NEW c \in Conn, set'[c] = "done"
             PROVE  Queued(c)' \subseteq late'[c]
  BY DEF HandlerTakesOver
<1>1. /\ set \in [Conn -> {"no", "drain", "done"}] /\ late \in [Conn -> SUBSET Packet]
      /\ queue \in [Conn -> Seq(Packet)]
  BY DEF NInv, TypeOK
<1>2. set[c] = "done" => Queued(c) \subseteq late[c]
  BY DEF NInv, HandlerTakesOver
<1>3. CASE DrainEnd(c)
  <2>1. queue'[c] = <<>>
    BY <1>3 DEF DrainEnd
  <2> QED
    BY <2>1 DEF Queued
<1>4. CASE ~DrainEnd(c)
  <2>1. set[c] = "done" /\ late'[c] = late[c]
    <3>1. ASSUME NEW d \in Conn, DrainEnd(d) PROVE set[c] = "done" /\ late'[c] = late[c]
      BY <1>1, <1>4, <3>1 DEF DrainEnd
    <3>2. ASSUME NEW d \in Conn, SetHandler(d) PROVE set[c] = "done" /\ late'[c] = late[c]
      BY <1>1, <3>2 DEF SetHandler
    <3>3. CASE \A d \in Conn : ~DrainEnd(d) /\ ~SetHandler(d)
      BY <3>3
      DEF Next, Lookup, Refuse, Create, Deliver, Enqueue, Drain, Read, Close, Evict, NatCloseKey,
          NatClose, NatCloseEnd, vars
    <3> QED
      BY <3>1, <3>2, <3>3
  <2>2. CASE queue'[c] = queue[c]
    BY <1>2, <2>1, <2>2 DEF Queued
  <2>3. ASSUME NEW d \in Conn, Drain(d) \/ Read(d), queue'[c] # queue[c]
        PROVE  Queued(c)' \subseteq late[c]
    <3>1. queue'[c] = Tail(queue[c]) /\ queue[c] # <<>> /\ queue[c] \in Seq(Packet)
      BY <1>1, <2>3 DEF Drain, Read
    <3>2. \A i \in 1..Len(Tail(queue[c])) :
             Tail(queue[c])[i] = queue[c][i + 1] /\ i + 1 \in 1..Len(queue[c])
      BY <3>1
    <3>3. Queued(c)' \subseteq Queued(c)
      BY <3>1, <3>2 DEF Queued
    <3> QED
      BY <1>2, <2>1, <3>3
  <2>4. ASSUME NEW p \in Packet, Enqueue(p), queue'[c] # queue[c]
        PROVE  Queued(c)' \subseteq late[c]
    <3>1. pc[p] = "enqueue" /\ conn[p] = c /\ queue'[c] = Append(queue[c], p)
      BY <1>1, <2>4 DEF Enqueue
    <3>2. p \in late[c]
      BY <2>1, <3>1 DEF NInv, Drained
    <3>3. \A i \in 1..Len(queue'[c]) :
             queue'[c][i] = p \/ (i \in 1..Len(queue[c]) /\ queue'[c][i] = queue[c][i])
      BY <1>1, <3>1
    <3> QED
      BY <1>2, <2>1, <3>2, <3>3 DEF Queued
  <2>5. CASE (\A d \in Conn : ~Drain(d) /\ ~Read(d)) /\ (\A p \in Packet : ~Enqueue(p))
    <3>1. queue' = queue
      BY <2>5
      DEF Next, Lookup, Refuse, Create, Deliver, SetHandler, DrainEnd, Close, Evict, NatCloseKey,
          NatClose, NatCloseEnd, vars
    <3> QED
      BY <2>2, <3>1
  <2> QED
    BY <2>1, <2>2, <2>3, <2>4, <2>5
<1> QED
  BY <1>3, <1>4

-----------------------------------------------------------------------------
(* The theorems.                                                           *)

\* The invariant holds in every state of the table.
THEOREM NInvariant == Spec => []NInv
<1>1. Init => NInv
  <2> SUFFICES ASSUME Init PROVE NInv
    OBVIOUS
  <2>1. TypeOK
    <3>1. exist \in [Packet -> BOOLEAN] /\ made \in [Packet -> BOOLEAN]
      BY Zenon DEF Init
    <3>2. <<>> \in Seq(Packet) /\ Len(<<>>) = 0
      OBVIOUS
    <3> QED
      BY <3>1, <3>2, NatAssumption DEF Init, TypeOK
  <2>2. CacheOwner
    BY DEF Init, CacheOwner
  <2>3. Placed /\ AddedSince
    BY DEF Init, Placed, AddedSince
  <2>4. OrphanOnlyByRace /\ ToVisit
    BY DEF Init, OrphanOnlyByRace, Open, ToVisit
  <2>5. Drained /\ HandlerTakesOver
    BY DEF Init, Drained, HandlerTakesOver
  <2> QED
    BY <2>1, <2>2, <2>3, <2>4, <2>5 DEF NInv
<1>2. NInv /\ [Next]_vars => NInv'
  BY TypeStep, CacheOwnerStep, PlacedStep, AddedStep, OrphanStep, VisitStep, DrainedStep, HandlerStep
  DEF NInv
<1> QED
  BY <1>1, <1>2, PTL DEF Spec

\* A connection leaves the cache without being closed only where calls of
\* NewPacket for its source overlapped.
THEOREM OrphansByRace == Spec => []OrphanOnlyByRace
<1>1. NInv => OrphanOnlyByRace
  BY DEF NInv
<1> QED
  BY <1>1, NInvariant, PTL

\* UdpNat.Close leaves open, of the connections made before it began, only
\* those that overlapping calls have lost.
THEOREM NatCloses == Spec => []CloseComplete
<1>1. NInv => CloseComplete
  BY DEF NInv, ToVisit, CloseComplete
<1> QED
  BY <1>1, NInvariant, PTL

\* Once SetHandler has returned, only packets whose call had found no handler
\* before are in the queue.
THEOREM HandlerHasAll == Spec => []HandlerTakesOver
<1>1. NInv => HandlerTakesOver
  BY DEF NInv
<1> QED
  BY <1>1, NInvariant, PTL
=============================================================================
