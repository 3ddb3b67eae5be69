------------------------------- MODULE UdpNat -------------------------------
(***************************************************************************)
(* The UDP NAT table (netio/udpnat): NewPacket finds or makes the          *)
(* connection of a packet's source and hands it the packet, through its    *)
(* handler or its queue, while the owner of the connection sets a handler, *)
(* reads or closes it, the cache evicts, and the table is closed.          *)
(*                                                                         *)
(* A Packet is one call of NewPacket.  pc is idle -> (prepare ->) deliver  *)
(* (-> enqueue) -> done; steps end where another goroutine can get in      *)
(* between.  Connections are numbered as they are made, 0 is none.  The    *)
(* cache (go-freelru, not part of the repository) is a map that may drop   *)
(* any entry, for its lifetime or for room, calling onEvict, and replaces  *)
(* the value of a present key without.                                     *)
(***************************************************************************)
EXTENDS Naturals, Sequences

CONSTANTS
  Packet, Source,
  SourceOf,   \* the source of a packet
  Capacity,   \* of a connection's queue, 64 in the code
  MaxConn     \* bound: connections made

ASSUME NatAssumption ==
  /\ SourceOf \in [Packet -> Source]
  /\ Capacity \in Nat /\ MaxConn \in Nat

VARIABLES
  cache,      \* u.cache
  nconn,      \* connections made
  owner,      \* the source of a connection
  closed,     \* connections whose closeChan is closed
  handler,    \* connections with a handler
  queue,      \* c.packets
  set,        \* SetHandler of a connection: "no", "drain", "done"
  pc,
  conn,       \* the connection of a call
  exist,      \* its lookup found an entry
  made,       \* it made its connection
  seen,       \* history: nconn at its lookup
  late,       \* history: calls about to enqueue when SetHandler returned
  closing,    \* keys that UdpNat.Close has still to visit
  natClose,   \* UdpNat.Close: "no", "busy", "done"
  before      \* history: nconn when it began

connVars == <<cache, nconn, owner, closed>>
callVars == <<pc, conn, exist, made, seen>>
natVars  == <<closing, natClose, before>>
vars == <<connVars, handler, queue, set, late, callVars, natVars>>

Conn == 1..MaxConn

\* The packets in a connection's queue.
Queued(c) == {queue[c][i] : i \in 1..Len(queue[c])}

TypeOK ==
  /\ cache \in [Source -> 0..nconn]
  /\ nconn \in 0..MaxConn
  /\ owner \in [Conn -> Source \cup {"none"}]
  /\ closed \subseteq 1..nconn
  /\ handler \subseteq 1..nconn
  /\ queue \in [Conn -> Seq(Packet)] /\ \A c \in Conn : Len(queue[c]) <= Capacity
  /\ set \in [Conn -> {"no", "drain", "done"}]
  /\ pc \in [Packet -> {"idle", "prepare", "deliver", "enqueue", "done"}]
  /\ conn \in [Packet -> 0..nconn]
  /\ exist \in [Packet -> BOOLEAN]
  /\ made \in [Packet -> BOOLEAN]
  /\ seen \in [Packet -> 0..nconn]
  /\ late \in [Conn -> SUBSET Packet]
  /\ closing \subseteq Source
  /\ natClose \in {"no", "busy", "done"}
  /\ before \in 0..nconn

Init ==
  /\ cache = [s \in Source |-> 0]
  /\ nconn = 0
  /\ owner = [c \in Conn |-> "none"]
  /\ closed = {}
  /\ handler = {}
  /\ queue = [c \in Conn |-> <<>>]
  /\ set = [c \in Conn |-> "no"]
  /\ pc = [p \in Packet |-> "idle"]
  /\ conn = [p \in Packet |-> 0]
  /\ exist = [p \in Packet |-> FALSE]
  /\ made = [p \in Packet |-> FALSE]
  /\ seen = [p \in Packet |-> 0]
  /\ late = [c \in Conn |-> {}]
  /\ closing = {}
  /\ natClose = "no"
  /\ before = 0

-----------------------------------------------------------------------------
(* NewPacket.                                                              *)

Goto(p, l) == pc' = [pc EXCEPT ![p] = l]

Usable(c) == c # 0 /\ c \notin closed

\* GetAndRefresh and isClose.
Lookup(p) ==
  /\ pc[p] = "idle"
  /\ LET c == cache[SourceOf[p]]
     IN /\ exist' = [exist EXCEPT ![p] = c # 0]
        /\ IF Usable(c)
             THEN conn' = [conn EXCEPT ![p] = c] /\ Goto(p, "deliver")
             ELSE UNCHANGED conn /\ Goto(p, "prepare")
  /\ seen' = [seen EXCEPT ![p] = nconn]
  /\ UNCHANGED <<connVars, handler, queue, set, late, made, natVars>>

\* prepare reports no success: NewPacket returns no connection.
Refuse(p) ==
  /\ pc[p] = "prepare"
  /\ Goto(p, "done")
  /\ UNCHANGED <<connVars, handler, queue, set, late, conn, exist, made, seen, natVars>>

\* u.cache.Add.
Cached(p, c) == cache' = [cache EXCEPT ![SourceOf[p]] = c]

\* A connection with a handler of its own, or with a queue.
Create(p) ==
  /\ pc[p] = "prepare"
  /\ nconn < MaxConn
  /\ nconn' = nconn + 1
  /\ owner' = [owner EXCEPT ![nconn + 1] = SourceOf[p]]
  /\ handler' \in {handler, handler \cup {nconn + 1}}
  /\ Cached(p, nconn + 1)
  /\ conn' = [conn EXCEPT ![p] = nconn + 1]
  /\ made' = [made EXCEPT ![p] = TRUE]
  /\ Goto(p, "deliver")
  /\ UNCHANGED <<closed, queue, set, late, exist, seen, natVars>>

\* The handler takes the packet, if there is one.
Deliver(p) ==
  /\ pc[p] = "deliver"
  /\ Goto(p, IF conn[p] \in handler THEN "done" ELSE "enqueue")
  /\ UNCHANGED <<connVars, handler, queue, set, late, conn, exist, made, seen, natVars>>

Room(c) == Len(queue[c]) < Capacity

\* The send to c.packets; a packet for a full queue is dropped.
Enqueue(p) ==
  /\ pc[p] = "enqueue"
  /\ Goto(p, "done")
  /\ queue' = [queue EXCEPT ![conn[p]] = IF Room(conn[p]) THEN Append(@, p) ELSE @]
  /\ UNCHANGED <<connVars, handler, set, late, conn, exist, made, seen, natVars>>

-----------------------------------------------------------------------------
(* The owner of a connection: it has been returned by a call.              *)

Owned(c) == \E p \in Packet : pc[p] = "done" /\ conn[p] = c

\* Mutant: the handler is not stored, only the queue drained into it.
StoreMissing(c) == UNCHANGED handler

Store(c) == handler' = handler \cup {c}

\* SetHandler: the handler is stored, then the queue drained.
SetHandler(c) ==
  /\ Owned(c)
  /\ set[c] = "no"
  /\ c \notin handler
  /\ Store(c)
  /\ set' = [set EXCEPT ![c] = "drain"]
  /\ UNCHANGED <<connVars, queue, late, callVars, natVars>>

Drain(c) ==
  /\ set[c] = "drain"
  /\ queue[c] # <<>>
  /\ queue' = [queue EXCEPT ![c] = Tail(@)]
  /\ UNCHANGED <<connVars, handler, set, late, callVars, natVars>>

DrainEnd(c) ==
  /\ set[c] = "drain"
  /\ queue[c] = <<>>
  /\ set' = [set EXCEPT ![c] = "done"]
  /\ late' = [late EXCEPT ![c] = {p \in Packet : pc[p] = "enqueue" /\ conn[p] = c}]
  /\ UNCHANGED <<connVars, handler, queue, callVars, natVars>>

\* Read gets a packet; a closed connection may still have some.
Read(c) ==
  /\ Owned(c)
  /\ queue[c] # <<>>
  /\ queue' = [queue EXCEPT ![c] = Tail(@)]
  /\ UNCHANGED <<connVars, handler, set, late, callVars, natVars>>

Close(c) ==
  /\ Owned(c)
  /\ closed' = closed \cup {c}
  /\ UNCHANGED <<cache, nconn, owner, handler, queue, set, late, callVars, natVars>>

-----------------------------------------------------------------------------
(* The cache and the table.                                                *)

\* Mutant: no onEvict callback.
EvictOnly(s) == cache[s] # 0 /\ cache' = [cache EXCEPT ![s] = 0] /\ UNCHANGED closed

\* The cache drops an entry; onEvict closes its connection.
Evicted(s) ==
  /\ cache[s] # 0
  /\ cache' = [cache EXCEPT ![s] = 0]
  /\ closed' = closed \cup {cache[s]}

Evict(s) ==
  /\ Evicted(s)
  /\ UNCHANGED <<nconn, owner, handler, queue, set, late, callVars, natVars>>

\* UdpNat.Close: the keys, and then each of them.
NatClose ==
  /\ natClose = "no"
  /\ natClose' = "busy"
  /\ closing' = {s \in Source : cache[s] # 0}
  /\ before' = nconn
  /\ UNCHANGED <<connVars, handler, queue, set, late, callVars>>

\* Mutant: an entry that is there is skipped.
VisitInverted(s) == IF cache[s] = 0 THEN {cache[s]} ELSE {}

\* cc.Close(), where there still is an entry.
Visit(s) == IF cache[s] # 0 THEN {cache[s]} ELSE {}

NatCloseKey(s) ==
  /\ s \in closing
  /\ closing' = closing \ {s}
  /\ closed' = closed \cup Visit(s)
  /\ UNCHANGED <<cache, nconn, owner, handler, queue, set, late, callVars, natClose, before>>

NatCloseEnd ==
  /\ natClose = "busy"
  /\ closing = {}
  /\ natClose' = "done"
  /\ UNCHANGED <<connVars, handler, queue, set, late, callVars, closing, before>>

Next ==
  \/ \E p \in Packet :
       Lookup(p) \/ Refuse(p) \/ Create(p) \/ Deliver(p) \/ Enqueue(p)
  \/ \E c \in Conn : SetHandler(c) \/ Drain(c) \/ DrainEnd(c) \/ Read(c) \/ Close(c)
  \/ \E s \in Source : Evict(s) \/ NatCloseKey(s)
  \/ NatClose \/ NatCloseEnd

Spec == Init /\ [][Next]_vars

-----------------------------------------------------------------------------
(* Properties.                                                             *)

Open(c) == c \in 1..nconn /\ c \notin closed

\* A call for c's source that had looked the source up before c was added
\* added a second connection over it.
Overwritten(c) ==
  \E q \in Packet : SourceOf[q] = owner[c] /\ made[q] /\ seen[q] < c /\ c < conn[q]

\* A connection falls out of the cache without being closed in one way only:
\* calls of NewPacket for its source overlapped.  Where one loop feeds each
\* source, eviction and UdpNat.Close can reach every open connection.
OrphanOnlyByRace ==
  \A c \in Conn : Open(c) /\ cache[owner[c]] # c => Overwritten(c)

\* UdpNat.Close, which works on a copy of the keys, leaves no connection open
\* that was there when it began, but for those that overlapping calls lost.
CloseComplete ==
  natClose = "done" => \A c \in 1..before : c \in closed \/ Overwritten(c)

\* After SetHandler only packets whose call had found no handler before the
\* drain ended are left in the queue.
HandlerTakesOver ==
  \A c \in Conn : set[c] = "done" => Queued(c) \subseteq late[c]
=============================================================================
