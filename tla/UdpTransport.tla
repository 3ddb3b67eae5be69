---------------------------- MODULE UdpTransport ----------------------------
(***************************************************************************)
(* The DNS-over-UDP transport (resolve/transport/udp.go): concurrent calls *)
(* of Exchange share one connected socket, tell their answers apart by a   *)
(* wrapping query id, and are woken by the receive loop of the connection. *)
(*                                                                         *)
(* A Query is one call of Exchange.  pc is where it stands:                *)
(*   idle -> open (-> dial) -> register -> write -> wait -> cleanup        *)
(*        -> returned, or -> tcp -> returned after a truncated answer.       *)
(* Connections are numbered by the dial that made them; 0 is a nil t.conn. *)
(* A closed conn.done comes a step before its socket is closed.            *)
(* t.access is held across the dial and is otherwise taken and released    *)
(* within one action.  t.done is never made, so it has no variable: a      *)
(* close(t.done) panics and the select arm that waits for it never fires.  *)
(***************************************************************************)
EXTENDS Naturals

CONSTANTS
  Query,      \* the calls of Exchange
  Oversize,   \* those whose EDNS0 option asks for more than t.udpSize
  IdSpace,    \* number of query ids, 2^16 in the code
  MaxConn,    \* bound: dials that succeed
  None

ASSUME ConstantsAssumption ==
  /\ IdSpace \in Nat \ {0, 1}
  /\ MaxConn \in Nat
  /\ Oversize \subseteq Query
  /\ None \notin Query
  /\ "io" \notin Query /\ None # "io"

VARIABLES
  access,     \* holder of t.access while it dials, or None
  tconn,      \* t.conn
  nconn,      \* connections dialled so far
  done,       \* conn.done is closed
  socket,     \* the socket: "none", "open" or "closed"
  err,        \* conn.err: "io", or the query whose context ended
  queryId,    \* conn.queryId
  callbacks,  \* conn.callbacks: the query whose callback is under an id
  loop,       \* recvLoop: "off", "read", "deliver", "exit"
  hand,       \* recvLoop's callback owner and the query its message answers
  pc,
  conn,       \* the connection open() gave the query
  id,         \* exMessage.Id
  sent,       \* queries whose request has been written
  answer,     \* callback.message: the query it answers, None while pending
  result,     \* what Exchange returns
  cause,      \* the conn.err a query returned
  wrapped,    \* history: the ids of the connection have wrapped around
  panicked,   \* close of a nil channel took the program down
  over        \* queries whose context has ended

connVars  == <<tconn, nconn, done, socket, err, queryId, callbacks, wrapped>>
loopVars  == <<loop, hand>>
queryVars == <<pc, conn, id, sent, answer, result, cause>>
vars == <<access, connVars, loopVars, queryVars, panicked, over>>

Conn == 1..MaxConn
Id   == 0..(IdSpace - 1)
Causes == Query \cup {None, "io"}

TypeOK ==
  /\ access \in Query \cup {None}
  /\ nconn \in 0..MaxConn
  /\ tconn \in 0..nconn
  /\ done \in [Conn -> BOOLEAN]
  /\ socket \in [Conn -> {"none", "open", "closed"}]
  /\ err \in [Conn -> Causes]
  /\ queryId \in [Conn -> Id]
  /\ callbacks \in [Conn -> [Id -> Query \cup {None}]]
  /\ loop \in [Conn -> {"off", "read", "deliver", "exit"}]
  /\ hand \in [Conn -> (Query \X Query) \cup {None}]
  /\ pc \in [Query -> {"idle", "open", "dial", "register", "write", "wait",
                       "cleanup", "tcp", "returned"}]
  /\ conn \in [Query -> 0..MaxConn]
  /\ id \in [Query -> Id]
  /\ sent \in SUBSET Query
  /\ answer \in [Query -> Query \cup {None}]
  /\ result \in [Query -> {"none", "udp", "truncated", "tcp", "err", "connerr", "ctx"}]
  /\ cause \in [Query -> Causes]
  /\ wrapped \in [Conn -> BOOLEAN]
  /\ panicked \in BOOLEAN
  /\ over \in SUBSET Query

Init ==
  /\ access = None
  /\ tconn = 0
  /\ nconn = 0
  /\ done = [c \in Conn |-> FALSE]
  /\ socket = [c \in Conn |-> "none"]
  /\ err = [c \in Conn |-> None]
  /\ queryId = [c \in Conn |-> 0]
  /\ callbacks = [c \in Conn |-> [i \in Id |-> None]]
  /\ loop = [c \in Conn |-> "off"]
  /\ hand = [c \in Conn |-> None]
  /\ pc = [q \in Query |-> "idle"]
  /\ conn = [q \in Query |-> 0]
  /\ id = [q \in Query |-> 0]
  /\ sent = {}
  /\ answer = [q \in Query |-> None]
  /\ result = [q \in Query |-> "none"]
  /\ cause = [q \in Query |-> None]
  /\ wrapped = [c \in Conn |-> FALSE]
  /\ panicked = FALSE
  /\ over = {}

-----------------------------------------------------------------------------
(* Helpers.                                                                *)

Goto(q, l) == pc' = [pc EXCEPT ![q] = l]

Finish(q, r) == result' = [result EXCEPT ![q] = r] /\ Goto(q, "cleanup")

\* Mutant: the id moves on only once.
NextIdStuck(i) == 1

\* queryId++ on a uint16.
NextId(i) == IF i + 1 = IdSpace THEN 0 ELSE i + 1

\* t.conn is usable: the non-blocking read of its done channel.
Reusable == tconn # 0 /\ ~done[tconn]

\* Mutant: open() looks at t.conn without taking t.access.
UnlockedAlways == TRUE

\* open() may go on: t.access is free.
Unlocked == access = None

\* Mutant: without closeOnce, the last caller's error is stored.
CloseConnNoOnce(c, e) ==
  /\ done' = [done EXCEPT ![c] = TRUE]
  /\ err' = [err EXCEPT ![c] = e]

\* dnsConnection.Close(e): the first caller stores its error; SocketClose
\* is the rest of it.
CloseConn(c, e) ==
  /\ done' = [done EXCEPT ![c] = TRUE]
  /\ err' = [err EXCEPT ![c] = IF done[c] THEN @ ELSE e]

-----------------------------------------------------------------------------
(* One call of Exchange.                                                   *)

\* The first critical section of exchange.  An EDNS0 size above t.udpSize
\* reaches close(t.done) on a nil channel.
Start(q) ==
  /\ pc[q] = "idle"
  /\ access = None
  /\ IF q \in Oversize
       THEN panicked' = TRUE /\ UNCHANGED pc
       ELSE Goto(q, "open") /\ UNCHANGED panicked
  /\ UNCHANGED <<access, connVars, loopVars, conn, id, sent, answer, result, cause, over>>

\* The caller's context ends; nothing gives it a deadline.
ContextEnds(q) ==
  /\ pc[q] \notin {"idle", "returned"}
  /\ over' = over \cup {q}
  /\ UNCHANGED <<access, connVars, loopVars, queryVars, panicked>>

\* open() finds a live connection.
OpenReuse(q) ==
  /\ pc[q] = "open"
  /\ Unlocked
  /\ Reusable
  /\ conn' = [conn EXCEPT ![q] = tconn]
  /\ Goto(q, "register")
  /\ UNCHANGED <<access, connVars, loopVars, id, sent, answer, result, cause, panicked, over>>

\* open() starts to dial, with t.access held.
OpenDial(q) ==
  /\ pc[q] = "open"
  /\ Unlocked
  /\ ~Reusable
  /\ access' = q
  /\ Goto(q, "dial")
  /\ UNCHANGED <<connVars, loopVars, conn, id, sent, answer, result, cause, panicked, over>>

DialOk(q) ==
  /\ pc[q] = "dial"
  /\ nconn < MaxConn
  /\ nconn' = nconn + 1
  /\ tconn' = nconn + 1
  /\ socket' = [socket EXCEPT ![nconn + 1] = "open"]
  /\ loop' = [loop EXCEPT ![nconn + 1] = "read"]
  /\ conn' = [conn EXCEPT ![q] = nconn + 1]
  /\ access' = None
  /\ Goto(q, "register")
  /\ UNCHANGED <<done, err, queryId, callbacks, wrapped, hand,
                 id, sent, answer, result, cause, panicked, over>>

\* The dial fails (its context may have ended).  exchange reports needTCP,
\* but Exchange looks at the error first.
DialErr(q) ==
  /\ pc[q] = "dial"
  /\ access' = None
  /\ result' = [result EXCEPT ![q] = "err"]
  /\ Goto(q, "returned")
  /\ UNCHANGED <<connVars, loopVars, conn, id, sent, answer, cause, panicked, over>>

\* The query takes the next id of its connection and puts its callback there.
Register(q) ==
  /\ pc[q] = "register"
  /\ LET c == conn[q]
         i == NextId(queryId[c])
     IN /\ queryId' = [queryId EXCEPT ![c] = i]
        /\ wrapped' = [wrapped EXCEPT ![c] = @ \/ i = 0]
        /\ callbacks' = [callbacks EXCEPT ![c][i] = q]
        /\ id' = [id EXCEPT ![q] = i]
  /\ Goto(q, "write")
  /\ UNCHANGED <<access, tconn, nconn, done, socket, err, loopVars,
                 conn, sent, answer, result, cause, panicked, over>>

WriteOk(q) ==
  /\ pc[q] = "write"
  /\ socket[conn[q]] = "open"
  /\ sent' = sent \cup {q}
  /\ Goto(q, "wait")
  /\ UNCHANGED <<access, connVars, loopVars, conn, id, answer, result, cause, panicked, over>>

\* Mutant: the delete is deferred only after the message has been packed.
PackErrNoDefer(q) ==
  /\ pc[q] = "write"
  /\ result' = [result EXCEPT ![q] = "err"]
  /\ Goto(q, "returned")
  /\ UNCHANGED <<access, connVars, loopVars, conn, id, sent, answer, cause, panicked, over>>

\* The message does not pack: nothing is written and the connection stays.
PackErr(q) ==
  /\ pc[q] = "write"
  /\ Finish(q, "err")
  /\ UNCHANGED <<access, connVars, loopVars, conn, id, sent, answer, cause, panicked, over>>

WriteErr(q) ==
  /\ pc[q] = "write"
  /\ CloseConn(conn[q], "io")
  /\ Finish(q, "err")
  /\ UNCHANGED <<access, tconn, nconn, socket, queryId, callbacks, wrapped, loopVars,
                 conn, id, sent, answer, cause, panicked, over>>

\* select arm <-callback.done; the message may have its TC bit set.
TakeAnswer(q) ==
  /\ pc[q] = "wait"
  /\ answer[q] # None
  /\ \E r \in {"udp", "truncated"} : Finish(q, r)
  /\ UNCHANGED <<access, connVars, loopVars, conn, id, sent, answer, cause, panicked, over>>

\* select arm <-conn.done.
ConnDone(q) ==
  /\ pc[q] = "wait"
  /\ done[conn[q]]
  /\ cause' = [cause EXCEPT ![q] = err[conn[q]]]
  /\ Finish(q, "connerr")
  /\ UNCHANGED <<access, connVars, loopVars, conn, id, sent, answer, panicked, over>>

\* Mutant: the select has no arm for the context.
CtxDoneMissing(q) == FALSE

\* select arm <-ctx.Done(): the query takes the shared connection with it.
CtxDone(q) ==
  /\ pc[q] = "wait"
  /\ q \in over
  /\ CloseConn(conn[q], q)
  /\ Finish(q, "ctx")
  /\ UNCHANGED <<access, tconn, nconn, socket, queryId, callbacks, wrapped, loopVars,
                 conn, id, sent, answer, cause, panicked, over>>

\* Mutant: the delete uses the connection's current id, not the message's.
CleanupCurrentId(q) ==
  /\ pc[q] = "cleanup"
  /\ callbacks' = [callbacks EXCEPT ![conn[q]][queryId[conn[q]]] = None]
  /\ Goto(q, IF result[q] = "truncated" THEN "tcp" ELSE "returned")
  /\ UNCHANGED <<access, tconn, nconn, done, socket, err, queryId, wrapped, loopVars,
                 conn, id, sent, answer, result, cause, panicked, over>>

\* The deferred delete, whatever is under the id by now; then Exchange
\* returns, or turns to TCP.
Cleanup(q) ==
  /\ pc[q] = "cleanup"
  /\ callbacks' = [callbacks EXCEPT ![conn[q]][id[q]] = None]
  /\ Goto(q, IF result[q] = "truncated" THEN "tcp" ELSE "returned")
  /\ UNCHANGED <<access, tconn, nconn, done, socket, err, queryId, wrapped, loopVars,
                 conn, id, sent, answer, result, cause, panicked, over>>

\* TCPTransport.Exchange: dial, write, read; each can fail.
TcpExchange(q) ==
  /\ pc[q] = "tcp"
  /\ \E r \in {"tcp", "err"} : result' = [result EXCEPT ![q] = r]
  /\ Goto(q, "returned")
  /\ UNCHANGED <<access, connVars, loopVars, conn, id, sent, answer, cause, panicked, over>>

-----------------------------------------------------------------------------
(* The receive loop of a connection, and the network: a request that was   *)
(* written may be answered any number of times, in any order, or never.    *)

\* An answer to p's request arrives and a callback is under its id; an
\* answer without one is dropped, which changes nothing.
Recv(c) ==
  /\ loop[c] = "read"
  /\ socket[c] = "open"
  /\ \E p \in sent :
       /\ conn[p] = c
       /\ callbacks[c][id[p]] # None
       /\ hand' = [hand EXCEPT ![c] = <<callbacks[c][id[p]], p>>]
  /\ loop' = [loop EXCEPT ![c] = "deliver"]
  /\ UNCHANGED <<access, connVars, queryVars, panicked, over>>

\* Under callback.access: only the first message is kept.
Deliver(c) ==
  /\ loop[c] = "deliver"
  /\ answer' = [answer EXCEPT ![hand[c][1]] = IF @ = None THEN hand[c][2] ELSE @]
  /\ hand' = [hand EXCEPT ![c] = None]
  /\ loop' = [loop EXCEPT ![c] = "read"]
  /\ UNCHANGED <<access, connVars, pc, conn, id, sent, result, cause, panicked, over>>

\* A failed read, at the latest when the socket is closed, or a datagram
\* that does not unpack.
RecvErr(c) ==
  /\ loop[c] = "read"
  /\ CloseConn(c, "io")
  /\ loop' = [loop EXCEPT ![c] = "exit"]
  /\ UNCHANGED <<access, tconn, nconn, socket, queryId, callbacks, wrapped, hand,
                 queryVars, panicked, over>>

\* Mutant: Close of a dnsConnection forgets the socket.
SocketCloseMissing(c) == FALSE

\* The closer of a connection gets to its socket.
SocketClose(c) ==
  /\ done[c]
  /\ socket[c] = "open"
  /\ socket' = [socket EXCEPT ![c] = "closed"]
  /\ UNCHANGED <<access, tconn, nconn, done, err, queryId, callbacks, wrapped,
                 loopVars, queryVars, panicked, over>>

\* UDPTransport.Close: close(t.done) on a nil channel.
Close ==
  /\ access = None
  /\ panicked' = TRUE
  /\ UNCHANGED <<access, connVars, loopVars, queryVars, over>>

-----------------------------------------------------------------------------

\* The steps that wait for nothing but the locks and the channels.
QueryStep(q) ==
  \/ OpenReuse(q) \/ OpenDial(q) \/ Register(q)
  \/ WriteOk(q) \/ PackErr(q) \/ WriteErr(q)
  \/ TakeAnswer(q) \/ ConnDone(q) \/ CtxDone(q)
  \/ Cleanup(q)

\* Those that wait for the network, under the caller's context.
NetworkStep(q) == DialOk(q) \/ DialErr(q) \/ TcpExchange(q)

ConnStep(c) == Recv(c) \/ Deliver(c) \/ RecvErr(c) \/ SocketClose(c)

Next ==
  /\ ~panicked
  /\ \/ \E q \in Query : Start(q) \/ QueryStep(q) \/ NetworkStep(q) \/ ContextEnds(q)
     \/ \E c \in Conn : ConnStep(c)
     \/ Close

Spec == Init /\ [][Next]_vars

\* Goroutines are scheduled, a dial and a TCP exchange end once their context
\* has ended, and a read on a closed socket returns.  Callers, their contexts,
\* the peer and failures owe nothing.
Fairness ==
  /\ \A q \in Query :
       /\ WF_vars(~panicked /\ QueryStep(q))
       /\ WF_vars(~panicked /\ q \in over /\ NetworkStep(q))
  /\ \A c \in Conn :
       /\ WF_vars(~panicked /\ (Deliver(c) \/ SocketClose(c)))
       /\ WF_vars(~panicked /\ socket[c] = "closed" /\ RecvErr(c))

FairSpec == Spec /\ Fairness

-----------------------------------------------------------------------------
(* Properties.                                                             *)

\* open() never lets two connections live at a time: a connection that is
\* not closed is the one in t.conn, although callers race to dial.
OneLiveConn == \A c \in 1..nconn : ~done[c] => c = tconn

\* While the 16-bit ids of its connection have not wrapped, a call that
\* waits for an answer has its own callback under its id: no other call's
\* registration or deferred delete has taken it away.
WaiterRegistered ==
  \A q \in Query : pc[q] = "wait" /\ ~wrapped[conn[q]]
                     => callbacks[conn[q]][id[q]] = q

\* While the ids have not wrapped, the answer a call returns is an answer to
\* its own question, whatever the network duplicates or reorders.
AnswerMatches ==
  \A q \in Query : answer[q] # None /\ ~wrapped[conn[q]] => answer[q] = q

\* conn.callbacks does not leak: an entry belongs to a call that still has
\* its deferred delete to run, on that connection and under that id.
CallbackOwned ==
  \A c \in Conn, i \in Id :
    LET q == callbacks[c][i]
    IN q # None => pc[q] \in {"write", "wait", "cleanup"} /\ conn[q] = c /\ id[q] = i

\* Every call that fails with its connection reports the one error of the
\* first close; if that is a context's error, it is another call's, and that
\* call really gave up on this connection.
SharedCause ==
  \A q \in Query : result[q] = "connerr" =>
    /\ cause[q] = err[conn[q]] /\ cause[q] # None
    /\ cause[q] \in Query => /\ cause[q] # q
                             /\ result[cause[q]] = "ctx"
                             /\ conn[cause[q]] = conn[q]

\* A call whose context has ended returns: it can be held up only in open(),
\* behind another call's dial whose context has not ended (t.access knows no
\* context).  And a call leaves the select without its context as soon as its
\* answer is there or its connection is closed, by whichever call.  Nothing else
\* ends the wait for a lost answer.
CallReturns ==
  \A q \in Query :
    /\ (q \in over)
         ~> \/ pc[q] = "returned" \/ panicked
            \/ pc[q] = "open" /\ access \notin over \cup {None}
    /\ (pc[q] = "wait" /\ (answer[q] # None \/ done[conn[q]]))
         ~> (pc[q] \in {"tcp", "returned"} \/ panicked)

\* The receive loop of a closed connection ends: no goroutine is left over.
LoopEnds ==
  \A c \in Conn : (c <= nconn /\ done[c]) ~> (loop[c] = "exit" \/ panicked)
=============================================================================
