------------------------- MODULE UdpTransportProofs -------------------------
(***************************************************************************)
(* Proofs of the safety properties of UdpTransport, for any set of calls,  *)
(* any size of the id space and any number of connections.                 *)
(***************************************************************************)
EXTENDS UdpTransport, TLAPS

-----------------------------------------------------------------------------
(* The inductive strengthening, in the order the theorems need it.         *)

\* A call past open() has a connection that was dialled; one before it, none.
Located ==
  \A q \in Query :
    /\ conn[q] \in 0..nconn
    /\ pc[q] \in {"idle", "open", "dial"} => conn[q] = 0
    /\ pc[q] \in {"register", "write", "wait", "cleanup", "tcp"} => conn[q] # 0

\* recvLoop delivers only a callback it has looked up.
HandTyped == \A c \in Conn : loop[c] = "deliver" => hand[c] \in Query \X Query

\* The one call that dials holds t.access, and has found t.conn unusable.
Dialling == \A q \in Query : pc[q] = "dial" => access = q /\ ~Reusable

\* The call has taken an id.
Registered(q) == conn[q] # 0 /\ pc[q] # "register"

\* Until the ids wrap they are handed out in order, each to one call.
IdsInOrder ==
  \A q \in Query : Registered(q) /\ ~wrapped[conn[q]] => id[q] \in 1..queryId[conn[q]]
IdsUnique ==
  \A p, q \in Query :
    Registered(p) /\ Registered(q) /\ p # q /\ conn[p] = conn[q] /\ ~wrapped[conn[q]]
      => id[p] # id[q]

\* Until the ids wrap, a callback stays in place until its own delete.
InPlace ==
  \A q \in Query :
    pc[q] \in {"write", "wait", "cleanup"} /\ ~wrapped[conn[q]]
      => callbacks[conn[q]][id[q]] = q

\* Requests, looked-up callbacks and answers belong to calls with an id; the
\* looked-up callback is on the connection of its loop and, until the ids
\* wrap, is the one of the call whose answer arrived.
SentRegistered == \A q \in Query : (q \in sent \/ answer[q] # None) => Registered(q)
HandOwned ==
  \A c \in Conn : loop[c] = "deliver" =>
    /\ Registered(hand[c][1]) /\ conn[hand[c][1]] = c
    /\ ~wrapped[c] => hand[c][1] = hand[c][2]

\* The error of a connection is there when it is closed, and a context's error
\* is that of a call on the connection that gave up.  A result is not given
\* before the call is over, and what follows a truncated answer is the TCP
\* exchange.
ErrOrigin ==
  /\ \A c \in Conn : done[c] <=> err[c] # None
  /\ \A c \in Conn : err[c] \in Query => result[err[c]] = "ctx" /\ conn[err[c]] = c
  /\ \A q \in Query : result[q] = "connerr" => conn[q] # 0 /\ done[conn[q]]
  /\ \A q \in Query : pc[q] \notin {"cleanup", "tcp", "returned"} => result[q] = "none"
  /\ \A q \in Query : pc[q] = "tcp" => result[q] = "truncated"

LiveInv == TypeOK /\ Located /\ HandTyped
DialInv == OneLiveConn /\ Dialling
IdInv   == IdsInOrder /\ IdsUnique
MatchInv == SentRegistered /\ HandOwned /\ AnswerMatches
CauseInv == ErrOrigin /\ SharedCause

-----------------------------------------------------------------------------
\* Every variable keeps its type, a call past open() its connection and
\* recvLoop a callback to deliver: the base of the other theorems.
THEOREM TypeAndPlace == Spec => []LiveInv
<1>1. Init => LiveInv
  <2> SUFFICES ASSUME Init PROVE LiveInv
    OBVIOUS
  <2>1. 0 \in Id /\ 0 \in 0..nconn
    BY ConstantsAssumption DEF Init, Id
  <2>2. TypeOK
    <3>1. hand \in [Conn -> (Query \X Query) \cup {None}]
      BY DEF Init
    <3>2. /\ done \in [Conn -> BOOLEAN] /\ wrapped \in [Conn -> BOOLEAN]
          /\ panicked \in BOOLEAN
      BY DEF Init
    <3> QED
      BY <2>1, <3>1, <3>2, ConstantsAssumption DEF Init, TypeOK, Causes
  <2>3. Located /\ HandTyped
    BY <2>1 DEF Init, Located, HandTyped
  <2> QED
    BY <2>2, <2>3 DEF LiveInv
<1>2. LiveInv /\ [Next]_vars => LiveInv'
  <2> SUFFICES ASSUME LiveInv, [Next]_vars PROVE LiveInv'
    OBVIOUS
  <2>1. ASSUME NEW q \in Query, Start(q) PROVE LiveInv'
    <3>1. panicked' \in BOOLEAN
      BY <2>1 DEF Start, LiveInv, TypeOK
    <3>2. pc' = pc \/ pc' = [pc EXCEPT ![q] = "open"]
      BY <2>1 DEF Start, Goto
    <3> QED
      BY <2>1, <3>1, <3>2
      DEF Start, LiveInv, TypeOK, Located, HandTyped, connVars, loopVars
  <2>2. ASSUME NEW q \in Query, OpenReuse(q) PROVE LiveInv'
    BY <2>2, ConstantsAssumption
    DEF OpenReuse, Goto, Reusable, LiveInv, TypeOK, Located, HandTyped, connVars,
        loopVars
  <2>3. ASSUME NEW q \in Query, OpenDial(q) PROVE LiveInv'
    BY <2>3 DEF OpenDial, Goto, LiveInv, TypeOK, Located, HandTyped, connVars, loopVars
  <2>4. ASSUME NEW q \in Query, DialOk(q) PROVE LiveInv'
    <3>1. nconn + 1 \in 1..MaxConn /\ nconn' = nconn + 1 /\ nconn \in Nat
      BY <2>4, ConstantsAssumption DEF DialOk, LiveInv, TypeOK
    <3>2. TypeOK'
      BY <2>4, <3>1 DEF DialOk, Goto, LiveInv, TypeOK, Conn
    <3>3. Located' /\ HandTyped'
      BY <2>4, <3>1 DEF DialOk, Goto, LiveInv, TypeOK, Located, HandTyped
    <3> QED
      BY <3>2, <3>3 DEF LiveInv
  <2>5. ASSUME NEW q \in Query, DialErr(q) PROVE LiveInv'
    BY <2>5 DEF DialErr, Goto, LiveInv, TypeOK, Located, HandTyped, connVars, loopVars
  <2>6. ASSUME NEW q \in Query, Register(q) PROVE LiveInv'
    <3> DEFINE c == conn[q]
               i == NextId(queryId[c])
    <3>1. c \in Conn /\ i \in Id
      <4>1. c \in 0..nconn /\ c # 0 /\ nconn \in 0..MaxConn
        BY <2>6 DEF Register, LiveInv, Located, TypeOK
      <4>2. c \in Conn
        BY <4>1, ConstantsAssumption DEF Conn
      <4>3. queryId[c] \in Id
        BY <4>2 DEF LiveInv, TypeOK
      <4> QED
        BY <4>2, <4>3, ConstantsAssumption DEF NextId, Id
    <3>2. /\ queryId' = [queryId EXCEPT ![c] = i]
          /\ wrapped' = [wrapped EXCEPT ![c] = @ \/ i = 0]
          /\ callbacks' = [callbacks EXCEPT ![c][i] = q]
          /\ id' = [id EXCEPT ![q] = i]
      BY <2>6 DEF Register
    <3> HIDE DEF i, c
    <3>3. TypeOK'
      <4>1. wrapped' \in [Conn -> BOOLEAN]
        BY <3>2 DEF LiveInv, TypeOK
      <4> QED
        BY <2>6, <3>1, <3>2, <4>1 DEF Register, Goto, LiveInv, TypeOK, loopVars
    <3>4. Located' /\ HandTyped'
      BY <2>6, <3>2 DEF Register, Goto, LiveInv, Located, HandTyped, loopVars
    <3> QED
      BY <3>3, <3>4 DEF LiveInv
  <2>7. ASSUME NEW q \in Query, WriteOk(q) PROVE LiveInv'
    BY <2>7 DEF WriteOk, Goto, LiveInv, TypeOK, Located, HandTyped, connVars, loopVars
  <2>8. ASSUME NEW q \in Query, PackErr(q) PROVE LiveInv'
    BY <2>8
    DEF PackErr, Goto, Finish, LiveInv, TypeOK, Located, HandTyped, connVars, loopVars
  <2>9. ASSUME NEW q \in Query, WriteErr(q) PROVE LiveInv'
    <3>1. done' \in [Conn -> BOOLEAN] /\ err' \in [Conn -> Causes]
      BY <2>9 DEF WriteErr, CloseConn, LiveInv, TypeOK, Causes
    <3>2. UNCHANGED <<access, tconn, nconn, socket, queryId, callbacks, wrapped, loop,
                      hand, conn, id, sent, answer, cause, panicked, over>>
      BY <2>9 DEF WriteErr, loopVars
    <3>3. /\ pc' = [pc EXCEPT ![q] = "cleanup"] /\ conn[q] # 0
          /\ result' = [result EXCEPT ![q] = "err"]
      BY <2>9 DEF WriteErr, Finish, Goto, LiveInv, Located
    <3>4. TypeOK'
      BY <3>1, <3>2, <3>3 DEF LiveInv, TypeOK
    <3>5. Located' /\ HandTyped'
      BY <3>2, <3>3 DEF LiveInv, TypeOK, Located, HandTyped
    <3> QED
      BY <3>4, <3>5 DEF LiveInv
  <2>10. ASSUME NEW q \in Query, TakeAnswer(q) PROVE LiveInv'
    BY <2>10
    DEF TakeAnswer, Goto, Finish, LiveInv, TypeOK, Located, HandTyped, connVars,
        loopVars
  <2>11. ASSUME NEW q \in Query, ConnDone(q) PROVE LiveInv'
    BY <2>11
    DEF ConnDone, Goto, Finish, LiveInv, TypeOK, Located, HandTyped, Conn, connVars,
        loopVars
  <2>12. ASSUME NEW q \in Query, CtxDone(q) PROVE LiveInv'
    <3>1. done' \in [Conn -> BOOLEAN] /\ err' \in [Conn -> Causes]
      BY <2>12 DEF CtxDone, CloseConn, LiveInv, TypeOK, Causes
    <3>2. UNCHANGED <<access, tconn, nconn, socket, queryId, callbacks, wrapped, loop,
                      hand, conn, id, sent, answer, cause, panicked, over>>
      BY <2>12 DEF CtxDone, loopVars
    <3>3. /\ pc' = [pc EXCEPT ![q] = "cleanup"] /\ conn[q] # 0
          /\ result' = [result EXCEPT ![q] = "ctx"]
      BY <2>12 DEF CtxDone, Finish, Goto, LiveInv, Located
    <3>4. TypeOK'
      BY <3>1, <3>2, <3>3 DEF LiveInv, TypeOK
    <3>5. Located' /\ HandTyped'
      BY <3>2, <3>3 DEF LiveInv, TypeOK, Located, HandTyped
    <3> QED
      BY <3>4, <3>5 DEF LiveInv
  <2>13. ASSUME NEW q \in Query, Cleanup(q) PROVE LiveInv'
    BY <2>13 DEF Cleanup, Goto, LiveInv, TypeOK, Located, HandTyped, loopVars
  <2>14. ASSUME NEW q \in Query, TcpExchange(q) PROVE LiveInv'
    BY <2>14
    DEF TcpExchange, Goto, LiveInv, TypeOK, Located, HandTyped, connVars, loopVars
  <2>15. ASSUME NEW c \in Conn, Recv(c) PROVE LiveInv'
    <3>1. PICK p \in sent :
            /\ callbacks[c][id[p]] # None
            /\ hand' = [hand EXCEPT ![c] = <<callbacks[c][id[p]], p>>]
      BY <2>15 DEF Recv
    <3>2. <<callbacks[c][id[p]], p>> \in Query \X Query
      BY <3>1 DEF LiveInv, TypeOK
    <3>3. HandTyped'
      BY <2>15, <3>1, <3>2 DEF Recv, LiveInv, TypeOK, HandTyped
    <3>4. TypeOK' /\ Located'
      BY <2>15, <3>1, <3>2 DEF Recv, LiveInv, TypeOK, Located, connVars, queryVars
    <3> QED
      BY <3>3, <3>4 DEF LiveInv
  <2>16. ASSUME NEW c \in Conn, Deliver(c) PROVE LiveInv'
    BY <2>16 DEF Deliver, LiveInv, TypeOK, Located, HandTyped, connVars
  <2>17. ASSUME NEW c \in Conn, RecvErr(c) PROVE LiveInv'
    BY <2>17
    DEF RecvErr, CloseConn, LiveInv, TypeOK, Located, HandTyped, Causes, queryVars
  <2>18. ASSUME NEW c \in Conn, SocketClose(c) PROVE LiveInv'
    BY <2>18 DEF SocketClose, LiveInv, TypeOK, Located, HandTyped, loopVars, queryVars
  <2>19. CASE Close
    BY <2>19 DEF Close, LiveInv, TypeOK, Located, HandTyped, connVars, loopVars, queryVars
  <2>20. CASE UNCHANGED vars
    BY <2>20 DEF vars, LiveInv, TypeOK, Located, HandTyped, connVars, loopVars, queryVars
  <2>21. ASSUME NEW q \in Query, ContextEnds(q) PROVE LiveInv'
    BY <2>21
    DEF ContextEnds, LiveInv, TypeOK, Located, HandTyped, connVars, loopVars,
        queryVars
  <2> QED
    BY <2>1, <2>2, <2>3, <2>4, <2>5, <2>6, <2>7, <2>8, <2>9, <2>10, <2>11, <2>12, <2>13,
       <2>14, <2>15, <2>16, <2>17, <2>18, <2>19, <2>20, <2>21
    DEF Next, QueryStep, NetworkStep, ConnStep
<1> QED
  BY <1>1, <1>2, PTL DEF Spec

\* Type correctness: queryId stays a valid id when it wraps.
THEOREM TypeCorrect == Spec => []TypeOK
<1>1. LiveInv => TypeOK
  BY DEF LiveInv
<1> QED
  BY <1>1, TypeAndPlace, PTL

\* open() keeps at most one live connection: a caller that dials holds
\* t.access and t.conn is dead or nil until it stores the new one.
THEOREM OneLive == Spec => []OneLiveConn
<1>1. Init => DialInv
  BY DEF Init, DialInv, OneLiveConn, Dialling
<1>2. LiveInv /\ DialInv /\ [Next]_vars => DialInv'
  <2> SUFFICES ASSUME LiveInv, DialInv, [Next]_vars PROVE DialInv'
    OBVIOUS
  <2>1. ASSUME NEW q \in Query, Start(q) PROVE DialInv'
    BY <2>1
    DEF Start, Goto, DialInv, OneLiveConn, Dialling, Reusable, LiveInv, TypeOK, connVars
  <2>2. ASSUME NEW q \in Query, OpenReuse(q) PROVE DialInv'
    BY <2>2 DEF OpenReuse, Goto, DialInv, OneLiveConn, Dialling, connVars
  <2>3. ASSUME NEW q \in Query, OpenDial(q) PROVE DialInv'
    BY <2>3, ConstantsAssumption
    DEF OpenDial, Goto, Unlocked, Reusable, DialInv, OneLiveConn, Dialling, connVars
  <2>4. ASSUME NEW q \in Query, DialOk(q) PROVE DialInv'
    BY <2>4 DEF DialOk, Goto, DialInv, OneLiveConn, Dialling, Reusable, LiveInv, TypeOK
  <2>5. ASSUME NEW q \in Query, DialErr(q) PROVE DialInv'
    BY <2>5 DEF DialErr, Goto, DialInv, OneLiveConn, Dialling, LiveInv, TypeOK, connVars
  <2>6. ASSUME NEW q \in Query, Register(q) PROVE DialInv'
    BY <2>6 DEF Register, Goto, DialInv, OneLiveConn, Dialling, Reusable
  <2>7. ASSUME NEW q \in Query, WriteOk(q) PROVE DialInv'
    BY <2>7 DEF WriteOk, Goto, DialInv, OneLiveConn, Dialling, Reusable, connVars
  <2>8. ASSUME NEW q \in Query, PackErr(q) PROVE DialInv'
    BY <2>8 DEF PackErr, Goto, Finish, DialInv, OneLiveConn, Dialling, Reusable, connVars
  <2>9. ASSUME NEW q \in Query, WriteErr(q) PROVE DialInv'
    BY <2>9
    DEF WriteErr, Goto, Finish, CloseConn, DialInv, OneLiveConn, Dialling, Reusable
  <2>10. ASSUME NEW q \in Query, TakeAnswer(q) PROVE DialInv'
    BY <2>10
    DEF TakeAnswer, Goto, Finish, DialInv, OneLiveConn, Dialling, Reusable, connVars
  <2>11. ASSUME NEW q \in Query, ConnDone(q) PROVE DialInv'
    BY <2>11
    DEF ConnDone, Goto, Finish, DialInv, OneLiveConn, Dialling, Reusable, connVars
  <2>12. ASSUME NEW q \in Query, CtxDone(q) PROVE DialInv'
    BY <2>12
    DEF CtxDone, Goto, Finish, CloseConn, DialInv, OneLiveConn, Dialling, Reusable
  <2>13. ASSUME NEW q \in Query, Cleanup(q) PROVE DialInv'
    BY <2>13 DEF Cleanup, Goto, DialInv, OneLiveConn, Dialling, Reusable
  <2>14. ASSUME NEW q \in Query, TcpExchange(q) PROVE DialInv'
    BY <2>14 DEF TcpExchange, Goto, DialInv, OneLiveConn, Dialling, Reusable, connVars
  <2>15. ASSUME NEW c \in Conn, Recv(c) PROVE DialInv'
    BY <2>15 DEF Recv, DialInv, OneLiveConn, Dialling, Reusable, connVars, queryVars
  <2>16. ASSUME NEW c \in Conn, Deliver(c) PROVE DialInv'
    BY <2>16 DEF Deliver, DialInv, OneLiveConn, Dialling, Reusable, connVars
  <2>17. ASSUME NEW c \in Conn, RecvErr(c) PROVE DialInv'
    BY <2>17 DEF RecvErr, CloseConn, DialInv, OneLiveConn, Dialling, Reusable, queryVars
  <2>18. ASSUME NEW c \in Conn, SocketClose(c) PROVE DialInv'
    BY <2>18 DEF SocketClose, DialInv, OneLiveConn, Dialling, Reusable, queryVars
  <2>19. CASE Close
    BY <2>19 DEF Close, DialInv, OneLiveConn, Dialling, Reusable, connVars, queryVars
  <2>20. CASE UNCHANGED vars
    BY <2>20 DEF vars, DialInv, OneLiveConn, Dialling, Reusable, connVars, queryVars
  <2>21. ASSUME NEW q \in Query, ContextEnds(q) PROVE DialInv'
    BY <2>21
    DEF ContextEnds, DialInv, OneLiveConn, Dialling, Reusable, connVars, queryVars
  <2> QED
    BY <2>1, <2>2, <2>3, <2>4, <2>5, <2>6, <2>7, <2>8, <2>9, <2>10, <2>11, <2>12, <2>13,
       <2>14, <2>15, <2>16, <2>17, <2>18, <2>19, <2>20, <2>21
    DEF Next, QueryStep, NetworkStep, ConnStep
<1>3. DialInv => OneLiveConn
  BY DEF DialInv
<1> QED
  BY <1>1, <1>2, <1>3, TypeAndPlace, PTL DEF Spec

\* The deferred delete leaves no entry behind: every entry of conn.callbacks
\* belongs to a call that has still to delete it.
THEOREM NoCallbackLeak == Spec => []CallbackOwned
<1>1. Init => CallbackOwned
  BY DEF Init, CallbackOwned
<1>2. LiveInv /\ CallbackOwned /\ [Next]_vars => CallbackOwned'
  <2> SUFFICES ASSUME LiveInv, CallbackOwned, [Next]_vars PROVE CallbackOwned'
    OBVIOUS
  <2>1. ASSUME NEW q \in Query, Start(q) PROVE CallbackOwned'
    BY <2>1 DEF Start, Goto, CallbackOwned, LiveInv, TypeOK, connVars
  <2>2. ASSUME NEW q \in Query, OpenReuse(q) PROVE CallbackOwned'
    BY <2>2 DEF OpenReuse, Goto, CallbackOwned, connVars
  <2>3. ASSUME NEW q \in Query, OpenDial(q) PROVE CallbackOwned'
    BY <2>3 DEF OpenDial, Goto, CallbackOwned, connVars
  <2>4. ASSUME NEW q \in Query, DialOk(q) PROVE CallbackOwned'
    BY <2>4 DEF DialOk, Goto, CallbackOwned
  <2>5. ASSUME NEW q \in Query, DialErr(q) PROVE CallbackOwned'
    BY <2>5 DEF DialErr, Goto, CallbackOwned, connVars
  <2>6. ASSUME NEW q \in Query, Register(q) PROVE CallbackOwned'
    BY <2>6 DEF Register, Goto, CallbackOwned, LiveInv, TypeOK
  <2>7. ASSUME NEW q \in Query, WriteOk(q) PROVE CallbackOwned'
    BY <2>7 DEF WriteOk, Goto, CallbackOwned, connVars
  <2>8. ASSUME NEW q \in Query, PackErr(q) PROVE CallbackOwned'
    BY <2>8 DEF PackErr, Goto, Finish, CallbackOwned, connVars
  <2>9. ASSUME NEW q \in Query, WriteErr(q) PROVE CallbackOwned'
    BY <2>9 DEF WriteErr, Goto, Finish, CallbackOwned
  <2>10. ASSUME NEW q \in Query, TakeAnswer(q) PROVE CallbackOwned'
    BY <2>10 DEF TakeAnswer, Goto, Finish, CallbackOwned, connVars
  <2>11. ASSUME NEW q \in Query, ConnDone(q) PROVE CallbackOwned'
    BY <2>11 DEF ConnDone, Goto, Finish, CallbackOwned, connVars
  <2>12. ASSUME NEW q \in Query, CtxDone(q) PROVE CallbackOwned'
    BY <2>12 DEF CtxDone, Goto, Finish, CallbackOwned
  <2>13. ASSUME NEW q \in Query, Cleanup(q) PROVE CallbackOwned'
    BY <2>13 DEF Cleanup, Goto, CallbackOwned, LiveInv, TypeOK
  <2>14. ASSUME NEW q \in Query, TcpExchange(q) PROVE CallbackOwned'
    BY <2>14 DEF TcpExchange, Goto, CallbackOwned, connVars
  <2>15. ASSUME NEW c \in Conn, Recv(c) PROVE CallbackOwned'
    BY <2>15 DEF Recv, CallbackOwned, connVars, queryVars
  <2>16. ASSUME NEW c \in Conn, Deliver(c) PROVE CallbackOwned'
    BY <2>16 DEF Deliver, CallbackOwned, connVars
  <2>17. ASSUME NEW c \in Conn, RecvErr(c) PROVE CallbackOwned'
    BY <2>17 DEF RecvErr, CallbackOwned, queryVars
  <2>18. ASSUME NEW c \in Conn, SocketClose(c) PROVE CallbackOwned'
    BY <2>18 DEF SocketClose, CallbackOwned, queryVars
  <2>19. CASE Close
    BY <2>19 DEF Close, CallbackOwned, connVars, queryVars
  <2>20. CASE UNCHANGED vars
    BY <2>20 DEF vars, CallbackOwned, connVars, queryVars
  <2>21. ASSUME NEW q \in Query, ContextEnds(q) PROVE CallbackOwned'
    BY <2>21 DEF ContextEnds, CallbackOwned, connVars, queryVars
  <2> QED
    BY <2>1, <2>2, <2>3, <2>4, <2>5, <2>6, <2>7, <2>8, <2>9, <2>10, <2>11, <2>12, <2>13,
       <2>14, <2>15, <2>16, <2>17, <2>18, <2>19, <2>20, <2>21
    DEF Next, QueryStep, NetworkStep, ConnStep
<1> QED
  BY <1>1, <1>2, TypeAndPlace, PTL DEF Spec

\* Until they wrap, the ids of a connection are issued in order and once.
THEOREM IdsOnce == Spec => []IdInv
<1>1. Init => IdInv
  <2>1. Init => \A q \in Query : ~Registered(q)
    BY DEF Init, Registered
  <2> QED
    BY <2>1 DEF IdInv, IdsInOrder, IdsUnique
<1>2. LiveInv /\ IdInv /\ [Next]_vars => IdInv'
  <2> SUFFICES ASSUME LiveInv, IdInv, [Next]_vars PROVE IdInv'
    OBVIOUS
  <2>1. ASSUME NEW q \in Query, Start(q) PROVE IdInv'
    <3>1. UNCHANGED <<conn, id, queryId, wrapped>> /\ conn[q] = 0
      BY <2>1 DEF Start, LiveInv, Located, connVars
    <3>2. \A p \in Query : Registered(p)' => Registered(p)
      BY <2>1, <3>1 DEF Start, Goto, Registered, LiveInv, TypeOK
    <3> QED
      BY <3>1, <3>2 DEF IdInv, IdsInOrder, IdsUnique
  <2>2. ASSUME NEW q \in Query, OpenReuse(q) PROVE IdInv'
    BY <2>2
    DEF OpenReuse, Goto, IdInv, IdsInOrder, IdsUnique, Registered, LiveInv, TypeOK,
        connVars
  <2>3. ASSUME NEW q \in Query, OpenDial(q) PROVE IdInv'
    BY <2>3 DEF OpenDial, Goto, IdInv, IdsInOrder, IdsUnique, Registered, connVars
  <2>4. ASSUME NEW q \in Query, DialOk(q) PROVE IdInv'
    BY <2>4 DEF DialOk, Goto, IdInv, IdsInOrder, IdsUnique, Registered, LiveInv, TypeOK
  <2>5. ASSUME NEW q \in Query, DialErr(q) PROVE IdInv'
    BY <2>5 DEF DialErr, Goto, IdInv, IdsInOrder, IdsUnique, Registered, connVars
  <2>6. ASSUME NEW q \in Query, Register(q) PROVE IdInv'
    <3> DEFINE c == conn[q]
               i == NextId(queryId[c])
    <3>1. c \in Conn /\ i \in Id /\ queryId[c] \in Id
      <4>1. c \in Conn
        BY <2>6 DEF Register, LiveInv, TypeOK, Located, Conn
      <4>2. queryId[c] \in Id
        BY <4>1 DEF LiveInv, TypeOK
      <4> QED
        BY <4>1, <4>2, ConstantsAssumption DEF NextId, Id
    <3>2. /\ queryId' = [queryId EXCEPT ![c] = i]
          /\ wrapped' = [wrapped EXCEPT ![c] = @ \/ i = 0]
          /\ id' = [id EXCEPT ![q] = i]
          /\ UNCHANGED conn
      BY <2>6 DEF Register
    <3>3. i = 0 \/ i = queryId[c] + 1
      BY DEF NextId
    <3>4. \A p \in Query \ {q} : Registered(p)' = Registered(p)
      BY <2>6 DEF Register, Goto, Registered
    <3>5. \A p \in Query : Registered(p)' => conn[p] \in Conn
      BY <3>2 DEF Registered, LiveInv, TypeOK, Conn
    <3>6. \A d \in Conn : ~wrapped'[d] => ~wrapped[d]
      BY <3>1, <3>2 DEF LiveInv, TypeOK
    <3>7. ~wrapped'[c] => i = queryId[c] + 1
      BY <3>1, <3>2, <3>3 DEF LiveInv, TypeOK
    <3> HIDE DEF c, i
    <3>8. IdsInOrder'
      <4> SUFFICES ASSUME NEW p \in Query, Registered(p)', ~wrapped'[conn[p]]
                   PROVE  id'[p] \in 1..queryId'[conn[p]]
        BY <3>2 DEF IdsInOrder
      <4>1. CASE p = q
        BY <4>1, <3>1, <3>2, <3>7 DEF LiveInv, TypeOK, Id, c
      <4>2. CASE p # q
        <5>1. id[p] \in 1..queryId[conn[p]] /\ conn[p] \in Conn
          BY <4>2, <3>4, <3>5, <3>6 DEF IdInv, IdsInOrder
        <5> QED
          BY <4>2, <5>1, <3>1, <3>2, <3>7 DEF Id
      <4> QED
        BY <4>1, <4>2
    <3>9. IdsUnique'
      <4>1. ASSUME NEW p \in Query \ {q}, Registered(p), conn[p] = c, ~wrapped'[c]
            PROVE  id[p] # i
        BY <4>1, <3>1, <3>6, <3>7 DEF IdInv, IdsInOrder, Id
      <4>2. ASSUME NEW p \in Query, NEW r \in Query, Registered(p)', Registered(r)',
                   p # r, conn[p] = conn[r], ~wrapped'[conn[r]]
            PROVE  id'[p] # id'[r]
        <5>1. CASE p # q /\ r # q
          BY <4>2, <5>1, <3>2, <3>4, <3>5, <3>6 DEF IdInv, IdsUnique
        <5>2. CASE p = q
          BY <4>1, <4>2, <5>2, <3>2, <3>4 DEF LiveInv, TypeOK, c
        <5>3. CASE r = q
          BY <4>1, <4>2, <5>3, <3>2, <3>4 DEF LiveInv, TypeOK, c
        <5> QED
          BY <5>1, <5>2, <5>3
      <4> QED
        BY <4>2, <3>2 DEF IdsUnique
    <3> QED
      BY <3>8, <3>9 DEF IdInv
  <2>7. ASSUME NEW q \in Query, WriteOk(q) PROVE IdInv'
    BY <2>7 DEF WriteOk, Goto, IdInv, IdsInOrder, IdsUnique, Registered, connVars
  <2>8. ASSUME NEW q \in Query, PackErr(q) PROVE IdInv'
    BY <2>8 DEF PackErr, Goto, Finish, IdInv, IdsInOrder, IdsUnique, Registered, connVars
  <2>9. ASSUME NEW q \in Query, WriteErr(q) PROVE IdInv'
    BY <2>9 DEF WriteErr, Goto, Finish, IdInv, IdsInOrder, IdsUnique, Registered
  <2>10. ASSUME NEW q \in Query, TakeAnswer(q) PROVE IdInv'
    BY <2>10
    DEF TakeAnswer, Goto, Finish, IdInv, IdsInOrder, IdsUnique, Registered, connVars
  <2>11. ASSUME NEW q \in Query, ConnDone(q) PROVE IdInv'
    BY <2>11
    DEF ConnDone, Goto, Finish, IdInv, IdsInOrder, IdsUnique, Registered, connVars
  <2>12. ASSUME NEW q \in Query, CtxDone(q) PROVE IdInv'
    BY <2>12 DEF CtxDone, Goto, Finish, IdInv, IdsInOrder, IdsUnique, Registered
  <2>13. ASSUME NEW q \in Query, Cleanup(q) PROVE IdInv'
    BY <2>13 DEF Cleanup, Goto, IdInv, IdsInOrder, IdsUnique, Registered
  <2>14. ASSUME NEW q \in Query, TcpExchange(q) PROVE IdInv'
    BY <2>14 DEF TcpExchange, Goto, IdInv, IdsInOrder, IdsUnique, Registered, connVars
  <2>15. ASSUME NEW c \in Conn, Recv(c) PROVE IdInv'
    BY <2>15 DEF Recv, IdInv, IdsInOrder, IdsUnique, Registered, connVars, queryVars
  <2>16. ASSUME NEW c \in Conn, Deliver(c) PROVE IdInv'
    BY <2>16 DEF Deliver, IdInv, IdsInOrder, IdsUnique, Registered, connVars
  <2>17. ASSUME NEW c \in Conn, RecvErr(c) PROVE IdInv'
    BY <2>17 DEF RecvErr, IdInv, IdsInOrder, IdsUnique, Registered, queryVars
  <2>18. ASSUME NEW c \in Conn, SocketClose(c) PROVE IdInv'
    BY <2>18 DEF SocketClose, IdInv, IdsInOrder, IdsUnique, Registered, queryVars
  <2>19. CASE Close
    BY <2>19 DEF Close, IdInv, IdsInOrder, IdsUnique, Registered, connVars, queryVars
  <2>20. CASE UNCHANGED vars
    BY <2>20 DEF vars, IdInv, IdsInOrder, IdsUnique, Registered, connVars, queryVars
  <2>21. ASSUME NEW q \in Query, ContextEnds(q) PROVE IdInv'
    BY <2>21
    DEF ContextEnds, IdInv, IdsInOrder, IdsUnique, Registered, connVars, queryVars
  <2> QED
    BY <2>1, <2>2, <2>3, <2>4, <2>5, <2>6, <2>7, <2>8, <2>9, <2>10, <2>11, <2>12, <2>13,
       <2>14, <2>15, <2>16, <2>17, <2>18, <2>19, <2>20, <2>21
    DEF Next, QueryStep, NetworkStep, ConnStep
<1> QED
  BY <1>1, <1>2, TypeAndPlace, PTL DEF Spec

\* Until the ids wrap, a waiting call has its callback in place.
THEOREM WaitersRegistered == Spec => []WaiterRegistered
<1>1. Init => InPlace
  BY DEF Init, InPlace
<1>2. LiveInv /\ IdInv /\ InPlace /\ [Next]_vars => InPlace'
  <2> SUFFICES ASSUME LiveInv, IdInv, InPlace, [Next]_vars PROVE InPlace'
    OBVIOUS
  <2>1. ASSUME NEW q \in Query, Start(q) PROVE InPlace'
    BY <2>1 DEF Start, Goto, InPlace, LiveInv, TypeOK, connVars
  <2>2. ASSUME NEW q \in Query, OpenReuse(q) PROVE InPlace'
    BY <2>2 DEF OpenReuse, Goto, InPlace, connVars
  <2>3. ASSUME NEW q \in Query, OpenDial(q) PROVE InPlace'
    BY <2>3 DEF OpenDial, Goto, InPlace, connVars
  <2>4. ASSUME NEW q \in Query, DialOk(q) PROVE InPlace'
    BY <2>4 DEF DialOk, Goto, InPlace
  <2>5. ASSUME NEW q \in Query, DialErr(q) PROVE InPlace'
    BY <2>5 DEF DialErr, Goto, InPlace, connVars
  <2>6. ASSUME NEW q \in Query, Register(q) PROVE InPlace'
    <3> DEFINE c == conn[q]
               i == NextId(queryId[c])
    <3>1. c \in Conn /\ i \in Id
      BY <2>6, ConstantsAssumption
      DEF Register, NextId, LiveInv, TypeOK, Located, Conn, Id
    <3>2. /\ wrapped' = [wrapped EXCEPT ![c] = @ \/ i = 0]
          /\ callbacks' = [callbacks EXCEPT ![c][i] = q]
          /\ id' = [id EXCEPT ![q] = i]
          /\ UNCHANGED conn
          /\ pc' = [pc EXCEPT ![q] = "write"]
      BY <2>6 DEF Register, Goto
    <3>3. i = 0 \/ i = queryId[c] + 1
      BY DEF NextId
    <3>4. SUFFICES ASSUME NEW p \in Query, p # q, pc[p] \in {"write", "wait", "cleanup"},
                          ~wrapped[conn[p]], ~wrapped'[conn[p]], conn[p] \in Conn
                   PROVE  callbacks'[conn[p]][id[p]] = p
      BY <3>1, <3>2 DEF InPlace, LiveInv, TypeOK
    <3>5. callbacks[conn[p]][id[p]] = p /\ id[p] \in 1..queryId[conn[p]]
      BY <3>4 DEF InPlace, IdInv, IdsInOrder, Registered, Conn
    <3>6. conn[p] = c => id[p] # i
      BY <3>1, <3>2, <3>3, <3>4, <3>5 DEF LiveInv, TypeOK, Id
    <3> HIDE DEF c, i
    <3> QED
      BY <3>1, <3>2, <3>4, <3>5, <3>6
  <2>7. ASSUME NEW q \in Query, WriteOk(q) PROVE InPlace'
    BY <2>7 DEF WriteOk, Goto, InPlace, connVars
  <2>8. ASSUME NEW q \in Query, PackErr(q) PROVE InPlace'
    BY <2>8 DEF PackErr, Goto, Finish, InPlace, connVars
  <2>9. ASSUME NEW q \in Query, WriteErr(q) PROVE InPlace'
    BY <2>9 DEF WriteErr, Goto, Finish, InPlace
  <2>10. ASSUME NEW q \in Query, TakeAnswer(q) PROVE InPlace'
    BY <2>10 DEF TakeAnswer, Goto, Finish, InPlace, connVars
  <2>11. ASSUME NEW q \in Query, ConnDone(q) PROVE InPlace'
    BY <2>11 DEF ConnDone, Goto, Finish, InPlace, connVars
  <2>12. ASSUME NEW q \in Query, CtxDone(q) PROVE InPlace'
    BY <2>12 DEF CtxDone, Goto, Finish, InPlace
  <2>13. ASSUME NEW q \in Query, Cleanup(q) PROVE InPlace'
    BY <2>13 DEF Cleanup, Goto, InPlace, LiveInv, TypeOK
  <2>14. ASSUME NEW q \in Query, TcpExchange(q) PROVE InPlace'
    BY <2>14 DEF TcpExchange, Goto, InPlace, connVars
  <2>15. ASSUME NEW c \in Conn, Recv(c) PROVE InPlace'
    BY <2>15 DEF Recv, InPlace, connVars, queryVars
  <2>16. ASSUME NEW c \in Conn, Deliver(c) PROVE InPlace'
    BY <2>16 DEF Deliver, InPlace, connVars
  <2>17. ASSUME NEW c \in Conn, RecvErr(c) PROVE InPlace'
    BY <2>17 DEF RecvErr, InPlace, queryVars
  <2>18. ASSUME NEW c \in Conn, SocketClose(c) PROVE InPlace'
    BY <2>18 DEF SocketClose, InPlace, queryVars
  <2>19. CASE Close
    BY <2>19 DEF Close, InPlace, connVars, queryVars
  <2>20. CASE UNCHANGED vars
    BY <2>20 DEF vars, InPlace, connVars, queryVars
  <2>21. ASSUME NEW q \in Query, ContextEnds(q) PROVE InPlace'
    BY <2>21 DEF ContextEnds, InPlace, connVars, queryVars
  <2> QED
    BY <2>1, <2>2, <2>3, <2>4, <2>5, <2>6, <2>7, <2>8, <2>9, <2>10, <2>11, <2>12, <2>13,
       <2>14, <2>15, <2>16, <2>17, <2>18, <2>19, <2>20, <2>21
    DEF Next, QueryStep, NetworkStep, ConnStep
<1>3. InPlace => WaiterRegistered
  BY DEF InPlace, WaiterRegistered
<1> QED
  BY <1>1, <1>2, <1>3, TypeAndPlace, IdsOnce, PTL DEF Spec

\* Until the ids wrap, a call gets no other call's answer, although the
\* network duplicates and reorders and calls come and go.
THEOREM NoForeignAnswer == Spec => []AnswerMatches
<1>1. Init => MatchInv
  BY DEF Init, MatchInv, SentRegistered, HandOwned, AnswerMatches
<1>2. LiveInv /\ IdInv /\ CallbackOwned /\ MatchInv /\ [Next]_vars => MatchInv'
  <2> SUFFICES ASSUME LiveInv, IdInv, CallbackOwned, MatchInv, [Next]_vars PROVE MatchInv'
    OBVIOUS
  <2>1. ASSUME NEW q \in Query, Start(q) PROVE MatchInv'
    BY <2>1
    DEF Start, Goto, MatchInv, SentRegistered, HandOwned, AnswerMatches, Registered,
        LiveInv, TypeOK, HandTyped, connVars, loopVars
  <2>2. ASSUME NEW q \in Query, OpenReuse(q) PROVE MatchInv'
    BY <2>2
    DEF OpenReuse, Goto, MatchInv, SentRegistered, HandOwned, AnswerMatches, Registered,
        LiveInv, Located, connVars, loopVars
  <2>3. ASSUME NEW q \in Query, OpenDial(q) PROVE MatchInv'
    BY <2>3
    DEF OpenDial, Goto, MatchInv, SentRegistered, HandOwned, AnswerMatches, Registered,
        connVars, loopVars
  <2>4. ASSUME NEW q \in Query, DialOk(q) PROVE MatchInv'
    BY <2>4
    DEF DialOk, Goto, MatchInv, SentRegistered, HandOwned, AnswerMatches, Registered,
        LiveInv, Located
  <2>5. ASSUME NEW q \in Query, DialErr(q) PROVE MatchInv'
    BY <2>5
    DEF DialErr, Goto, MatchInv, SentRegistered, HandOwned, AnswerMatches, Registered,
        connVars, loopVars
  <2>6. ASSUME NEW q \in Query, Register(q) PROVE MatchInv'
    BY <2>6
    DEF Register, Goto, MatchInv, SentRegistered, HandOwned, AnswerMatches, Registered,
        LiveInv, TypeOK, loopVars
  <2>7. ASSUME NEW q \in Query, WriteOk(q) PROVE MatchInv'
    BY <2>7
    DEF WriteOk, Goto, MatchInv, SentRegistered, HandOwned, AnswerMatches, Registered,
        LiveInv, Located, connVars, loopVars
  <2>8. ASSUME NEW q \in Query, PackErr(q) PROVE MatchInv'
    BY <2>8
    DEF PackErr, Goto, Finish, MatchInv, SentRegistered, HandOwned, AnswerMatches,
        Registered, connVars, loopVars
  <2>9. ASSUME NEW q \in Query, WriteErr(q) PROVE MatchInv'
    BY <2>9
    DEF WriteErr, Goto, Finish, MatchInv, SentRegistered, HandOwned, AnswerMatches,
        Registered, loopVars
  <2>10. ASSUME NEW q \in Query, TakeAnswer(q) PROVE MatchInv'
    BY <2>10
    DEF TakeAnswer, Goto, Finish, MatchInv, SentRegistered, HandOwned, AnswerMatches,
        Registered, connVars, loopVars
  <2>11. ASSUME NEW q \in Query, ConnDone(q) PROVE MatchInv'
    BY <2>11
    DEF ConnDone, Goto, Finish, MatchInv, SentRegistered, HandOwned, AnswerMatches,
        Registered, connVars, loopVars
  <2>12. ASSUME NEW q \in Query, CtxDone(q) PROVE MatchInv'
    BY <2>12
    DEF CtxDone, Goto, Finish, MatchInv, SentRegistered, HandOwned, AnswerMatches,
        Registered, loopVars
  <2>13. ASSUME NEW q \in Query, Cleanup(q) PROVE MatchInv'
    BY <2>13
    DEF Cleanup, Goto, MatchInv, SentRegistered, HandOwned, AnswerMatches, Registered,
        loopVars
  <2>14. ASSUME NEW q \in Query, TcpExchange(q) PROVE MatchInv'
    BY <2>14
    DEF TcpExchange, Goto, MatchInv, SentRegistered, HandOwned, AnswerMatches,
        Registered, connVars, loopVars
  <2>15. ASSUME NEW c \in Conn, Recv(c) PROVE MatchInv'
    <3>1. PICK p \in sent :
            /\ conn[p] = c /\ callbacks[c][id[p]] # None
            /\ hand' = [hand EXCEPT ![c] = <<callbacks[c][id[p]], p>>]
      BY <2>15 DEF Recv
    <3> DEFINE o == callbacks[c][id[p]]
    <3>2. p \in Query /\ Registered(p) /\ o \in Query
      BY <3>1 DEF MatchInv, SentRegistered, LiveInv, TypeOK
    <3>3. conn[o] = c /\ id[o] = id[p] /\ Registered(o)
      <4>1. id[p] \in Id /\ c # 0
        BY <3>2 DEF LiveInv, TypeOK, Conn
      <4>2. pc[o] \in {"write", "wait", "cleanup"} /\ conn[o] = c /\ id[o] = id[p]
        BY <3>1, <3>2, <4>1 DEF CallbackOwned
      <4> QED
        BY <4>1, <4>2 DEF Registered
    <3>4. ~wrapped[c] => o = p
      BY <3>1, <3>2, <3>3 DEF IdInv, IdsUnique
    <3>5. UNCHANGED <<pc, conn, sent, answer, wrapped>>
      BY <2>15 DEF Recv, connVars, queryVars
    <3> HIDE DEF o
    <3>6. SentRegistered' /\ AnswerMatches'
      BY <3>5 DEF MatchInv, SentRegistered, AnswerMatches, Registered
    <3>7. hand'[c] = <<o, p>> /\ \A d \in Conn \ {c} : hand'[d] = hand[d] /\ loop'[d] = loop[d]
      BY <2>15, <3>1 DEF Recv, LiveInv, TypeOK, o
    <3>8. HandOwned'
      BY <3>2, <3>3, <3>4, <3>5, <3>7 DEF MatchInv, HandOwned, Registered
    <3> QED
      BY <3>6, <3>8 DEF MatchInv
  <2>16. ASSUME NEW c \in Conn, Deliver(c) PROVE MatchInv'
    <3> DEFINE o == hand[c][1]
    <3>1. o \in Query /\ hand[c][2] \in Query
      BY <2>16 DEF Deliver, LiveInv, HandTyped
    <3>2. Registered(o) /\ conn[o] = c /\ (~wrapped[c] => o = hand[c][2])
      BY <2>16 DEF Deliver, MatchInv, HandOwned
    <3>3. UNCHANGED <<pc, conn, sent, wrapped>>
      BY <2>16 DEF Deliver, connVars
    <3>4. \A q \in Query : answer'[q] = answer[q] \/ (q = o /\ answer'[q] = hand[c][2])
      BY <2>16, <3>1 DEF Deliver
    <3> HIDE DEF o
    <3>5. SentRegistered' /\ AnswerMatches'
      BY <3>1, <3>2, <3>3, <3>4 DEF MatchInv, SentRegistered, AnswerMatches, Registered
    <3>6. \A d \in Conn : loop'[d] = "deliver" => loop[d] = "deliver" /\ hand'[d] = hand[d]
      BY <2>16 DEF Deliver, LiveInv, TypeOK
    <3>7. HandOwned'
      BY <3>3, <3>6 DEF MatchInv, HandOwned, Registered
    <3> QED
      BY <3>5, <3>7 DEF MatchInv
  <2>17. ASSUME NEW c \in Conn, RecvErr(c) PROVE MatchInv'
    BY <2>17
    DEF RecvErr, MatchInv, SentRegistered, HandOwned, AnswerMatches, Registered,
        queryVars
  <2>18. ASSUME NEW c \in Conn, SocketClose(c) PROVE MatchInv'
    BY <2>18
    DEF SocketClose, MatchInv, SentRegistered, HandOwned, AnswerMatches, Registered,
        loopVars, queryVars
  <2>19. CASE Close
    BY <2>19
    DEF Close, MatchInv, SentRegistered, HandOwned, AnswerMatches, Registered, connVars,
        loopVars, queryVars
  <2>20. CASE UNCHANGED vars
    BY <2>20
    DEF vars, MatchInv, SentRegistered, HandOwned, AnswerMatches, Registered, connVars,
        loopVars, queryVars
  <2>21. ASSUME NEW q \in Query, ContextEnds(q) PROVE MatchInv'
    BY <2>21
    DEF ContextEnds, MatchInv, SentRegistered, HandOwned, AnswerMatches, Registered,
        connVars, loopVars, queryVars
  <2> QED
    BY <2>1, <2>2, <2>3, <2>4, <2>5, <2>6, <2>7, <2>8, <2>9, <2>10, <2>11, <2>12, <2>13,
       <2>14, <2>15, <2>16, <2>17, <2>18, <2>19, <2>20, <2>21
    DEF Next, QueryStep, NetworkStep, ConnStep
<1>3. MatchInv => AnswerMatches
  BY DEF MatchInv
<1> QED
  BY <1>1, <1>2, <1>3, TypeAndPlace, IdsOnce, NoCallbackLeak, PTL DEF Spec

\* Calls that fail with their connection report the error of its first close,
\* and a context's error only where another call on it gave up.
THEOREM CauseShared == Spec => []SharedCause
<1>1. Init => CauseInv
  BY ConstantsAssumption DEF Init, CauseInv, ErrOrigin, SharedCause
<1>2. LiveInv /\ CauseInv /\ [Next]_vars => CauseInv'
  <2> SUFFICES ASSUME LiveInv, CauseInv, [Next]_vars PROVE CauseInv'
    OBVIOUS
  <2>1. ASSUME NEW q \in Query, Start(q) PROVE CauseInv'
    BY <2>1 DEF Start, Goto, CauseInv, ErrOrigin, SharedCause, LiveInv, TypeOK, connVars
  <2>2. ASSUME NEW q \in Query, OpenReuse(q) PROVE CauseInv'
    BY <2>2 DEF OpenReuse, Goto, CauseInv, ErrOrigin, SharedCause, connVars
  <2>3. ASSUME NEW q \in Query, OpenDial(q) PROVE CauseInv'
    BY <2>3 DEF OpenDial, Goto, CauseInv, ErrOrigin, SharedCause, connVars
  <2>4. ASSUME NEW q \in Query, DialOk(q) PROVE CauseInv'
    BY <2>4 DEF DialOk, Goto, CauseInv, ErrOrigin, SharedCause
  <2>5. ASSUME NEW q \in Query, DialErr(q) PROVE CauseInv'
    BY <2>5
    DEF DialErr, Goto, CauseInv, ErrOrigin, SharedCause, LiveInv, TypeOK, Located,
        connVars
  <2>6. ASSUME NEW q \in Query, Register(q) PROVE CauseInv'
    BY <2>6 DEF Register, Goto, CauseInv, ErrOrigin, SharedCause
  <2>7. ASSUME NEW q \in Query, WriteOk(q) PROVE CauseInv'
    BY <2>7 DEF WriteOk, Goto, CauseInv, ErrOrigin, SharedCause, connVars
  <2>8. ASSUME NEW q \in Query, PackErr(q) PROVE CauseInv'
    <3>1. pc[q] \in {"write", "wait"}
      BY <2>8 DEF PackErr
    <3>2. conn[q] \in Conn
      BY <3>1 DEF LiveInv, TypeOK, Located, Conn
    <3>3. result[q] = "none"
      BY <3>1 DEF CauseInv, ErrOrigin
    <3>4. ErrOrigin'
      BY <2>8, <3>1, <3>2, <3>3
      DEF PackErr, Goto, Finish, CauseInv, ErrOrigin, LiveInv, TypeOK, connVars
    <3>5. SharedCause'
      BY <2>8, <3>1, <3>2, <3>3 DEF PackErr, Finish, CauseInv, SharedCause, connVars
    <3> QED
      BY <3>4, <3>5 DEF CauseInv
  <2>9. ASSUME NEW q \in Query, WriteErr(q) PROVE CauseInv'
    <3>1. pc[q] \in {"write", "wait"}
      BY <2>9 DEF WriteErr
    <3>2. conn[q] \in Conn
      BY <3>1 DEF LiveInv, TypeOK, Located, Conn
    <3>3. result[q] = "none"
      BY <3>1 DEF CauseInv, ErrOrigin
    <3>4. ErrOrigin'
      BY <2>9, <3>1, <3>2, <3>3, ConstantsAssumption
      DEF WriteErr, Goto, Finish, CloseConn, CauseInv, ErrOrigin, LiveInv, TypeOK
    <3>5. SharedCause'
      BY <2>9, <3>1, <3>2, <3>3
      DEF WriteErr, Finish, CloseConn, CauseInv, ErrOrigin, SharedCause
    <3> QED
      BY <3>4, <3>5 DEF CauseInv
  <2>10. ASSUME NEW q \in Query, TakeAnswer(q) PROVE CauseInv'
    <3>1. pc[q] \in {"write", "wait"}
      BY <2>10 DEF TakeAnswer
    <3>2. conn[q] \in Conn
      BY <3>1 DEF LiveInv, TypeOK, Located, Conn
    <3>3. result[q] = "none"
      BY <3>1 DEF CauseInv, ErrOrigin
    <3>4. ErrOrigin'
      BY <2>10, <3>1, <3>2, <3>3
      DEF TakeAnswer, Goto, Finish, CauseInv, ErrOrigin, LiveInv, TypeOK, connVars
    <3>5. SharedCause'
      BY <2>10, <3>1, <3>2, <3>3 DEF TakeAnswer, Finish, CauseInv, SharedCause, connVars
    <3> QED
      BY <3>4, <3>5 DEF CauseInv
  <2>11. ASSUME NEW q \in Query, ConnDone(q) PROVE CauseInv'
    <3>1. pc[q] \in {"write", "wait"}
      BY <2>11 DEF ConnDone
    <3>2. conn[q] \in Conn
      BY <3>1 DEF LiveInv, TypeOK, Located, Conn
    <3>3. result[q] = "none"
      BY <3>1 DEF CauseInv, ErrOrigin
    <3>4. ErrOrigin'
      BY <2>11, <3>1, <3>2, <3>3
      DEF ConnDone, Goto, Finish, CauseInv, ErrOrigin, LiveInv, TypeOK, Conn, connVars
    <3>5. SharedCause'
      BY <2>11, <3>1, <3>2, <3>3
      DEF ConnDone, Finish, CauseInv, ErrOrigin, SharedCause, LiveInv, TypeOK, connVars
    <3> QED
      BY <3>4, <3>5 DEF CauseInv
  <2>12. ASSUME NEW q \in Query, CtxDone(q) PROVE CauseInv'
    BY <2>12, ConstantsAssumption
    DEF CtxDone, Goto, Finish, CloseConn, CauseInv, ErrOrigin, SharedCause, LiveInv,
        TypeOK
  <2>13. ASSUME NEW q \in Query, Cleanup(q) PROVE CauseInv'
    BY <2>13 DEF Cleanup, Goto, CauseInv, ErrOrigin, SharedCause
  <2>14. ASSUME NEW q \in Query, TcpExchange(q) PROVE CauseInv'
    BY <2>14
    DEF TcpExchange, Goto, CauseInv, ErrOrigin, SharedCause, LiveInv, TypeOK, connVars
  <2>15. ASSUME NEW c \in Conn, Recv(c) PROVE CauseInv'
    BY <2>15 DEF Recv, CauseInv, ErrOrigin, SharedCause, connVars, queryVars
  <2>16. ASSUME NEW c \in Conn, Deliver(c) PROVE CauseInv'
    BY <2>16 DEF Deliver, CauseInv, ErrOrigin, SharedCause, connVars
  <2>17. ASSUME NEW c \in Conn, RecvErr(c) PROVE CauseInv'
    BY <2>17, ConstantsAssumption
    DEF RecvErr, CloseConn, CauseInv, ErrOrigin, SharedCause, LiveInv, TypeOK, queryVars
  <2>18. ASSUME NEW c \in Conn, SocketClose(c) PROVE CauseInv'
    BY <2>18 DEF SocketClose, CauseInv, ErrOrigin, SharedCause, queryVars
  <2>19. CASE Close
    BY <2>19 DEF Close, CauseInv, ErrOrigin, SharedCause, connVars, queryVars
  <2>20. CASE UNCHANGED vars
    BY <2>20 DEF vars, CauseInv, ErrOrigin, SharedCause, connVars, queryVars
  <2>21. ASSUME NEW q \in Query, ContextEnds(q) PROVE CauseInv'
    BY <2>21 DEF ContextEnds, CauseInv, ErrOrigin, SharedCause, connVars, queryVars
  <2> QED
    BY <2>1, <2>2, <2>3, <2>4, <2>5, <2>6, <2>7, <2>8, <2>9, <2>10, <2>11, <2>12, <2>13,
       <2>14, <2>15, <2>16, <2>17, <2>18, <2>19, <2>20, <2>21
    DEF Next, QueryStep, NetworkStep, ConnStep
<1>3. CauseInv => SharedCause
  BY DEF CauseInv
<1> QED
  BY <1>1, <1>2, <1>3, TypeAndPlace, PTL DEF Spec

=============================================================================
