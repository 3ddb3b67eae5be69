---------------------------- MODULE TcpTransport ----------------------------
(***************************************************************************)
(* TCPTransport.Exchange (resolve/transport/tcp.go): one request over a    *)
(* connection of its own, which a second goroutine closes if the context   *)
(* ends first.                                                             *)
(*                                                                         *)
(* exchange: off -> dial -> write -> length -> body -> ok or err.          *)
(* The peer may answer whole, in part or not at all.                       *)
(***************************************************************************)
EXTENDS Naturals

VARIABLES
  exchange,
  watcher,   \* the goroutine: "off", "select", "end"
  context,   \* the caller's: "live" or "done"
  conn,      \* "none", "open" or "closed"
  arrived    \* of the answer: "none", "short" or "length", then "all"

tcpVars == <<exchange, watcher, context, conn, arrived>>

TcpInit ==
  /\ exchange = "off"
  /\ watcher = "off"
  /\ context = "live"
  /\ conn = "none"
  /\ arrived = "none"

Ended == exchange \in {"ok", "err"}

\* DialContext: a connection, and then the goroutine, or an error.
TcpDialOk ==
  /\ exchange = "dial"
  /\ exchange' = "write"
  /\ conn' = "open"
  /\ watcher' = "select"
  /\ UNCHANGED <<context, arrived>>

TcpDialErr ==
  /\ exchange = "dial"
  /\ exchange' = "err"
  /\ UNCHANGED <<watcher, context, conn, arrived>>

\* Mutant: no deferred Close.
ConnKept == conn

\* The deferred Close.
ConnAfter == "closed"

TcpReturn(r) == exchange' = r /\ conn' = ConnAfter

\* writeMessage.
TcpWriteOk ==
  /\ exchange = "write"
  /\ conn = "open"
  /\ exchange' = "length"
  /\ UNCHANGED <<watcher, context, conn, arrived>>

TcpWriteErr ==
  /\ exchange = "write"
  /\ TcpReturn("err")
  /\ UNCHANGED <<watcher, context, arrived>>

\* readMessage: the length, which is at least 10, then all of the body.
TcpReadLength ==
  /\ exchange = "length"
  /\ arrived \in {"short", "length", "all"}
  /\ IF arrived = "short" THEN TcpReturn("err") ELSE exchange' = "body" /\ UNCHANGED conn
  /\ UNCHANGED <<watcher, context, arrived>>

\* What has arrived can be unpacked, or not.
TcpReadBody ==
  /\ exchange = "body"
  /\ arrived = "all"
  /\ TcpReturn("ok") \/ TcpReturn("err")
  /\ UNCHANGED <<watcher, context, arrived>>

\* A read of a closed connection fails, even if data is left in it.
TcpReadClosed ==
  /\ exchange \in {"length", "body"}
  /\ conn = "closed"
  /\ TcpReturn("err")
  /\ UNCHANGED <<watcher, context, arrived>>

\* The peer hangs up, or the connection breaks.
TcpReadErr ==
  /\ exchange \in {"length", "body"}
  /\ TcpReturn("err")
  /\ UNCHANGED <<watcher, context, arrived>>

TcpArrive ==
  /\ conn = "open"
  /\ exchange \in {"length", "body"}
  /\ \/ arrived = "none" /\ arrived' \in {"short", "length"}
     \/ arrived = "length" /\ arrived' = "all"
  /\ UNCHANGED <<exchange, watcher, context, conn>>

\* Mutants: the goroutine has no arm for the end of the exchange; or none
\* for the context.
WatcherOnContext == context = "done" /\ conn' = "closed"
WatcherOnCancel == Ended /\ UNCHANGED conn

\* The arms ctx.Done, which closes, and closeCtx.Done.
WatcherArms ==
  \/ context = "done" /\ conn' = "closed"
  \/ Ended /\ UNCHANGED conn

TcpWatcher ==
  /\ watcher = "select"
  /\ WatcherArms
  /\ watcher' = "end"
  /\ UNCHANGED <<exchange, context, arrived>>

TcpContextDone ==
  /\ exchange # "off"
  /\ context = "live"
  /\ context' = "done"
  /\ UNCHANGED <<exchange, watcher, conn, arrived>>

\* The steps of the program, and those of the world.
TcpStep ==
  \/ TcpDialErr \/ TcpWriteOk \/ TcpWriteErr \/ TcpReadLength \/ TcpReadBody
  \/ TcpReadClosed

TcpSettled == Ended /\ watcher # "select" /\ conn # "open"
=============================================================================
