------------------------------ MODULE TfoConn -------------------------------
(***************************************************************************)
(* The lazily dialled TCP Fast Open connection (dialer/tfo.go): the first  *)
(* Write dials, with its bytes in the SYN, while other calls of Write wait *)
(* for the mutex, calls of Read for the create channel, and Close may come *)
(* at any time.                                                            *)
(*                                                                         *)
(* A pc is "idle", "slow" (past the look at c.conn, found nil), where the  *)
(* call is ("dial", "store", "publish", or "conn": in the connection's own *)
(* Read or Write, which may block), or what it returned: "written",        *)
(* "dialled", "err" or "closed".  c.conn is read without the mutex:        *)
(* between the store and close(c.create), which orders it, such a read may *)
(* still find nil.  A Write that waited for the mutex keeps it while it is *)
(* in the connection's Write.                                              *)
(***************************************************************************)
CONSTANTS Write, Read, None

ASSUME NoneAssumption == None \notin Write

VARIABLES
  wpc, rpc, cpc,   \* the calls of Write and Read, and closeOnce's function
  access,          \* holder of c.access, or None
  conn,            \* c.conn: "nil", "stored", or "ordered" by close(create)
  err,             \* c.err is set
  create, done,    \* the channels are closed
  socket,          \* the dialled connection: "none", "open", "closed"
  dials,           \* history: the calls that dialled
  overlap          \* history: a dial was under way when Close looked at c.conn

vars == <<wpc, rpc, cpc, access, conn, err, create, done, socket, dials, overlap>>

Dialling == {"dial", "store", "publish"}
Returned == {"written", "dialled", "err", "closed"}

TypeOK ==
  /\ wpc \in [Write -> {"idle", "slow", "conn"} \cup Dialling \cup Returned]
  /\ rpc \in [Read -> {"idle", "slow", "conn"} \cup Returned]
  /\ cpc \in {"idle", "look", "returned"}
  /\ access \in Write \cup {None}
  /\ conn \in {"nil", "stored", "ordered"}
  /\ err \in BOOLEAN /\ create \in BOOLEAN /\ done \in BOOLEAN
  /\ socket \in {"none", "open", "closed"}
  /\ dials \subseteq Write
  /\ overlap \in BOOLEAN

Init ==
  /\ wpc = [w \in Write |-> "idle"]
  /\ rpc = [r \in Read |-> "idle"]
  /\ cpc = "idle"
  /\ access = None
  /\ conn = "nil"
  /\ err = FALSE /\ create = FALSE /\ done = FALSE
  /\ socket = "none"
  /\ dials = {}
  /\ overlap = FALSE

-----------------------------------------------------------------------------

\* What an unsynchronised look at c.conn may find.
Looks == CASE conn = "nil" -> {FALSE} [] conn = "stored" -> {TRUE, FALSE} [] OTHER -> {TRUE}

\* What the select on create and done may lead to; {} when it would block.
Selected ==
  (IF create THEN {IF err THEN "err" ELSE "conn"} ELSE {}) \cup (IF done THEN {"closed"} ELSE {})

WriteLook(w) ==
  /\ wpc[w] = "idle"
  /\ \E found \in Looks : wpc' = [wpc EXCEPT ![w] = IF found THEN "conn" ELSE "slow"]
  /\ UNCHANGED <<rpc, cpc, access, conn, err, create, done, socket, dials, overlap>>

\* Under the mutex, the connection is there, has failed, or was closed.  The
\* mutex is not released before the connection's Write returns.
WriteLate(w) ==
  /\ wpc[w] = "slow"
  /\ access = None
  /\ \E s \in Selected :
       /\ wpc' = [wpc EXCEPT ![w] = s]
       /\ access' = IF s = "conn" THEN w ELSE None
  /\ UNCHANGED <<rpc, cpc, conn, err, create, done, socket, dials, overlap>>

\* The connection's Write returns, and with it the mutex if it was taken.
WriteEnd(w) ==
  /\ wpc[w] = "conn"
  /\ wpc' = [wpc EXCEPT ![w] = "written"]
  /\ access' = IF access = w THEN None ELSE access
  /\ UNCHANGED <<rpc, cpc, conn, err, create, done, socket, dials, overlap>>

\* Mutants: the state is not looked at again under the mutex; the select has
\* no arm for done.
NoRecheck == TRUE
CreateOnly == ~create

\* The default arm of the select.
NothingSelected == Selected = {}

WriteDial(w) ==
  /\ wpc[w] = "slow"
  /\ access = None
  /\ NothingSelected
  /\ access' = w
  /\ dials' = dials \cup {w}
  /\ wpc' = [wpc EXCEPT ![w] = "dial"]
  /\ UNCHANGED <<rpc, cpc, conn, err, create, done, socket, overlap>>

DialOk(w) ==
  /\ wpc[w] = "dial"
  /\ socket' = "open"
  /\ wpc' = [wpc EXCEPT ![w] = "store"]
  /\ UNCHANGED <<rpc, cpc, access, conn, err, create, done, dials, overlap>>

DialErr(w) ==
  /\ wpc[w] = "dial"
  /\ err' = TRUE
  /\ wpc' = [wpc EXCEPT ![w] = "publish"]
  /\ UNCHANGED <<rpc, cpc, access, conn, create, done, socket, dials, overlap>>

\* Mutant: create is closed before the connection is stored.
StoreLate(w) ==
  /\ wpc[w] = "store"
  /\ create' = TRUE
  /\ wpc' = [wpc EXCEPT ![w] = "publish"]
  /\ UNCHANGED <<rpc, cpc, access, conn, err, done, socket, dials, overlap>>

Store(w) ==
  /\ wpc[w] = "store"
  /\ conn' = "stored"
  /\ wpc' = [wpc EXCEPT ![w] = "publish"]
  /\ UNCHANGED <<rpc, cpc, access, err, create, done, socket, dials, overlap>>

\* Mutant: create is closed only when the dial succeeded.
PublishOk(w) ==
  /\ wpc[w] = "publish"
  /\ create' = ~err
  /\ conn' = IF conn = "stored" THEN "ordered" ELSE conn
  /\ access' = None
  /\ wpc' = [wpc EXCEPT ![w] = IF err THEN "err" ELSE "dialled"]
  /\ UNCHANGED <<rpc, cpc, err, done, socket, dials, overlap>>

\* close(c.create), and the deferred Unlock.
Publish(w) ==
  /\ wpc[w] = "publish"
  /\ create' = TRUE
  /\ conn' = IF conn = "stored" THEN "ordered" ELSE conn
  /\ access' = None
  /\ wpc' = [wpc EXCEPT ![w] = IF err THEN "err" ELSE "dialled"]
  /\ UNCHANGED <<rpc, cpc, err, done, socket, dials, overlap>>

ReadLook(r) ==
  /\ rpc[r] = "idle"
  /\ \E found \in Looks : rpc' = [rpc EXCEPT ![r] = IF found THEN "conn" ELSE "slow"]
  /\ UNCHANGED <<wpc, cpc, access, conn, err, create, done, socket, dials, overlap>>

ReadWake(r) ==
  /\ rpc[r] = "slow"
  /\ \E s \in Selected : rpc' = [rpc EXCEPT ![r] = s]
  /\ UNCHANGED <<wpc, cpc, access, conn, err, create, done, socket, dials, overlap>>

CloseDone ==
  /\ cpc = "idle"
  /\ done' = TRUE
  /\ cpc' = "look"
  /\ UNCHANGED <<wpc, rpc, access, conn, err, create, socket, dials, overlap>>

CloseConn ==
  /\ cpc = "look"
  /\ \E found \in Looks : socket' = IF found THEN "closed" ELSE socket
  /\ overlap' = \E w \in Write : wpc[w] \in Dialling
  /\ cpc' = "returned"
  /\ UNCHANGED <<wpc, rpc, access, conn, err, create, done, dials>>

WriteStep(w) ==
  \/ WriteLate(w) \/ WriteDial(w) \/ DialOk(w) \/ DialErr(w) \/ Store(w) \/ Publish(w)

Next ==
  \/ \E w \in Write : WriteLook(w) \/ WriteStep(w) \/ WriteEnd(w)
  \/ \E r \in Read : ReadLook(r) \/ ReadWake(r)
  \/ CloseDone \/ CloseConn

Spec == Init /\ [][Next]_vars

\* Goroutines are scheduled, the dial ends (the dialer has a timeout), a ready
\* select is taken and a Write on a closed connection returns; the callers owe
\* nothing, nor does the peer of an open connection.
FairSpec ==
  /\ Spec
  /\ \A w \in Write : WF_vars(WriteStep(w)) /\ WF_vars(socket = "closed" /\ WriteEnd(w))
  /\ \A r \in Read : WF_vars(ReadWake(r))

-----------------------------------------------------------------------------

\* However many Writes race to be the first, one of them dials: the bytes of
\* the others are never put into a second SYN.
DialledOnce == \A v, w \in dials : v = w

\* A call goes on to use c.conn only where there is one, although c.conn is
\* looked at without the mutex.
NoNilConn ==
  /\ \A w \in Write : wpc[w] = "conn" => conn # "nil" /\ ~err
  /\ \A r \in Read : rpc[r] = "conn" => conn # "nil" /\ ~err

\* A connection survives Close in one case only: the dial was under way when
\* Close looked at c.conn.  None is dialled after Close.
LeakOnlyByOverlap == cpc = "returned" /\ socket = "open" => overlap

\* Once the first Write has returned, even with an error, or Close was called,
\* every Read is past its select.  A Write waits for the mutex only behind a dial,
\* which ends, or behind another Write in the connection's own; and a Close that
\* has found the connection releases that one and all who queue behind it.
Released ==
  /\ \A r \in Read : (rpc[r] = "slow" /\ (done \/ \E w \in dials : wpc[w] \in Returned))
                       ~> rpc[r] # "slow"
  /\ \A w \in Write :
       /\ wpc[w] = "slow" ~> wpc[w] # "slow" \/ \E v \in Write : access = v /\ wpc[v] = "conn"
       /\ (socket = "closed" /\ wpc[w] # "idle") ~> wpc[w] \in Returned
=============================================================================
