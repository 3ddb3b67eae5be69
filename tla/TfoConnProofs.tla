--------------------------- MODULE TfoConnProofs ----------------------------
(***************************************************************************)
(* Proofs about TfoConn for any number of Writes and Reads: one dial, no   *)
(* use of a nil connection, and the only way a connection survives Close.  *)
(***************************************************************************)
EXTENDS TfoConn, TLAPS

-----------------------------------------------------------------------------
(* The inductive invariant.                                                *)

\* The mutex is held by the Write that dials, or by one that found the
\* connection under it; a fast Write is in the connection without it.
Holder ==
  /\ \A w \in Write : wpc[w] \in Dialling => access = w
  /\ access # None => wpc[access] \in Dialling \cup {"conn"}

\* Before the dial nothing has happened, and create closes when it is over.
Untouched == conn = "nil" /\ ~err /\ socket = "none"
BeforeDial == access = None /\ ~create => dials = {} /\ Untouched
DuringDial ==
  access # None => IF wpc[access] = "conn" THEN create ELSE ~create /\ dials = {access}

\* How far the dial has come.
Progress ==
  \A w \in Write :
    /\ wpc[w] = "dial" => Untouched
    /\ wpc[w] = "store" => conn = "nil" /\ ~err
    /\ wpc[w] = "publish" => \/ conn = "nil" /\ err /\ socket = "none"
                             \/ conn = "stored" /\ ~err

\* What is there once create is closed.
AfterDial ==
  create => \/ conn = "ordered" /\ ~err
            \/ conn = "nil" /\ err /\ socket = "none"

\* From the close of done on nobody begins to dial.
Closing ==
  /\ cpc # "idle" => done
  /\ cpc = "returned" => overlap \/ (socket # "open" /\ \A w \in Write : wpc[w] \notin Dialling)

CInv ==
  /\ TypeOK /\ Holder /\ BeforeDial /\ DuringDial /\ Progress /\ AfterDial /\ Closing
  /\ DialledOnce /\ NoNilConn

-----------------------------------------------------------------------------

\* The invariant holds initially and every step keeps it.
THEOREM CInvariant == Spec => []CInv
<1> USE NoneAssumption
<1>1. Init => CInv
  BY DEF Init, CInv, TypeOK, Holder, BeforeDial, DuringDial, Untouched, Progress, AfterDial,
         Closing, DialledOnce, NoNilConn, Dialling, Returned
<1>2. CInv /\ [Next]_vars => CInv'
  <2> SUFFICES ASSUME CInv, [Next]_vars PROVE CInv'
    OBVIOUS
  <2> USE DEF CInv, TypeOK, Holder, BeforeDial, DuringDial, Untouched, Progress, AfterDial,
              Closing, DialledOnce, NoNilConn, Dialling, Returned
  <2>1. ASSUME NEW w \in Write, WriteLook(w) PROVE CInv'
    <3>1. PICK found \in BOOLEAN :
            /\ wpc' = [wpc EXCEPT ![w] = IF found THEN "conn" ELSE "slow"]
            /\ found => conn # "nil"
      BY <2>1 DEF WriteLook, Looks
    <3>2. /\ wpc[w] = "idle" /\ wpc'[w] \in {"conn", "slow"}
          /\ wpc'[w] = "conn" => conn # "nil"
          /\ \A v \in Write : v # w => wpc'[v] = wpc[v]
      BY <2>1, <3>1 DEF WriteLook
    <3>3. wpc' \in [Write -> {"idle", "slow", "conn"} \cup Dialling \cup Returned]
      BY <3>1
    <3>4. UNCHANGED <<rpc, cpc, access, conn, err, create, done, socket, dials, overlap>>
      BY <2>1 DEF WriteLook
    <3> QED
      BY <3>2, <3>3, <3>4
  <2>2. ASSUME NEW w \in Write, WriteLate(w) PROVE CInv'
    BY <2>2 DEF WriteLate, Selected
  <2>3. ASSUME NEW w \in Write, WriteDial(w) PROVE CInv'
    BY <2>3 DEF WriteDial, NothingSelected, Selected
  <2>4. ASSUME NEW w \in Write, DialOk(w) PROVE CInv'
    BY <2>4 DEF DialOk
  <2>5. ASSUME NEW w \in Write, DialErr(w) PROVE CInv'
    BY <2>5 DEF DialErr
  <2>6. ASSUME NEW w \in Write, Store(w) PROVE CInv'
    BY <2>6 DEF Store
  <2>7. ASSUME NEW w \in Write, Publish(w) PROVE CInv'
    <3>1. access = w /\ \A u \in Write : u # w => wpc[u] \notin Dialling
      BY <2>7 DEF Publish
    <3>2. TypeOK' /\ Holder'
      BY <2>7, <3>1 DEF Publish
    <3>3. BeforeDial' /\ DuringDial' /\ Progress' /\ AfterDial'
      BY <2>7, <3>1 DEF Publish
    <3>4. Closing' /\ DialledOnce' /\ NoNilConn'
      BY <2>7, <3>1 DEF Publish
    <3> QED
      BY <3>2, <3>3, <3>4
  <2>8. ASSUME NEW r \in Read, ReadLook(r) PROVE CInv'
    <3>1. PICK found \in BOOLEAN :
            /\ rpc' = [rpc EXCEPT ![r] = IF found THEN "conn" ELSE "slow"]
            /\ found => conn # "nil"
      BY <2>8 DEF ReadLook, Looks
    <3>2. UNCHANGED <<wpc, cpc, access, conn, err, create, done, socket, dials, overlap>>
      BY <2>8 DEF ReadLook
    <3>3. TypeOK' /\ NoNilConn'
      BY <3>1, <3>2
    <3>4. Holder' /\ BeforeDial' /\ DuringDial' /\ Progress' /\ AfterDial' /\ Closing' /\ DialledOnce'
      BY <3>2
    <3> QED
      BY <3>3, <3>4
  <2>9. ASSUME NEW r \in Read, ReadWake(r) PROVE CInv'
    BY <2>9 DEF ReadWake, Selected
  <2>10. CASE CloseDone
    BY <2>10 DEF CloseDone
  <2>11. CASE CloseConn
    BY <2>11 DEF CloseConn, Looks
  <2>12. CASE UNCHANGED vars
    BY <2>12 DEF vars
  <2>13. ASSUME NEW w \in Write, WriteEnd(w) PROVE CInv'
    BY <2>13 DEF WriteEnd
  <2> QED
    BY <2>1, <2>2, <2>3, <2>4, <2>5, <2>6, <2>7, <2>8, <2>9, <2>10, <2>11, <2>12, <2>13
    DEF Next, WriteStep
<1> QED
  BY <1>1, <1>2, PTL DEF Spec

\* However many Writes race to be the first, one of them dials: c.access and
\* the select behind it let no second one through.
THEOREM OneDial == Spec => []DialledOnce
<1>1. CInv => DialledOnce
  BY DEF CInv
<1> QED
  BY <1>1, CInvariant, PTL

\* A Read or Write that goes on to use c.conn finds a connection there,
\* although it looked at c.conn without the mutex.
THEOREM ConnUsable == Spec => []NoNilConn
<1>1. CInv => NoNilConn
  BY DEF CInv
<1> QED
  BY <1>1, CInvariant, PTL

\* A connection survives Close only if its dial was under way when Close
\* looked at c.conn.
THEOREM LeakOverlaps == Spec => []LeakOnlyByOverlap
<1>1. CInv => LeakOnlyByOverlap
  BY DEF CInv, Closing, LeakOnlyByOverlap
<1> QED
  BY <1>1, CInvariant, PTL
=============================================================================
