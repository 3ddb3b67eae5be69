-------------------------------- MODULE Pipe --------------------------------
(***************************************************************************)
(* One direction of the in-memory connection of netio/pipe/pipe.go: calls  *)
(* of Write on one end, goroutines that Read on the other, two unbuffered  *)
(* channels between them (the bytes one way, their count back), Close and  *)
(* the deadlines of both ends.                                             *)
(*                                                                         *)
(* A pc is "idle", where the call is blocked ("lock", "select", "ack";     *)
(* "select", "reply"), or what a Write returned.  A Read that returns, with*)
(* whatever, leaves its goroutine "idle", to read again.  Bytes are known  *)
(* by the call that writes them and their position.  The deadline of an    *)
(* end is a DeadlineChannel, which Deadline implements.                    *)
(***************************************************************************)
EXTENDS Naturals, Sequences, FiniteSets

CONSTANTS
  Write, Read,   \* the calls of Write, the goroutines that Read
  MaxLen,        \* bound: bytes of a write, and of a reader's buffer
  MaxRefresh,    \* bound: refreshes of expired deadlines
  None

ASSUME BoundsAssumption == MaxLen \in Nat /\ MaxRefresh \in Nat /\ None \notin Write

End == {"writer", "reader"}

VARIABLES
  wpc, size, n,      \* a Write, its len(b) and the bytes it has counted
  wrMu,              \* the Write that holds it, or None
  rpc, buf, got,     \* a Read, len(b), and the count it is about to reply
  wch, rch,          \* the deadline channel in the select of a call, else 0
  done,              \* the ends whose localDone is closed
  channel, expired,  \* the current deadline channel of an end; is it closed
  stream             \* history: the bytes readers have copied

writeVars == <<wpc, size, n, wrMu, wch>>
readVars  == <<rpc, buf, got, rch>>
endVars   == <<done, channel, expired>>
vars == <<writeVars, readVars, endVars, stream>>

\* The deadline of an end.
EndChannel(e) == INSTANCE DeadlineChannel WITH generation <- channel[e], elapsed <- expired[e]

Returned == {"ok", "err"}

TypeOK ==
  /\ wpc \in [Write -> {"idle", "lock", "select", "ack"} \cup Returned]
  /\ size \in [Write -> 0..MaxLen]
  /\ n \in [Write -> 0..MaxLen]
  /\ wrMu \in Write \cup {None}
  /\ rpc \in [Read -> {"idle", "select", "reply"}]
  /\ buf \in [Read -> 0..MaxLen]
  /\ got \in [Read -> 0..MaxLen]
  /\ wch \in [Write -> 0..MaxRefresh]
  /\ rch \in [Read -> 0..MaxRefresh]
  /\ done \subseteq End
  /\ channel \in [End -> 0..MaxRefresh]
  /\ expired \in [End -> BOOLEAN]
  /\ stream \in Seq(Write \X (1..MaxLen))

Init ==
  /\ wpc = [w \in Write |-> "idle"]
  /\ size = [w \in Write |-> 0]
  /\ n = [w \in Write |-> 0]
  /\ wrMu = None
  /\ rpc = [r \in Read |-> "idle"]
  /\ buf = [r \in Read |-> 0]
  /\ got = [r \in Read |-> 0]
  /\ wch = [w \in Write |-> 0]
  /\ rch = [r \in Read |-> 0]
  /\ done = {}
  /\ channel = [e \in End |-> 0]
  /\ expired = [e \in End |-> FALSE]
  /\ stream = <<>>

-----------------------------------------------------------------------------

\* Mutant: a refresh re-opens the channel a call already waits on.
ElapsedReopened(e, c) == expired[e]

\* isClosedChan of a deadline channel.
Elapsed(e, c) == EndChannel(e)!Closed(c)

\* Mutant: the select of write has no arm for remoteDone.
WriteStopsLocal(c) == "writer" \in done \/ Elapsed("writer", c)

\* A Write, or a Read, may return with an error at a switch or select now; c
\* is its deadline channel.
WriteStops(c) == done # {} \/ Elapsed("writer", c)
ReadStops(c) == done # {} \/ Elapsed("reader", c)

\* A call begins with the switch: local end, remote end, then the deadline.
\* A Read that stops there has changed nothing.
WriteCheck(w) ==
  /\ wpc[w] = "idle"
  /\ size' \in {[size EXCEPT ![w] = s] : s \in 0..MaxLen}
  /\ wpc' = [wpc EXCEPT ![w] = IF WriteStops(channel["writer"]) THEN "err" ELSE "lock"]
  /\ UNCHANGED <<n, wrMu, wch, readVars, endVars, stream>>

WriteLock(w) ==
  /\ wpc[w] = "lock"
  /\ wrMu = None
  /\ wrMu' = w
  /\ wpc' = [wpc EXCEPT ![w] = "select"]
  /\ wch' = [wch EXCEPT ![w] = channel["writer"]]
  /\ UNCHANGED <<size, n, readVars, endVars, stream>>

\* An arm of the select other than the bytes.
WriteStop(w) ==
  /\ wpc[w] = "select"
  /\ WriteStops(wch[w])
  /\ wpc' = [wpc EXCEPT ![w] = "err"]
  /\ wch' = [wch EXCEPT ![w] = 0]
  /\ wrMu' = None
  /\ UNCHANGED <<size, n, readVars, endVars, stream>>

ReadCheck(r) ==
  /\ rpc[r] = "idle"
  /\ ~ReadStops(channel["reader"])
  /\ rpc' = [rpc EXCEPT ![r] = "select"]
  /\ rch' = [rch EXCEPT ![r] = channel["reader"]]
  /\ \E s \in 0..MaxLen : buf' = [buf EXCEPT ![r] = s]
  /\ UNCHANGED <<got, writeVars, endVars, stream>>

ReadStop(r) ==
  /\ rpc[r] = "select"
  /\ ReadStops(rch[r])
  /\ rpc' = [rpc EXCEPT ![r] = "idle"]
  /\ rch' = [rch EXCEPT ![r] = 0]
  /\ buf' = [buf EXCEPT ![r] = 0]
  /\ UNCHANGED <<got, writeVars, endVars, stream>>

\* copy: what fits of what is left.
Copied(w, r) == IF buf[r] < size[w] - n[w] THEN buf[r] ELSE size[w] - n[w]

\* The bytes go over: wrTx <- b meets <-rdRx, and the reader copies.
Transfer(w, r) ==
  /\ wpc[w] = "select"
  /\ rpc[r] = "select"
  /\ wpc' = [wpc EXCEPT ![w] = "ack"]
  /\ rpc' = [rpc EXCEPT ![r] = "reply"]
  /\ got' = [got EXCEPT ![r] = Copied(w, r)]
  /\ stream' = stream \o [k \in 1..Copied(w, r) |-> <<w, n[w] + k>>]
  /\ wch' = [wch EXCEPT ![w] = 0]
  /\ rch' = [rch EXCEPT ![r] = 0]
  /\ buf' = [buf EXCEPT ![r] = 0]
  /\ UNCHANGED <<size, n, wrMu, endVars>>

\* Mutant: the lock is taken anew for every round.
RoundUnlock(w, m) ==
  IF m = size[w]
    THEN wpc' = [wpc EXCEPT ![w] = "ok"] /\ wrMu' = None /\ UNCHANGED wch
    ELSE wpc' = [wpc EXCEPT ![w] = "lock"] /\ wrMu' = None /\ UNCHANGED wch

\* Mutant: one round only, though bytes are left.
RoundOnce(w, m) == wpc' = [wpc EXCEPT ![w] = "ok"] /\ wrMu' = None /\ UNCHANGED wch

\* The loop of write ends, or goes round with a new deadline channel.
Round(w, m) ==
  IF m = size[w]
    THEN wpc' = [wpc EXCEPT ![w] = "ok"] /\ wrMu' = None /\ UNCHANGED wch
    ELSE /\ wpc' = [wpc EXCEPT ![w] = "select"] /\ UNCHANGED wrMu
         /\ wch' = [wch EXCEPT ![w] = channel["writer"]]

\* The count comes back: rdTx <- nr meets <-wrRx.
Reply(w, r) ==
  /\ wpc[w] = "ack"
  /\ rpc[r] = "reply"
  /\ n' = [n EXCEPT ![w] = @ + got[r]]
  /\ Round(w, n[w] + got[r])
  /\ rpc' = [rpc EXCEPT ![r] = "idle"]
  /\ got' = [got EXCEPT ![r] = 0]
  /\ UNCHANGED <<size, buf, rch, endVars, stream>>

Close(e) ==
  /\ done' = done \cup {e}
  /\ UNCHANGED <<channel, expired, writeVars, readVars, stream>>

\* The deadline of an end passes, by its timer or by a Set to the past.
Expire(e) ==
  /\ ~expired[e]
  /\ expired' = [expired EXCEPT ![e] = TRUE]
  /\ UNCHANGED <<done, channel, writeVars, readVars, stream>>

\* SetReadDeadline or SetWriteDeadline to zero or the future.
Refresh(e) ==
  /\ done = {}
  /\ expired[e]
  /\ channel["reader"] + channel["writer"] < MaxRefresh
  /\ channel' = [channel EXCEPT ![e] = @ + 1]
  /\ expired' = [expired EXCEPT ![e] = FALSE]
  /\ UNCHANGED <<done, writeVars, readVars, stream>>

WriteStep(w) == WriteLock(w) \/ WriteStop(w) \/ \E r \in Read : Transfer(w, r) \/ Reply(w, r)

Next ==
  \/ \E w \in Write : WriteCheck(w) \/ WriteStep(w)
  \/ \E r \in Read : ReadCheck(r) \/ ReadStop(r)
  \/ \E e \in End : Close(e) \/ Expire(e) \/ Refresh(e)

Spec == Init /\ [][Next]_vars

\* A call that can go on does.
FairSpec ==
  /\ Spec
  /\ \A w \in Write : WF_vars(WriteStep(w))
  /\ \A r \in Read : WF_vars(ReadStop(r))

-----------------------------------------------------------------------------

\* "Ensure entirety of b is written together": the bytes of a Write are in
\* the stream in order and no other Write's bytes are between them.
WrittenTogether ==
  \A i, j \in 1..Len(stream) :
    i < j /\ stream[i][1] = stream[j][1] => stream[j][2] = stream[i][2] + (j - i)

\* The count a Write returns is the number of its bytes that were read, also
\* when Close or a deadline ends it half way.
CountExact ==
  \A w \in Write : wpc[w] \in Returned =>
    /\ n[w] = Cardinality({i \in 1..Len(stream) : stream[i][1] = w})
    /\ wpc[w] = "ok" => n[w] = size[w]

\* Close of either end releases every blocked call, also one in line for wrMu.
CloseReleases ==
  done # {} ~> /\ \A w \in Write : wpc[w] \in {"idle"} \cup Returned
               /\ \A r \in Read : rpc[r] = "idle"

\* A deadline that passes releases a blocked Read although it may be renewed
\* before the Read looks.
ExpiryReleases ==
  \A r \in Read : (rpc[r] = "select" /\ expired["reader"]) ~> rpc[r] = "idle"
=============================================================================
