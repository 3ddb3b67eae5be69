----------------------------- MODULE PipeProofs -----------------------------
(***************************************************************************)
(* Proofs about Pipe for any number of Writes and readers, writes and      *)
(* buffers of any length: the bytes of a Write arrive together and in      *)
(* order, and the count that it returns is the number that arrived.        *)
(***************************************************************************)
EXTENDS Pipe, Deadline, FiniteSetTheorems, SequenceTheorems, TLAPS

-----------------------------------------------------------------------------
(* The inductive invariant.                                                *)

\* wrMu is held by the Write that is past the lock, and by no other.
Holder == \A w \in Write : wpc[w] \in {"select", "ack"} <=> wrMu = w

\* One reader is about to reply while a Write waits for the count, none else.
OneReply ==
  /\ \A w \in Write : wpc[w] = "ack" => \E r \in Read : rpc[r] = "reply"
  /\ \A r \in Read : rpc[r] = "reply" => \E w \in Write : wpc[w] = "ack"
  /\ \A r, s \in Read : rpc[r] = "reply" /\ rpc[s] = "reply" => r = s

\* The counts: nothing before the lock, never more than there is, everything
\* when the Write succeeds.
Counts ==
  \A w \in Write :
    /\ n[w] <= size[w]
    /\ wpc[w] \in {"idle", "lock"} => n[w] = 0
    /\ wpc[w] = "ok" => n[w] = size[w]
    /\ wpc[w] = "ack" => \A r \in Read : rpc[r] = "reply" => n[w] + got[r] <= size[w]

\* The bytes of w in the stream are its first k, behind position lo.
BlockAt(w, k, lo) ==
  /\ lo + k <= Len(stream)
  /\ wrMu = w => lo + k = Len(stream)
  /\ \A i \in 1..Len(stream) :
       /\ stream[i][1] = w <=> lo < i /\ i <= lo + k
       /\ stream[i][1] = w => stream[i][2] = i - lo

Block(w, k) == \E lo \in 0..Len(stream) : BlockAt(w, k, lo)

\* What of a Write is in the stream: what it has counted, and while it waits
\* for a count, what that count will add.
InBlock ==
  \A w \in Write :
    /\ wpc[w] # "ack" => Block(w, n[w])
    /\ wpc[w] = "ack" => \A r \in Read : rpc[r] = "reply" => Block(w, n[w] + got[r])

PInv == TypeOK /\ Holder /\ OneReply /\ Counts /\ InBlock

-----------------------------------------------------------------------------

\* A reader copies no more than is left of the write.
LEMMA CopiedFits ==
  ASSUME TypeOK, Counts, NEW w \in Write, NEW r \in Read
  PROVE  Copied(w, r) \in 0..MaxLen /\ n[w] + Copied(w, r) <= size[w]
<1>1. MaxLen \in Nat /\ size[w] \in 0..MaxLen /\ n[w] \in 0..MaxLen /\ buf[r] \in 0..MaxLen
  BY BoundsAssumption DEF TypeOK
<1>2. n[w] <= size[w]
  BY DEF Counts
<1> QED
  BY <1>1, <1>2 DEF Copied

\* A transfer adds the next bytes of the write at the end of the stream.
LEMMA TransferAppends ==
  ASSUME TypeOK, Counts, NEW w \in Write, NEW r \in Read, Transfer(w, r)
  PROVE  /\ stream' \in Seq(Write \X (1..MaxLen))
         /\ Len(stream') = Len(stream) + Copied(w, r)
         /\ \A i \in 1..Len(stream) : stream'[i] = stream[i]
         /\ \A i \in 1..Len(stream') : Len(stream) < i =>
              stream'[i] = <<w, n[w] + (i - Len(stream))>>
<1> DEFINE m == Copied(w, r)
           S == Write \X (1..MaxLen)
           new == [k \in 1..m |-> <<w, n[w] + k>>]
<1>1. /\ m \in Nat /\ n[w] + m <= MaxLen /\ n[w] \in Nat /\ MaxLen \in Nat
      /\ stream \in Seq(S)
  <2>1. size[w] \in 0..MaxLen /\ n[w] \in 0..MaxLen /\ MaxLen \in Nat /\ stream \in Seq(S)
    BY BoundsAssumption DEF TypeOK
  <2>2. m \in 0..MaxLen /\ n[w] + m <= size[w]
    BY CopiedFits
  <2> QED
    BY <2>1, <2>2
<1>2. stream' = stream \o new
  BY DEF Transfer
<1> HIDE DEF m
<1>3. \A k \in 1..m : <<w, n[w] + k>> \in S
  BY <1>1
<1>4. new \in Seq(S) /\ Len(new) = m /\ \A k \in 1..m : new[k] = <<w, n[w] + k>>
  BY <1>1, <1>3
<1> HIDE DEF new, S
<1>5. /\ stream \o new \in Seq(S)
      /\ Len(stream \o new) = Len(stream) + m
      /\ \A i \in 1..Len(stream) : (stream \o new)[i] = stream[i]
      /\ \A i \in 1..(Len(stream) + m) : Len(stream) < i => (stream \o new)[i] = new[i - Len(stream)]
  <2>1. /\ stream \o new \in Seq(S)
        /\ Len(stream \o new) = Len(stream) + Len(new)
        /\ \A i \in 1..(Len(stream) + Len(new)) :
             (stream \o new)[i] = IF i <= Len(stream) THEN stream[i] ELSE new[i - Len(stream)]
    BY <1>1, <1>4, ConcatProperties, Zenon
  <2>2. Len(stream) \in Nat
    BY <1>1
  <2> QED
    BY <1>1, <1>4, <2>1, <2>2
<1>6. \A i \in 1..(Len(stream) + m) : Len(stream) < i => i - Len(stream) \in 1..m
  BY <1>1
<1> QED
  <2>1. \A i \in 1..Len(stream') : Len(stream) < i => stream'[i] = <<w, n[w] + (i - Len(stream))>>
    BY <1>1, <1>2, <1>4, <1>5, <1>6
  <2> QED
    BY <1>2, <1>5, <2>1 DEF m, S

\* Every action keeps the types of the variables.
LEMMA TypeStep == TypeOK /\ Counts /\ [Next]_vars => TypeOK'
<1> SUFFICES ASSUME TypeOK, Counts, [Next]_vars PROVE TypeOK'
  OBVIOUS
<1> USE BoundsAssumption
<1>1. ASSUME NEW w \in Write, WriteCheck(w) PROVE TypeOK'
  <2>1. PICK s \in 0..MaxLen : size' = [size EXCEPT ![w] = s]
    BY <1>1 DEF WriteCheck
  <2>2. size' \in [Write -> 0..MaxLen]
    BY <2>1 DEF TypeOK
  <2>3. wpc' \in [Write -> {"idle", "lock", "select", "ack"} \cup Returned]
    BY <1>1 DEF WriteCheck, TypeOK, Returned
  <2> QED
    BY <1>1, <2>2, <2>3 DEF WriteCheck, TypeOK, readVars, endVars
<1>2. ASSUME NEW w \in Write, WriteLock(w) PROVE TypeOK'
  <2>1. channel["writer"] \in 0..MaxRefresh
    BY DEF TypeOK, End
  <2> QED
    BY <1>2, <2>1 DEF WriteLock, TypeOK, readVars, endVars
<1>3. ASSUME NEW w \in Write, WriteStop(w) PROVE TypeOK'
  BY <1>3 DEF WriteStop, TypeOK, readVars, endVars, Returned
<1>4. ASSUME NEW w \in Write, NEW r \in Read, Transfer(w, r) PROVE TypeOK'
  <2>1. got' \in [Read -> 0..MaxLen]
    BY <1>4, CopiedFits DEF Transfer, TypeOK
  <2>2. stream' \in Seq(Write \X (1..MaxLen))
    BY <1>4, TransferAppends
  <2>3. /\ wpc' \in [Write -> {"idle", "lock", "select", "ack"} \cup Returned]
        /\ rpc' \in [Read -> {"idle", "select", "reply"}]
    BY <1>4 DEF Transfer, TypeOK
  <2>4. /\ wch' \in [Write -> 0..MaxRefresh] /\ rch' \in [Read -> 0..MaxRefresh]
        /\ buf' \in [Read -> 0..MaxLen]
    BY <1>4, BoundsAssumption DEF Transfer, TypeOK
  <2>5. UNCHANGED <<size, n, wrMu, done, channel, expired>>
    BY <1>4 DEF Transfer, endVars
  <2> QED
    BY <2>1, <2>2, <2>3, <2>4, <2>5 DEF TypeOK
<1>5. ASSUME NEW w \in Write, NEW r \in Read, Reply(w, r) PROVE TypeOK'
  <2>1. n[w] + got[r] <= size[w] /\ size[w] \in 0..MaxLen /\ n[w] \in 0..MaxLen /\ got[r] \in 0..MaxLen
    BY <1>5 DEF Counts, Reply, TypeOK
  <2>2. n' \in [Write -> 0..MaxLen]
    <3>1. n[w] + got[r] \in 0..MaxLen
      BY <2>1, BoundsAssumption
    <3>2. n' = [n EXCEPT ![w] = n[w] + got[r]]
      BY <1>5 DEF Reply
    <3>3. n \in [Write -> 0..MaxLen]
      BY DEF TypeOK
    <3> QED
      BY <3>1, <3>2, <3>3
  <2>3. got' \in [Read -> 0..MaxLen] /\ rpc' \in [Read -> {"idle", "select", "reply"}]
    BY <1>5 DEF Reply, TypeOK
  <2>4. channel["writer"] \in 0..MaxRefresh
    BY DEF TypeOK, End
  <2>5. /\ wpc' \in [Write -> {"idle", "lock", "select", "ack"} \cup Returned]
        /\ wrMu' \in Write \cup {None} /\ wch' \in [Write -> 0..MaxRefresh]
    BY <1>5, <2>4 DEF Reply, Round, TypeOK, Returned
  <2> QED
    BY <1>5, <2>2, <2>3, <2>5 DEF Reply, TypeOK, endVars
<1>6. ASSUME NEW r \in Read, ReadCheck(r) PROVE TypeOK'
  <2>1. channel["reader"] \in 0..MaxRefresh
    BY DEF TypeOK, End
  <2> QED
    BY <1>6, <2>1 DEF ReadCheck, TypeOK, writeVars, endVars
<1>7. ASSUME NEW r \in Read, ReadStop(r) PROVE TypeOK'
  BY <1>7 DEF ReadStop, TypeOK, writeVars, endVars
<1>8. ASSUME NEW e \in End, Close(e) PROVE TypeOK'
  BY <1>8 DEF Close, TypeOK, writeVars, readVars
<1>9. ASSUME NEW e \in End, Expire(e) PROVE TypeOK'
  <2>1. expired' \in [End -> BOOLEAN]
    BY <1>9, Zenon DEF Expire, TypeOK
  <2> QED
    BY <1>9, <2>1 DEF Expire, TypeOK, writeVars, readVars
<1>10. ASSUME NEW e \in End, Refresh(e) PROVE TypeOK'
  <2>1. expired' \in [End -> BOOLEAN]
    BY <1>10, Zenon DEF Refresh, TypeOK
  <2>2. channel["reader"] \in 0..MaxRefresh /\ channel["writer"] \in 0..MaxRefresh
    BY DEF TypeOK, End
  <2>3. channel' \in [End -> 0..MaxRefresh]
    BY <1>10, <2>2 DEF Refresh, TypeOK, End
  <2> QED
    BY <1>10, <2>1, <2>3 DEF Refresh, TypeOK, writeVars, readVars
<1>11. CASE UNCHANGED vars
  BY <1>11 DEF vars, TypeOK, writeVars, readVars, endVars
<1> QED
  BY <1>1, <1>2, <1>3, <1>4, <1>5, <1>6, <1>7, <1>8, <1>9, <1>10, <1>11 DEF Next, WriteStep

\* A step of another Write or of no Write changes neither a Write's place nor
\* its counts.
LEMMA OthersStay ==
  ASSUME TypeOK, [Next]_vars, NEW w \in Write,
         ~WriteCheck(w), ~WriteLock(w), ~WriteStop(w),
         \A r \in Read : ~Transfer(w, r) /\ ~Reply(w, r)
  PROVE  UNCHANGED <<wpc[w], n[w], size[w]>>
<1> DEFINE Goal == UNCHANGED <<wpc[w], n[w], size[w]>>
<1>1. /\ wpc \in [Write -> {"idle", "lock", "select", "ack"} \cup Returned]
      /\ n \in [Write -> 0..MaxLen] /\ size \in [Write -> 0..MaxLen]
  BY DEF TypeOK
<1>2. ASSUME NEW v \in Write, v # w, WriteCheck(v) PROVE Goal
  BY <1>1, <1>2 DEF WriteCheck
<1>3. ASSUME NEW v \in Write, v # w, WriteLock(v) PROVE Goal
  BY <1>1, <1>3 DEF WriteLock
<1>4. ASSUME NEW v \in Write, v # w, WriteStop(v) PROVE Goal
  BY <1>1, <1>4 DEF WriteStop
<1>5. ASSUME NEW v \in Write, v # w, NEW r \in Read, Transfer(v, r) PROVE Goal
  BY <1>1, <1>5 DEF Transfer
<1>6. ASSUME NEW v \in Write, v # w, NEW r \in Read, Reply(v, r) PROVE Goal
  BY <1>1, <1>6 DEF Reply, Round
<1>7. CASE UNCHANGED writeVars
  BY <1>7 DEF writeVars
<1> QED
  BY <1>2, <1>3, <1>4, <1>5, <1>6, <1>7
  DEF Next, WriteStep, ReadCheck, ReadStop, Close, Expire, Refresh, vars

\* Only the holder of wrMu is past the lock.
LEMMA HolderStep == TypeOK /\ Holder /\ [Next]_vars => Holder'
<1> SUFFICES ASSUME TypeOK, Holder, [Next]_vars PROVE Holder'
  OBVIOUS
<1>1. /\ wpc \in [Write -> {"idle", "lock", "select", "ack"} \cup Returned]
      /\ None \notin Write /\ wrMu \in Write \cup {None}
  BY BoundsAssumption DEF TypeOK
<1>2. ASSUME NEW w \in Write, WriteCheck(w) PROVE Holder'
  BY <1>1, <1>2 DEF WriteCheck, Holder
<1>3. ASSUME NEW w \in Write, WriteLock(w) PROVE Holder'
  BY <1>1, <1>3 DEF WriteLock, Holder
<1>4. ASSUME NEW w \in Write, WriteStop(w) PROVE Holder'
  BY <1>1, <1>4 DEF WriteStop, Holder
<1>5. ASSUME NEW w \in Write, NEW r \in Read, Transfer(w, r) PROVE Holder'
  BY <1>1, <1>5 DEF Transfer, Holder
<1>6. ASSUME NEW w \in Write, NEW r \in Read, Reply(w, r) PROVE Holder'
  BY <1>1, <1>6 DEF Reply, Round, Holder
<1>7. CASE UNCHANGED writeVars
  BY <1>7 DEF writeVars, Holder
<1> QED
  BY <1>2, <1>3, <1>4, <1>5, <1>6, <1>7
  DEF Next, WriteStep, ReadCheck, ReadStop, Close, Expire, Refresh, vars

\* A Write that may send is past the lock alone: nobody replies then.
LEMMA NobodyReplies ==
  ASSUME Holder, OneReply, NEW w \in Write, wpc[w] = "select", NEW r \in Read
  PROVE  rpc[r] # "reply"
BY DEF Holder, OneReply

\* One reader replies, to the Write that waits for it.
LEMMA ReplyStep == TypeOK /\ Holder /\ OneReply /\ [Next]_vars => OneReply'
<1> SUFFICES ASSUME TypeOK, Holder, OneReply, [Next]_vars PROVE OneReply'
  OBVIOUS
<1>1. /\ wpc \in [Write -> {"idle", "lock", "select", "ack"} \cup Returned]
      /\ rpc \in [Read -> {"idle", "select", "reply"}]
  BY DEF TypeOK
<1>2. ASSUME NEW w \in Write, WriteCheck(w) \/ WriteLock(w) \/ WriteStop(w) PROVE OneReply'
  BY <1>1, <1>2 DEF WriteCheck, WriteLock, WriteStop, OneReply, readVars
<1>3. ASSUME NEW w \in Write, NEW r \in Read, Transfer(w, r) PROVE OneReply'
  <2>1. \A s \in Read : rpc[s] # "reply"
    BY <1>3, NobodyReplies DEF Transfer
  <2> QED
    BY <1>1, <1>3, <2>1 DEF Transfer, OneReply
<1>4. ASSUME NEW w \in Write, NEW r \in Read, Reply(w, r) PROVE OneReply'
  <2>1. \A v \in Write : v # w => wpc[v] # "ack" /\ wpc'[v] = wpc[v]
    BY <1>1, <1>4 DEF Reply, Round, Holder
  <2>2. wpc'[w] # "ack"
    BY <1>1, <1>4 DEF Reply, Round
  <2>3. \A s \in Read : rpc'[s] # "reply"
    BY <1>1, <1>4 DEF Reply, OneReply
  <2> QED
    BY <2>1, <2>2, <2>3 DEF OneReply
<1>5. ASSUME NEW r \in Read, ReadCheck(r) PROVE OneReply'
  BY <1>1, <1>5 DEF ReadCheck, OneReply, writeVars
<1>6. ASSUME NEW r \in Read, ReadStop(r) PROVE OneReply'
  BY <1>1, <1>6 DEF ReadStop, OneReply, writeVars
<1>7. CASE UNCHANGED <<wpc, rpc>>
  BY <1>7 DEF OneReply
<1> QED
  BY <1>2, <1>3, <1>4, <1>5, <1>6, <1>7
  DEF Next, WriteStep, Close, Expire, Refresh, vars, writeVars, readVars

\* Counts never pass the length of the write, and reach it when it succeeds.
LEMMA CountsStep == TypeOK /\ Holder /\ OneReply /\ Counts /\ [Next]_vars => Counts'
<1> SUFFICES ASSUME TypeOK, Holder, OneReply, Counts, [Next]_vars, NEW v \in Write
             PROVE  /\ n'[v] <= size'[v]
                    /\ wpc'[v] \in {"idle", "lock"} => n'[v] = 0
                    /\ wpc'[v] = "ok" => n'[v] = size'[v]
                    /\ wpc'[v] = "ack" => \A r \in Read : rpc'[r] = "reply" => n'[v] + got'[r] <= size'[v]
  BY DEF Counts
<1>1. /\ wpc \in [Write -> {"idle", "lock", "select", "ack"} \cup Returned]
      /\ n \in [Write -> 0..MaxLen] /\ size \in [Write -> 0..MaxLen] /\ got \in [Read -> 0..MaxLen]
      /\ rpc \in [Read -> {"idle", "select", "reply"}] /\ MaxLen \in Nat
  BY BoundsAssumption DEF TypeOK
<1>2. /\ n[v] <= size[v]
      /\ wpc[v] \in {"idle", "lock"} => n[v] = 0
      /\ wpc[v] = "ok" => n[v] = size[v]
      /\ wpc[v] = "ack" => \A r \in Read : rpc[r] = "reply" => n[v] + got[r] <= size[v]
  BY DEF Counts
<1>3. CASE WriteCheck(v)
  BY <1>1, <1>2, <1>3 DEF WriteCheck
<1>4. CASE WriteLock(v)
  BY <1>1, <1>2, <1>4 DEF WriteLock
<1>5. CASE WriteStop(v)
  BY <1>1, <1>2, <1>5 DEF WriteStop
<1>6. ASSUME NEW r \in Read, Transfer(v, r)
      PROVE  /\ n'[v] <= size'[v] /\ wpc'[v] = "ack"
             /\ \A s \in Read : rpc'[s] = "reply" => n'[v] + got'[s] <= size'[v]
  <2>1. \A s \in Read : rpc[s] # "reply"
    BY <1>6, NobodyReplies DEF Transfer
  <2>2. n[v] + Copied(v, r) <= size[v]
    BY CopiedFits
  <2> QED
    BY <1>1, <1>2, <1>6, <2>1, <2>2 DEF Transfer
<1>7. ASSUME NEW r \in Read, Reply(v, r)
      PROVE  /\ n'[v] <= size'[v] /\ wpc'[v] \in {"ok", "select"}
             /\ wpc'[v] = "ok" => n'[v] = size'[v]
  <2>1. n[v] + got[r] <= size[v]
    BY <1>2, <1>7 DEF Reply
  <2>2. n'[v] = n[v] + got[r] /\ size' = size
    BY <1>1, <1>7 DEF Reply
  <2> QED
    BY <1>1, <1>7, <2>1, <2>2 DEF Reply, Round
<1>8. CASE /\ ~WriteCheck(v) /\ ~WriteLock(v) /\ ~WriteStop(v)
           /\ \A r \in Read : ~Transfer(v, r) /\ ~Reply(v, r)
  <2>1. UNCHANGED <<wpc[v], n[v], size[v]>>
    BY <1>8, OthersStay
  <2>2. ASSUME wpc[v] = "ack", NEW r \in Read, rpc'[r] = "reply"
        PROVE  n[v] + got'[r] <= size[v]
    <3>1. ASSUME NEW w \in Write, NEW s \in Read, w # v PROVE ~Transfer(w, s) /\ ~Reply(w, s)
      BY <2>2, <3>1 DEF Holder, Transfer, Reply
    <3>2. got' = got /\ rpc[r] = "reply"
      BY <1>1, <1>8, <2>2, <3>1
      DEF Next, WriteStep, WriteCheck, WriteLock, WriteStop, ReadCheck, ReadStop, Close, Expire,
          Refresh, vars, readVars
    <3> QED
      BY <1>2, <2>2, <3>2
  <2> QED
    BY <1>2, <2>1, <2>2
<1> QED
  BY <1>3, <1>4, <1>5, <1>6, <1>7, <1>8

\* While nothing is read, what a Write has in the stream stays where it is.
LEMMA BlockStays ==
  ASSUME NEW v \in Write, NEW k \in Nat, Block(v, k), stream' = stream, wrMu' = v => wrMu = v
  PROVE  Block(v, k)'
BY DEF Block, BlockAt

\* The Write that takes wrMu has nothing in the stream yet.
LEMMA BlockBegins ==
  ASSUME TypeOK, NEW v \in Write, Block(v, 0), stream' = stream
  PROVE  Block(v, 0)'
<1>1. PICK lo \in 0..Len(stream) : BlockAt(v, 0, lo)
  BY DEF Block
<1>2. Len(stream) \in Nat
  BY DEF TypeOK
<1>3. \A i \in 1..Len(stream) : stream[i][1] # v
  BY <1>1, <1>2 DEF BlockAt
<1>4. BlockAt(v, 0, Len(stream))'
  BY <1>2, <1>3 DEF BlockAt
<1> QED
  BY <1>2, <1>4 DEF Block

\* The bytes that go over come right behind the Write's earlier ones.
LEMMA BlockGrows ==
  ASSUME TypeOK, Counts, NEW v \in Write, NEW r \in Read, Transfer(v, r),
         wrMu = v, Block(v, n[v]), NEW k \in Nat, k = n[v] + Copied(v, r)
  PROVE  Block(v, k)'
<1>1. PICK lo \in 0..Len(stream) : BlockAt(v, n[v], lo)
  BY DEF Block
<1>2. Len(stream) \in Nat /\ n[v] \in Nat /\ Copied(v, r) \in Nat /\ lo + n[v] = Len(stream)
  <2>1. Len(stream) \in Nat /\ n[v] \in 0..MaxLen /\ MaxLen \in Nat
    BY BoundsAssumption DEF TypeOK
  <2>2. Copied(v, r) \in 0..MaxLen
    BY CopiedFits
  <2>3. lo + n[v] = Len(stream)
    BY <1>1 DEF BlockAt
  <2> QED
    BY <2>1, <2>2, <2>3
<1>3. /\ Len(stream') = Len(stream) + Copied(v, r)
      /\ \A i \in 1..Len(stream) : stream'[i] = stream[i]
      /\ \A i \in 1..Len(stream') : Len(stream) < i => stream'[i] = <<v, n[v] + (i - Len(stream))>>
  BY TransferAppends
<1>4. lo \in 0..Len(stream') /\ lo + k = Len(stream')
  BY <1>2, <1>3
<1>5. ASSUME NEW i \in 1..Len(stream')
      PROVE  /\ stream'[i][1] = v <=> lo < i /\ i <= lo + k
             /\ stream'[i][1] = v => stream'[i][2] = i - lo
  <2>1. CASE i <= Len(stream)
    <3>1. stream'[i] = stream[i] /\ i \in 1..Len(stream)
      BY <1>2, <1>3, <2>1
    <3>2. /\ stream[i][1] = v <=> lo < i /\ i <= lo + n[v]
          /\ stream[i][1] = v => stream[i][2] = i - lo
      BY <1>1, <3>1 DEF BlockAt
    <3>3. i <= lo + n[v] /\ i <= lo + k
      BY <1>2, <1>4, <2>1
    <3> QED
      BY <3>1, <3>2, <3>3
  <2>2. CASE Len(stream) < i
    <3>1. stream'[i][1] = v /\ stream'[i][2] = n[v] + (i - Len(stream))
      BY <1>3, <2>2
    <3>2. i \in Nat /\ lo < i /\ i <= lo + k
      BY <1>2, <1>3, <1>4, <2>2
    <3>3. n[v] + (i - Len(stream)) = i - lo
      <4>1. PICK a \in Nat, b \in Nat, c \in Nat : a = n[v] /\ b = Len(stream) /\ c = lo
        BY <1>2
      <4>2. c + a = b
        BY <1>2, <4>1, Zenon
      <4>3. a + (i - b) = i - c
        BY <3>2, <4>2
      <4> QED
        BY <4>1, <4>3, Zenon
    <3> QED
      BY <3>1, <3>2, <3>3
  <2> QED
    BY <1>2, <2>1, <2>2
<1> QED
  BY <1>4, <1>5 DEF Block, BlockAt

\* Bytes of another Write come behind, or in front of, a Write's own.
LEMMA BlockPassed ==
  ASSUME TypeOK, Counts, NEW v \in Write, NEW w \in Write, NEW r \in Read, Transfer(w, r),
         w # v, wrMu = w, NEW k \in Nat, Block(v, k)
  PROVE  Block(v, k)'
<1>1. PICK lo \in 0..Len(stream) : BlockAt(v, k, lo)
  BY DEF Block
<1>2. Len(stream) \in Nat /\ Copied(w, r) \in Nat
  <2>1. Copied(w, r) \in 0..MaxLen
    BY CopiedFits
  <2> QED
    BY <2>1, BoundsAssumption DEF TypeOK
<1>3. /\ Len(stream') = Len(stream) + Copied(w, r)
      /\ \A i \in 1..Len(stream) : stream'[i] = stream[i]
      /\ \A i \in 1..Len(stream') : Len(stream) < i => stream'[i] = <<w, n[w] + (i - Len(stream))>>
  BY TransferAppends
<1>4. lo \in 0..Len(stream') /\ lo + k <= Len(stream) /\ lo + k <= Len(stream') /\ wrMu' # v
  BY <1>1, <1>2, <1>3 DEF BlockAt, Transfer
<1>5. ASSUME NEW i \in 1..Len(stream')
      PROVE  /\ stream'[i][1] = v <=> lo < i /\ i <= lo + k
             /\ stream'[i][1] = v => stream'[i][2] = i - lo
  <2>1. CASE i <= Len(stream)
    <3>1. stream'[i] = stream[i] /\ i \in 1..Len(stream)
      BY <1>2, <1>3, <2>1
    <3> QED
      BY <1>1, <3>1 DEF BlockAt
  <2>2. CASE Len(stream) < i
    <3>1. stream'[i][1] = w
      BY <1>3, <2>2
    <3> QED
      BY <1>2, <1>4, <2>2, <3>1
  <2> QED
    BY <1>2, <2>1, <2>2
<1> QED
  BY <1>4, <1>5 DEF Block, BlockAt

\* Every Write's bytes stay one block, as long as its count says.
LEMMA BlockStep ==
  TypeOK /\ Holder /\ OneReply /\ Counts /\ InBlock /\ [Next]_vars => InBlock'
<1> SUFFICES ASSUME TypeOK, Holder, OneReply, Counts, InBlock, [Next]_vars, NEW v \in Write
             PROVE  /\ wpc'[v] # "ack" => Block(v, n[v])'
                    /\ wpc'[v] = "ack" =>
                         \A r \in Read : rpc'[r] = "reply" => Block(v, n[v] + got[r])'
  BY DEF InBlock
<1>1. /\ wpc \in [Write -> {"idle", "lock", "select", "ack"} \cup Returned]
      /\ n \in [Write -> Nat] /\ got \in [Read -> Nat]
      /\ rpc \in [Read -> {"idle", "select", "reply"}] /\ None \notin Write
  BY BoundsAssumption DEF TypeOK
<1>2. /\ wpc[v] # "ack" => Block(v, n[v])
      /\ wpc[v] = "ack" => \A r \in Read : rpc[r] = "reply" => Block(v, n[v] + got[r])
  BY DEF InBlock
<1>3. ASSUME NEW k \in Nat, k = n'[v], Block(v, k)' PROVE Block(v, n[v])'
  BY <1>3 DEF Block, BlockAt
<1>4. CASE WriteCheck(v) \/ WriteStop(v)
  <2>1. Block(v, n[v]) /\ n' = n /\ stream' = stream /\ wpc'[v] # "ack" /\ (wrMu' = v => wrMu = v)
    BY <1>1, <1>2, <1>4 DEF WriteCheck, WriteStop
  <2>2. n[v] \in Nat
    BY <1>1
  <2> QED
    BY <1>3, <2>1, <2>2, BlockStays
<1>5. CASE WriteLock(v)
  <2>1. Block(v, 0) /\ n' = n /\ n[v] = 0 /\ stream' = stream /\ wpc'[v] # "ack"
    BY <1>1, <1>2, <1>5 DEF WriteLock, Counts
  <2>2. Block(v, 0)'
    BY <2>1, BlockBegins
  <2> QED
    BY <1>3, <2>1, <2>2
<1>6. ASSUME NEW r \in Read, Transfer(v, r)
      PROVE  /\ wpc'[v] = "ack"
             /\ \A s \in Read : rpc'[s] = "reply" => Block(v, n[v] + got[s])'
  <2>1. wpc'[v] = "ack" /\ got'[r] = Copied(v, r) /\ n' = n /\ wrMu = v /\ Block(v, n[v])
    BY <1>1, <1>2, <1>6 DEF Transfer, Holder
  <2>2. ASSUME NEW s \in Read, rpc'[s] = "reply" PROVE s = r
    BY <1>1, <1>6, <2>2, NobodyReplies DEF Transfer
  <2>3. n[v] + Copied(v, r) \in Nat
    BY <1>1, CopiedFits, BoundsAssumption
  <2>4. PICK k \in Nat : k = n[v] + Copied(v, r)
    BY <2>3
  <2>5. Block(v, k)'
    BY <1>6, <2>1, <2>4, BlockGrows
  <2>6. Block(v, n[v] + got[r])'
    BY <2>1, <2>4, <2>5 DEF Block, BlockAt
  <2> QED
    BY <2>1, <2>2, <2>6
<1>7. ASSUME NEW r \in Read, Reply(v, r) PROVE wpc'[v] # "ack" /\ Block(v, n[v])'
  <2>1. /\ wpc'[v] # "ack" /\ n'[v] = n[v] + got[r] /\ stream' = stream
        /\ wrMu' = v => wrMu = v
    BY <1>1, <1>7 DEF Reply, Round
  <2>2. PICK k \in Nat : k = n[v] + got[r]
    BY <1>1
  <2>3. Block(v, k)
    BY <1>2, <1>7, <2>2 DEF Reply
  <2>4. Block(v, k)'
    BY <2>1, <2>3, BlockStays
  <2> QED
    BY <1>3, <2>1, <2>2, <2>4
<1>8. CASE /\ ~WriteCheck(v) /\ ~WriteLock(v) /\ ~WriteStop(v)
           /\ \A r \in Read : ~Transfer(v, r) /\ ~Reply(v, r)
  <2>1. wpc'[v] = wpc[v] /\ n'[v] = n[v]
    BY <1>8, OthersStay
  <2>2. ASSUME NEW k \in Nat, Block(v, k) PROVE Block(v, k)'
    <3>1. ASSUME NEW w \in Write, NEW r \in Read, Transfer(w, r) PROVE Block(v, k)'
      <4>1. w # v /\ wrMu = w
        BY <1>8, <3>1 DEF Holder, Transfer
      <4> QED
        BY <2>2, <3>1, <4>1, BlockPassed
    <3>2. ASSUME \A w \in Write : \A r \in Read : ~Transfer(w, r)
          PROVE  stream' = stream
      BY <3>2
      DEF Next, WriteStep, WriteCheck, WriteLock, WriteStop, Reply, ReadCheck, ReadStop, Close,
          Expire, Refresh, vars
    <3>3. wrMu' = v => wrMu = v
      <4>1. ASSUME NEW w \in Write, WriteLock(w) PROVE wrMu' # v
        BY <1>8, <4>1 DEF WriteLock
      <4>2. ASSUME NEW w \in Write, NEW r \in Read, Reply(w, r) PROVE wrMu' \in {None, wrMu}
        BY <4>2 DEF Reply, Round
      <4>3. ASSUME NEW w \in Write, NEW r \in Read, Transfer(w, r) PROVE wrMu' = wrMu
        BY <4>3 DEF Transfer
      <4> QED
        BY <1>1, <4>1, <4>2, <4>3
        DEF Next, WriteStep, WriteCheck, WriteStop, ReadCheck, ReadStop, Close,
            Expire, Refresh, vars, writeVars
    <3> QED
      BY <2>2, <3>1, <3>2, <3>3, BlockStays
  <2>3. CASE wpc[v] # "ack"
    <3>1. n[v] \in Nat
      BY <1>1
    <3> QED
      BY <1>2, <1>3, <2>1, <2>2, <2>3, <3>1
  <2>4. ASSUME wpc[v] = "ack", NEW r \in Read, rpc'[r] = "reply" PROVE Block(v, n[v] + got[r])'
    <3>1. ASSUME NEW w \in Write, NEW s \in Read, w # v PROVE ~Transfer(w, s) /\ ~Reply(w, s)
      BY <2>4, <3>1 DEF Holder, Transfer, Reply
    <3>2. got' = got /\ rpc[r] = "reply"
      BY <1>1, <1>8, <2>4, <3>1
      DEF Next, WriteStep, WriteCheck, WriteLock, WriteStop, ReadCheck, ReadStop, Close, Expire,
          Refresh, vars, readVars
    <3>3. PICK k \in Nat : k = n[v] + got[r]
      BY <1>1
    <3>4. Block(v, k)'
      BY <1>2, <2>2, <2>4, <3>2, <3>3
    <3> QED
      BY <2>1, <3>2, <3>3, <3>4 DEF Block, BlockAt
  <2> QED
    BY <2>1, <2>3, <2>4
<1> QED
  BY <1>4, <1>5, <1>6, <1>7, <1>8

-----------------------------------------------------------------------------
(* The theorems.                                                           *)

\* The invariant holds in every state of the pipe.
THEOREM PInvariant == Spec => []PInv
<1>1. Init => PInv
  <2> SUFFICES ASSUME Init PROVE PInv
    OBVIOUS
  <2>1. expired \in [End -> BOOLEAN]
    BY Zenon DEF Init
  <2>2. stream = <<>> /\ stream \in Seq(Write \X (1..MaxLen)) /\ Len(stream) = 0
    BY DEF Init
  <2>3. TypeOK
    BY <2>1, <2>2, BoundsAssumption DEF Init, TypeOK
  <2>4. Holder /\ OneReply /\ Counts
    BY BoundsAssumption DEF Init, Holder, OneReply, Counts
  <2>5. \A w \in Write : Block(w, 0)
    <3>1. \A w \in Write : BlockAt(w, 0, 0)
      BY <2>2 DEF BlockAt
    <3> QED
      BY <2>2, <3>1 DEF Block
  <2>6. InBlock
    BY <2>5 DEF InBlock, Init
  <2> QED
    BY <2>3, <2>4, <2>6 DEF PInv
<1>2. PInv /\ [Next]_vars => PInv'
  BY TypeStep, HolderStep, ReplyStep, CountsStep, BlockStep DEF PInv
<1> QED
  BY <1>1, <1>2, PTL DEF Spec

\* Whatever a Write has in the stream is one block.
LEMMA HasBlock ==
  ASSUME PInv, NEW w \in Write
  PROVE  \E lo \in 0..Len(stream) :
           \A j \in 1..Len(stream) : stream[j][1] = w => stream[j][2] = j - lo
<1>1. ASSUME NEW k, Block(w, k)
      PROVE  \E lo \in 0..Len(stream) :
               \A j \in 1..Len(stream) : stream[j][1] = w => stream[j][2] = j - lo
  BY <1>1 DEF Block, BlockAt
<1>2. CASE wpc[w] # "ack"
  BY <1>1, <1>2 DEF PInv, InBlock
<1>3. CASE wpc[w] = "ack"
  <2>1. PICK r \in Read : rpc[r] = "reply"
    BY <1>3 DEF PInv, OneReply
  <2> QED
    BY <1>1, <1>3, <2>1 DEF PInv, InBlock
<1> QED
  BY <1>2, <1>3

\* "Ensure entirety of b is written together": no byte of another Write is
\* between those of one Write, and they keep their order.
THEOREM Together == Spec => []WrittenTogether
<1>1. PInv => WrittenTogether
  <2> SUFFICES ASSUME PInv, NEW i \in 1..Len(stream), NEW j \in 1..Len(stream),
                      i < j, stream[i][1] = stream[j][1]
               PROVE  stream[j][2] = stream[i][2] + (j - i)
    BY DEF WrittenTogether
  <2>1. stream \in Seq(Write \X (1..MaxLen)) /\ Len(stream) \in Nat
    BY DEF PInv, TypeOK
  <2>2. stream[i][1] \in Write
    BY <2>1
  <2>3. PICK lo \in 0..Len(stream) :
           \A k \in 1..Len(stream) : stream[k][1] = stream[i][1] => stream[k][2] = k - lo
    BY <2>2, HasBlock
  <2>4. stream[i][2] = i - lo /\ stream[j][2] = j - lo
    BY <2>3
  <2> QED
    BY <2>1, <2>4
<1> QED
  BY <1>1, PInvariant, PTL

\* A Write returns the number of its bytes that have been read, whatever ended
\* it, and all of them when it returns no error.
THEOREM CountsAreExact == Spec => []CountExact
<1>1. PInv => CountExact
  <2> SUFFICES ASSUME PInv, NEW w \in Write, wpc[w] \in Returned
               PROVE  /\ n[w] = Cardinality({i \in 1..Len(stream) : stream[i][1] = w})
                      /\ wpc[w] = "ok" => n[w] = size[w]
    BY DEF CountExact
  <2>1. n[w] \in Nat /\ Len(stream) \in Nat
    BY BoundsAssumption DEF PInv, TypeOK
  <2>2. PICK lo \in 0..Len(stream) : BlockAt(w, n[w], lo)
    BY DEF PInv, InBlock, Block, Returned
  <2>3. {i \in 1..Len(stream) : stream[i][1] = w} = (lo + 1)..(lo + n[w])
    BY <2>1, <2>2 DEF BlockAt
  <2>4. Cardinality((lo + 1)..(lo + n[w])) = n[w]
    <3>1. PICK a \in Int, b \in Int : a = lo + 1 /\ b = lo + n[w]
      BY <2>1
    <3>2. Cardinality(a..b) = IF a > b THEN 0 ELSE b - a + 1
      BY FS_Interval
    <3>3. PICK k \in Nat : k = n[w]
      BY <2>1
    <3>4. a = lo + 1 /\ b = lo + k /\ lo \in Nat
      BY <2>1, <3>1, <3>3
    <3>5. (IF a > b THEN 0 ELSE b - a + 1) = k
      BY <3>4
    <3>6. Cardinality(a..b) = n[w]
      BY <3>2, <3>3, <3>5, Zenon
    <3> QED
      BY <3>1, <3>6, Zenon
  <2>5. wpc[w] = "ok" => n[w] = size[w]
    BY DEF PInv, Counts
  <2> QED
    BY <2>3, <2>4, <2>5
<1> QED
  BY <1>1, PInvariant, PTL

-----------------------------------------------------------------------------
(* The deadlines.                                                          *)

\* What links the timer to the channel its callback will close: a timer that
\* has not closed d.cancel is the only one that will, and a Set that waits
\* for a callback is woken by that callback.
TimerInv ==
  /\ cancel <= sets + 1
  /\ locked => cancel <= sets
  /\ timer = "armed" => cancel \notin closed
  /\ callback => timer = "fired" /\ cancel \notin closed
  /\ timer = "fired" /\ ~callback => cancel \in closed
  /\ timer = "armed" \/ timer = "fired" => last = "future"

\* Only a closed channel is replaced.
OldClosed == 1..(cancel - 1) \subseteq closed

DInv == DeadlineTypeOK /\ TimerInv /\ DeadlineExact /\ NoDoubleClose /\ NoStaleWaiter

-----------------------------------------------------------------------------

\* The invariant holds initially and every step keeps it.
THEOREM DInvariant == DeadlineSpec => []DInv
<1>1. DeadlineInit => DInv
  <2> SUFFICES ASSUME DeadlineInit PROVE DInv
    OBVIOUS
  <2>1. DeadlineTypeOK
    <3>1. 1 \in 1..(MaxSets + 1) /\ 0 \in 0..MaxSets /\ 0 \in 0..1
      BY MaxSetsAssumption
    <3> QED
      BY <3>1 DEF DeadlineInit, DeadlineTypeOK
  <2>2. TimerInv
    BY DEF DeadlineInit, TimerInv
  <2>3. DeadlineExact /\ NoDoubleClose /\ NoStaleWaiter
    BY DEF DeadlineInit, DeadlineExact, NoDoubleClose, NoStaleWaiter
  <2> QED
    BY <2>1, <2>2, <2>3 DEF DInv
<1>2. DInv /\ [DeadlineNext]_deadlineVars => DInv'
  <2> SUFFICES ASSUME DInv, [DeadlineNext]_deadlineVars PROVE DInv'
    OBVIOUS
  <2> USE MaxSetsAssumption
      DEF DInv, DeadlineTypeOK, TimerInv, DeadlineExact, NoDoubleClose, NoStaleWaiter
  <2>1. CASE SetStop
    BY <2>1 DEF SetStop
  <2>2. CASE SetApply
    <3>1. ~callback /\ callback' = callback /\ (timer = "fired" => cancel \in closed)
      BY <2>2 DEF SetApply, Drained
    <3>2. cancel <= sets /\ locked' = FALSE /\ UNCHANGED <<ch, sets, panicked>>
      BY <2>2 DEF SetApply
    <3>3. /\ cancel' \in {cancel, cancel + 1} /\ closed' \in {closed, closed \cup {cancel}}
          /\ timer' \in {"nil", "armed"} /\ last' \in {"zero", "future", "past"}
      BY <2>2 DEF SetApply, OpenCancel
    <3>4. DeadlineTypeOK'
      <4>1. cancel' \in 1..(MaxSets + 1) /\ closed' \subseteq 1..cancel'
        BY <3>2, <3>3
      <4>2. ch' \in [Waiter -> 0..cancel']
        BY <3>2, <3>3
      <4>3. locked' \in BOOLEAN /\ callback' \in BOOLEAN /\ panicked' \in BOOLEAN
        BY <3>1, <3>2
      <4> QED
        BY <3>2, <3>3, <4>1, <4>2, <4>3
    <3>5. TimerInv' /\ DeadlineExact'
      <4>1. CASE last' = "past"
        BY <2>2, <3>1, <3>2, <4>1 DEF SetApply
      <4>2. CASE last' # "past"
        <5>1. cancel' = OpenCancel /\ closed' = closed /\ (timer' = "armed" <=> last' = "future")
              /\ timer' \in {"nil", "armed"}
          BY <2>2, <4>2 DEF SetApply
        <5>2. cancel' \notin closed'
          BY <5>1 DEF OpenCancel
        <5> QED
          BY <3>1, <3>2, <3>3, <4>2, <5>1, <5>2
      <4> QED
        BY <4>1, <4>2
    <3>6. NoDoubleClose'
      BY <3>2
    <3>7. NoStaleWaiter'
      <4>1. closed \subseteq closed' /\ (cancel' = cancel \/ cancel \in closed)
        BY <2>2 DEF SetApply, OpenCancel
      <4> QED
        BY <4>1, <3>2
    <3> QED
      BY <3>4, <3>5, <3>6, <3>7
  <2>3. CASE Fire
    BY <2>3 DEF Fire
  <2>4. CASE Callback
    <3>1. panicked' = FALSE /\ callback' = FALSE
      BY <2>4 DEF Callback
    <3>2. DeadlineTypeOK'
      <4>1. closed' \subseteq 1..cancel' /\ UNCHANGED <<timer, cancel, ch, last, sets>>
        BY <2>4 DEF Callback
      <4>2. locked' \in BOOLEAN /\ callback' \in BOOLEAN /\ panicked' \in BOOLEAN
        BY <2>4, <3>1 DEF Callback
      <4> QED
        BY <4>1, <4>2
    <3>3. TimerInv' /\ DeadlineExact'
      BY <2>4, <3>1 DEF Callback
    <3>4. NoDoubleClose' /\ NoStaleWaiter'
      BY <2>4, <3>1 DEF Callback
    <3> QED
      BY <3>2, <3>3, <3>4
  <2>5. ASSUME NEW w \in Waiter, Wait(w) PROVE DInv'
    BY <2>5 DEF Wait
  <2>6. ASSUME NEW w \in Waiter, Wake(w) PROVE DInv'
    BY <2>6 DEF Wake
  <2>7. CASE UNCHANGED deadlineVars
    BY <2>7 DEF deadlineVars
  <2> QED
    BY <2>1, <2>2, <2>3, <2>4, <2>5, <2>6, <2>7 DEF DeadlineNext
<1> QED
  BY <1>1, <1>2, PTL DEF DeadlineSpec

\* Type correctness; d.cancel is never nil.
THEOREM TypeCorrect == DeadlineSpec => []DeadlineTypeOK
<1>1. DInv => DeadlineTypeOK
  BY DEF DInv
<1> QED
  BY <1>1, DInvariant, PTL

\* No channel is closed twice, whatever Set and the callback do.
THEOREM ClosedOnce == DeadlineSpec => []NoDoubleClose
<1>1. DInv => NoDoubleClose
  BY DEF DInv
<1> QED
  BY <1>1, DInvariant, PTL

\* No goroutine is left on a channel that nobody will close.
THEOREM WaitersCurrent == DeadlineSpec => []NoStaleWaiter
<1>1. DInv => NoStaleWaiter
  BY DEF DInv
<1> QED
  BY <1>1, DInvariant, PTL

\* d.cancel is closed exactly when the last Set says so.
THEOREM ExactDeadline == DeadlineSpec => []DeadlineExact
<1>1. DInv => DeadlineExact
  BY DEF DInv
<1> QED
  BY <1>1, DInvariant, PTL

\* What is replaced is closed, and stays so.
THEOREM ReplacedIsClosed == DeadlineSpec => []OldClosed
<1>1. DeadlineInit => OldClosed
  BY DEF DeadlineInit, OldClosed
<1>2. DInv /\ OldClosed /\ [DeadlineNext]_deadlineVars => OldClosed'
  <2> SUFFICES ASSUME DInv, OldClosed, [DeadlineNext]_deadlineVars PROVE OldClosed'
    OBVIOUS
  <2>1. cancel \in Nat
    BY MaxSetsAssumption DEF DInv, DeadlineTypeOK
  <2>2. CASE SetApply
    BY <2>1, <2>2 DEF SetApply, OpenCancel, OldClosed
  <2>3. CASE Callback
    BY <2>3 DEF Callback, OldClosed
  <2>4. CASE UNCHANGED <<cancel, closed>>
    BY <2>4 DEF OldClosed
  <2> QED
    BY <2>2, <2>3, <2>4 DEF DeadlineNext, deadlineVars, SetStop, Fire, Wait, Wake
<1> QED
  BY <1>1, <1>2, DInvariant, PTL DEF DeadlineSpec

\* A Deadline is a DeadlineChannel: its channel closes once, by the callback
\* or by a Set to the past, and is replaced only after that.
THEOREM ImplementsChannel == DeadlineSpec => Channel!Spec
<1>1. DeadlineInit => Channel!Init
  BY DEF DeadlineInit, Channel!Init
<1>2. DInv /\ [DeadlineNext]_deadlineVars => [Channel!Next]_<<cancel - 1, cancel \in closed>>
  <2> SUFFICES ASSUME DInv, [DeadlineNext]_deadlineVars
               PROVE  Channel!Next \/ UNCHANGED <<cancel - 1, cancel \in closed>>
    OBVIOUS
  <2>1. cancel \in Nat /\ closed \subseteq 1..cancel
    BY MaxSetsAssumption DEF DInv, DeadlineTypeOK
  <2>2. CASE SetApply
    <3>1. CASE cancel' = cancel + 1
      BY <2>1, <2>2, <3>1 DEF SetApply, OpenCancel, Channel!Next, Channel!Renew
    <3>2. CASE cancel' = cancel
      BY <2>1, <2>2, <3>2 DEF SetApply, Channel!Next, Channel!Pass
    <3> QED
      BY <2>1, <2>2, <3>1, <3>2 DEF SetApply, OpenCancel
  <2>3. CASE Callback
    BY <2>3 DEF Callback, DInv, TimerInv, Channel!Next, Channel!Pass
  <2>4. CASE UNCHANGED <<cancel, closed>>
    BY <2>4
  <2> QED
    BY <2>2, <2>3, <2>4 DEF DeadlineNext, deadlineVars, SetStop, Fire, Wait, Wake
<1> QED
  BY <1>1, <1>2, DInvariant, PTL DEF DeadlineSpec, Channel!Spec

\* Whoever waits on a channel of Wait sees it closed when the DeadlineChannel
\* says so, whatever Set has done since.
WaiterSees ==
  \A w \in Waiter : ch[w] # 0 => (ch[w] \in closed <=> Channel!Closed(ch[w] - 1))

\* The waiters of a Deadline see the channel that DeadlineChannel promises.
THEOREM WaitersSee == DeadlineSpec => []WaiterSees
<1>1. DInv /\ OldClosed => WaiterSees
  <2> SUFFICES ASSUME DInv, OldClosed, NEW w \in Waiter, ch[w] # 0
               PROVE  ch[w] \in closed <=> Channel!Closed(ch[w] - 1)
    BY DEF WaiterSees
  <2>1. cancel \in Nat /\ ch[w] \in 1..cancel /\ closed \subseteq 1..cancel
    BY MaxSetsAssumption DEF DInv, DeadlineTypeOK
  <2>2. CASE ch[w] = cancel
    BY <2>1, <2>2 DEF Channel!Closed
  <2>3. CASE ch[w] # cancel
    BY <2>1, <2>3 DEF OldClosed, Channel!Closed
  <2> QED
    BY <2>2, <2>3
<1> QED
  BY <1>1, DInvariant, ReplacedIsClosed, PTL
=============================================================================
