--------------------------- MODULE LocalTransport ---------------------------
(***************************************************************************)
(* The system resolver of resolve/transport/local.go: calls of Exchange    *)
(* share the configuration read from /etc/resolv.conf, which the calls     *)
(* themselves keep up to date, and try the names of the search list one    *)
(* after the other or in a race.                                           *)
(*                                                                         *)
(* pc is where a call stands:                                              *)
(*   idle -> init -> noreload -> acquire -> stat -> open -> read -> load   *)
(*        -> single or select -> returned.                                 *)
(* job holds its tries of one name each, goroutines if they race:          *)
(*   none -> update -> pull (-> send) -> end.                              *)
(* What is behind pullTransport is not here: its look-up never succeeds,   *)
(* so that t.transports stays empty and no server is asked.                *)
(***************************************************************************)
EXTENDS Filters, FiniteSets

CONSTANTS
  Call,           \* the calls of Exchange
  Racing,         \* those that ask for A or AAAA
  Domain,         \* the name a call asks for: its dots, length and .onion
  Files,          \* the texts that resolv.conf may have, as lines
  defaultNS, DefaultSearch,
  MaxServers, MaxNdots, MaxName,   \* 3, 15 and 254 in the code
  Server,         \* the addresses of nameserver lines,
  BadServer,      \* and what does not parse as one
  Suffix, Root,   \* the search domains, and "."
  MaxJob,         \* bound: names in a list
  MaxVersion,     \* bound: versions of the file
  MaxTime,        \* bound: the clock, in units of the five seconds
  None

\* A line, by its first field: those of the other keys are all alike.
FileLine ==
  [key : {"nameserver"}, arg : Server \cup {BadServer}] \cup [key : {"domain"}, arg : Suffix]
    \cup [key : {"search"}, arg : Seq(Suffix)]
    \cup [key : {"options"}, arg : Seq([name : STRING, n : Nat])]
    \cup [key : {"other"}, arg : {None}]

ASSUME LocalAssumption ==
  /\ Racing \subseteq Call
  /\ None \notin Call /\ "done" \notin Call \cup {None}
  /\ Files \in Seq(Seq(FileLine))
  /\ DefaultSearch \in Seq(Suffix)
  /\ MaxServers \in Nat \ {0} /\ MaxNdots \in Nat /\ MaxName \in Nat
  /\ MaxJob \in Nat /\ MaxVersion \in Nat \ {0} /\ MaxTime \in Nat

VARIABLES
  resolv,         \* the version and text of resolv.conf, text 0 if missing
  time,
  once,           \* initOnce: None, the call inside it, or "done"
  sema,           \* the call that holds the slot of conf.ch, or None
  lastChecked,
  config,         \* *dnsConfig
  version,        \* history: the version whose text config has
  servers,        \* t.servers, None if nil
  pc,
  seen,           \* the file as a call's dnsReadConfig has opened it
  cfg,            \* the configuration a call works with
  job,
  result

confVars == <<once, sema, lastChecked, config, version>>
callVars == <<pc, seen, cfg, job, result>>
vars == <<resolv, time, confVars, servers, callVars>>

-----------------------------------------------------------------------------
(* resolv.conf and the search list.                                        *)

\* A server as configured is the string "address:53".
JoinHostPort(addr) == <<addr, 53>>

\* AddrString of the parsed server: the address alone.
AddrString(server) == <<server[1]>>

\* A nameserver line whose address parses.
Good(l) == l.key = "nameserver" /\ l.arg # BadServer

AddServer(list, l) ==
  IF Good(l) /\ Len(list) < MaxServers THEN Append(list, JoinHostPort(l.arg)) ELSE list

SetSearch(list, l) ==
  CASE l.key = "domain" -> <<l.arg>>
    [] l.key = "search" -> Filter(l.arg, Suffix \ {Root})
    [] OTHER -> list

\* The words of an options line.  Of these attempts, rotate, timeout, use-vc
\* and trust-ad matter only behind pullTransport.
Words(l) == IF l.key = "options" THEN l.arg ELSE <<>>

Has(lines, option) ==
  \E i \in DOMAIN lines : \E k \in DOMAIN Words(lines[i]) : Words(lines[i])[k].name = option

\* The last of a line's words for ndots counts.
SetNdots(n, l) ==
  LET at == {k \in DOMAIN Words(l) : Words(l)[k].name = "ndots"}
      o  == Words(l)[CHOOSE k \in at : \A j \in at : j <= k]
  IN IF at = {} THEN n ELSE IF o.n > MaxNdots THEN MaxNdots ELSE o.n

\* The fields of dnsConfig, line after line.
ServersOf(lines) ==
  LET at[k \in 0..Len(lines)] == IF k = 0 THEN <<>> ELSE AddServer(at[k - 1], lines[k])
  IN at[Len(lines)]

SearchOf(lines) ==
  LET at[k \in 0..Len(lines)] == IF k = 0 THEN <<>> ELSE SetSearch(at[k - 1], lines[k])
  IN at[Len(lines)]

NdotsOf(lines) ==
  LET at[k \in 0..Len(lines)] == IF k = 0 THEN 1 ELSE SetNdots(at[k - 1], lines[k])
  IN at[Len(lines)]

Lines(text) == IF text = 0 THEN <<>> ELSE Files[text]

OrDefault(list, default) == IF list = <<>> THEN default ELSE list

\* dnsReadConfig of a file with these lines and this modification time.
dnsReadConfig(lines, mtime) ==
  [servers  |-> OrDefault(ServersOf(lines), defaultNS),
   search   |-> OrDefault(SearchOf(lines), DefaultSearch),
   ndots    |-> NdotsOf(lines),
   single   |-> Has(lines, "single-request"),
   noReload |-> Has(lines, "no-reload"),
   mtime    |-> mtime]

\* The modification time, zero for a missing file.
Mtime(f) == IF f.text = 0 THEN 0 ELSE f.version

\* The suffixes to try for domain d, Root for the name as it is.
nameList(c, d) ==
  LET asIs == IF d.onion THEN <<>> ELSE <<Root>>
      ext  == Filter(c.search, {s \in Suffix : ~s.onion /\ d.len + 1 + s.len <= MaxName})
  IN IF d.len >= MaxName THEN <<>>
     ELSE IF d.dots >= c.ndots THEN asIs \o ext ELSE ext \o asIs

NamesOf(q) == nameList(cfg[q], Domain[q])

-----------------------------------------------------------------------------

Init ==
  /\ resolv \in [version : {1}, text : 0..Len(Files)]
  /\ time = 1
  /\ once = None
  /\ sema = None
  /\ lastChecked = 0
  /\ config = None
  /\ version = 0
  /\ servers = None
  /\ pc = [q \in Call |-> "idle"]
  /\ seen = [q \in Call |-> None]
  /\ cfg = [q \in Call |-> None]
  /\ job = [q \in Call |-> [i \in 1..MaxJob |-> "none"]]
  /\ result = [q \in Call |-> None]

Goto(q, l) == pc' = [pc EXCEPT ![q] = l]

Return(q, r) == result' = [result EXCEPT ![q] = r] /\ Goto(q, "returned")

\* Exchange begins; a message without a question is refused, and a name in
\* the hosts file answered from it.
Exchange(q) ==
  /\ pc[q] = "idle"
  /\ \/ Goto(q, "init") /\ UNCHANGED result
     \/ Return(q, "refused")
     \/ q \in Racing /\ Return(q, "hosts")
  /\ UNCHANGED <<resolv, time, confVars, servers, seen, cfg, job>>

\* initOnce.Do: the first call reads the file, the others wait for it.
InitOnce(q) ==
  /\ pc[q] = "init"
  /\ \/ once = None /\ once' = q /\ Goto(q, "open")
     \/ once = "done" /\ Goto(q, "noreload") /\ UNCHANGED once
  /\ UNCHANGED <<resolv, time, sema, lastChecked, config, version, servers,
                 seen, cfg, job, result>>

NoReload(q) ==
  /\ pc[q] = "noreload"
  /\ Goto(q, IF config.noReload THEN "load" ELSE "acquire")
  /\ UNCHANGED <<resolv, time, confVars, servers, seen, cfg, job, result>>

\* Mutant: tryAcquireSema always succeeds.
SemaAlways == TRUE

SemaFree == sema = None

\* tryAcquireSema, then the age of the last check.
Acquire(q) ==
  /\ pc[q] = "acquire"
  /\ IF SemaFree /\ lastChecked < time
       THEN sema' = q /\ lastChecked' = time /\ Goto(q, "stat")
       ELSE Goto(q, "load") /\ UNCHANGED <<sema, lastChecked>>
  /\ UNCHANGED <<resolv, time, once, config, version, servers, seen, cfg, job, result>>

Stat(q) ==
  /\ pc[q] = "stat"
  /\ IF Mtime(resolv) = config.mtime
       THEN sema' = None /\ Goto(q, "load")
       ELSE Goto(q, "open") /\ UNCHANGED sema
  /\ UNCHANGED <<resolv, time, once, lastChecked, config, version, servers,
                 seen, cfg, job, result>>

\* dnsReadConfig opens the file and takes its modification time; if either
\* fails the file counts as missing.
Open(q) ==
  /\ pc[q] = "open"
  /\ \E f \in {resolv, [resolv EXCEPT !.text = 0]} : seen' = [seen EXCEPT ![q] = f]
  /\ Goto(q, "read")
  /\ UNCHANGED <<resolv, time, confVars, servers, cfg, job, result>>

\* Mutant: the modification time is taken after the text.
MtimeAfter(q) == Mtime(resolv)

ReadMtime(q) == Mtime(seen[q])

\* The text is that of the opened file, or what was since written into it.  A
\* read that fails, which the code takes for the end of the file, is left out.
ReadTexts(q) ==
  IF seen[q].text = 0 THEN {seen[q]} ELSE {seen[q]} \cup {f \in {resolv} : f.text # 0}

\* The rest of dnsReadConfig and the store; init or tryUpdate ends.
Read(q) ==
  /\ pc[q] = "read"
  /\ \E f \in ReadTexts(q) :
       /\ config' = dnsReadConfig(Lines(f.text), ReadMtime(q))
       /\ version' = f.version
  /\ IF once = q
       THEN once' = "done" /\ lastChecked' = time /\ Goto(q, "noreload") /\ UNCHANGED sema
       ELSE sema' = None /\ Goto(q, "load") /\ UNCHANGED <<once, lastChecked>>
  /\ seen' = [seen EXCEPT ![q] = None]
  /\ UNCHANGED <<resolv, time, servers, cfg, job, result>>

\* The call has its configuration and starts its first try, or all of them.
Load(q) ==
  /\ pc[q] = "load"
  /\ cfg' = [cfg EXCEPT ![q] = config]
  /\ LET single == config.single \/ q \notin Racing
         n == Len(nameList(config, Domain[q]))
     IN /\ job' = [job EXCEPT ![q] = [i \in 1..MaxJob |->
                     IF i <= n /\ (i = 1 \/ ~single) THEN "update" ELSE "none"]]
        /\ IF single /\ n = 0 THEN Return(q, "nil")
           ELSE Goto(q, IF single THEN "single" ELSE "select") /\ UNCHANGED result
  /\ UNCHANGED <<resolv, time, confVars, servers, seen>>

-----------------------------------------------------------------------------
(* tryOneName, and the two ways to use it.                                 *)

Elements(list) == {list[i] : i \in DOMAIN list}

\* updateTransports, under t.transportAccess.
Update(q, i) ==
  /\ job[q][i] = "update"
  /\ LET list == cfg[q].servers
         same == /\ servers # None
                 /\ Cardinality(servers) = Len(list)
                 /\ Elements(list) \subseteq servers
     IN servers' = IF same THEN servers ELSE Elements(list)
  /\ job' = [job EXCEPT ![q][i] = "pull"]
  /\ UNCHANGED <<resolv, time, confVars, pc, seen, cfg, result>>

\* The try that follows a failed one in exchangeSingleRequest.
NextJob(q, i) ==
  [job EXCEPT ![q] = [j \in 1..MaxJob |->
     IF j = i THEN "end" ELSE IF j = i + 1 /\ j <= Len(NamesOf(q)) THEN "update" ELSE @[j]]]

\* pullTransport does not find the server and the try fails.
Pull(q, i) ==
  /\ job[q][i] = "pull"
  /\ \E s \in Elements(cfg[q].servers) : AddrString(s) \notin servers
  /\ IF pc[q] = "single"
       THEN /\ job' = NextJob(q, i)
            /\ IF i = Len(NamesOf(q)) THEN Return(q, "err") ELSE UNCHANGED <<pc, result>>
       ELSE /\ job' = [job EXCEPT ![q][i] = "send"]
            /\ UNCHANGED <<pc, result>>
  /\ UNCHANGED <<resolv, time, confVars, servers, seen, cfg>>

\* A racer's error reaches the select; the last one ends the call.
Report(q, i) ==
  /\ pc[q] = "select"
  /\ job[q][i] = "send"
  /\ job' = [job EXCEPT ![q][i] = "end"]
  /\ IF \A j \in 1..Len(NamesOf(q)) : job'[q][j] = "end"
       THEN Return(q, "err") ELSE UNCHANGED <<pc, result>>
  /\ UNCHANGED <<resolv, time, confVars, servers, seen, cfg>>

CtxDone(q) ==
  /\ pc[q] = "select"
  /\ Return(q, "ctx")
  /\ UNCHANGED <<resolv, time, confVars, servers, seen, cfg, job>>

\* Mutant: a racer can only send.
RacerOnlySends(q, i) == FALSE

\* The racer's select has the arm <-returned.
RacerEnd(q, i) ==
  /\ pc[q] = "returned"
  /\ job[q][i] = "send"
  /\ job' = [job EXCEPT ![q][i] = "end"]
  /\ UNCHANGED <<resolv, time, confVars, servers, pc, seen, cfg, result>>

-----------------------------------------------------------------------------
(* The system: the file is rewritten or removed, time passes.              *)

FileChange ==
  /\ resolv.version < MaxVersion
  /\ resolv' \in [version : {resolv.version + 1}, text : 0..Len(Files)]
  /\ UNCHANGED <<time, confVars, servers, callVars>>

Tick ==
  /\ time < MaxTime
  /\ time' = time + 1
  /\ UNCHANGED <<resolv, confVars, servers, callVars>>

-----------------------------------------------------------------------------

CallStep(q) ==
  \/ InitOnce(q) \/ NoReload(q) \/ Acquire(q) \/ Stat(q) \/ Open(q) \/ Read(q) \/ Load(q)
  \/ \E i \in 1..MaxJob : Report(q, i)

JobStep(q, i) == Update(q, i) \/ Pull(q, i) \/ RacerEnd(q, i)

Next ==
  \/ \E q \in Call : Exchange(q) \/ CallStep(q) \/ CtxDone(q)
  \/ \E q \in Call, i \in 1..MaxJob : JobStep(q, i)
  \/ FileChange \/ Tick

Spec == Init /\ [][Next]_vars

\* Goroutines are scheduled; a context need not end.
FairSpec ==
  /\ Spec
  /\ \A q \in Call : WF_vars(CallStep(q))
  /\ \A q \in Call, i \in 1..MaxJob : WF_vars(JobStep(q, i))

-----------------------------------------------------------------------------
(* Properties.                                                             *)

\* s has the first max values of from, in the order of their indices.
Lists(s, from, max) ==
  LET rank(i) == Cardinality({j \in DOMAIN from : j <= i})
      all     == Cardinality(DOMAIN from)
  IN /\ Len(s) = IF all < max THEN all ELSE max
     /\ \A i \in DOMAIN from : rank(i) <= max => s[rank(i)] = from[i]

\* The servers that lines of resolv.conf mean: the first MaxServers addresses
\* that parse.
MeansServers(s, lines) ==
  LET good == {i \in DOMAIN lines : Good(lines[i])}
  IN IF good = {} THEN s = defaultNS
     ELSE Lists(s, [i \in good |-> JoinHostPort(lines[i].arg)], MaxServers)

\* The search list that they mean: the last of the domain and search lines.
MeansSearch(s, lines) ==
  LET of   == {i \in DOMAIN lines : lines[i].key \in {"domain", "search"}}
      last == lines[CHOOSE i \in of : \A j \in of : j <= i]
      kept == {k \in DOMAIN last.arg : last.arg[k] # Root}
  IN IF of # {} /\ last.key = "domain" THEN s = <<last.arg>>
     ELSE IF of # {} /\ kept # {} THEN Lists(s, [k \in kept |-> last.arg[k]], Len(last.arg))
     ELSE s = DefaultSearch

\* A configuration that tryUpdate will not read again, because its mtime is
\* the file's, is what the file says: rewriting the file while dnsReadConfig
\* is at it leaves no stale configuration behind.
ConfigCurrent ==
  config # None /\ config.mtime = Mtime(resolv) =>
    /\ MeansServers(config.servers, Lines(resolv.text))
    /\ MeansSearch(config.search, Lines(resolv.text))

\* The semaphore of tryUpdate keeps reloads apart: a slow one never replaces
\* the configuration by that of an older version of the file.
ConfigForward == [][version' >= version]_version

\* The call is over and none of its racers is left.
Settled(q) == pc[q] = "returned" /\ \A i \in 1..MaxJob : job[q][i] \in {"none", "end"}

\* Every call returns and leaves no goroutine behind, without help of its
\* context, whatever happens to the file and whoever holds the semaphore; but
\* a race of no names waits for the context.
CallSettles ==
  \A q \in Call :
    pc[q] # "idle" ~> Settled(q) \/ (pc[q] = "select" /\ NamesOf(q) = <<>>)

=============================================================================
