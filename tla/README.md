# qnetwork in TLA+

A TLA+ model of the concurrent parts of qnetwork, a Go library of network
building blocks: dialers, DNS transports and their cache, an in-memory pipe
with deadlines, a UDP NAT table. The modules are translated from the Go
source; `PROJECT.json` maps every definition to its lines.

## Inventory

| component | state it keeps | operations | what is hard |
|---|---|---|---|
| UDP DNS transport `resolve/transport/udp.go` | one shared connection, its 16-bit query id, a map from id to waiting callback, one `recvLoop` goroutine per connection | `Exchange`, `open`, `recvLoop`, `Close` | answers lost, duplicated, late; ids that wrap; one caller's context closing the connection of all |
| TCP DNS transport `resolve/transport/tcp.go` | a connection for each exchange, a goroutine that watches the context | `Exchange` | the goroutine that closes races with the end of the exchange |
| Happy Eyeballs `dialer/methods.go`, `eyeball.go`, `addrs/sorts.go` | two racers, a fallback timer, results | `DialParallel`, `DialSerial` | a loser that connects late; `Stop`/`Reset` of a timer that is firing |
| Deadline `netio/pipe/pipe.go` | a timer, a channel that is replaced after it closed | `Set`, `Wait` | `Set` against the timer's callback; waiters on an old channel |
| Pipe `netio/pipe/pipe.go` | unbuffered channels, a write mutex, two done channels, deadlines | `Read`, `Write`, `SetDeadline`, `Close` | partial writes, pairing of replies, release on close |
| UDP NAT `netio/udpnat` | an LRU of connections by source, a queue and handler per connection | `NewPacket`, `SetHandler`, `Read`, `Close` | look-up and insertion are two steps; handler set while packets are queued |
| TCP Fast Open `dialer/tfo.go` | the lazily dialled connection, create and done channels | `Read`, `Write`, `Close` | unsynchronised reads of `c.conn`; `Close` during the dial |
| DNS cache `resolve/cache.go`, `resolve.go`, `client.go` | an LRU of messages with expiry, flights in progress | `LoadOrStore`, `Store`, `Clear`, `ExchangeTransport` | shared messages, joined flights, expiry arithmetic |
| Lookup client `resolve/client.go` | the answers of one look-up | `LookupTransport` | A and AAAA in parallel, partial failure |
| Local transport `resolve/transport/local.go` | the parsed `resolv.conf` with its time of modification, a semaphore for its reload, the set of servers, a pool of UDP transports | `Exchange`, `tryUpdate`, `updateTransports`, `pullTransport` | the file changing while it is read and under running queries; racers that outlive their call |
| Hosts file `resolve/hosts/hosts.go` | the parsed names with the file's time and size, an expiry | `Lookup`, `update` | the file replaced, rewritten or removed between two accesses |
| Resolving dialer `resolve/dialer.go`, default dialer `dialer/default.go`, listener `listener/listen.go` | configuration | `DialContext`, `ListenPacket`, `ListenTCP`, `ListenUDP` | families filtered by network, strategy, look-up and dialer; what an error or an empty answer means |
| Socket options `control` | the finder's slice of interfaces, the flag `ifIndexDisabled`, both shared without a lock | `BindToInterface`, `Append`, `ByName`, `Update` | interfaces that come, go and are renamed under a dial; concurrent dials |
| Copying `netio/copy.go`, addresses `addrs`, networks and protocols `meta` | none | | pure, or calls of libraries |

How they interact: a resolving dialer looks a name up through a client
(cache, then transport) and dials the addresses with `DialParallel`; the UDP
transport dials with a dialer and falls back to TCP; the local transport keeps
a pool of UDP transports, one for each configured server, which stays empty
(see "Other behaviour"); the default dialer gives its sockets the control
functions of `control`; the NAT connections use `Deadline` for their reads, as
the pipe does.

What makes each correct is stated as the properties below; what can go wrong
is listed, line by line, under `hazards` in `PROJECT.json`.

## Modules

Each specification has its variables, one action per step that another
goroutine can observe, `Next`, `Spec` and, where liveness is checked,
`FairSpec`. Steps end where the code unlocks, blocks, or touches shared state
again. Operators introduced by "Mutant:" are not part of a specification: they
are plausible slips in the code, kept to show that a property notices them.

- **UdpTransport**. A `Query` is a call of `Exchange`. `Start` is the first
  critical section, `OpenReuse`, `OpenDial`, `DialOk`, `DialErr` are `open`
  (the dial happens under `t.access`), `Register` takes an id, `WriteOk`,
  `WriteErr`, `PackErr` send, `TakeAnswer`, `ConnDone`, `CtxDone` are the arms
  of the select, `Cleanup` the deferred delete, `TcpExchange` the retry of a
  truncated answer. `ContextEnds` is the end of a caller's context, which may
  come at any time or never. `Recv`, `Deliver`, `RecvErr` are `recvLoop`: it may receive
  an answer to any request that was ever written on the connection, any number
  of times, or none. `SocketClose` is the second half of
  `dnsConnection.Close`. `t.done` is a nil channel in the code, so that its arm
  never fires and closing it is the panic of `Close`.
- **DialParallel** implements **ConnRace**, the promise to the caller: at most
  one connection is returned, an error only if nothing is open, and every
  other connection is closed. Walkers are the two racers and the caller itself
  (for `DialSerial`); the request (addresses, strategy, network) is any of up to
  `MaxAddr` addresses. The timer is armed, re-armed for now, fired or off.
- **Lookup** is `LookupTransport`: an exchange for each type of record, each of
  which answers or fails, and the order of what they found. An answer may hold any
  records: the code takes A, AAAA and the hints of HTTPS records whatever it asked
  for, and a hint that does not parse becomes an invalid address. **TcpTransport** is
  `TCPTransport.Exchange`, with the goroutine that closes on the context as a
  process of its own. **Sockets** has no state: the decisions of
  `DefaultDialer.DialContext` and `ListenPacket`, of the listeners, and the
  predicates of `meta.Network` and `Socksaddr` under them, inverted as they are in
  the code. Their actions leave the variables of other components alone only
  through the module that composes them:
- **Endpoints** composes Lookup, DialParallel, TcpTransport and Sockets into one
  call, from a name or an address to a socket: `DialContext` and `ListenPacket` of
  the default dialer, of a resolving dialer over it and of one over any other
  dialer; `ListenTCP` and `ListenUDP`; `TCPTransport.Exchange`; `DialParallel` by
  itself. `StartLookup`, `LookupStep`, `LookupError` are the look-up, `DialFound`
  hands its addresses to DialParallel or DialSerial, `PacketFound` and
  `ListenFound` to the walks of the serial functions. The call, with its network,
  strategy, address and bind addresses, is chosen in `EInit`.
- **Deadline**. `SetStop` takes the mutex and stops the timer, `SetApply` goes
  on once a callback that had already started is through; `Fire` and
  `Callback` are the runtime's timer; `Wait` and `Wake` a user of the channel.
  Channels are numbered as they are made. It implements **DeadlineChannel**, the
  promise to whoever selects on `Wait`: the channel closes once, only a `Set`
  after that replaces it, and a replaced channel is closed.
- **Pipe**. One direction, from the end "writer" to the end "reader"; the other
  is its mirror image. `Transfer` is the rendezvous on the byte channel, `Reply`
  that on the count. A goroutine that reads does so again and again, with a
  buffer of another length each time. The bytes that crossed are recorded in
  `stream`. Of its deadlines it keeps the two variables of DeadlineChannel for
  each end; `Expire` and `Refresh` are that module's steps written out for an end.
  A call sees the channel it took at its select, which may have been replaced
  since.
- **UdpNat**. A `Packet` is a call of `NewPacket`, from `Lookup` through
  `Refuse` or `Create` to `Deliver` or `Enqueue`; `SetHandler`, `Drain`,
  `DrainEnd`, `Read`, `Close` are the owner of a connection, `Evict` the cache,
  `NatClose`, `NatCloseKey`, `NatCloseEnd` the loop of `UdpNat.Close`.
- **TfoConn**. `WriteLook` and `ReadLook` are the unsynchronised reads of
  `c.conn`, which may still find nil between the store and the close of
  `c.create`; `WriteLate` and `WriteDial` are the select under the mutex. A Write
  that `WriteLate` sends on to the connection keeps the mutex until `WriteEnd`, the
  return of the connection's own Write, which may never come.
- **LocalTransport**. A `Call` is a call of `Exchange`. `InitOnce`, `NoReload`,
  `Acquire`, `Stat`, `Open`, `Read` are `tryUpdate` and the file accesses of
  `dnsReadConfig`, whose interpretation of the lines is the operator of that
  name, line after line as in the code; `MeansServers` and `MeansSearch` state its
  result without the loop; `Load` takes the configuration and starts the tries. `Update` and `Pull`
  are `tryOneName` up to `pullTransport`; `Report`, `CtxDone` and `RacerEnd` the
  selects of `exchangeParallel`. `FileChange` rewrites or removes the file at any
  moment. A server's string is a tuple of its parts, so that "address" and
  "address:53" differ as they do in the code. What follows a successful
  `pullTransport` (`exchangeOne`, attempts, rotation) is unreachable and left
  out.
- **DnsCache**. `Hit`, `Miss`, `Remove` are the look-up, `Lead`, `Join`,
  `Construct`, `Store`, `FlightEnd`, `Wake`, `Finish` the flight; `FormatError`
  and `Uncached` the messages that the cache does not serve. Messages live at
  pointers, so that the sharing of one message between callers and cache is
  visible. The EDNS record's version is in its TTL field, and so `OverwriteTTL`
  changes it (`OptVersion`).
- **Hosts**. The lock is held for all of a `Lookup`, so that one runs at a time:
  `Lookup`, `StatFile`, `OpenFile`, `ReadLine`, `ReadEOF`, `ReadErr`. `Change` and `Unlink`
  are the file's writers, which may replace the file, or write into the one that
  is open, between any two of these steps. A line that fills the reader's buffer
  comes in parts, and is lost at the end of a file without a newline. `Says` states what a number of
  lines say of a name without computing it: which line each address is from, in
  order, and as often as the line has the name.
- **SocketBind**. A `Socket` runs its control functions: `BindToInterface0`, the
  finder's `ByName` (`Load`, `Scan`, `InterfaceByName`, `Update`, `Store`, and from
  the start again), `SetsockoptInt` or `BindToDevice`, and the `Rest` of the
  options. The slice `f.interfaces` is read and written word by word, as nothing
  guards it; `LinkChange` changes the interfaces of the system at any moment.

**Filters** is the filter of slices that DialParallel, Lookup and LocalTransport use. The MC modules
give the constants their values for TLC (Endpoints needs none: its bounds are in its
cfg); the Proofs modules hold the theorems.

Outside the repository and modelled from its use: the LRU (`go-freelru`: may
drop any entry and then calls `onEvict`, replaces a present key without it),
`singleflight`, `threads.Group` (its `Run` waits for all of its goroutines),
`dns.Msg.Copy`, timers, sockets, the interfaces of the system and the network.

## Runs

| run | what it shows | bounds |
|---|---|---|
| `UdpTransport` | `OneLiveConn`: callers that race to dial leave one connection. `AnswerMatches`, `WaiterRegistered`: until the ids wrap no call gets a foreign answer or loses its callback. `CallbackOwned`: callbacks do not leak. `SharedCause`: the calls that fail with a connection report its one cause. `CallReturns`: a call whose context has ended returns, unless it waits behind another call's dial, and one whose answer has come or whose connection has died does so without. `LoopEnds` | 3 calls, one of them over the EDNS size; 2 connections, so that one dies and is replaced under calls in every phase; 3 ids |
| `Endpoints` | `RaceSpec`: DialParallel implements ConnRace. `FallbackOnce`, `LosersClosed`. `ErrorMeansAllFailed`: its error means that every address the request allows was tried. `NameTried`: so does the error of a dial or a TCP listener for what its look-up found, with half of the look-up failed too. `FamilyKept`: a name's connection is to a valid address of a family that the network admits, found with a type that the strategy asks for. `CallReturns`: a call returns once its exchanges have ended; `ExchangeSettles`: DNS over TCP leaves neither goroutine nor connection behind | every request of up to 3 addresses, so that a family may have 0, 1 or 2; up to 2 records of any kind in an answer; every network, strategy, kind of address and dialer |
| `Endpoints_ip` | violated: `DialsAddresses` | as above |
| `Deadline` | `NoDoubleClose`, `DeadlineExact`, `TimeoutWakes` | 4 calls of `Set`, 2 waiters: a channel is replaced, closed and replaced again |
| `Pipe` | `WrittenTogether`, `CountExact`, `CloseReleases`, `ExpiryReleases` | 2 Writes and 2 reading goroutines, 0 to 2 bytes in a Write and in a buffer: a Write takes up to three rounds; one deadline renewed after it elapsed |
| `UdpNat` | `OrphanOnlyByRace`, `CloseComplete`, `HandlerTakesOver` | 3 packets of 2 sources, 3 connections, queues of 1 |
| `TfoConn` | `DialledOnce`, `NoNilConn`, `LeakOnlyByOverlap`. `Released`: a Read gets past its select once the dial has ended or `Close` was called; a Write waits for the mutex only behind a dial or a Write in the connection, and the close of the connection releases them all | 3 Writes, 2 Reads, a Close |
| `DnsCache` | `OwnReply`, `RightAnswer`. `NoLongerThanTTL`: a record is promised for no longer than its own TTL or `MinTTL`. `CallReturns`: a call gets into a flight, and returns once the flight's constructor has | 3 callers, 2 questions, 2 ticks a second, 2 ticks; an answer with a TTL of zero between others and an EDNS record |
| `DnsCache_ttl` | violated: `ServedForTTL` | as above |
| `LocalTransport` | `ConfigCurrent`: a configuration that will not be read again is what the file says. `ConfigForward`: reloads never go back to an older file. `CallSettles`: calls return and leave no racer behind | 2 calls, one racing and one that tries name after name; a missing file or 2 texts, with too many servers and no search list among them; 3 versions, 3 units of time: two reloads, each with a change under it |
| `Hosts` | `HostsCurrent`: the time and size on record vouch for the names on record. `HostsFresh`: the cache is never older than its age | 4 texts (a name in two cases, twice on a line, on two lines; bad addresses; lines that fill the buffer), times of modification up to 3, an age of 2 in 4 ticks: an update that reads half of a change and the one that repairs it |
| `SocketBind` | `BoundToNamed`: no socket connects unbound, or bound to what its interface never was. `BindReturns`: the finder's recursion ends | 2 sockets, 2 names of interfaces, 3 changes of them; a name, an index, both, neither, a negative index: an interface goes and another takes its name while both sockets are in the finder |

The bounds are named constants: `MaxConn`, `IdSpace`, `MaxAddr`, `MaxAnswer`,
`MaxSets`, `MaxLen`, `MaxRefresh`, `Capacity`, `Second`, `MaxTime`, `MaxVersion`,
`MaxJob`, `MaxChange`, `MaxClock`. None of the properties depends on more actors than the runs
have: each hazard is a race of two calls, with a third that comes before or
after. The run of UdpTransport does not get to ids that wrap; its properties speak
of the time before, and the theorems prove them for any number of ids. Deadlock
is checked for `Hosts`, whose look-ups go on for ever; elsewhere it is not, because a
finite number of calls ends, and that no call is stuck is what the liveness
properties say.

Symmetry is used by `UdpNat` only, which checks safety, over packets that the
specification does not tell apart.

Fairness: goroutines are scheduled, so that a step which stays possible is
taken (weak fairness of the steps of a call that has begun, of `recvLoop`, of
timers that were started and of dials, which end by their timeouts). No context is
assumed to end: no code that is reached gives one a deadline, so the properties say
what a call does once its caller's context has ended. In UdpTransport a dial and a
TCP exchange need not end before that either. In LocalTransport a race of no names
at all is the one call that its context has to end. In Endpoints nothing is assumed
of the exchanges of a look-up, or of the server of a TCP exchange: `CallReturns`
promises the return of a call for a name after its exchanges have ended, and that
of a TCP exchange after its context has. (The look-up is conditioned on its
exchanges and not on the context, since an exchange that joined a flight of the
cache waits for the context of another caller.) In DnsCache nothing is assumed of
a constructor, in TfoConn nothing of a Write on an open connection. `BindReturns` needs no more than scheduling, since the
interfaces change a bounded number of times and then settle; were they renamed for
ever, the finder could follow them for ever. Nothing is assumed of the network, of
calls that were not made, or of `Close`.

## Findings

1. `defaultCache.Store` adds the TTL as nanoseconds: entries expire before they
   can be served (`DnsCache_ttl`).
2. `DefaultDialer.DialContext` refuses addresses and dials names, the opposite of
   its documentation (`Endpoints_ip`): the test of `FqdnOnly` is inverted. A
   resolving dialer over it, which hands it addresses, never connects.

Other behaviour met while modelling, which the models contain but no run is
about:

- A lost answer is waited for until the caller's context ends, and for ever under
  a context without a deadline. `t.access` is held across the dial, and the wait for
  it heeds no context.
- A caller that joined a flight of the cache waits for the leader's exchange, and
  so for the leader's context; its own is not looked at.
- The strategy of a resolving dialer decides which types are asked for, and
  nothing else: an AAAA record in the answer to an A question is dialled under
  `StrategyIPv4Only`.
- A listener stops with an error at an HTTPS hint that did not parse.
- The test of versions that follows (default.go:49) is inverted as well, and so
  are `Is4` and `Is6` of `meta.Network`. `ListenTCP` asks for version 6 when its
  family is 4. With a network of both versions, `ListenUDPSerial` skips every
  address and wraps an error that is nil; `NameTried` leaves UDP listeners out.
- A listener on an empty host has nothing to look up and fails.
- A look-up whose answers hold no address returns neither addresses nor an error;
  `ListenPacket` of the resolving dialer then dereferences nil.
- A `DialParallel` over the default dialer takes its strategy, "prefer6", whatever
  the resolving dialer's is.
- `pullTransport` looks an address without port up among servers that have one
  (local.go:247-251 against 328): no query of a `LocalTransport` reaches a server.
- `UDPTransport.Close` closes `t.done`, which nothing makes, and panics; so does
  the first request with an EDNS size above the default.
- `UdpNat.NewPacket` reports a connection it made in place of a closed one as
  not new, and frees a dropped packet's buffer twice (new.go:70).
- `exchangeSingleRequest` returns neither message nor error for a list of no
  names (the result "nil"), which a caller such as `LoadOrStore` dereferences.
- A connection that a `TFOConn` dials while `Close` runs stays open
  (`LeakOnlyByOverlap` says that this is the only way). A Write that is blocked in
  it then stays so, and with it, since it may hold the mutex, the Writes behind it.
- Overlapping `NewPacket` calls of one source orphan a connection
  (`OrphanOnlyByRace`).
- A packet enqueued while `SetHandler` returns waits for the next `Read`
  (`HandlerTakesOver` names those packets).
- `CalculateTTL` starts anew at a TTL of zero, so that a record up to it may be
  promised for longer than its TTL; the OPT record's field, which is zero for EDNS
  version 0 without flags, counts as a TTL, and `OverwriteTTL` writes over it.
- The last line of a hosts file is lost if it fills the reader's buffer exactly
  and has no newline; a file that was removed continues to be served.
- The finder hands out the index of an interface that is gone, which the system
  accepts: the socket is bound to nothing that exists. Two dials that update it
  at once may read the length of one slice with the array of another, and panic.
  `ifIndexDisabled` is set for good.
- `NewResolvDialerWithStrategy` changes the strategy of a dialer it is passed.

## Proofs

Proved with TLAPS for every value of the constants, subject to their named
assumptions, which TLC evaluates on every run: bounds are natural numbers
(`MaxAddrAssumption`, `MaxAnswerAssumption`, `MaxSetsAssumption`,
`MaxChangeAssumption`, and with other facts `ConstantsAssumption`,
`NatAssumption`, `BoundsAssumption`, `CacheAssumption`, `LocalAssumption`,
`HostsAssumption`); the value "None" is none of the calls (`NoneAssumption`, and
parts of the others); functions and texts of files given as constants have their
types; a query id has at least two values; the cache of the hosts file is trusted
for some time; a system has finitely many names of interfaces (`NameAssumption`),
whose indices are not zero (`AsksAssumption`). Each proof rests on an inductive invariant, which TLC
checked on the instance of its run before it was proved, since the property by
itself is not kept by every step.

- **UdpTransportProofs**. `TypeAndPlace`: types, together with `Located` (a call
  past `open` has a dialled connection) and `HandTyped`. `OneLive` adds
  `Dialling`: whoever dials holds `t.access` and has found the connection dead,
  which is why a second live one cannot appear. `NoCallbackLeak` is inductive
  over the first. `IdsOnce`: until they wrap, ids are handed out in order and
  hence once. From it `WaitersRegistered`, by `InPlace` (nobody else's
  registration or delete hits the id), and `NoForeignAnswer`, by `HandOwned`
  (what `recvLoop` looked up belongs to the call whose answer arrived).
  `CauseShared` needs `ErrOrigin`: a connection's error is written once, when it
  is closed.
- **EndpointsProofs**, first about DialParallel alone. `RInvariant` ties the
  phase of the call to the state of its walkers (`Phase`) and to who holds a
  connection (`Holding`). From it `NoLeak`, `OneFallback`, and `ImplementsRace`:
  every step is a step of ConnRace or leaves it unchanged. `ErrorsTryAll` adds
  `LInv`: an address that is due is in the list of a walker or has failed
  (`Remaining`), and a walker gives up only at the end of its list (`WalkedAll`).
  That the lists begin with all that is due comes from lemmas about `Filter`, the
  sort and the split by family (`FilterIn`, `SortIn`, `VersionIn`, `SerialHasDue`,
  `RaceHasDue`). Then about the whole call, in which DialParallel's steps are some
  among others: `EInvariant` adds what the look-up has found and was asked for
  (`LookupState`), that a dial is of exactly that (`DialState`), and what a
  listener has tried (`TriedState`). From it `CallsRace` and `CallsDial` (the
  results above, within a call), `FamiliesKept`, and `NamesTried`, which counts:
  joining two lists adds up what they have of a family (`CountJoin`).
- **PipeProofs**. `PInvariant`: `wrMu` is held by the one Write past the lock
  (`Holder`), a count is replied by one reader while a Write waits for it
  (`OneReply`), counts never exceed the Write (`Counts`), and the bytes of a Write
  in the stream are its first `k` in one block, which ends the stream while the
  Write holds the lock (`InBlock`); `k` is what it has counted, and what the reply
  under way will add. From it `Together` and `CountsAreExact`. Then about Deadline:
  `DInvariant` with `TimerInv`: a timer that has not yet closed the channel is the
  only one that will, and a callback that is under way will close the current
  channel. From it `TypeCorrect`, `ClosedOnce`, `WaitersCurrent`, `ExactDeadline`,
  and, with `ReplacedIsClosed`, `ImplementsChannel`: every step is one of
  DeadlineChannel or leaves it unchanged. `WaitersSee` says that a waiter sees of
  its own channel, old or current, what DeadlineChannel says. So a Deadline does
  nothing that DeadlineChannel does not, which is why Pipe may have the steps of
  DeadlineChannel where the code has a Deadline.
- **UdpNatProofs**. `NInvariant`: a cached connection belongs to its key
  (`CacheOwner`); where a call is about to make a connection, an open one in the
  cache was added since its look-up (`AddedSince`), which gives `OrphansByRace`;
  what `UdpNat.Close` has not closed is cached under a key it has still to visit
  (`ToVisit`), which gives `NatCloses`; whoever is on the way to a drained queue
  is among the late (`Drained`), which gives `HandlerHasAll`.
- **TfoConnProofs**. `CInvariant`: the mutex is held by the Write that dials, or by
  one that is in the connection after the dial (`Holder`);
  before, during and after the dial, what `conn`, `err`, `create` and the socket
  may be; and that `Close`, once `done` is closed, meets a dial under way or none
  (`Closing`). From it `OneDial`, `ConnUsable`, `LeakOverlaps`.
- **DnsCacheProofs**. `DInvariant`: what a call may hold at its step (`Calls`),
  that the message of a constructor answers its question (`Sent`), that the leader
  of a flight asks for what has the flight's key (`Flights`), and that an entry of
  the cache is such a message with the expiry of its TTL (`Kept`). From it
  `RepliesAreOwn`, `AnswersAreRight` and `NeverLonger`. The last needs that
  the seconds left of an entry do not reach past its expiry, and that
  `CalculateTTL` is at most the TTL of every record from which on none is zero, for
  any number of records (`TTLIsLeast`).
- **SocketBindProofs**. `BInvariant`: every entry that a word of a slice, old or
  new, shows was once a name's index (`Known`), so that a torn read of the
  finder's slice yields an error, a panic or an index the interface has had
  (`OnTheWay`). From it `BindsRight`.
- **LocalProofs**, first about LocalTransport. `LInvariant`: whoever reloads is
  inside `initOnce` or holds the semaphore, and is alone (`Apart`); a file that was
  opened is no older than the version on record, and no newer than the file
  (`Seen`); a configuration with the time of the file is `dnsReadConfig` of its text
  (`Configured`). From it `ReloadsForward`, and `ConfigIsCurrent`, which rests on
  what the loop over the lines computes, for any lines: the first `MaxServers` of the
  good servers (`ServersList`), the search list of the last line that sets one
  (`SearchLast`, `FilterLists`). Then about Hosts. `HInvariant`: a file that changes
  gets a time and size that come after all earlier ones, so that what was once seen
  of another file is never the file's again (`Stamps`); while the time and size that
  the update saw are the file's, the file that is open has its text, and the lines
  read so far say what `byName` has (`Reading`); whatever was looked at after the last
  change is the file (`Ages`). From it `HostsAreCurrent` and `HostsAreFresh`.
  `SaysMore` shows that one line more adds to a name what it says of it.

`NoLeak`, `WaitersCurrent`, `WaitersSee`, the invariants themselves, the two
`TypeCorrect` and `ImplementsChannel` state what no run repeats,
since the runs check what follows from them.

What a recursive function computes is proved by an induction of its own kind:
`SetInduction` (a set of naturals with zero and all successors is all of them,
from the existence of least elements) is stated for a set, not for a predicate, and
so can be used for `Filter`, `CalculateTTL`, `ServersOf` and `SearchOf`. `Recursion`
derives from it that a function defined by recursion on a bounded range has values
and obeys its equation.

Every safety property of a passing run is stated by a theorem. Only model-checked
are the liveness properties (`CallReturns`, `LoopEnds`, `LosersClosed`,
`ExchangeSettles`, `TimeoutWakes`, `CloseReleases`, `ExpiryReleases`, `Released`,
`CallSettles`, `BindReturns`): they need fairness and ENABLED, out of the prover's
reach. Nothing is proved of the two properties that runs show to be violated.

## Not modelled

- `netio/copy.go`: which of its ends is closed, and when, is decided by
  `iolib.Copy` and by the cleanup of `threads.Group`, outside the repository; a model
  of what is left would be one of these libraries.
- `exchangeUDP` (called by nothing), the part of `local.go` behind a successful
  `pullTransport` (unreachable: `exchangeOne`, attempts, rotation) and `exchangeTCP`,
  which only that part calls; `ByIndex` and `ByAddr` of the finder; the commented
  half of `default.go`.
- The address rewriting of NAT packet connections (`netio/nat.go`), parsing and
  formatting of addresses, networks, protocols (`meta/protocol.go`) and URLs:
  functions of strings or of one address, without state.
- Buffer reference counts, the accessors of connections, logging, error texts, and
  the variants of `control` for systems other than Linux.

An unsynchronised read of an interface value (`c.conn` of TfoConn) is modelled as
old or new, not as a torn pair of words; that of a slice (SocketBind) is torn.

Assumed of the files: two versions of `resolv.conf` have different modification
times, two of the hosts file differ in time or size; a read of `resolv.conf` that
fails midway, which the code takes for the end of the file, does not happen. The
branch for Windows, which reloads without comparing times, is left out. Assumed of
the system: it accepts any positive index for SO_BINDTOIFINDEX, and never uses an
index twice. What becomes of a nil error that is wrapped (`ex.Cause`) is left
open: an error, or none.
