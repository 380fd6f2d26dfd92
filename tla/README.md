# A TLA+ development of coversocks

coversocks is a proxy in two halves.  A **client** listens for SOCKS and HTTP
proxy connections (and fixed port forwards), and carries each of them over a
websocket to a **server**, which dials the target.  Websockets are expensive to
set up, so one websocket, a *channel*, is used for many proxied connections,
one after the other, and the client keeps a pool of idle channels.

This directory models the parts of the code whose correctness depends on the
order of things: the channel protocol, the pool, the ordering of servers, the
UDP gateway, the server's listeners and its user store, the client's start and
stop, the way of a request to a server and the websocket dial under it.  TLC
checks the models on small instances, TLAPS proves the invariants that matter
most for all values of the constants.  `PROJECT.json` lists components, runs,
findings, hazards, theorems, and for every definition the lines it models.  File
and line references below are to the repository, e.g.  `core/cs.go:476`.

| module | what it is |
|---|---|
| `Channel.tla` | one channel and both its ends over reused sessions: `core/cs.go` |
| `Tunnel.tla` | what a channel promises; `Channel` implements it |
| `Pool.tla` | the client's pool of channels: `core.Client` in `core/cs.go` |
| `Lease.tla` | what the pool promises; `Pool` implements it |
| `SortedDialer.tla` | the list of servers and its sort: `core/dialer.go` |
| `Udpgw.tla` | one UDP gateway: `udpgw/udpgw.go` |
| `Listeners.tla` | the server's listeners, restart and stop: `cs_server.go` |
| `Auth.tla` | the users and their file: `core/auth.go`, `core/utils.go` |
| `Client.tla` | the client's start, stop, forwards and proxy mode: `cs_client.go` |
| `Routing.tla` | direct or through a server, and the cache of it: `core/gfw.go`, `core/dialer.go` |
| `Websocket.tla` | the dial of a websocket and its TLS handshake, under `Routing` |
| `MCPool.tla`, `MCSortedDialer.tla`, `MCRouting.tla` | definitions for TLC: symmetry, server lists, hosts and rules |
| `ChannelProofs.tla`, `PoolProofs.tla`, `SortedDialerProofs.tla`, `UdpgwProofs.tla`, `ListenersProofs.tla`, `AuthProofs.tla`, `ClientProofs.tla`, `RoutingProofs.tla` | theorems and proofs |

To check one: `tlc -config Pool.cfg MCPool`; to prove: `tlapm PoolProofs.tla`.

## 1. Inventory

### Channel protocol (`core/cs.go:17-261`, `449-542`)

*State.* A `ChannelConn` wraps the raw connection at each end: `Error` (nil
until a read or write fails), `Using` (the name of the session, or empty),
`LastUsed`.  *Operations.* `ReadFrame`, `WriteFrame`, `WriteCommand`, `Read`,
`Write`, `Close`; on the server the loop `Server.ProcConn`; on the client
`DialBack`, `DialConn`, `DialPiper` and `piperConn`.  *Interactions.* Four
frame kinds go over the link: dial, back, data, close.  A session is a dial, a
back that says OK, data both ways, and one close frame from each end; then the
channel is quiet and the next session may use it.

*What is hard.* Frames carry no session number, so the two ends stay in step
only because each reads up to the other's close frame.  Two copies per end run
concurrently, both ends may close at once, `Close` without an error leaves the
raw connection open and merely writes a close frame, and it is called from
outside the session too: on expiry, on eviction, by `Client.Close` and by
`Server.Close`, at any moment.  `DialBack` reads without a timeout.

*Correct when* what a user receives is a prefix of what the target sent in the
same session; a dial's answer is the answer to that dial; a dial never hangs;
a session whose user leaves is ended; and the server's goroutine of a dropped
channel ends.

### Client channel pool (`core/cs.go:273-447`)

*State.* `conns` (channels never yet pushed back), `idles` (channels to be
reused), both under `connsLck`; the `exit` channel of capacity 1.
*Operations.* `pullConn`, `pushConn`, the retry loop of `DialBack`, `procLoop`
with `timeoutConn` and the dialers' test, `Client.Close`.  *Interactions.*
Every proxied connection is a goroutine that pulls, dials and pushes; the loop
closes channels older than `KeepIdle`; a new channel is dialed by the sorted
dialer.

*What is hard.* The lock is released between the steps; a channel is in one of
two maps, or in neither while a reused channel is in use; the eviction closes a
channel and leaves it in the pool; `Client.Close` lists under the lock and
closes after it.

*Correct when* no two requests have one channel, nothing closed by the timer is
handed out, no channel is lost, a request is always answered, and `Close`
returns.

### Sorted dialer (`core/dialer.go:330-507`)

*State.* `keys`, the counters of each key, the flag `sorting`, `sortLock`.
*Operations.* `Dial`, the sort goroutine it starts, `Less`, `Swap`, `Len`,
`Test`, `State`.  *Interactions.* The pool's `pullConn` dials through it, and
the pool's loop calls its `Test`.  *What is hard.* `Dial` walks `keys` without
the lock while `Swap` writes it; the average divides by a difference of
counters other dials move; `Less` has a tolerance.  *Correct when* nothing
divides by zero, no server is lost, a failed dial has tried all, and the sort
yields an order and can run again.

### UDP gateway (`udpgw/udpgw.go`)

*State.* `connList`, one UDP socket per connection id chosen by the client,
under `connLock`; a process-wide list of gateways for the timer.
*Operations.* `PipeConn` with `procData`, `limitConn`, one `procRead` goroutine
per socket, `procTimeout`, `cloaseAllConn`.  *Interactions.* The server's
`DialPiper` makes one gateway per session with `tcp://udpgw`; `procRead` writes
to the channel.  *What is hard.* A socket is closed by one goroutine and
unlisted by another, by its id, which may be in use again; `PipeConn` does not
wait for the goroutines it started.  *Correct when* the list keeps its limit,
no open socket is out of the list, and none outlives its gateway.

### Server front end (`cs_server.go`)

*State.* The map `servers` from address to `http.Server`, the wait group.
*Operations.* `runServer` per address, `ProcRestart`, `Stop`, `Wait`,
`wsHandler`, `DialPiper`.  *What is hard.* A restart closes one runner, sleeps,
and starts another while the first is still unlisting itself *by address*; a
listen or an accept that fails ends a runner, and nothing tries again.
*Correct when* `Stop` finds all runners, `Wait` waits for them, and an address
is served again after a restart unless its listening or an accept failed.

### Authentication (`core/auth.go`, `core/utils.go:63-79`)

*State.* `normalUser` under `userLck`, and a JSON file.  *Operations.*
`AddUser`, `RemoveUser`, `BasicAuth`, `ListUser`, reading the file at start.
*What is hard.* The file is truncated and rewritten, which can fail or be cut
short by the end of the process; the map is changed first.  *Correct when* who
can log in is who the administrator was told can.

### Client front end (`cs_client.go`)

*State.* The two proxy servers, the manager's http server and its listener, the
map of forwards, the mode in `Conf`, in the configuration file and in the
system.  *Operations.* `StartClient`, `Start`, `startForward`, `Stop`, `Wait`,
`ChangeProxyMode` and the manager's handlers.  *Interactions.* `main` starts a
client, waits for it and ends the process; `Start` wires the routing, the pool
and the sorted dialer together; a `Start` that fails calls `Stop`.  *What is
hard.* `Stop` finds whatever a `Start` that failed half way has left, also when
`StopClient` is called after it; each forward listens and registers in a
goroutine of its own, before, during or after `Stop`; `WaitClient` returns in
the middle of `Stop` and `main` then ends the process; the handlers change three
places without a lock, also those of a client that was stopped.  *Correct when*
nothing of a stopped client listens, what `Stop` must keep is kept when the
process may end, whoever waits is released, and system, memory and file agree on
the mode.

### Proxy routing (`core/gfw.go`, `core/dialer.go:509-693`)

*State.* The rules of `GFW`; the cache of `AutoPACDialer` and its file.
*Operations.* `GFW.IsProxy`, `PACDialer`, `AutoPACDialer` and `SkipDialer`'s
`DialPiper`, `SaveCache`, `LoadCache`.  *Interactions.* `Start` puts a
`SkipDialer` before the pool for one proxy server and a `PACDialer`, with an
`AutoPACDialer` behind it, for the other.  *What is hard.* `GFW.Find` walks the
parents of a domain by index; the cache is read, the host dialed twice, and the
cache written by what was read, with other requests and `SaveCache` in between;
the file is truncated and written while the process may end.  *Correct when* a
listed host never goes out directly, and the cache sends to a server only what
has earned it and forgets nothing that was saved.

### Websocket dialer (`core/dialer.go:225-328`)

*State.* Per dial: the raw connection, the handshake goroutine, a timer, and
the channel both report to.  *What is hard.* The dial goes by the first report
and the other party lives on; the websocket handshake has no timeout.  *Correct
when* a dial that failed leaves neither a connection nor a goroutine, one that
succeeded has its handshake done, and a request ends.

### Not modelled

* **Common helpers** (`cs_common.go`, `log.go`, logging in `core/utils.go`):
  parsing of port ranges and logging; no state.
* **Addresses of a server** (`ClientServerDialer` in `cs_client.go:44-122`): it
  has one address per entry, so the round robin has nothing to choose, and
  `Bootstrap` only builds the list that `SortedDialer` starts with.
* **Handlers that only serve files or state** (`PACH`, `StateH`,
  `UpdateGfwlistH` in `cs_client.go`): the last replaces `gfwlist.txt`, which
  the rules of a running client do not follow (see section 6).
* **`NetDialer`** (`core/dialer.go:115-223`): a dial that succeeds or fails.
* **Ping** (`core/cs.go`): it runs on a connection of its own and is a step of
  `Pool` that may end or not.
* **Configuration, certificates and the login of a channel** (`cs_server.go`,
  `core/auth.go:87-130`): a check of a password that reads the users only.
* **System proxy and command line** (`cs_linux.go`, `cs_darwin.go`,
  `cs_windows.go`, `udpgw/server/server.go`): flags, signals and platform
  commands.  `main`'s calls and its end are in `Client`.

## 2. Module by module

### `Channel.tla` and `Tunnel.tla`

| TLA+ | code |
|---|---|
| `wire[e]`, `raw[e]`, `cut` | the websocket: frames on the way to end `e`, its close, its loss |
| `err[e]`, `using[e]` | `ChannelConn.Error`, `ChannelConn.Using` |
| `pc["client"]` | the request that has the channel: `idle` (in the pool), `dialing` (in `DialBack`), `dropping` (its error path), `piping`, `gone` |
| `pc["server"]` | `ProcConn`: `reading`, `dialing` the target, `piping`, `stopped` |
| `dir[e]` | the two copies of the copy piper (external, `xio.CopyPiper`) |
| `local[e]` | the user's, or the target's, connection |
| `WriteFrame`, `Close`, `Break` | the methods of `ChannelConn` |
| `ClientDial` ... `ClientPipeEnd` | `DialBack`, `DialConn`, `DialPiper`, `piperConn.Close` |
| `ServerReadDial` ... `ServerPipeEnd` | the loop of `ProcConn` |
| `PipeData`, `PipeStop`, `PipeSend`, `PipeClose` | one step of a copy |
| `UdpgwRead`, `UdpgwWrite` | the `procRead` goroutines, a read and its later write |
| `Expire`, `Evict`, `ClientList`/`ClientShut`, `ServerShut` | `timeoutConn`, `pushConn`, `Client.Close`, `Server.Close` on this channel |
| `Cut`, `IdleTimeout` | a lost TCP connection, the listener's timeout (`cs_server.go:43-57`) |

A frame has a history field `sess`, the session it was written for.  No guard
reads it, except that the server remembers it in `serving` where the code has
the target's address; it is there to state the properties.  `accepted`, `sent`
and `got` are histories too.  A write on a dead link either fails or is lost in
a buffer, and a lost link may keep any prefix of the frames in flight.

`late` are the datagrams that `procRead` goroutines have read and not yet
written, any number of them, since every socket has a goroutine of its own.  The
gateway of a session opens sockets on the frames the session's user has sent.
The end of the session closes those that are listed; a socket that an older
`procRead` of its id has unlisted (`udpgw.go:150`, `OrphanByLateExit` in `Udpgw`)
is read on.  So `UdpgwRead(s)` is possible from the first frame that the gateway
of *s* has got, during the session, after it, and in later sessions.

`Tunnel` says what a channel is for: sessions in sequence, each a pair of byte
streams, never mixed, with nothing promised about delivery.  Its constant
`Datagram` is the set of sessions that carry datagrams: from the first of them
on the client may get their messages in a later session or out of turn
(`ReceiveStray`), but none twice, and the server still gets a private stream.
The server may also send for such a session when it is over (`SendLate`).
`Channel` implements it, with `Datagram <- Udpgw` and the phase of a session
computed from `pc`, `sess`, `serving` and `accepted` (`ImplementsTunnel`).

### `Pool.tla` and `Lease.tla`

A channel is the number of its creation, so the oldest is the least.  `stale`
are the channels the client itself has closed while they stay in a map; what a
dial on such a channel does is what `Channel` shows (`EvictedNeverServes`): it
fails.  `old` moves with the clock: channels up to it are older than
`KeepIdle`.  The actions of a request are the calls it makes: `PullIdle`,
`PullNone`, `PullNew`, `PullFails` (`pullConn`, whose dial runs without the
lock), `WriteDial`, `DialFails`, `DialOk`, `DialRefused` (`DialBack`,
`DialConn`), `PipeEnds`, `PipeBreaks` (`piperConn.Close`).  `PushConn` closes
the oldest idle channel when the pool is full and, like the code, leaves it in
`idles`.  `Tick` is one tick of `procLoop`, `CloseCall` to `CloseReturns` are
`Client.Close`.

`Lease` is a map from channels to places: unmade, idle, gone, or a request.
`Place(c)` is the refinement mapping.

### `SortedDialer.tla`

One action per critical section of `Dial` (`ReadKey` reads an element of `keys`
without the lock, `Begin` counts the try, `DialOk` and `DialFails` its result,
`Return` starts the sort goroutine), one per comparison and per swap of the
sort.  A Go string is two words, so an element read while `Swap` writes it is
the old key, the new key or a mix of the two, `Torn`: `Elements`.  A mixed key
has no dialer and the call of the nil interface panics (`pc = "panic"`).
`sort.Sort` on at most twelve elements is an insertion sort; `place` is its
position.  Error rates are pairs of counts, compared as fractions.  The sort
delay is not modelled because it never delays: `sortTime` is never assigned
(`dialer.go:394`).  `MaxTry` bounds the tries of a key, and keys outside
`Repeated` are tried once (`MayTry`).

### `Udpgw.tla`

A socket is the number of its creation; `connList` maps ids to sockets, and
`recent` orders them by `latest`.  `Frame`, `Limit`, `Dial`, `Write`, `Ends`,
`CloseAllConn` are the loop of `PipeConn`, split where the code releases
`connLock`.  `Datagram`, `Forward`, `ReadFails`, `Unlist`, `CloseRaw` are one
`procRead`, whose deferred calls are two steps.  `Timeout` is a tick of
`procTimeout`, which closes any number of the least recent sockets.

### `Listeners.tla`

A runner is one call of `runServer`; `run` follows it from registering to `Done`
on the wait group.  `Listen` is `net.Listen` and `Serve` the call after it: in
between a runner holds the port although `Close` finds no listener to close, so
a closed runner may still be in the way (`Holders`).  `ListenFails` is every
other end of `net.Listen`: another runner has the port, or another program, or
the address is bad.  `AcceptFails` is a `Serve` that returns by itself.  After
both the runner is over and nobody tries again; `lost` is the history of the
addresses this has happened to, without the runners that were to end anyway and
those that failed because another, which nobody has closed, has the port.
`Pick`, `CloseOld`, `RunNew` are `ProcRestart`, split where it generates a
certificate and where it sleeps: the sleep is no bound on what the old runner
does meanwhile.  One call of `ProcRestart` is under way at a time.  `stop` is
`clean` when `Stop` found every live runner.

### `Auth.tla`

`Change`, `OpenFails`, `Truncate`, `Save`, `SaveFails` are `addUser` or
`removeUser` (an entry of `None`) with the steps of `ioutil.WriteFile`.  The
file is what was last written and whether it is `readable`: a beginning of a
JSON object is no JSON, so a torn file gives an empty map (`auth.go:36-37`), as
does a missing one.  `Restart` may come between any two steps.  `expected` and
`lost` are histories.

### `Client.tla`

A client is the number of the `StartClient` that made it, and `bound` says
whose listener each port has.  `pc` goes through `Start` (`Rules`,
`ListenProxy`, `ListenAuto`, `ListenManager`, `SetMode`) and `Stop` (`Save`,
`Unmanage`, `Unserve`, `Unauto`, `Unforward`) in the order of the code, each
step one that may fail; every failure but those before the deferred call leads
to `Stop`.  The auto proxy and the manager listen only if the configuration has
their address (`cs_client.go:424`, `432`).  A `Start` that fails leaves
`clientInstance` set (`pc = "failed"`), so that `StopClient` may stop the client
then, for the first time or once more; `deferred` tells a `Stop` that `Start`
calls from one that `StopClient` calls.  `has` are the fields that are not nil:
`manager` without `listener` is the nil interface on which `Stop` calls `Close`
(`cs_client.go:484-486`), and a `Start` that failed up to `Boostrap` has left no
`client`, the `core.Client` that `Stop` closes (483).  Without a manager
`ChangeProxyMode` fails, which `Start` ignores.  There is one caller: `main`
starts the handler of the signals when `StartClient` has returned, and neither it
nor a test calls `StopClient` while `StartClient` or another `StopClient` runs.
`ForwardListen`, `ForwardRegister`, `ForwardEnds` are `startForward`, between
which `Stop` may run.  `WaitClient` waits for the two proxy servers, in this
order, and `Exit` is the end of the process at any time.  A handler goes through
`Native` (the system's command), `SetConf`, `Open` and `Write`
(`core/utils.go:63-70`); two writers of one file leave the end of the longer
text behind the shorter one (`Over`).  `unsettled` is a history.  That closing
a proxy server which never listened does nothing is assumed of the external
package.

### `Routing.tla` and `Websocket.tla`

A host is the sequence of its labels.  `Find` and `Check` are `GFW.Find` and
`GFW.check`; the regular expression asks whether a line without `@` *ends* with
the domain, which on labels is `Ends` for the first and equality for the others.
`Ask` chooses the first dialer, `Lookup` reads the cache under its lock,
`Direct` is the direct dial, `Proxy` hands the request to the pool, whose new
channels are dialed by `Websocket`, and `Answer` and `Learn` are the result and
the entry in the cache.  `OpenCache` and `WriteCache` are `SaveCache`, split
where the file is truncated; `Exit` may come in between.  `Listed` is what a
line of the list means, stated without the code.

`Websocket` follows one dial per request: `Connect`, `TlsHandshake` (which
starts the goroutine and the timer), `TimerFires`, `HandshakeOk`,
`HandshakeFails`, `Receive` (the first report decides) and `NewClient`.
Reports wait in `errs`, the channel `errChannel` of capacity 2.

## 3. What the runs check

Passing runs.  All but `udpgw` also check liveness, so their bounds are chosen
to stay below two minutes.  The type invariants are proved, so the runs leave
them out; `Udpgw`'s is proved but for one field (`TypesKept`).

| run | properties | instance |
|---|---|---|
| `channel` | `Isolation`, `SameSession`, `QuietPool`, `EvictedNeverServes`, `DialAnswered`, `SessionEnds` | 2 sessions, 1 data frame each way, 1 close from outside |
| `channel_udpgw` | `StrayOnlyUdpgw`, `ImplementsTunnel`, `ServerReleased` | 2 sessions, the first a UDP gateway with 2 datagrams, 1 data frame of each copy, no close from outside |
| `pool` | `Exclusive`, `NoneLost`, `ImplementsLease`, `Answered`, `CloseEnds` | 2 goroutines with any number of requests, 2 channels, `MaxIdle` 1, `TryMax` 3, one `Client.Close` |
| `sorted_dialer` | `DivisorPositive`, `SameServers`, `FailedTriedAll`, `NeighboursSorted`, `SortingEnds` | 2 goroutines, 3 servers, 2 tries of the first and 1 of the others, times 1 and 3 |
| `udpgw` | `ListLimit`, `ListedOpen`, `EndedEmpty`, `OrphanByLateExit` | 2 ids, a limit of 1, 4 sockets |
| `listeners` | `UnlistedByRestart`, `WaitsForAll`, `Served`, `StopEnds` | 2 addresses, up to 2 restarts, one `Stop` |
| `auth` | `AsAcknowledged`, `Responds` | 2 handlers, 2 users, 1 password, any number of restarts |
| `client` | `OnlyLateForwards`, `WaitedSaved`, `PanicCauses`, `ModesAgree`, `WaitReturns` | 2 clients one after the other, 1 forward, 1 handler, 2 modes of different lengths |
| `routing` | `WayKept`, `EarnedOnly`, `SavedKept`, `DialSettled`, `HandshakeEnds`, `RequestEnds` | 2 requests, one to a wss server, 3 hosts, 4 lines, 2 lives of the client |

What they show:

* **channel.**  Sessions on a reused channel do not mix: what an end hands to
  its local side in session *s* was written for *s*, in order and once
  (`Isolation`), and both ends that copy do so for one session.  A pooled
  channel has no dial or answer in flight.  A channel that was evicted and is
  pulled again never carries another session, so the eviction's leftover entry
  costs a retry and no data.  Dials are answered although nothing times them
  out, and a session whose user leaves ends at the client.
* **channel_udpgw.**  With a UDP gateway isolation fails in exactly one way: a
  user gets a datagram of an earlier gateway session, read in it or after it, or
  those of his own out of turn.  Nothing else crosses
  sessions, the targets get only their own users' bytes, and no message is
  handed over twice, in one session or in two.  So the channel implements the
  tunnel of sessions with datagrams.  The server's goroutine of a dropped
  channel ends, *with* the listener's timer.
* **pool.**  Every channel is in one place whatever the interleaving, retries
  end, `Client.Close` returns even if `procLoop` is stuck in a test.
* **sorted_dialer.**  The divisor of `dialer.go:384` is at least the number of
  dials under way.  A failed `Dial` that no sort disturbed has tried all
  servers.  Neighbours are in order after a sort; with three servers the
  insertion goes back by more than one place.  Rates that differ by less than the
  tolerance of 0.15 need at least seven tries of a server, which no run reaches:
  for them there is the theorem `SortOrders`.
* **udpgw.**  The list keeps its limit although room is made in one critical
  section and taken in another, and a socket leaves the list open only by the
  deferred delete of an older socket of its id.
* **listeners.**  `Stop` may miss a runner that a restart has unlisted, and in
  no other way; a `Stop` that finds all ends the server; an address is served
  again after each restart, unless a listen or an accept of its runners failed.
* **auth.**  An acknowledged removal is never undone, and users are lost only
  together, by a restart on a torn file.
* **client.**  Whatever step a `Start` fails at, and whenever forwards register,
  what still listens after `Stop` is a forward that registered too late, and in
  no other way.  When `WaitClient` returns, `Stop` has called `SaveCache` (whose
  error it ignores, `cs_client.go:481`) and the three ports are closed, although
  `main` may then end in the middle of `Stop`.  `Stop` panics in two cases only:
  when `Start` calls it because the manager could not listen, and when
  `StopClient` calls it after a `Start` that failed up to `Boostrap`; both leave
  nobody waiting, the first leaves the proxy open.  The mode of the
  system, of the client and of the file agree unless requests overlapped,
  reached a client outside its life, or failed.  `WaitClient` returns.
* **routing.**  A host below a line of the list never goes out directly, though
  `Find` takes it apart by indices, and a host of `proxy_skip` never goes to a
  server.  The cache and its file hold only hosts whose direct dial failed while
  a server reached them, and what a `Stop` has saved is in every later cache
  until the file is opened again, with crashes anywhere.  A dial goes by its
  handshake and not by its timer, leaves no connection behind, and its
  goroutine ends although nobody waits for it.  A request ends, unless a server
  stays silent in the websocket handshake.

Violation runs: what the repository says, and the code does not do.

| run | property | what happens |
|---|---|---|
| `late_datagram` | `Isolation` | a datagram read in a gateway session is written after it (`udpgw.go:178`) and reaches the next session's user |
| `idle_bound` | `IdleBound` | an evicted channel stays in `idles`, is the oldest again at the next push, and the pool grows past `MaxIdle` open channels (`cs.go:429-445`) |
| `close_covers_sessions` | `CloseCoversSessions` | `Client.Close` closes the channels of `conns`, where a reused one is not (`cs.go:320-334`) |

**Bounds and why they are enough.**  `Channel`: what crosses sessions needs a
first and a second session, and one data frame in each direction gives the stale
frame; order within a direction is kept by the link itself, so more frames only
lengthen the queue.  One close from outside meets every point of both sessions.
In `channel_udpgw` the gateway may read two datagrams, so that two are unwritten
at once, overtake each other, or are read in different sessions, and the next
session has one frame of its target beside them (`MaxStream`); with a close from
outside as well the run would take too long, and the theorems
`ChannelImplementsTunnel` and `OnlyDatagramsStray` have them.  `Pool`: two
requests and two channels give every race between pull, push, timer and `Close`;
one idle place makes every second push an eviction; with three rounds a request
can meet a dead pooled channel, a failed dial, and success.  `SortedDialer`:
three servers make the inner loop of the sort take several steps beside a walk
over `keys`; one server with two tries (`Repeated`) has every rate of none, one
and two errors, and the time of the others is enough to order them.  `Udpgw`: an
id that is reused while its old socket's goroutine ends needs two sockets of one
id, and a second id makes the limit bite between them.  `Listeners`: two
restarts, of one address or of both, let an old runner be late by two
generations.  `Client`: two clients give a late forward or handler of the first
in the life of the second; a short and a long mode give the torn text.  Requests
that overlap are what `ModesAgree` excludes, so one handler is enough for the
run; `OneMode` is proved for any number.  `Routing`: the hosts and lines have a
parent in the list, an exception for it (which the code ignores), a comment, and
a line that is longer than the host it ends with; two requests overlap on one
host; two lives let one load what the other saved.  `Auth` has no counters and
is not bounded in time.  Bounded counters (`MaxSession`, `MaxData`, `MaxStream`,
`MaxAdmin`, `MaxBorn`, `MaxClose`, `MaxTry` with `Repeated`, `MaxRun`,
`MaxStart`) appear as guards, and the runs with such bounds say `CHECK_DEADLOCK
FALSE`, because when a bound is reached, or when everything has been closed,
nothing more happens.  `Auth` runs with the deadlock check.

## 4. Fairness

Weak fairness stands for goroutines being scheduled; nothing is assumed of the
user, the target, `Client.Close`'s and `Stop`'s callers, or of time, unless
said here.

* `Channel!Running`: reads, the server's loop and the ends of copies.  A dial
  of the target ends, because `NetDialer` has a timeout of five seconds
  (`dialer.go:145-168`).  `PipeSend` and `LocalEnds` are not fair.
* `Channel!TimedSpec` adds the listener's idle timer, which `cs_server.go:43-57`
  installs on every connection.  Without it `ServerReleased` fails: a client
  may drop a channel with only a close frame that the server takes for the end
  of a session.
* `Pool!FairSpec` assumes that the dial of a new channel ends.  For the TCP
  dial that is so; the websocket handshake (`dialer.go:316`) has no timeout,
  and on a server that accepts and stays silent `Answered` does not hold.  A
  dial on a channel ends by `DialAnswered`.  `TestEnds` is not fair.
* `SortedDialer!FairSpec` and `Auth!FairSpec` have strong fairness on getting a
  mutex: Go's mutexes hand over to a waiter after one millisecond.
* `Listeners!FairSpec`: runners and a begun restart run on: a `net.Listen`
  returns, with a listener or an error.  Nobody has to call `ProcRestart` or
  `Stop`, and no accept has to fail.
* `Client!FairSpec`: a `Start` or a `Stop` that has begun goes on, and
  `WaitClient` returns from a server that is closed.  Nobody has to call them.
* `Routing!FairSpec`: requests go on, `SaveCache` ends, TCP dials end and timers
  fire; a TLS handshake ends when its connection is closed, and need not end
  before; the websocket handshake need not end.

## 5. What is proved

Assumptions: those named in each module on its constants
(`ChannelAssumption`, `PoolAssumption`, `SortedDialerAssumption`,
`UdpgwAssumption`, `ListenersAssumption`, `AuthAssumption`, `ClientAssumption`,
`RoutingAssumption`), which TLC evaluates in the runs.  Every proof is by an
inductive invariant `IInv`, one lemma per action or group of actions.

Liveness itself cannot be proved here (see below), so for most liveness
properties the *safety core* is proved: the part of the argument that is about
the code and not about the scheduler.  It says either that whoever waits has
somebody who can go on, or that the steps somebody has left are counted by a
number that his own steps lower and nobody else's raise.

**`ChannelProofs`**, for any number of sessions, frames and closes from outside
and any udpgw sessions: `TypeCorrect`, `PoolIsQuiet`, `BothEndsOneSession` and
`EvictedIsOver`.
Nothing in a frame says which session it belongs to, so the invariant follows a
dial through its life: a dial frame on the way to the server, the server's dial
of the target, an answer on the way back.  `OneDial` says that a client that
waits for an answer has at most one of the three and that it is for its own
session; `NoDial`, that a client that does not wait, and has not given the
channel up, has none; `Served`, that the session it has open is the last the
server served.  A step is calm (`Calm`) when it writes neither a dial nor an
answer; one lemma (`CalmOrder`) shows that calm steps keep the order, and the
dials and answers are done one by one.  `Wires` (which frames an end may find)
and `Named` (who copies does so for a session) carry the types.

`EvictedIsOver` (`Spec => []EvictedNeverServes`) is about a channel that
`pushConn` has closed as the oldest and left in the pool, from which it may be
pulled again.  The server must stop at the close frame of the eviction before it
reads the dial, although a session that has not ended at the server reads one
close frame of its own.  `Ended` says that when the client has ended its side of
a session that the server still copies, a close frame is on its way; so an
eviction, which finds the client idle, leaves the server two close frames when
it copies and one when it does not, all before any dial (`Condemned`), and
`Doomed` says that this stays so until the server has stopped.  Most steps are
`Plain`: they begin no session, read nothing at the server, and only add frames
behind those on the wire.

`SealedSessionsIsolated` is isolation with gateways on the channel: what an end
hands over in session *s* is the peer's stream of *s*, exactly (`Exact`), in
every session that is `Sealed`: at the server always, at the client when no
session up to *s* is a gateway's.  `SessionsIsolated` (`Spec => []Isolation`)
assumes `Udpgw = {}`, which makes every session sealed; without the assumption
it is false, as the run `late_datagram` shows.  `Exact` compares what was got
with what was sent, and a frame of data does not name its session, so `Private`
says where on a wire the data of a session is.  An end that copies has it at
the head of its wire, up to the first other frame; a client that waits for an
answer has it behind the answer (`Streams`); `Numbered` says that it goes on
where the end's reading stopped, and `Full` that, while the link is whole, it
is all that the peer has sent.  `InTurn` says that a dial is the last frame on
the wire but for closes, and that the server serves in the order of the dials;
`Unused` that nothing was sent or got in a session to come; `Carried` that data
on a wire was sent; `Stray` that a datagram not yet written is one of a
gateway's session served so far, so that it cannot get into a sealed stream.
Since a gateway may read after its session, this needs `Heard`: a session is
accepted only after its dial was read, so no gateway reads for a session to
come.
Most steps are quiet (`Quiet`): they begin nothing, send nothing, hand nothing
over, and read or write only closes and refusals; one lemma does them all, and
the dial, the acceptance, the answer and the two directions of data are done
one by one.

`OnlyDatagramsStray` (`Spec => []StrayOnlyUdpgw`) is what is left in the other
sessions.  `Natives` says that the data on its way to a session's user was
written for his session or for a gateway's up to it; `Once`, that a message to
the client is in at most one of three places, on the wire at one index
(`OnWire`), with a `procRead` that has not written it (`Waits`), or handed over
(`Given`), and that it was sent.  Neither needs the order of the messages, which
is lost with the first datagram.

`ChannelImplementsTunnel` (`Spec => ImplementsTunnel`) holds for any gateways
too: a message handed to a sealed session is the next one (`Receive`), another
one is fresh and of an origin that `ReceiveStray` allows; a datagram that is read
maps to `Send` while its session is open at the server, and to `SendLate` after
it.  `Accepted` relates
the history variable of the refinement to the server's place: what it copies or
has answered "ok" it has accepted.

`NobodyStuck` (`Spec => []NeverStuck`) is the safety core of `DialAnswered`,
`SessionEnds` and `ServerReleased`: `DialBack` reads without a timeout, and the
two ends of a session wait for each other's close frame, so the question is
whether both can wait at once.  `CanGo(e)` is the disjunction of the guards of
the fair actions of end *e*.  While a client waits one of the ends can go on,
and a server that has not stopped can go on or is silent, which is when the
listener's timer runs.  `Owed` says that the answer to a dial is always on its
way, as a dial, at the server, or as a frame to read; `Told`, that a server
whose copy to the channel has ended has sent a close frame that the client has
not passed; the reverse is `Ended` above; `Released`, that a goroutine that has
ended has closed what it owned.

**`PoolProofs`**, for any requests, `MaxIdle`, `TryMax` and bounds:
`TypeCorrect`, `ChannelsExclusive`, `ChannelsKept`, `ConnsDisjoint`.  None of
the invariants is inductive alone: that a pushed channel is not also idle needs
that a request's channel is in no map, which needs that a new channel's number
is in no map, hence `Made` (what the maps hold was made).  The invariant is
`IInv == TypeOK /\ Made /\ Exclusive /\ NoneLost /\ ConnsNotIdle`; the proof
goes action by action, first the types, then the places.  Then
`PoolImplementsLease`, i.e. `Spec => ImplementsLease`: every step maps to a
`Make`, `Lend`, `Return`, `Drop` or `Expire` of `Lease` or leaves every place as
it is.  `IInv` is needed for the `CHOOSE` in `Place` to
be the request that has the channel.  `RetriesEnd` (`Spec => [][RetryStep]_vars`)
is the core of `Answered`: `Steps` bounds the steps that a `DialBack` has left
from its tries and its place in the round; each of them lowers it, and what
other requests, the timer and `Client.Close` do to the pool meanwhile does not
raise it.  `CloseHasRoom` is the core of `CloseEnds`: by `Messages`, which
accounts for the message of every `Close` (being sent, in the channel, or read),
the channel of `procLoop` is never full at the first one.

**`AuthProofs`**, for any handlers, users and passwords: `TypeCorrect` and
`UsersAsAcknowledged`.  The strengthening is `Changed`: the handler with the
lock still finds its own entry in the map, so what it saves is what it will
report.

**`SortedDialerProofs`**, for any goroutines, servers, times and limits:
`TypeCorrect`, `DivisorsPositive`, `ServersKept`, `FailureIsComplete` and
`SortOrders`.  The
invariant of the first two is `IInv == TypeOK /\
SortInside /\ DialInside /\ DivisorPositive`: the positions of the sort and of
each dial stay inside `keys`, so that what they read is a key or a torn one,
and a torn one is never dialed.  A dial that begins adds one try and one member
to `UnderWay`; one that ends takes a member away and adds at most one error, so
the difference never falls below the number of dials under way.  That number is
positive when a success divides by the difference.

Two more hold of every sort and every dial beside it.  `ServersKept`: a sort
takes no server away and doubles none, because a swap is a bijection of the
places of each key.  `FailureIsComplete`: a dial that no sort has disturbed and
that fails has tried every server; `Trying` says that while such a dial runs no
sort has the lock, and that it has tried the keys before its position.
`SortOrders` is the action property `NeighboursSorted`, and rests on `InOrder`:
the prefix that the insertion has done has no neighbours in the wrong order but
at the place it is working on.  A swap leaves the two in order because `Less` is
asymmetric (`BeforeAsymmetric`), which holds with its tolerance although
transitivity does not.

The core of `SortingEnds`: `FlagWithSorter` (the flag `sorting` is up exactly
while a sort goroutine lives, and only a sort keeps the lock beyond a step), and
`SortTerminates` (`Spec => [][SortStep]_vars`): every step of the holder of the
lock lowers `SortSteps`, computed from the position of the insertion, whatever
`Less` says and whatever the dials count meanwhile.

**`UdpgwProofs`**, for any ids, `MaxConn` and number of sockets: `TypesKept`,
`LimitKept`, `EntriesOpen`, `EmptyInTheEnd`, `OrphansByLateExit`.  The limit is
kept across the two critical sections by `Room` (while `PipeConn` opens the
socket there is place for it, which the other goroutines can only enlarge); an
entry is open by `Held` (its `procRead` has not yet removed it).  The type of
`recent` is left to TLC: it is filtered with `SelectSeq`, whose recursion the
prover cannot reason about.  No other proof needs it, since any entry may be the
oldest.  `OrphansByLateExit` says that an open socket nobody lists was unlisted
by the late exit of an older one of its id: a socket is opened only for an id
that has no entry (`Absent`), so the entry of an id is its newest socket
(`Newest`), and nothing else removes an entry without closing the socket.

**`ListenersProofs`**, for any number of addresses and runners: `TypeCorrect`,
`UnlistedOnlyByRestart`, `WaitForRunners`.  `Counted` says that the wait group
is the number of live runners, so that it is zero only when there are none and
is never negative; `InOrder` that a new runner is a fresh one; `Displaced` is
`UnlistedByRestart` from the registration of a runner on, before it serves.
`OnlyFailuresLoseAddresses` and `StopReachesAll` are the cores of `Served` and
`StopEnds`: until `Stop` is called every address is in `lost`, or has a runner
nobody has closed that serves it or is on the way to it, or the restart that
will begin one (`AllOffered`); after a `Stop` that found every runner, what
still runs is closed and nothing is begun (`AllClosed`).  Both need `Fresh`: a
runner can only be closed once it has registered.

**`ClientProofs`**, for any forwards, handlers, modes and number of clients:
`TypeCorrect`, `LateForwardsOnly`, `SavedWhenWaited`, `TwoPanics`, `OneMode`.
The invariant says, for each place of `pc`, which ports are still bound and
which fields are set (`Stopping` for `Stop`: which of the two calls of it may
find a `manager` without a `listener`, and which no `client`); for forwards,
that a port of a client belongs to a forward that listens or has registered.
`OneMode` (`Spec => []ModesAgree`) goes by `Settled`: while all requests so far
came one at a time, at most one handler is changing the mode, its place tells
which of the system, the client and the file have the new one, and the other
handlers touch none of the three.  `NoLostWait` is the core of `WaitReturns`:
while `WaitClient` waits, the client runs or is in a `Stop` that will not panic,
and once `Stop` is done the server waited for is closed (`WaiterFreed`).

**`RoutingProofs`**, for any requests, hosts and lines: `TypeCorrect`,
`WaysKept`, `CacheEarned`, `SaveKept`, `DialsSettled`.  `ListedFound` shows that
`Find` sees every line that means a host.  `Requests` says where a request may
be by its host and its server, among them that a request that is about to learn
a host has earned it; `Keeping`, that a torn file is one from which nothing was
kept; `Dials` relates the raw connection, the handshake and the reports of a
dial to where it is, so that a report of success means that the handshake is
done.  `DialsGoOn` (`Spec => []DialGoesOn`) is the core of `HandshakeEnds` and
`RequestEnds`: `Sending` accounts for the reports of the timer and of the
handshake, so `errChannel` has room for each of them, a dial that waits has one
of them to come, and a handshake that its dial has given up finds its connection
closed; what stays without such a reason is a server that is silent in the
websocket handshake.

**Only model-checked**: all liveness (`DialAnswered`, `SessionEnds`,
`ServerReleased`, `Answered`, `CloseEnds`, `SortingEnds`, `Served`, `StopEnds`,
`Responds`, `WaitReturns`, `HandshakeEnds`, `RequestEnds`), which is out of this
prover's reach, as `ENABLED` is; the cores above are what is proved of them, and
for `Responds` of `Auth`, whose handlers have a fixed sequence of steps, it is
the part of `TypeCorrect` that says that the lock is with the handler that is
changing the users and with no other.  Then the type of `recent` in `Udpgw`.
Every safety invariant, action property and refinement that a passing run checks
is a theorem.

## 6. Seen in the code, and not a run

* `Server.Close` writes a close frame on a healthy channel and leaves it open
  (`cs.go:263-271`); the channel ends when the client or the timer ends it.
* Servers with one name share one entry of the `dialers` map
  (`dialer.go:362-366`): the first is never dialed.
* `ProcRestart` picks plain http listeners too and restarts them with a
  certificate (`cs_server.go:174-203`): what is served again is then TLS.  Only a
  test calls it.
* A runner whose listen or accept fails is gone with a line in the log
  (`cs_server.go:158-172`): nothing tries again, and the server goes on without
  the address.
* A frame to the gateway that is shorter than its address is sliced unchecked
  (`udpgw.go:106-114`); the frame format is not modelled.
* `Wait` may return in the 100 ms of a restart, when the old runner is done and
  the new one is not yet counted (`WaitsForAll` is stated for the runners).
* A `Dial` that a sort disturbs may skip a server, or panic on a torn key
  (`FailedTriedAll` is stated for the others).
* `Less` with its tolerance is not transitive (`dialer.go:412`): a sort may leave
  a server behind one it should precede; only neighbours are in order.
* A socket unlisted by an older one's `procRead` (`udpgw.go:150`) is in nobody's
  list and outlives its gateway (`OrphanByLateExit` has it, and `UdpgwRead` of
  `Channel` what it reads).
* A frame for an id whose socket the timer is closing is lost: `procData` ignores
  that its entry is no longer listed (`udpgw.go:116-138`).
* The websocket handshake has no timeout (`dialer.go:316`), so a silent server
  keeps a request (`RequestEnds` has it).
* `Stop` leaves the system's proxy on the ports it has closed, and a forward
  that registers after it serves connections through the stopped client.
* `Stop` panics after a `StartClient` that failed up to `Boostrap`, when it
  closes a `core.Client` that is nil (483), and where the manager could not
  listen (485): `PanicCauses`.
* Overlapping `changeProxyMode` requests may leave system, memory and file with
  different modes, or a torn file, with which the next `Start` fails; so may a
  process that ends while it writes the file.
* An entry of `AutoPACDialer`'s cache is never removed: a host that could not be
  reached once goes through a server from then on, over all restarts.
* `GFW.check` asks whether a line *ends* with the domain, so a line for a longer
  name also matches a shorter one that it ends with; exceptions (`@@`) have no
  effect; `proxy_skip` is not asked by the auto proxy server.
* `updateGfwlist` replaces the file that `pac.js` serves, while the rules of
  `GFW` stay those of `Start`.

## 7. Plan

The order is by how much depends on a part: the channel, the pool on it, the
dialer under it, the gateway over it, then the front ends.

1. Done: `Channel`/`Tunnel`, `Pool`/`Lease`, `SortedDialer`, `Udpgw`,
   `Listeners`, `Auth`, `Client`, `Routing` over `Websocket`, with the proofs
   above.
2. Left of the models: the login of a channel in `Auth`, `Ping` in `Channel`,
   and flow control of a link, without which `pushConn`'s write under the lock
   (`cs.go:372`) cannot be shown to stall the others.
3. Abstract specifications: `Tunnel` and `Lease` are stated; next a store with
   atomic save that `Auth` and the cache of `Routing` implement but for torn
   files.
4. Proofs next: the refinements of the stores of item 3, and the fairness-free
   part of `ServerReleased` that a silent server's timer ends it.
