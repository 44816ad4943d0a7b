# Verification of WSocksDroid

WSocksDroid is an Android application that tunnels the traffic of a device
through a WebSocket server. An Android VPN interface hands every IP packet to
the native process `tun2socks`, which terminates TCP with its own lwIP stack
and relays each connection to a SOCKS5 server on 127.0.0.1:1080. That server is
a Vert.x verticle inside the application (`ClientWebSocket`); it multiplexes all
connections over one websocket to the remote server. DNS takes a second path:
`tun2socks` rewrites queries to the local resolver `pdnsd`, another native
process, which asks the verticle over TCP at port 5553, and the verticle asks
the remote server. `SocksVpnService`, in a process of its own, creates the VPN
interface, deploys the verticle and starts and stops the two native processes.

This directory holds TLA+ modules of these parts, the TLC runs that check them
on small instances, and TLAPS proofs for every size. `PROJECT.json` lists the
components, the runs, the source lines of every definition, the mutants that
show each property can fail, and the hazards the properties are aimed at.
Paths below are relative to `src/app/src/main`.

## Inventory

| Component | State | Operations | Interacts with | Modules |
|---|---|---|---|---|
| tun2socks TCP relay (`jni/badvpn/tun2socks/tun2socks.c`) | list of `struct tcp_client`: pcb, two buffers, two closed flags, two stream interfaces | lwIP callbacks accept, recv, sent, err; SOCKS events up, error, closed; end of a write or read; murder of all clients at exit | lwIP, BSocksClient, the reactor's job queue | TcpClient, TcpRelay, ByteRelay |
| tun2socks DNS gateway (same file) | tree: source port -> original destination and a count | query to port 53, answer from the gateway port | TUN device, pdnsd | DnsGateway |
| BSocksClient (`jni/badvpn/socksclient`) | handshake state, buffer, what it holds | connect, hello, password, request, reply, free | relay above, BConnection below | SocksClient, SocksSession, SocksDialogue |
| BConnection (`jni/badvpn/system`) | state of the two directions, limits, jobs, events waited for | connect, send, receive, hang-up, reset, free | reactor, kernel | Connection, Stream |
| BReactor, BPending (`jni/badvpn/system`, `base`) | job list, timers, descriptors, epoll results, limits | set and unset of each, the loop, Synchronize, Quit | everything in tun2socks | Reactor |
| ClientWebSocket (`java/me/wooy/proxy/client`) | current websocket, `connectMap`, `dnsQueryMap`, handler of each local socket | start, stop, login, websocket messages and failures, local buffers and closes, DNS queries | tun2socks and pdnsd (TCP), remote server, Vert.x | WSocksRelay, SocksDialogue |
| SocksVpnService, Launcher (`groovy/net/typeblog/socks`, `java/me/wooy/proxy`) | `mRunning`, `mInterface`; `vertx`, `ID`; pid files, `sock_path`, two processes | onStartCommand, onRevoke, onBind, onDestroy, stopMe, configure, start; Launcher.start, stop | Android, Vert.x, tun2socks, pdnsd | VpnService |
| ProfileManager, Profile (`.../util`) | shared preferences, `mProfiles` | reload, getDefault, switchDefault, addProfile, removeProfile, settings | ProfileFragment, BootReceiver | Profiles |
| ProfileFragment | `mProfile`, `mStarting`, `mStopping`, `mRunning`, `mBinder`, the switch and its listener | preference changes, dialogs, switch, state polling, service connection | ProfileManager, SocksVpnService | Profiles, VpnSwitch |
| pdnsd cache lock (`jni/pdnsd/src/cache.c`, `main.c`) | holders, waiters, suspension of readers | lock, timed lock, yield, unlock; soft locks at exit | all query threads, control thread, main | CacheLock |
| pdnsd parallel query (`jni/pdnsd/src/dns_query.c`) | a state machine per server, sockets, poll array, best answer | start, poll, read, write, fall back, cancel, time out | remote name servers (here port 5553) | ParallelQuery |
| BootReceiver, MainActivity, Routes, extractFile, encryption, LocalDNS | none of their own | | | |

What is hard, and what correctness means:

- **TCP relay.** One thread, but callbacks nest: a callback of lwIP runs the
  reactor's pending jobs (`SYNC_COMMIT`) before it returns, so the client may be
  closed and freed underneath lwIP. Either side may vanish while bytes for the
  other are buffered. Correct: nothing freed is used, the flow-control counters
  balance, no bytes are dropped, no client waits for an event that never comes.
- **SOCKS handshake.** A chain of asynchronous sends and receives with an error
  exit at each. Correct: what is held is released once, the user hears "up" at
  most once and at most one end, and the two sides mean the same connection.
- **Connections and reactor.** Results of `epoll_wait` are handled one by one
  while handlers free objects and change what is waited for; handlers run other
  handlers inside `BReactor_Synchronize`. Correct: no stale result, job or timer
  is dispatched, no operation is forgotten, timers fire.
- **DNS gateway.** Source ports are reused, answers lost and reordered, and the
  table is keyed by port alone. Correct: every answer finds its entry and goes
  back under the server that was asked.
- **ClientWebSocket.** One event loop, but events of the websocket, of each
  local socket and of the deployment come in any order, and the websocket may
  fail and be replaced at any time. Correct: every local client sees a SOCKS5
  dialogue, the maps agree with the sockets, there is one session.
- **SocksVpnService.** `stopMe` runs on binder threads while `onStartCommand`
  runs on the main thread; the verticle's ID arrives by callback; processes are
  found again only through pid files; the process may die. Correct: when the
  service is gone its daemons are gone, and it never runs two.
- **The switch.** The screen polls another process, sets its own switch while the
  listener is attached, and the service may end between any two callbacks.
  Correct: an echo is not taken for a wish of the user, the switch comes back.
- **Profiles.** Sequential, but persistent and restarted. Correct: memory agrees
  with the preferences, the selected profile exists, a new profile is new.
- **pdnsd.** A hand-made readers-writer lock with timeouts, suspension of readers
  and an exit that must not hang; a hand-made multiplexer over a poll array whose
  order shadows the array of queries. Correct: exclusion and no lost wake-up;
  every socket and buffer freed once, the best answer kept, no early giving up.

## Modules

### TcpClient, TcpRelay (with TcpClientProofs), ByteRelay

The record `c` is `struct tcp_client` together with the parts of its pcb and of
its stream interfaces that the relay uses; a C function on the struct is an
operator of the same name that returns the changed struct; an action is an
event, a job, or an lwIP callback up to its `SYNC_COMMIT`. `lw` says where lwIP
is in `tcp_input`, `seg` what is left of the segment being processed. While `lw`
is `"accept"`, `"sent"` or `"recv"` the callback is inside `SYNC_COMMIT` and only
jobs run. Bytes are counted, not named. Clients share no state, so one connection
at a time is modelled; after it is freed the struct is allocated again, with the
fields that `malloc` leaves uninitialised keeping their old values. Failures of
`tcp_write`, `tcp_output` and `tcp_close` are inputs of the actions.

`ByteRelay` is what the relay promises: a pipe of bounded capacity in each
direction, bytes accepted only while both sides are open, and a half-closed
connection that lasts exactly as long as the side still open has bytes to be
given. `TcpRelay` maps `TcpClient` to it, and to `SocksSession` for the
use the client makes of its BSocksClient.

### SocksClient, SocksDialogue (with SocksClientProofs), SocksSession

`SocksClient` has the handlers of `BSocksClient.c` over a record `o`: its state,
how many of each resource it holds, what is left to send or receive. A handler
is an operator on the record, its failures (memory, connection) are inputs.
`SocksSession` is the abstract client: none, connecting, up. `SocksDialogue` adds
the bytes: `o` on one side, on the other the record `w` with the handlers of
`ClientWebSocket` for one local socket, between them a TCP stream that cuts
messages anywhere. Ports and lengths keep their width: the verticle's `getShort`
is signed.

### Connection (with ConnectionProofs), Stream

One `BConnection` of `BConnection_unix.c` with the part of the reactor it sees:
its jobs in the order of the pending list, the events waited for, the epoll
result not yet dispatched. `net` is the kernel and the peer. A result may stay
undispatched while handlers of other descriptors run and the peer acts. A read or
write may move any number of bytes up to what is there. `SocketError` is a
failure that is not an orderly end: nothing arrives afterwards and the next read
or write returns it. Bytes that arrived before a reset can still be read. `Stream`
is the promise to the user: an operation is answered at most once, with at least
one and at most the bytes asked for, or the connection is over. Deadlock is not
checked in its run, because a connection that is over stays so.

### Reactor (with ReactorProofs)

`BReactor_badvpn.c` with the epoll backend and `BPending.c`. `frames` is the
stack of handlers under way: a handler may call any operation on any object, and
`BReactor_Synchronize` runs jobs above a mark, each in a frame of its own. Time is
a counter. `BReactor_Quit` ends the loop. `wait_for_events` returns before it
resets the limits when timers are already due; `BeginWait` does the same. Timers
of one time expire in any order, since `compare_timers` orders them by address.
`newer`, a history field of a frame, is the set of jobs set since its mark.
`EINTR` is the stuttering action `Interrupted`.

### DnsGateway (with MCDnsGateway, TcpClientProofs)

`tree` is `connections_tree`, `atGw` the queries pdnsd holds. A query
may stay without an answer, answers come in any order, one port may ask several
servers.
`asked` and `lost` are history variables.

### WSocksRelay (with WSocksRelayProofs)

One action per handler of the verticle. A local socket stands for its uuid.
`link`, `up` and `down` are the websockets and the messages under way on them,
`seen` what a local client was sent, `asked` the websocket a request went to.
The remote server and Vert.x are external: messages are delivered whole and in
order or lost with their websocket; writing to a closed websocket throws and
does nothing. The state `"lost"` of a DNS query is the socket left open after
`wsReceivedDNSHandler` has removed the entry and `response` has thrown. That pdnsd
closes a DNS socket is not modelled: no handler of the verticle reacts to it.

### VpnService (with VpnServiceProofs)

Threads (`"main"` and `Binder`) with a program counter per thread; a step is one
call that others can observe. `queue` is the main thread's message queue,
`insts` and `cur` are Android's view of the service. Process `<<d, r>>` is daemon
`d` (`"tun2socks"` or `"pdnsd"`) of the `r`-th start: `"boot"` until it has
installed its signal handler, `"wait"` while it accepts the descriptor, `"run"`,
`"none"` if it is not there; `path` is the tun2socks that accepts at `sock_path`. `raced` and `unread` are
history variables that name the two races in which the code does lose track of a
verticle or of a daemon. What Vert.x does with `undeploy(null)` is left open: it
throws or it has no effect. `onRevoke` begins with `super.onRevoke()`, which calls
`stopSelf`. Android's `startService`, `stopSelf` and sticky restart, Vert.x and pdnsd are external.

### VpnSwitch (with VpnServiceProofs)

The record `sw` holds the fields of ProfileFragment, its switch, the binding and
an abstraction of the service (`half`: `stopMe` ended by an exception, with
`mRunning` still set). `updateState` asks the service by a binder call and acts
on the answer afterwards; `answer` is the answer not yet acted on. `onCheckedChanged` runs inside
`setChecked` when the listener is attached, as in Android.

### Profiles (with MCProfiles, VpnServiceProofs)

Strings are sequences of characters, so that `join`, `split` and `prefPrefix` are
modelled by what they do, by recursion over indices. A setting is at its default or
not. `listed` is the loop of `ProfileManager.reload` over the lines.

### CacheLock (with CacheLockProofs)

The variables `lk` are those of `cache.c`; a thread that waits on a condition
sleeps until it is signalled, wakes up spuriously or, in the timed lock, times
out, and then tests again. `yield_lock_cache_rw` reads the counters without the
mutex: what it finds is left open. The control thread is off in the
application's configuration and is the constant `Ctl`. The exit of pdnsd is the
main thread's: soft locks to purge, save and destroy, each tried a bounded number
of times.

### ParallelQuery (with MCParallelQuery, ParallelQueryProofs)

`p_recursive_query` of `dns_query.c` down to `p_query_sm`: `q` are the
`query_stat` structures, `pc`, `site` and `i` the place in its loops, `polls` and
`nev` the poll array and what `poll` returned. A step is one pass through the body
of a loop (`Build` adds one query to the poll array, `CallPoll` computes how long
to wait and calls `poll`) or one call of `p_query_sm`. `bad` collects the kinds of
things given back twice: sockets, messages, receive buffers, and, apart from these
(`"emptied"`), a receive buffer that `realloc(ptr, 0)` has freed and
`realloc_or_cleanup` frees again. `realloc` with size 0 frees and returns NULL or
gives an empty buffer; which, is left open. A buffer is `"kept"` while its query is
asked again. Result codes are those that callers tell apart; `"REFUSED"` stands for
all failure codes of a server but SERVFAIL, and the nested `p_dns_cached_resolve` that
asks the authoritative servers may return any code, or -1. The application configures `tcp_only`
and leaves its server trusted; all four query methods are modelled, and
`Settings` says which are looked at. The contents of replies and `auth_ok` are
reduced to the branch they lead to, server tests (`uptest=none`) are left out, and
the lists of name servers go with the answer they came in.

## Runs

| Run | Bounds | Shows |
|---|---|---|
| `tcp` | window 3, send buffer 2, receive buffer 3 | counters of both directions balance and the asserts of the callbacks hold (`FlowBalanced`), no use after close, no lost wake-up, nothing dropped, half-closed clients are freed and `tcp_input` ends (`Progress`), and the two refinements (`Contracts`: ByteRelay and SocksSession) |
| `tcp_abrt_contract` | sizes 2, 1, 1 | *violated*: the callbacks return `ERR_ABRT` after `tcp_close` too, which `lwip/doc/rawapi.txt` forbids |
| `dialogue` | 3 destinations, port 32768, methods none and password, 2 payload bytes | the invariant of the handshake, `EndsAgree` (up means connected to the destination asked, the reply has its exact length, payload is never parsed, the port can be recovered), the refinement of SocksSession, the handshake ends |
| `connection` | operations of up to 2 bytes, 3 bytes each way, room for 2, limits 2 | operations tracked, bytes counted once, the refinement of Stream, every operation answered once its peer acts |
| `reactor` | 2 jobs, timers and descriptors, 1 limit, 5 calls by handlers, 3 frames | what is to be dispatched is what is registered now, limits are reset, timers fire |
| `dns_gateway` | 2 ports, 2 servers, 2 ids, 2 lost answers per port | counts cover the answers to come, every answer finds its entry, and under which server it goes back |
| `relay` | 2 sockets, 1 query, 2 logins, 1 data buffer per direction | maps and session consistent, SOCKS dialogue, data never parsed, re-login after an exception, a waiting request mapped and under way (but for a DNS answer that cannot be turned into a reply), undeployment releases everything |
| `service` | 1 binder thread, 2 starts, 1 death, 2 hand-over attempts | no orphaned daemon, daemons named by their pid files, verticles undeployed, the descriptor served |
| `vpn_switch` | 3 callbacks under way | an echo of the switch harms nothing, the switch comes back, the state is shown |
| `profiles` | 3 names, two with one prefix, 2 settings | list stored, screen agrees with boot, new profiles are new |
| `cache_lock` | 4 threads and the control thread, 2 buckets, 2 tries | exclusion, counters, suspension lifted, no lost wake-up, nobody stuck, the exit ends |
| `parallel_query` | 3 servers, 2 at a time, server timeout 1, global timeout 2; `tcp_only` with trusted servers, `tcp_udp` and `udp_tcp` | sockets and buffers accounted for, with the one buffer that is freed twice, when codes other than the documented ones are returned, poll events matched, best answer kept, gives up last |

Why the bounds are enough. In TcpClient a window of 3 lets bytes be in the
buffer, in the segment in hand and in the window at once, a send buffer smaller
than the receive buffer makes sending stop half-way; the safety properties are
proved for all sizes besides. The destinations of `dialogue` hold bytes that read
like a hello and like a request for a domain name, so that a cut in the wrong
place is parsed wrongly if it can be; the port is the first that is negative as
a short. In `connection` two bytes asked for and three in all let a transfer be
partial and a second operation meet what the first left; limits of 2 are reached
inside one result. In `reactor` three frames are a handler, a job it
synchronizes with and a job of that one; five calls are what it takes to
register, replace and remove something between two dispatches. Two ports show
that they do not mix, two servers and ids that one port asks both. Two sockets
and two logins let one connection straddle a failure of the websocket while
another begins. Two starts are what it takes for a start to meet the remains of
another; one binder thread suffices for `stopMe` to overlap both
`onStartCommand` and the `stopMe` of the main thread. The five hand-over attempts
are two: only "one fails, one succeeds" and "all fail" differ. Four threads
exceed the threshold at which readers are suspended with a reader and writers
left to see it. Three servers two at a time make a second batch start while the
first has queries under way. Three names let one be removed while an alias of
another is present. The bound on logins makes a run end where the code would go
on; deadlock is checked in every run but `connection` and each of those has an
explicit final state.

### What the properties say about the known weak spots

Some hazards are real, and a property states how far the code gets:

- `NoOrphanDaemon`: a daemon survives the service only if the service process
  died, or a `killPidFile` deleted a pid file it had not read (`Utility.groovy`
  110-112 read, kill and delete separately). Not covered: a tun2socks that never
  received a descriptor stays in `accept` (`tun2socks.c` 523-539 only notes SIGTERM).
- `DescriptorServed`: such a waiting tun2socks may receive the descriptor of the
  next start, and end; the service then believes it is running.
- `VerticleLeakNeedsRace`: a verticle is leaked exactly through a `Launcher.stop`
  that overtakes the deployment callback, or by callbacks out of order.
- `ReloginPending`: the relay is without a websocket for good only after a failed
  login (no failure handler) or an orderly close by the server (no closeHandler).
- `RequestUnderWay`: requests are kept only while their websocket is open; those
  on a lost websocket are never answered and queries stay in `dnsQueryMap`. And a
  DNS answer whose string does not resolve makes `response` throw
  (`ClientWebSocket.kt` 245) after the entry was removed (264): the socket stays
  open, without an answer and without an entry, until the undeployment.
- `EchoHarmless`: after a VPN was lost (revoked, or its process killed),
  `updateState` setting the switch with its listener attached can start or stop it
  unasked. A service stopped half-way is not enough: it still says that it runs,
  and showing that is taken for a press, but its `onStartCommand` returns at once.
- `SwitchComesBack`: after a start that failed `mStarting` stays set and the
  switch stays disabled (`ProfileFragment.groovy` 331); the property is about
  stops and about starts that succeed.
- `AnswerAttributed`: one unanswered query keeps a port's entry and its count for
  ever; from then on an answer may go back under another server the port asked.
- `EndsAgree`: ports from 32768 on are sent to the server as negative numbers
  (`ClientWebSocket.kt` 145); only their value modulo 2^16 is right.
- `HandshakeEnds`: the verticle takes each buffer for one message, so a message
  that TCP cuts in two may leave both sides waiting; the property excepts it.
- `FreshProfile`: the settings `zip` and `offset` are inherited by a profile of
  the same name, because `Profile.delete` does not remove them, and names such as
  `a_ b` and `a _b` share all their settings.
- `Accounted`: a query that is asked again keeps its receive buffer
  (`dns_query.c` 1320-1324); if the new reply comes over TCP with length 0, `realloc`
  frees the buffer and returns NULL, and `realloc_or_cleanup` (785-791, called at 963)
  frees it again. The property says that nothing else is ever given back twice.
- `Accounted`, of the result: the comment at 3467-3470 names the codes that
  `p_dns_cached_resolve` returns, but a discarded reply returns the server's own code
  (1268, 1344), such as `RC_REFUSED`, and with the query method `tcp_udp`, which the
  application does not configure, -1 may be returned when the global timeout is over
  (2352). Neither is turned into `RC_SERVFAIL`, so that the fallback to a stale record
  (3531) is skipped. The property says when: -1 only after the global timeout, a
  failure code only when every server was asked and none gave any answer, or when
  the authoritative servers, asked last, gave it.

### Fairness

- `TcpClient!FairSpec`: jobs and lwIP's own steps are weakly fair, since the
  reactor runs every pending job before the next event and `tcp_input` is
  straight-line code. A descriptor that is waited for becomes writable, and
  unacknowledged bytes are acknowledged or lwIP's retransmission timer gives up:
  strong fairness, because other events are served in between. Nothing is assumed
  of the handshake, of new data or of the application.
- `SocksDialogue!DialogueFairSpec`: the reactor and the verticle's event loop
  serve what is ready, and the remote server answers a request one way or the
  other. Nobody need ever fail or send payload.
- `Connection!FairSpec`: the loop runs (it is `BReactor_Exec`), and the peer reads
  what fills the socket's buffer. The peer need not send, and `Answered` is
  conditional on it.
- `Reactor!FairSpec`: handlers return, the loop goes on, time passes and
  `epoll_wait` returns at its timeout. Handlers need not call anything.
- `VpnSwitch!FairSpec`: the posted checks run, a starting service comes up or fails,
  and callbacks of the service connection are delivered (strong fairness, since
  unbinding takes them back). The user and the system need do nothing.
- `CacheLock!FairSpec`: every thread that asked for the lock is scheduled, and main
  goes on once it was told to exit. `Drains` speaks of behaviours in which
  requests stop coming: an endless stream of them may starve a thread.

WSocksRelay, VpnService, Profiles, DnsGateway and ParallelQuery are checked for
safety only; what must come to an end there depends on a server, on Android or on
time-outs counted by the system. The answer to a handshake is in `dialogue`.

## Proofs

`TcpClientProofs`, for every window, send buffer and receive buffer size
(`SizesAssumption`: the three are positive): `Invariance` (`Spec => []IInv`),
`TypeCorrect`, `WindowBalanced`, `PendingBalanced`, `AssertionsHold`,
`FlowsBalanced`, `ClosedNotUsed`, `WakeupsKept`. The safety properties are not
inductive: that a callback finds the client intact depends on which callbacks are
registered, that in turn on how the client was half-closed, and the counters
agree only if each handler that is about to run was armed for the right reason.
`IInv` therefore says of a struct `d` (`ClientInv`) that the registered callbacks
and the allocation follow from the two closed flags and `socks_up`
(`FlagsAgree`), that a send is under way exactly when there are bytes to send
(`SendingAgrees`), that a read is under way or bytes and an acknowledgement are
waited for (`ReceivingAgrees`), and that lwIP's counters and the client's add up
with the segment and acknowledgement in hand (`CountersAgree`); and of each point
of `tcp_input` what lwIP relies on there (`StageInv`). One lemma per C function
says what it does to `ClientInv`, one per action that the step preserves `IInv`.

`SocksClientProofs`, for every set of methods, address type and length of name
and password (`SocksAssumption`): the invariant `IInv` - what is held
(`ResourcesAgree`), which handlers may come (`HandlersExpected`) and that what is
received fits the buffer (`ReplyRoom`) follow from the state - and
`ImplementsSession`, the refinement of SocksSession step by step. The password
exchange is covered by these proofs only: the verticle never asks for it.

The second half of `SocksClientProofs` is about SocksDialogue, for every port, set of
addresses and of methods, amount of payload and way of cutting the stream
(`DialogueAssumption`: a port below 2^16; `AddressAssumption`: four bytes each):
`DialogueInvariant`, `EndsAlwaysAgree` and `DialogueImplementsSession`. Whether the two
ends mean the same is decided by what lies in the stream, so the invariant `Dialogue`
says that for each state of the client (`Talk`): of the hello, or of the request,
what the verticle has not read yet is the end of what was written; either the verticle has understood no
request and has only answered to pieces with pairs of bytes that the client refuses
(`Unheard`), or it read the whole request at once (`Heard`), and what comes back is the
rest of the reply, then payload. `Sizes` adds that the client waits for as much as its
state says. Lemmas say what the verticle can take each piece of a hello and of a
request for.

`ReactorProofs`, for any jobs, timers (finitely many), descriptors, limits and depth
of handlers (`ReactorAssumption`): `QueuesAlwaysExact` and `LimitsAlwaysReset`.
`QueuesExact` is inductive. Its parts depend on different variables and are proved
apart. The one that takes work is `MarkSeparates`: the jobs in front of the mark of a
handler are those set since, which lemmas on lists state by the order of two elements
(`Ahead`) and what removing, prepending and taking the first one does to it; so
`BReactor_Synchronize` never takes a job that was pending before it was called, nor
the mark of another handler. The results of `epoll_wait` stay current because a
descriptor that is removed takes its entry back, and a timer that is set again or
freed leaves whichever container it is in.

The last part of `TcpClientProofs` is about DnsGateway, for all ports, servers and ids
and any number of losses: `GatewayInvariance` (the count of an entry is the number of
queries at pdnsd plus the answers lost, and every server named was asked), hence
`GatewayAnswersFound`, and the action property `GatewayAnswersAttributed`.
Cardinalities change by one with a query, by lemmas from FiniteSetTheorems.

`ConnectionProofs`, for every limit, length and room (`ConnectionAssumption`): an
invariant that ties each direction's state to the one place where the operation
is - a job, the descriptor's events, or the done job - and the order of jobs to
what may still run; hence `HandlersSafe`, `WakeupsKept`, `BytesCounted`,
`OperationsKept`, and `ImplementsStream`, the refinement of Stream.

The second half of `TcpClientProofs` proves what becomes of the bytes:
`BytesKept` (the action property `NothingDropped`: SOCKS is closed only when every
byte the application was told was received has gone to it, the application's
connection only when all read from SOCKS was acknowledged, and `tcp_close` resets
only a connection with unread bytes) and `ImplementsContracts`
(the refinement of ByteRelay and of SocksSession). Each C function has a second
contract for it, which says what the call does to the bytes under way in each
direction and to the two sides; the steps of the relay are then steps or stutters
of the abstract specifications. Besides `IInv` it needs one more invariant, that a
process told to end has freed its client (`Ended`).

`WSocksRelayProofs`, for any sockets, queries and numbers of logins and buffers:
`Invariance`, and from it `MapsConsistent`, `DialoguesKept`, `LoginsFollow`,
`RequestsKept` and `StopComplete`. None of the five is inductive. What a local
client was sent is right only if what is under way on its websocket is, and that
depends on how far its dialogue was when the message was written; that a request
is not lost depends on the login under which it was written, and a query whose
entry is gone may still have its socket (`DnsUnderWay`). The invariant
relates, for each socket, the place in its dialogue, its handlers, its place in
`connectMap` and the messages for it in `up` and `down`, and says from what each
flag of the session follows.

`VpnServiceProofs`, for any number of binder threads, starts and deaths of the
process, in three layers, each inductive relative to the one before. `Control`
relates Android's view of the instances, the message queue and the program
counters: every start queued or under way is undone by a later `onDestroy` unless
Android still knows its instance, which is what makes a descriptor be closed
(`ControlInvariance`). `Daemons` adds that a daemon not told to end is named by its
pid file or was lost in one of the two ways the code allows (`DaemonsInvariance`),
and, while the process lives, belongs to the start under way or to a running
instance whose `onDestroy` comes before any other start; hence `DaemonsFound`,
`NothingOrphaned` and `HandoverTruthful`. `Verticles` says that a deployed verticle
that lost no race is the one in `Launcher.ID`, with an `onDestroy` or a
`Launcher.stop` still to come, and gives `LeaksOnlyByRace`.

Its second part is about VpnSwitch, for every number of callbacks that may wait:
`SwitchHarmless`, the property `EchoHarmless`. The invariant adds to what the run
checked that the binding agrees with the service (`BindingAgrees`), that the consent
dialog is there only without consent (`ConsentAgrees`), and that before the VPN was
lost a switch shown on stands for a service that runs or for a start that waits for
consent (`SwitchAgrees`): without it, an answer of a binder read earlier could be
that of another instance.

Its third part is about Profiles, for any names and settings (`ProfilesAssumption`:
names are non-empty sequences without a newline, and the default one is not entered
by the user): `ListAlwaysStored`, `ScreenAlwaysAgrees` and the action property
`FreshProfiles`. They rest on `SplitJoin`, that the lines of a joined list are the
names that were joined, and `RoundTrip`, that `reload` gives the list back with the
default profile first. The library's induction theorems cannot be instantiated, so
both go by `Upwards`, an induction for a set of indices that follows from the
well-foundedness of `<` on the naturals (`WFMin`); `Recursion` and `Typed` give the
recursive functions their values and types. `SplitJoin` steps through the text with
`JoinStarts` (each intermediate text is the start of the last) and `WordSplit` (what
`split` does with a word). The inductive invariant `ProfilesIInv` then says what the
two invariants of the run say in terms of the two stored preferences; the settings that
`delete` leaves belong to the profiles that stay because it removes the keys of every
profile with the same prefix (`DeleteOwned`).

`CacheLockProofs`, for any number of threads, buckets and tries
(`CacheLockAssumption`: finitely many threads, at most one of them the control
thread, and `"main"` none of them): `Invariance`, `LockTruthful` and `WakeupsKept`. `LockAgrees` is
nearly inductive: each counter of `lk` is the cardinality of the set of threads at
certain places, but `lk.r` only bounds it once a `softunlock_cache_r` has failed at
the exit. `NoLostWakeup` needs more: a reader asleep has a writer that still wants
the lock (`ReadersLed`), and where readers would suspend themselves on a free lock
a writer is awake (`WriterAwake`). A step moves one thread between those sets, and
lemmas from FiniteSetTheorems say what becomes of the cardinalities.

`ParallelQueryProofs`, for any number of servers, `par_queries`, methods and
timeouts (`ParallelQueryAssumption`: at least one server, positive server
timeouts): `Invariance`, `ResourcesAccounted`, `PollArrayMatched`,
`BestAnswerKept` and the action property `GivesUpInTime`. The first part gives a
contract to each function of the state machine (`Held`, `Busy`, `Idle`, `Outcome`,
`Executed`): `O` stands for the descriptors of all other queries, and a call leaves
these alone, ends either waiting with one descriptor more or over with none, and
gives back nothing twice but the buffer of the empty reply. The inductive invariant has six parts: where the loops
and their counters are (`Control`), what each query holds by its state and that
descriptors are distinct (`Owned`), which queries were asked and are over
(`States`), what was waited for (`Clock`), what the answers left (`Results`), and
`Events`, the heart of it: the places of the poll array after `ic` are the active
queries not yet visited, in the same order. The assertion that a descriptor is
found in the array does not follow from the array as it was built, because queries
change their sockets during the scan, and a descriptor closed by one may be opened
by the next; it follows because a query only changes its own socket, after its
place was passed.

Only model-checked: liveness everywhere (out of the prover's reach under
fairness).

## Not modelled

- lwIP beyond the calls and callbacks of the relay, libancillary and the other
  badvpn programs (client, server, ncd, udpgw, the parser generators): vendored,
  and but for lwIP not built into the application. They make up most of the
  repository's lines.
- The rest of pdnsd: its server and answer threads, configuration, wire format,
  recursion through delegations, contents of the cache and its file, control
  pipe.
- The poll and kqueue backends of the reactor, listeners, address handling.
- UDP forwarding, which the service never configures.
- Encryption, compression and the offset padding of messages: library calls.
- Asset extraction and Routes: file and resource reading. LocalDNS: not used.
- The parsing of DNS queries in the verticle is reduced to the branch it leads to.
- Descriptor numbers (and their reuse after the double close in `stopMe`) and
  process-id reuse.

## Plan

Done, in this order: TcpClient and its proofs, WSocksRelay, VpnService, Profiles;
then SocksClient, SocksDialogue, the abstract specifications and their
refinements, DnsGateway, VpnSwitch, Connection, Reactor, CacheLock, ParallelQuery,
and the proofs of SocksClient, DnsGateway and Connection; then the proofs of
WSocksRelay, CacheLock, VpnService and ParallelQuery and of what TcpClient does
with the bytes; and those of SocksDialogue, VpnSwitch, Reactor and Profiles.

Next, most important first:

1. The threads of pdnsd's `dns_answer.c`: how many run at once, and the answering
   of one TCP client by several of them.
2. The cache of pdnsd: the list of entries by age against the hash table, and the
   purge of what a reader holds.
