# GhostPort: specifications and proofs

GhostPort is an encrypted port forwarder. A *server* with a stable address and
one or more *clients* behind NAT pin each other's Noise keys. Every TCP
connection is dialled by a client: one control connection, and one data
connection per proxied stream. A *forward* link is opened by the client; for a
*reverse* link the server asks, over the control connection, for a tunnel to
carry a connection it has accepted. `ghostport-firewall` reads the server's
journal and bans sources with nftables. `ghostport-udp` tunnels datagrams, the
terminal UI edits the configuration, and `ghostport-metrics` exports the
counters of the status socket.

This directory holds TLA+ modules translated from that code, TLC configurations
for small instances, and TLAPS proofs for all instances. Paths below are
relative to the repository's root.

## Inventory

| Component | State | Operations | What makes it hard | Correct when |
|---|---|---|---|---|
| Reverse rendezvous (`ghostport-core` `server.rs`, `client.rs`) | `PendingStreams`, `next_stream_id`, the open-stream channel (32), one cleanup task per stream | accept, file, signal, claim, time out | five kinds of task share the map; signals are lost or delivered late, to another peer | each connection has one owner, is joined once, to a peer granted its link, and never waits for ever |
| Control channel (same files) | the queue of authenticated connections (4), the session, backoff, status flags | dial, handshake, serve, ping, reconnect | half-dead connections, serial sessions, cancelled reads | one session at a time; a live client is eventually served; flags tell the truth |
| Data channel (same files, `relay.rs`) | one task per connection, permits, counters | handshake, hello, authorise, connect, relay | timeouts on each step, errors on either end | authorised links only; counters balance |
| Rate limiter (`ratelimit.rs`) | deque of attempts per address, 64 permits | `try_acquire`, drop of the permit | two accept loops, two steps, one lock | a bound per window and address; permits conserved |
| Peer matching, Noise (`peermatch.rs`, `noise.rs`) | none | try each peer's key | external cryptography | only a key holder matches |
| Framing (`framing.rs`, `protocol.rs`) | bytes read so far | send, receive | a read cancelled by `select!` | messages arrive whole and in order |
| Configuration (`config.rs`) | the parsed file | load, validate, save | cross references between links and peers | what the daemon `expect`s, validation demands |
| Statistics (`stats.rs`), status socket (`ipc.rs`) | atomics, flags, a socket file | count, snapshot, serve | torn reads, a second daemon | balanced counters, one owner of the socket |
| UDP tunnel (`ghostport-udp`) | flows, session table, idle timers | hello, handshake, forward, expire | loss, reordering, NAT rebinding, its own limiter | no flow is stuck; sessions are removed once; traffic goes to the target of its own link |
| Firewall (`ghostport-firewall`) | failures per address, the offense channel, the kernel's set | tail, extract, record, ban, unban, set up, tear down | lost lines, failing bans, restarts, other processes | only earned bans; no streak missed; private addresses spared |
| Terminal UI (`src/tui`) | screens, forms, the edited config | keys, edit, save | long sequences of edits | what it saves can be loaded and means what was shown |
| Command line, key files, metrics, theme | files | one-shot | I/O only | |

`PROJECT.json` lists every hazard of this code with its line and the properties
that would catch it.

## Modules

| Module | Models |
|---|---|
| `Rendezvous` | abstract: a connection arrives, waits, is joined to one tunnel or given up, and is closed; the server may restart |
| `ReverseStreams` | the reverse rendezvous in detail; implements `Rendezvous` |
| `ReverseStreamsProofs` | its theorems |
| `Deques` | the pop-while-old deque that limiter and failure tracker share |
| `Clock` | the addresses and the time that limiter and firewall share |
| `HandshakeLimiter` | `try_acquire` and the two accept loops that call it |
| `DequesProofs`, `HandshakeLimiterProofs` | their theorems |
| `Firewall` | the firewall daemon, its tail, nftables and the admin's commands |
| `FirewallProofs` | its theorems, and those of `GuardedServer` |
| `ControlFraming` | one control session: framed messages in two pieces, read inside `select!` at both ends |
| `UdpTunnel` | flows, sessions and both maps of `ghostport-udp`, over a network that loses, doubles, delays and re-addresses |
| `UdpTunnelProofs` | its theorems |
| `Config` | the rules of `Config::validate`, and the `expect()` calls of the daemon that rely on them |
| `TuiApp` | extends `Config`: the terminal UI's modes and edits, the file, the service started on it |
| `ControlChannel` | the clients' reconnect loops, handshakes, the queue of authenticated connections, one session after the other |
| `ControlStatus` | the flag, time, address and name of the control session, stored and loaded one by one |
| `DataStreams` | streams of one daemon from accept to the end of the relay, with their counters |
| `ControlProofs` | the theorems of `ControlChannel`, `ControlFraming` and `ControlStatus`, which share no variable |
| `StatusSocket` | extends `DataStreams`: processes that start, crash and share the path of the status socket, and snapshots |
| `StatusSocketProofs` | the theorems of `DataStreams` and `StatusSocket` |
| `TuiAppProofs` | the theorems of `Config` and `TuiApp` |
| `GuardedServer` | extends `HandshakeLimiter` and `Firewall`, and composes them through the journal and the blackhole set |
| `MC*` | model values and symmetry for TLC |

### ReverseStreams

One variable per piece of shared state (`pending`, `nextId`, `queue`) and per
task: `listener[l]` holds the locals of `spawn_reverse_listener` between its
awaits, `timers` the sleeping cleanup tasks, `session` and `live` the control
session and whether its connection still works, `wire` what was written and not
yet read, `tunnels` the client's open-stream tasks together with the server's
task for the same data connection. Steps are cut at the awaits: `accept`,
`pending.lock().await`, `send().await`. The cleanup task is spawned in the step
in which `send` returns, as in the code. Abstracted: bytes, addresses, the
handshake (one step that succeeds or fails), and what the control acceptor does
before a session starts. A client offers a link when its config has a reverse
link of that id with a target. `closed` and `arrived` are history.

A pinned peer need not run this client, and the server cannot tell: with
`PeerSendsHello` any peer opens a data connection nobody asked it for, whose
`StreamHello` names any link and any id. `ServerRestarts` closes what the server
held and starts the ids anew at 1, while clients still dial tunnels for ids of
the server before; their tunnels arrive at the new one. A tunnel is `asked` when
it answers an `OpenStream` of the server that is running, which is history too.
`HelloAccepted` tests the grant of the link the hello names, `ClaimStream` takes
the connection by id alone, as `handle_data_connection` does.

`Waiting` and `Joined` map the state to `Rendezvous`: a connection waits while
its listener or the pending map holds it, and is joined while a relay does. The
abstract `Join` asks for a peer that is granted the connection's own link when the
server asked for the tunnel, and a link, whichever, when it did not: that is all
the code enforces (`reverse_hello`).

### HandshakeLimiter

`try_acquire` is `AdmitAttempt` or `WindowRefuses` (under the lock), then
`TakePermit` or `CapRefuses` (after it). Time is `now`; a tick is any amount of
time, and `Window` a number of ticks. `admitted` is the history of attempts that
passed the window, against which the deque is judged. A handshake ends in one
step, whatever its result: each path drops the permit exactly once.

### Firewall and GuardedServer

`Firewall` follows a line from the journal to a ban: `Logged` (seen only by a
running tail, since it is started with `--since now`), `WatchReads`, the bounded
`channel`, and `run_daemon`'s decision, in which a ban that fails, a dry run and a
ban that works all end in `forget`. (Its comment says "once it's actually been
banned"; the code forgets after a failed ban too, and `StreaksCaught` shows that it
must.) A ban is the tick at which it expires, so expiry needs no action.
`DaemonStops` loses counts, channel and tail; bans stay. Lines are of three kinds,
told apart as the patterns of `detector.rs` do: *rejected*, *failed*, *other*.
Alone, any line may be printed at any time; in `GuardedServer` lines come from the
accept loops, with the words the code uses: both refusals of the limiter are
*rejected*, a wrong key and an I/O error on the control port are *failed*, a timeout
and every failure on the data port are *other*. `streak` is history: the failures
counted since the last decision.

### ControlFraming

Both ends' `run_control_session` over a connection that loses nothing. A message
is two pieces, as `send_json` writes it; each becomes one Noise message, so
`recv_json` takes a length and may have to wait for the body. `half[e]` is the
state of that future. `PingTick` and `TakeOpenStream` are the other branches of
the two `select!`s: they drop the future, and with it the length it took. The
first bytes of a body are JSON text and as a length exceed `MAX_MESSAGE_LEN`, so
`ReadBodyAsLength` ends the session. A session that ends drops its stream; the
other end reads what is left, or loses it to a reset, and leaves too. A send
runs inside a branch and is never dropped. `sent`, `received` and `torn` are
history. What the client does with an `OpenStream` is in `ReverseStreams`.

### UdpTunnel

`flows` and `flow` are the client's map and its `run_flow` tasks, `sessions` and
`session` the server's. An application stands for one local source at one link's
listener. Everything sent stays in `up` or `down`: a datagram arrives later, again,
out of order, or never. A key stands for encryption: a datagram decrypts in the
session that has its key, and nowhere else. Lookup and insertion in a map are one
step, since only the receiving loop inserts and an entry can only vanish in between;
returning from a task and removing its entry are two. The first datagram a session
decrypts is the hello, or payload that overtook it or outlived it. Payload is taken
for the hello if it parses as one, and names the links in `ParsesAs` of its
application; other payload ends the session. A second copy of the hello reaches the
target as payload, since replay protection is left out (`SECURITY.md` says so). A
datagram dropped by the code (full or closed channel, no match, refused by the
limiter) is one that never arrives. Time is not counted: a timer may expire whenever
its branch can win. `Rebind` gives a flow's socket a new address, and after `Quiet`
nothing arrives any more. `delivered` and `replied` are history.

### Config and TuiApp

`Validate` gives the set of errors where the code gives a list: a pair of what is
wrong and with what. Addresses parse or do not, keys decode or do not, and two
texts may decode to one key. `Unwraps` is the set of optional values the daemon
takes out with `expect("validated: ...")`, when it starts and when a stream
arrives; a daemon panics if `None` is among them. `RunDaemon` is the set of ways a
start may go, since what can be bound is the system's affair (`RunListeners`).
With the `udp` feature, which the models assume although a default build lacks it,
a server exits with failure when `listen_udp` does not bind, and a text that does
not parse never binds: validation does not look at it. A server ends with success
when its control, data and status listeners have all returned for want of a bind;
a client goes on without what does not bind. `TuiApp` has one action per
key that does something in the mode at hand. A text field holds any text when
Enter is pressed, so pre-filled texts are left out. `file`, `daemon` and `unit`
are the world outside: `SaveTorn` is a write that stops half way, `HandEdit` an
operator who puts one of `Rewrites` in its place, while the UI is open too (`Save`
then overwrites it without looking), `RetryDaemon` systemd's `Restart=on-failure`.
`byTui`, `touched` (the file was written by hand under the open UI), `sound`,
`chosen` and `offered` are history.

### ControlChannel

Each client is where its loop is (dialing, in the handshake, in a session, in the
sleep), each connection what either end does with it. `backlog` holds the channel
of authenticated connections together with the tasks that wait to send into it,
in their order, so its capacity needs no constant. A connection that is `broken`
is noticed by each end on its own; one that is `silent` delivers nothing more, a
close included, and the server need never notice it. What a session says is left
to `ControlFraming` and `ReverseStreams`; a session that ends over a torn frame
is a `Break` here. The limiter is `HandshakeLimiter`'s: a refused connection is a
`ConnectFails`. What the status socket tells of a session is `ControlStatus`'s.

### ControlStatus

`set_connected` stores a flag and three values, `set_disconnected` the flag alone,
`SharedState::snapshot` loads all four: one step each, at either role. A value is
the number of the session that stored it. The flag is relaxed, but it is followed
or preceded by the locks of the other three, so the steps are seen in their order.

### DataStreams and StatusSocket

A stream is one connection and its task, at a server (accept, match the peer, read
the hello, check it, connect or claim, relay) or at a client (accept locally, dial,
handshake, send the hello, relay). Claiming finds a connection waiting under the id
the hello names, of any link, or none; `ReverseStreams` says which. The two
increments that open a relay are two steps, since a snapshot may fall between them,
and `Load` takes the counters in any order, since all of it is `Relaxed`. In
`StatusSocket` a process makes the directory, removes the file and binds, in three
steps, each of which the file system may refuse without ending the process
(`NoDirectory`, `RemoveFails`, `BindFails`); the first process holds the data
listeners and so the streams, a later one runs on without. `Crash` loses streams and
counters and leaves the file. `clear` and `reading.late` are history: which starts
had no rival and were refused nothing, and how many streams of the process being
read were being opened while its snapshot was taken.

## Runs

| Run | Checks | Result |
|---|---|---|
| `reverse` | `TypeOK`, `OwnedOnce`, `JoinedOnOwnLink`, `PendingHasCleanup`, `ImplementsRendezvous`, and `PendingResolved` while some client keeps reconnecting | pass |
| `reverse_hello` | `GrantsEnforced` | violated: see below |
| `reverse_offline` | `PendingResolved` with no assumption on clients | violated |
| `firewall` | `FirewallTypeOK`, `StreaksCaught`, `NeverBannableSpared`, `BansEarned` | pass |
| `guarded` | `LimiterTypeOK`, `SlidingWindow`, `PermitsConserved`, `AttemptsCountOnce` | pass |
| `guarded_rate_limited` | `RateLimitedIsAbusive` | violated |
| `framing` | `FramingTypeOK`, `ReceivedPrefix`, `EndsOnlyWhenTorn`, `OpenStreamDelivered`, `SnapshotIsRecent` | pass |
| `udp` | `UdpTypeOK`, `OneTaskPerSource`, `OwnTraffic`, `AllReclaimed` | pass |
| `udp_rebind` | `RebindStartsAnew` | violated |
| `tui` | `TuiTypeOK`, `DaemonNeverPanics`, `SavedFileStarts`, `CleanMeansSaved`, `OnlyEditErrors`, `GrantsAreOffered`, `OnlyChosenTouched` | pass |
| `control` | `ControlTypeOK`, `OnlineIsKnown`, `EventuallyServing`, `EventuallyOnline` | pass |
| `status` | `StatusTypeOK`, `StaleSocketReplaced`, `ActiveWithinTotal`, `QuietIsExact`, `StreamsSettle` | pass |

What the passing ones show:

* `reverse`: whatever peers send and whenever the server restarts, each accepted
  connection has one owner, is joined at most once and never after it was dropped. A
  tunnel the server asked for carries a connection of the link it was asked for. No
  connection waits for ever while a client keeps reconnecting.
* `firewall`, `guarded`: no window admits more than its budget and no
  permit is lost; every full streak is acted upon, no ban is unearned, and one
  connection attempt is counted at most once by the firewall.
* `framing`: see the note on `framing.rs` below. In the same run, with the session at
  rest, `ControlStatus`: a snapshot tells of the session that ran, or was the last to
  run, when it was begun, or of a later one; only a query that falls into
  `set_connected` can show the one before.
* `udp`: a session delivers an application's datagrams to the target
  of a granted link that the application's listener, or a payload of its own,
  named, and replies go back to that application; every task removes its own entry.
* `tui`: no file, written by hand or by the UI, brings a validated daemon to an
  `expect()`; what the UI saved can run, unless the UDP address of a server does not
  parse. Opened on a valid file, no sequence of edits is refused by the save for
  another reason than the four that `OnlyEditErrors` lists, and an edit or removal
  touches only what was selected when it was opened, although selections are kept as
  indices into lists that shrink and are reordered.
* `control`: a client that says "connected" has a connection the server serves or
  will serve, unless the network cut it. When faults end, the dead connections in
  the queue are worked off and the server stays with a live one, or with one that
  was lost silently: the gap that the comment on the client's `run_control_loop`
  admits.
* `status`: counters return to zero and byte counts are exact when no stream is
  under way, on every way out of a relay; a snapshot shows more active than total
  streams only by those that were being opened while it was taken; a start that
  no other start overlaps and to which the file system refuses nothing gets its
  socket, whatever a crash left behind.

The violated ones state what a comment in the code or a document says, and TLC shows a
behaviour of the code that differs:

* `reverse_hello`: the grant is checked of the link the hello names, and the
  connection is taken by the id it names, so a connection of a link that a peer is
  not granted can be joined to that peer; the repository's README says that such a
  link is unreachable to it. The same happens with no ill will after a restart,
  when a tunnel for an id of the server before arrives: `JoinedOnOwnLink` speaks of
  tunnels of the running server only.
* `reverse_offline`: the listener waits for room in the channel *before* it
  spawns the cleanup task. With no client and a full channel, the filed
  connection has no timeout and the listener accepts nothing more, although the
  comment on `PendingStreams` names exactly this case for the timeout.
* `guarded_rate_limited`: the limiter's global cap prints the line that the
  firewall bans on sight, for a source within its own budget.
* `udp_rebind`: outgoing datagrams restart a flow's idle timer. After its address
  changed, a flow whose application keeps sending never ends, its datagrams are
  dropped by the server, and the fresh handshake that `SECURITY.md` promises does
  not start. `AllReclaimed` shows that nothing is left over once traffic stops.

### Other observations

Met while modelling, and not runs of their own:

* `relay` counts tunnel to local as forward, at both roles. On a client's forward
  links (`client.rs:166`) and a server's reverse links (`server.rs:509`) that is the
  opposite of what `stats.rs:24-27` says. `QuietIsExact` leaves the direction open.
* `ghostport-udp/src/server.rs:7-8` says that the first message a session decrypts is
  always a `StreamHello`. The hello is sent once, unacknowledged, with the first
  payload right behind it; payload that parses as a hello decides the link when the
  hello is late or lost. `OwnTraffic` therefore allows an application the links its
  own payload names.
* The UI saves a server's file whose `listen_udp` does not parse, and a daemon with
  the `udp` feature exits on it, although `config.rs:168-170` says that `save` never
  writes what the daemon would refuse to start with. It is the exception in
  `SavedFileStarts`.
* `stats.rs:118` calls a snapshot "point-in-time"; one taken while a session begins
  can say connected with the values of two sessions. `SnapshotIsRecent` bounds that.
* A connection that breaks during the control handshake is logged, and counted by
  the firewall, like a wrong key (`server.rs:301`), although `detector.rs:37-39`
  says that network conditions alone do not produce that line.
* `framing.rs:3-5` holds for `read_exact` itself, but not for a `read_exact` that
  `select!` drops: the server takes the length of a Ping, an `OpenStream` comes
  in before the body, and the session ends on a working connection. `framing`
  shows how far the damage goes: nothing wrong is ever received, and both ends
  leave and can reconnect.
* Editing a link in the UI always writes `transport = "tcp"` and asks for the
  direction anew. After a link is removed or renamed, the grants that name it
  cannot be unchecked, since the checklist shows configured links only; the save
  is refused until the peer is removed and entered again.
* `Config::save` overwrites the file in place: a write that stops half way leaves
  a file that does not parse. It does not look whether the file has changed since it
  was loaded either, so an edit made by hand under the open UI is lost.
* A second `ghostport run` on the same configuration takes the status socket
  away and, as a server without UDP links, runs on although its listeners failed.
  When it ends, the first one runs and cannot be asked, and the client of the
  socket reports it as not running (`ipc.rs:6-9`).
* `relay.rs:12` says that a relay ends when either side closes;
  `copy_bidirectional` goes on until both have.
* The UI's rate after an outage is taken from snapshots that are not consecutive
  (`app.rs:204-231`).
* A threshold of 0 in the firewall's configuration is accepted and turns failure
  bans off, since the count is tested for equality.

### Bounds

* Reverse: two links and two peers (each granted one of the links, one offering the
  other's too), two connections, a channel of one message, one broken control
  connection, one data connection nobody asked for (`MaxHellos`; its id is at most
  the next one to be issued) and one restart (`MaxRestarts`). `reverse_hello` has
  neither break nor restart, `reverse_offline` neither hello nor restart. Two
  connections are enough for one to fill the channel while the other is filed and
  blocked in `send`; a channel of one is the smallest that is ever full. More
  connections are the theorems' part. The three bounds limit these events only;
  connections arrive once each, so ids need no bound.
* Firewall: an ordinary, a private and an allowlisted address; a streak is two
  failures within one tick, bans of two ticks (one for `--test-ban`), a channel
  of two, three ticks. `PipeCap` bounds what is printed and not read.
* Guarded: a key holder and a stranger, one attempt per address and window of one
  tick, one permit, two ticks, a channel and a pipe of one: a window is full, still
  full exactly one window later, and open again after that, and the cap refuses while
  a window has room. `MaxTime` bounds the clock. `guarded_rate_limited` has a window
  of 0 and one tick.
* Framing: three ticks of the ping timer and three `OpenStream`s, so reads are
  dropped at both ends, before, between and after messages of the other end,
  and a message can follow the torn one.
* UDP: two applications, one on a granted link whose payload can read as a hello for
  another granted one, one on a link that is not granted; two flows, two sessions, one
  new address, channels of one: a session can be opened by a replayed initiation, by a
  second flow, and at an address a session has left. `udp_rebind` has one application,
  flow and session, and plain payload. `MaxFlows`, `MaxSessions` and `MaxRebinds` bound
  what is opened, so when they are used up later datagrams are lost.
* TUI: both roles, two link ids, two peer names, a key under two texts and one that
  does not decode; files that are valid and files that break a rule each (no UDP
  address, one key twice, a UDP address that does not parse); an editor can put the
  file with one key twice in place at any time.  `MaxEdits` is two: one edit can
  leave what the next one trips over (a dangling grant, a short list, a left
  wizard). Moves, cancellations and saves are not bounded.
* Control: two clients, two faults (a break, silent or not, or a timeout), so a
  client can have a dead connection in the session, another in the queue and be
  dialing a third time; a bound of 5 on the backoff is not a power of two and is
  reached by doubling past it. `MaxFaults` bounds faults only; `Conns` follows,
  since a connection that got to the handshake ends only through a fault.
* Control status: four sessions (`MaxSessions`), so that a snapshot can span several.
  Framing and status share no variable and no property speaks of both, so the run
  explores each while the other rests in its first state, not their product.
* Status: two streams, so one can be opening and one ending under a snapshot; two
  processes, together or one after the other (`MaxStarts`); a forward, a reverse
  and a UDP link and an id that is granted and not configured; different numbers
  of bytes each way, so a swap would show.

`CHECK_DEADLOCK FALSE` is said only for the reverse runs, whose finitely many
connections are all closed in the end, for the framing run, whose sessions end or
run out of ticks and streams, for the UDP runs, in which nothing is left to do after
silence, for `control`, which is quiet when every client is in a session and the
faults are used up, and for `status`, in which processes and connections are used
up.

### Fairness

`ServerFairness` is what the Tokio runtime gives: a task that can run is polled
and a sleep ends (each listener's own steps, some sleeping cleanup task, the
bind of the control port, the session's draining of the channel).
`ClientReconnects` adds that some client dials again when no session is served,
which `run_control_loop` does for ever. Nothing is assumed about new
connections, target services, data tunnels, or a dead session being noticed.
`FramingFairness` says that a session with something to read reads it (an end of
stream included) and that a write completes; ticks and streams are owed to
nobody. `UdpFairness`: tasks run, handshakes and hellos time out, and an idle timer
ends if nothing that restarts it can happen: for a flow, a datagram in its
channel or a reply that decrypts; for a session, any arrival. Nothing is assumed
about arrivals. `ControlFairness`: tasks run, sleeps and handshake timeouts end, a
client's pings find a dead connection (a write to it fails in the end), and the
server notices one that was reset or closed, but not one that was lost silently,
since it writes only when it has a stream to ask for. That a client which keeps
dialing gets through again and again (strong fairness of `Dial`) is an assumption
about the network and the limiter. `StatusFairness` is `Proceeds` for each stream:
every step before the relay ends, by success, error or timeout, and what the
daemon alone has to do is done. Peers and applications owe nothing.

## Proofs

All theorems hold for every value of the constants that satisfies the named
assumptions, which TLC evaluates on each run:

| Modules | Assumptions |
|---|---|
| `ReverseStreams` | `ConfigAssumption`, `BoundAssumption`, `NullAssumption` |
| `HandshakeLimiter`, `Firewall`, `GuardedServer` | `LimitsAssumption`, `NoIPAssumption`; `AddressAssumption`, `TuningAssumption`; `KeyHoldersAssumption` |
| `UdpTunnel` | `UdpAssumption` |
| `ControlChannel`, `ControlFraming`, `ControlStatus` | `ControlAssumption`, `NoneAssumption`; `FramingAssumption`; `StatusAssumption` |
| `DataStreams`, `StatusSocket` | `StreamsAssumption` (finitely many streams), `NoneAssumption`, `LinkAssumption`, `GrantsAssumption`, `SizesAssumption`; `DaemonsAssumption` |
| `Config`, `TuiApp` | `NoneAssumption` (an absent value is no text), `TextsAssumption` (no text both parses and does not), `DecodedKeyAssumption`; `FilesAssumption`, `EditsAssumption` |

`ReverseStreamsProofs` proves `TypeOK`, `OwnedOnce`, `JoinedOnOwnLink`,
`PendingHasCleanup` and the refinement of `Rendezvous`. `OwnedOnce` is not
inductive: that two entries never hold one connection rests on stream ids being
fresh. The invariant `IInv` adds

* `Consistent`: a listener holds a connection only between accept and insert, a
  tunnel only while it relays;
* `IdsFresh`: every id in use is below `nextId`, no two listeners carry the same
  one, and an id still held by a listener is not yet in the map or a signal;
* `LinksAgree`: a pending entry's connection arrived on the link that its
  listener or any signal for that id names, where a signal is a message in the
  channel or on the wire, or a tunnel the running server asked for. Of a hello that
  answers no signal nothing of the kind holds;
* `Exclusive` and `Accounted`: at most one owner, and at least one.

The step lemmas follow the actions. A restart keeps the invariant because ids and
signals start anew together: what survives it is no longer `asked`. The refinement
maps `Accept` to `Arrive`, a claim to `Join`, cleanup and failed send to `GiveUp`
or a stutter, the end of a relay to `Finish`, `ServerRestarts` to `Restart`, and
everything else to a stutter, a hello nobody asked for included.

`HandshakeLimiterProofs` proves type correctness, `SlidingWindow` and
`PermitsConserved`. The invariant `LimiterInv` adds `Remembered` (the deque is a
suffix of the admitted attempts, and what was dropped is older than the window)
and `Numbered` (a loop or handshake carries the number of an admitted attempt
and no number twice, which makes a new handshake a new element of the set).
`DequesProofs` shows what pop-while-old leaves.

`FirewallProofs` proves type correctness, `StreaksCaught`, `NeverBannableSpared`
and `BansEarned`. The invariant `FirewallInv` adds `Tracked`: the deque of an
address is the end of its streak, what `record` popped lies outside the window
of the newest failure, and the deque is shorter than the threshold between two
offenses. The last part is what makes the `==` in `record` safe: a deque grows
by one at a time, and every path on which it reaches the threshold (banned, ban
failed, dry run) ends in `forget`. `StreaksCaught` follows, since `Threshold`
failures within one window would all still be in the deque; so does
`BansEarned`, since the deque's first element is then the one `Threshold` back.

`UdpTunnelProofs` proves type correctness, `OneTaskPerSource` and `OwnTraffic`. The
invariant `UdpInv` adds `FreshIds` (flows and sessions are numbered in the order
they are opened), `Known` (what a datagram or session names was opened, so that it
cannot change hands later) and `Paired`: a relaying flow has the key of a session
that its own initiation opened, and a relaying session a link that the application
behind it named, by its listener or in a payload, and that its peer may use.
`OwnTraffic` follows, since a datagram is only delivered or returned under such a
key. That a task removes only its own entry follows from the order in the code: the
entry goes after the task has returned, and until then the loop finds it and opens
no other.

For the composition, `GuardedIsFirewall` and `GuardedIsLimiter` show that
`GuardedServer` implements both specifications it is made of, so the theorems of
each hold of it. `AttemptsCountOnce` needs `ClaimsPaid`: whatever can still become
a counted failure of an address (a line in the pipe, an offense in the channel, a
handshake on the control port, an attempt that waits for its permit) has an
admitted attempt of that address to itself. `ServerInv` types the server's part of
the composition: a loop past its accept has an address, and handshakes on the
control port are among the running ones.

`ControlProofs` proves, of `ControlChannel`, type correctness and `OnlineIsKnown`.
The invariant `ControlInv` adds `ClientsHold` (a client in a handshake or session
has a connection of its own whose end does the same, and says "connected" exactly in
a session), `ServerHolds` (the server's end is in the backlog, once, or served, or
neither, as it says) and `OnlineIsHeld`. Of `ControlFraming` it proves type
correctness, `ReceivedPrefix` and `EndsOnlyWhenTorn`, for sessions of any length.
The invariant `Direction` counts pieces: those taken, those unread and those yet to
be written add up to the frames of what was sent, and the unread ones are aligned
with the frames after the pieces taken. A length that a dropped read took shifts the
reader by one piece, so the next thing it reads is a body, and nothing after it is
taken for a message. Of `ControlStatus` it proves `SnapshotIsRecent`: `Stored` says
which values `set_connected` has stored at each step, and `Loaded` that what a
snapshot has loaded, and what it has yet to load, is no older than the oldest
session it may tell of, since values only grow.

`StatusSocketProofs` proves type correctness, `QuietIsExact`, `StaleSocketReplaced`
and `ActiveWithinTotal`. `Fits` says what a stream holds in
each of its steps, and `Exact` what the counters of a link are at every moment, not
only in quiet ones: `active` is the number of streams being opened or relayed,
`total` at least the number relayed, the bytes those of the streams that ended
well. `ClearStarts` says that a start without a rival stays without one until it has
bound, and finds the path free once it has removed the file. `Snapshot` bounds,
after either load, what the other counter may be when it is loaded. The proof
found the history too coarse: `late` used to count streams of any process, and
with three starts a crash and a new process could have pushed it past the number of
streams. It now counts those of the process being read.

`TuiAppProofs` proves `ValidNeverPanics` (for every configuration, with lists of
any length: what `validate()` accepts, no `expect()` fails on), type correctness
with the cursors inside their lists, `DaemonNeverPanics`, `SavedFileStarts`,
`CleanMeansSaved`, `OnlyEditErrors`, `GrantsAreOffered` and the action property
`OnlyChosenTouched`. The invariant `TuiInv` adds what the wizards and prompts hold
in each mode (`LinkWizardOK`, `PeerWizardOK`, `PromptOK`: a prompt is about the entry
under the cursor, which does not move while it is open) and `FileOK`. "Valid" is
not kept by edits; `Sound` is what remains of it, entry by entry: ids and names
differ, each link has the addresses its side needs, the UDP address is there when a
UDP link is, keys decode. `SoundErrors` shows that a sound configuration has no
errors but the listed ones; `LinkReplaced`, `PeerReplaced` and `OneRemoved` show what
`Vec::retain` with a push, and `Vec::remove`, leave of a list, from which follow both
that edits keep a configuration sound and that they touch nothing else.

Only model-checked: the liveness properties `PendingResolved`,
`OpenStreamDelivered`, `AllReclaimed`, `EventuallyServing`, `EventuallyOnline` and
`StreamsSettle`, since liveness under fairness is out of the prover's reach. Every
invariant and action property of the passing runs is a theorem.

## Plan

Modelled: everything in the inventory that keeps state, as listed under
`components` in `PROJECT.json`. What is left:

1. The composition of `UdpTunnel` with `HandshakeLimiter`, for what a flow that
   outlived its session does to the attempts of its address.
2. The safety facts on which the liveness properties rest (that a step which must
   come is possible until it does) can be stated without `ENABLED` and proved.

## Not modelled

Cryptography (`snow`, `snowstorm`): a handshake matches a key holder or fails. Key
files (generation, permissions, base64), TOML and JSON syntax: a text parses or does
not. Parsing of arguments, `keygen`, the text of `check` and `status`. The drawing
of the terminal UI (`ui.rs`, `format.rs`), its status poll and the rates computed
from it, enabling at boot and the log view, which change nothing that the
configuration or the service depends on. Colours (`theme.rs`). The metrics exporter,
which renders one snapshot per request and keeps nothing. Uptime and timestamps (a
start time is known by its session in `ControlStatus`). The `systemctl` calls of the
firewall's `--admin`, and its listing of bans. The limiter's map of addresses is
never pruned, as its comment says; memory growth is not modelled.
