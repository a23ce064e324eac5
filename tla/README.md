# A verification of zorv

zorv is a reverse tunnel. A client behind a NAT keeps one TLS connection to a
public server; the server listens on public ports and carries each public TCP
connection, or UDP datagram, as frames over that connection to the client, which
forwards it to a local target. This directory holds TLA+ modules of its
concurrent core, the TLC configurations that check them on small instances,
and proofs that TLAPS checks for every instance. `PROJECT.json` maps every
definition to the lines it models and lists the hazards with the properties
that cover them.

Line references are to the repository, `server/...` standing for
`src/server/...`.

## 1. Inventory

| Part | State it keeps | Operations | What is hard | What makes it correct |
|---|---|---|---|---|
| Tunnel sessions (`server/tunnel.rs`, `manager.rs`, `api_kick` in `admin.rs`) | `sessions`: client_id -> session; `kicked`: client_id -> time | handshake, register, cleanup, get, kick, the rejection window | one task per connection; several awaits and lock releases between a check and its use; disconnects at every point | one tunnel per client_id, the live one is in the table, lost ones leave it, a kick keeps its client out |
| Stream ids (`protocol/multiplex.rs`) | one atomic counter per session | `next` | many tasks on one counter, the limit | no id twice, no gap, the call returns |
| TCP streams (`server/listener.rs`, `tunnel.rs`; `client/mod.rs`, `forwarder.rs`) | `pending_opens`, `streams` on each side, bounded channels on every hop | open, ack, data, close, timeout, end of the tunnel | frames overtake the task that prepares for them; awaits inside select branches; both ends close at once | bytes in order, to their own stream; ends reach the other side; tables do not leak |
| UDP proxy (`server/udp.rs`, `tunnel.rs`) | `peer_map` of the listener, `udp` of each session | datagram, answer, sweep | the listener outlives the sessions | an answer goes to who asked |
| Heartbeat and idle monitor (`protocol/heartbeat.rs`, `client/mod.rs`, `server/tunnel.rs`) | `miss_count`, `last_activity` | beat, ack, check | two timers that must fit, late and lost frames | live tunnels are kept, dead ones are ended |
| Proxy rules (`server/proxy.rs`, `admin.rs`, `common/config.rs`) | the handles, the listeners, the list of the console, the file | create, edit, delete, token, reload, startup | three copies changed in several steps by concurrent requests; steps that fail | what is served can be stopped and is listed; what was acknowledged is on disk |
| Client run loop (`client/mod.rs`) | attempts, delay | run, run_once, reconnect, stop | counters that are never reset, limits | it reconnects as configured, and after every end of a connection |
| Dialer (`client/dialer.rs`) | a read buffer | dial, request, first frame | frames cut and coalesced by reads | connected only when the server accepted; no byte of the session lost |
| Client UDP (`client/udp.rs`) | the sessions of a tunnel, their sockets and reply tasks | datagram, answer, close, sweep, clear | a wake-up that stores no permit; tasks that end and leave their entry | one socket for each asker; a task and its entry end together |
| Handshake (`protocol/handshake.rs`, `common/crypto.rs`, `server/auth.rs`) | none | build, encode, decode, verify | clocks that differ, lengths that do not fit | both ends agree on the outcome |
| Frame codec (`protocol/frame.rs`) | none | encode, pad, decode | a stream cut anywhere; a length field that wraps | what is decoded is what was encoded, frame by frame |
| Traffic (`server/traffic.rs`, `traffic_totals`, `manager.rs`) | live counters, totals, history, file | count, merge, sample, save, load, read | reads in several steps while sessions end, kick and restart | no byte shown twice; the saved counts survive a restart |
| Console password and sessions (`server/admin.rs`) | password, session tokens, file | login, authenticate, logout, change, persist | verification against a copy, saves that overlap, crashes | a change revokes the sessions of the old password and is in the file |
| Console login guard (`server/admin.rs`) | bans, failure counts, captchas | accept, captcha, failure, ban | look-up and removal under separate locks, clocks read early | a count at the limit bans; only recent failures count |
| Audit, webhook, TLS, logging, HTTP parsing, allow lists, metrics text, fuzzing code, web UI | a ring and a file; none | | | not modelled, see section 6 |

How they interact: `run_tunnel` puts a session into the table; listeners look
the session up for every public connection or datagram and use its allocator,
its tables and its frame channel; the reader task of the tunnel dispatches
frames into those tables; the idle monitor, the reader and the writer end the
tunnel whichever returns first, and the cleanup takes the session out and merges
its traffic; a periodic task samples and saves the traffic. Console requests pass
the guard and the session check, kick sessions, start and stop listeners, change
the password and write the configuration. On the other side `run` dials again
and again; each `run_once` has its own streams, UDP sessions and heartbeat task.

## 2. Modules

| Module | Role |
|---|---|
| `SessionTable` | what `TunnelManager` promises: an entry is added for an offline client_id and removed, never replaced |
| `TunnelSessions` | `run_tunnel`, `TunnelManager`, `api_kick`; refines `SessionTable` |
| `TunnelSessionsProofs` | its theorems |
| `IdPool` | what the allocator promises: ids are drawn from a pool, never twice |
| `StreamIds` | `StreamIdAllocator::next` with its atomic steps; refines `IdPool` |
| `StreamMux`, `MCStreamMux` | TCP streams end to end |
| `StreamProofs` | theorems about `StreamIds` and `StreamMux` |
| `UdpProxy`, `MCUdpProxy` | the server's UDP listener over successive sessions, composed with the client |
| `ClientUdp` | the client's UDP sessions and reply tasks; instantiated by `UdpProxy` |
| `UdpProxyProofs` | theorems about the two, within one tunnel |
| `Heartbeat` | the two keep-alive timers and the network between them |
| `ProxyRules`, `MCProxyRules` | listeners, list and file under the console's handlers |
| `ProxyRulesProofs` | its theorems |
| `Traffic` | the byte counts: sessions, totals, history, file and their readers |
| `TrafficProofs` | its theorems |
| `FrameCodec` | frames and handshake payloads as operators; extended by `ClientLink` |
| `ClientLink` | the client's life over a byte stream: run, dialer, read loop |
| `ClientProofs` | theorems about `ClientLink`, `FrameCodec` and `Heartbeat` |
| `ConsoleAuth`, `MCConsoleAuth` | the console's password, sessions and their file |
| `ConsoleAuthProofs` | its theorems |
| `LoginGuard`, `MCLoginGuard` | bans, captchas and failure counts |
| `LoginGuardProofs` | its theorems |

The `MC` modules only add symmetry sets. Definitions named `Bug_X` are mutations
of the definition that follows them; no specification uses them. `StreamIds` and
`Heartbeat` name their specifications `AllocSpec` and `BeatSpec` (and `AllocInit`,
`BeatNext`, ...), because a proof module extends them beside one whose specification
is `Spec`.

### TunnelSessions
A connection is one `run_tunnel`, with a program counter `pc`; a kick request is
one `api_kick`. An action ends at every await and every lock release: the
handshake is read, `is_kicked` looked at, the session registered
(`manager.register` is one DashMap entry operation and so one step), the ack
written, and the cleanup is the two steps of `unregister_if_current` and the
merge. `AckFails` is the early return of `tunnel.rs:174`. `api_kick` is
get, send, unregister, mark; the send waits for room in the bounded frame queue
(`full`: the connections that have none), and fails when the tunnel ends meanwhile.
`peer` says where the client end is: dialing until it has taken the ack, up, or
gone. `told` follows the Error frame: queued, written to the client, or lost when it
came in the same read as the ack (`ClientTakesAck`, `dialer.rs:80`). `QueueFills` and
`QueueDrains` stand for the other frames of the tunnel, which are left to `StreamMux`.
`acceptedAt` is a history variable. The outcome of the handshake's verification is a
choice.

### StreamIds
`Load` and `CompareExchange` are the two atomic operations of the loop; a failed
exchange goes back to the load. Ids stay in use until `CloseStream` and are
never returned to the counter, as in the code. `returned` is a history variable
(the number of ids handed out) that the refinement of `IdPool` needs: without it a
second handing out of an id would look like a stutter. `MaxStreams` is the constant
65535.

### StreamMux
For each stream `h` is the program counter of the server's `handle_public_conn`
with `forward_session_conn` in it, `f` that of the client's forward task.
`s2c`, `c2s` are the frame channel, socket and peer buffer of a direction taken as
one bounded queue, `sData`, `cData` the per-stream channels. An action that sends
is enabled only when there is room: that is the `send().await`. `OpenAcked` and
the insertion into `streams` is a step that comes after `DispatchOpenAck`, because
the handler is another task. The client inserts before it reads the next frame.
A task whose `write_all` waits for its socket is `writing` and does nothing else
until the peer or the target reads (`PublicDrains`, `LocalDrains`), which it need not.
A chunk is its frame, with the stream's id and a number per direction; a read of
several bytes is one chunk. Traffic counters are left out.

### UdpProxy and ClientUdp
`peerMap` belongs to the listener, `udp` and `nextId` to each session. `Forward`
takes `manager.get` and the send as one step: between the two there is no other
access of this listener to the table, and a tunnel that ended is a session that
is not in `open`. At the other end of the tunnels is the client, as an instance of
`ClientUdp`: `mapped` is `UdpManager.sessions` of each tunnel, `sock` the local
sockets with the place of each one's reply task, which is spawned, waits in its
`select`, or sends an answer. `Notify` is `notify_waiters`: it ends the tasks that
wait and nobody else. `asked` are the datagrams the target has to answer; `askers`
is a history variable. Datagrams in flight are a set, so they are reordered at
will; one that is not taken is lost.

### Heartbeat
Time is in ticks; timers count down, and time cannot pass a timer that is due.
`timely` is chosen at the start: a network that delivers within `Delay`, or one
that delays and loses at will (a frame that is never taken is lost).
`ClientStops` stands for every end of the frame loop that this module does not
explain.

### ProxyRules
A request's record holds its program counter and its locals; actions end at each
await and each lock release. A rule is a name and a port, a list of rules a
function from names to ports. `tasks` is `ProxyManager.tasks`, `bound` the sockets
that exist in the process or in others, so that a task that is detached keeps its
port. A write of the file may fail at once or half way: it leaves the file as it was,
one that does not parse (`Torn`), or one without its last rules, and the handler
answers 200 all the same (`unsaved`). A reload of a file that cannot be read or parsed
fails. Left out: validation of a rule, the password and the other fields of `base`.

### Traffic
A session is new, running, out of the table and on its way to the totals
(`merging`), merged, or lost with a restart; `Kick` takes a running one out of the
table. Reads are in the steps of the code: `traffic_totals` is snapshot, list, one
get for each client, the sampling task is `online_traffic`, then `sample`, then `save`.
A save may fail and leave the file as it was or torn. `Restart` is a stop at any
point: nothing is saved on the way out, a save that was being written leaves a torn
file, and the start may be unable to read the file, intact or not: then it begins
with nothing (`load`). `saved` is a history variable, what the last good save wrote
since the last start that lost it. One counter stands for the four. `noted` and
`moved` record what was known of each client when a reader began and whose
sessions moved meanwhile; they and the extra fields of a history point are read
by properties only.

### FrameCodec and ClientLink
A byte stream is a sequence of cells: one for each field of fixed width, one for
each byte of a payload or padding. `decode` has the returns of the code in their
order (too short, bad header, incomplete, bad checksum, a frame and what is left).
The length fields are taken modulo `U16` as the casts do. The checksum and the HMAC
are the content they are computed from, so that they match only for it.
`ClientLink` has `run` (attempts, delay), `dial_and_handshake` and the read loop of
`run_once`. Each read takes any number of the bytes that have arrived. The dispatch of
a frame may wait for a target or for room in a queue (`busy`); `Release` ends the wait
and need not come. `Return` is the end of `run_once`, which takes the connection and
the buffers with it. The backoff factor is the fraction that the f64 stands for, and
the delay is cut to whole seconds at each step, as the cast does; that the product is
rounded to the nearest f64 before it is cut is left out. `skew` is a history variable,
how far the client's clock was off when it asked.
The server is what it writes: an answer to the request, frames with padding, the
Error frame of a kick, and an end at which a part of the bytes is lost.

### ConsoleAuth
One request is one task. `pc` is the lock it takes next; `read` what it copied.
A changing request is `CheckOld` (under the read lock, and the hash), `SetPassword`,
`CopyPassword` and `Save` (the two ends of `persist`), `ClearSessions`. The other
requests that persist are `Rewrite`. `Crash` stops the program anywhere; a file
that was being written may be torn, and then `Boot` is disabled, as `load_server`
fails. The history variables say what a session was issued for (`issued`), which
logins a change overtook (`late`), how saves met (`saves`) and which passwords were
answered for (`answered`).

### LoginGuard
The tables are DashMaps: every operation on one is a step. `at` is the clock as the
request read it, which is what it counts and bans with. `Minus` is the unchecked
u64 subtraction. `wrong`, `tries` and `banned` are history variables.

## 3. Runs

`CHECK_DEADLOCK FALSE` is set wherever the finite set of connections, chunks,
datagrams, requests or restarts comes to its end; `StreamIds` has none (callers go
on) and is checked for deadlock.

| Run | Question | Bounds, and why they are enough |
|---|---|---|
| `sessions` | safety and liveness of the session table | 2 connections of one client_id, 1 kick, window 1, time to 2, a queue that fills and drains. Conflicts are between an old and a new connection, or one of them and a kick; connections of different client_ids share nothing. The safety part is also proved for all bounds. |
| `sessions_cleanup_race` | does a cleanup spare the new session? It does not | the smallest instance that shows it |
| `stream_ids` | unique, dense ids; refinement; termination | 3 callers, ids 2, 4, 6: a lost update needs two callers, a third overtakes them at the limit |
| `mux` | one stream, end to end, with the end of the tunnel at any time | 3 chunks each way, tunnel queue 2, stream channel 1: full queues in both directions, so the tunnel can gridlock |
| `mux_two_streams` | separation of streams in both directions, no leaks | 2 streams of 2 chunks each way, queues of 1: two chunks of a stream can change places, and chunks of both are under way together |
| `udp` | answers, sockets, tables | 2 peers, 2 ids, 2 local sockets, 1 tunnel: an id is swept and another taken, by the same peer or the other one, while the first one's answers are in flight; both ids and sockets run out |
| `heartbeat` | both timers, timely and lossy network | beats every 5 to 7 ticks, `MissMax` 3, limit 3*7+2, check every 2, delay 2, 4 frames in flight |
| `rules` | listeners, list, file; requests one after the other | 3 requests, 2 rules, 3 ports of which one is held by another program, 2 tokens: edit a rule after another failed, then reload; a failed write, then a good one |
| `traffic` | are the figures right while sessions move | 1 client with 2 sessions, 2 packets each, 1 console request beside the sampling task, 1 restart, any save failing. What is read of one client depends on that client alone, so a second adds nothing; a session and its successor are what a reader can confuse |
| `client` | reads cut anywhere, retries, every way a connection ends | 2 frames with 0 or 1 byte of padding after the ack, 0 (unlimited) or 1 retry, delay 3 with factor 3/2 up to 5, so that the first growth is cut (4.5 to 4) and the second meets the bound; a right and a wrong token and version, a clock in and out of the window; length fields modulo 4, above every length that occurs |
| `console` | password, sessions and file | 2 requests, 2 tokens, 2 passwords besides the empty one, time to 2 with sessions of 1, 1 crash. The theorems have any number of each |
| `login_guard` | counts and bans | 2 requests, 2 IPs, 3 captchas, limit 2, time to 3 with windows of 1: a failure in and out of the window, a ban that ends. The theorems have any number of each |

### Fairness
Tasks of the tokio runtime that can run are run: weak fairness of each task's steps
(`Proceed`, `Step`, `Handler`, `Forwarder`, the readers, the timers, `ClientStep`), and
strong fairness of a kick (`KickProceed`), because tokio's channel queues its senders:
one that waits for room gets it when room comes back again and again. The specifications
assume nothing of administrators, clients, public peers, targets or the network. Where
the code needs them to go on, the property says so, in a hypothesis of its own:

* `KickEndsTheTunnel`: clients go on reading what they are sent.
* `KickAnswered`: no frame queue stays full for ever. Without it a client that takes
  nothing and still sends keeps its tunnel, its full queue and the request
  (`KickAnsweredWhateverTheClient` is refuted).
* `PublicEndReachesClient`: no local target stops reading for ever. It takes all of them,
  because one full stream stops the client's frame loop (`client/mod.rs:263`).
  `ClientForwardsEnd` needs it of the stream's own target only (`forwarder.rs:62`).
* `ClosedLeadsOn`: no dispatch of a frame waits for ever (`client/mod.rs:224`, 228, 248,
  263). It is about connections that do end; nothing is assumed of the server or the
  heartbeats.

`LostTunnelIsCleanedUp`, `NextReturns`, `OpenDecided` and `GoneClientIsDropped` need no
hypothesis. In `StreamMux` two ends of the tunnel are fair for a reason: a side whose
peer's tunnel has ended reads the end of the stream, when it comes to read, and a
server whose reader waits for ever (`ServerWaits`; a gridlocked tunnel, `Gridlocked`,
is a case of it) processes no frame, so `last_activity` stands still and the idle
monitor ends the tunnel (`server/tunnel.rs:384`). Without the monitor
`PublicEndReachesClient` fails; it is what the deadlock of full queues costs, up to
`3*hb_max+10` seconds and the tunnel with all its streams. In `Heartbeat`, whether a
frame arrives is not fair.

## 4. Proofs

`tlapm` checks eight modules; the theorems are about the very specifications the
runs check, for every value of the constants that satisfies the named `ASSUME`s
(disjointness of the sentinels, non-empty sets, positive limits) and the further
hypotheses named below. Each specification has a type invariant, `TypeCorrect`
(`AllocTypes` of `StreamIds`, `StreamTypes` of `StreamMux`, `BeatTypes` of `Heartbeat`,
`LinkTypeCorrect` of `ClientLink`). Where no run checks `TypeOK`, the proof does.

* **TunnelSessions.** `Invariance` proves an inductive invariant of five parts.
  `ServedUnlessKicked` alone is not inductive: that the cleanup of an old
  connection spares a live one rests on `EntrySound` (what an entry of the table
  says about its connection), and `KickHoldsForLaterConnections` rests on
  `WaitedOut` (a connection that passed `is_kicked` did so late enough) and on
  `AcceptedInThePast` (clocks). From it follow `SingleTunnel`, `NoDoubleCount`,
  `KickWindowHolds`, and `TableImplemented`, which shows each step to be a
  step of `SessionTable` or a stutter.
* **StreamIds.** `CounterSound` says that the counter keeps its parity and that a
  caller only ever offers a value that passed the limit, `IdsDense` that the ids
  handed out are those of the series below the counter; together they are
  inductive, since a successful exchange hands out the counter's own value. From
  them `DenseIds` and `FreshIds` (the refinement of `IdPool`).
* **StreamMux.** `OrderOfStreams` is `StreamsInOrder` for any number of streams and
  any capacities of the queues. It speaks only of what was written to the two
  sockets, so the invariant says where every other chunk is. `DownloadSound`: what
  has reached the client is a beginning of what was sent, and what is on its way to
  a stream that is still in the client's table goes on from there without a gap
  (`Run`). `UploadSound` is weaker, as the code is: what was written comes before
  what is in the stream's channel, and that before what is in the tunnel, in order
  but possibly with gaps. That a chunk is its frame lets `OwnChunks` say that whatever
  is in a stream's channel or was written to its socket carries that stream's id. All need `OpenedOnce`: a stream id has one `StreamOpen`,
  one dial and one handler, which forwards only after the client has the stream.
  `TablesHeld` says that an entry of `pending_opens` or `streams` belongs to a task
  that has yet to remove it; `TablesClean` (`ReturnedHandlerLeavesNothing`) follows
  from it.
* **ProxyRules.** `HandlesLive`: whatever handlers race, a handle in the map
  belongs to a listener that serves its port under that name. It rests on the two
  moments at which a listener runs and is not in the map: `HeldSound` says what
  a listener is that `stop` has taken out or `start` has bound, `HeldApart` that
  no two handlers are at the same one, `HandlersSound` that a handler that is about
  to bind has a port. TLC checks `HandleIsLive` for requests in sequence; the
  theorem has the concurrent ones. The other four theorems are about an administrator
  who waits for each answer (`Serial`), for any number of requests, names and ports.
  `SerialInv` says for each step of each handler how far listeners, map, list and
  file have come to agree, and of a server at rest that they do. From it `NoOrphans`,
  `ServedListed`, `AcknowledgedOnDisk`, and `SavedCurrent`. A write that fails
  leaves the file behind; the next one that succeeds makes it good, and so does one
  after a failed reload or an edit by hand (`AcknowledgedOnDisk`). Without any of these
  three the file is current whenever the handlers have answered (`SavedCurrent`).
  Without `Serial` the first and the last are refuted (`MCProxyOrphan`,
  `MCProxyStalePersist`): requests that overlap leave an orphan, and are a fourth way
  to a stale file.
* **ClientLink with FrameCodec.** `RoundTrip`: `decode` undoes `encode` for every
  frame whose padding fits its length field, wherever the bytes that have arrived
  end; it waits for the rest and then takes exactly the frame. `FramesInOrder`
  speaks of the frames the client has handled and is not inductive: one must know
  what the bytes under way are. `LinkInv` names them: the frames `F` that the server
  has written on this connection, their offsets, the byte stream `S` they make, and
  the place `p` in it at which the client's buffer begins; buffer and wire are what
  stands behind `p` (`Window`), all of it unless the connection broke. `F` is
  nothing yet, a refusal, or the ack with the frames behind it (`Asked`, `Refused`,
  `Welcomed`), and `p` the beginning of a frame (`Aligned`) or, when the dialer's
  buffer went with a part of one, inside it (`Adrift`). A client that is adrift
  handles nothing: no header stands inside a frame the server writes
  (`NoHeaderInside`), so `decode` fails at once. The three theorems on frames assume
  `PaddingMax < U16`: the padding's length is cast to that field, and above it the
  property is refuted (`MCClientPadding`).
  `ConnectedAgree` rests on `AcceptedTokens`, what an acceptance says of the token, the
  version and the clock of the request that is on the connection.
  `RetriesCounted` rests on `Counted` (dials against attempts) and `Delayed` (the
  delay at each attempt, of which a sleep uses the one before). For a factor `Num/Den`
  that is cut at each step there is no closed form to compare with; `WithinGrowth` says
  by how much the delay may miss the exact power, `OneGrowth` that one more growth
  stays within it. The provers do not know what `^` means, so `ClientLink` states it for
  the bases and exponents in use as `PowersAssumption`, which TLC evaluates on every run.
* **Heartbeat.** `SilenceBounded`: a tunnel that is up was heard of within the
  idle limit and one period of the monitor. The bound itself is not inductive, for
  it does not say when the monitor looks again; `SilenceMeetsCheck` does: silence
  and the time to the next look together stay within limit and period.
  `HealthyLives` is `HealthyTunnelLives` where `2 * Delay < HbMin` and
  `MissMax >= 3`, which is what it takes: on a network that delivers in time neither
  end gives the other up. `RoundTripFits` says that at most one heartbeat or ack is
  on its way and arrives before the next beat is due, `MissesFew` that nothing else
  is counted as missed, `ActivityRecent` that the server has heard of the client
  within one interval and one delay.
* **Traffic.** Nothing the console shows is compared directly with what it read: between
  its three reads sessions end, merge and are replaced. `IInv` keeps what each
  comparison needs. `KnownCounted`: the totals with what is running or on its way to
  them (`Pending`) are no more than was counted, so that a merge moves bytes and adds
  none. `AnswersCounted`: as long as a reader has yet to fetch the session of a client
  (`Awaits`), its answer *together with* the session that is online now is no more than
  was counted; this is why the snapshot of the totals must come before the sessions, and
  `CountedOnce` (`NothingCountedTwice`) follows. `AnswersComplete`, `SampleComplete` and
  `PointsComplete` say the converse for clients none of whose sessions moved, for
  `QuietComplete` (`QuietReadsAreComplete`); `FileBehind`, that the file is never ahead
  of what was counted, belongs to the same. `TotalsSurvive` (`SavedTotalsSurvive`) is inductive
  with the types: a save that succeeds writes what the totals are, a failed one leaves
  or tears the file, and only a start that cannot read it goes back behind it. The heart is `SessionStep`: whatever a session
  does, what is known and what is online grow by no more than what is counted (`Grows`).
  These are statements about sums over sets of sessions (`MapThenSumSet`, a recursive
  function of the community modules); that the sum of a finite set is a term and the sum of the
  rest, that it splits and grows (`SumUnfolds`, `SumSplits`, `SumGrows`, `SumAdds`,
  `SumCounts`) is proved by the smallest set for which it would fail (`LeastSet`), in
  place of an induction. That only finitely many sessions have begun is part of the
  invariant (`SessionsHeld`) and no assumption: `Conns` may be infinite.
* **ConsoleAuth.** `SessionsRevoked` needs `LoginSound` (a login that no change has
  overtaken has read the password in force) and `DownIsEmpty` (a stopped program
  has no request and no session). `ChangeHolds` needs six facts that hold as long as
  no two saves met: what the file may hold (`FileKnown`), that there is one change at
  a time, whose password is in force, that copies held are of that password, that
  a change that has come to clear the sessions is in the file, and that without a
  change the file has the password in force.
* **LoginGuard.** `LimitActedOn` is inductive by itself with the types: the request
  that brings a count to the limit is there to act on it, and one that removes a
  count of the IP removes all of it. `CountsAreRecent` needs `ClockSound` (a request
  has read a time that is past, and the window of a count starts at such a time) for
  the unchecked subtraction: if it does not wrap it tells the window, and if it does
  the count starts anew (`MinusInWindow`).
* **UdpProxy with ClientUdp.** The theorems are about the client's first tunnel
  (`started <= 1`, or `MaxSessions = 1`): for a reconnect the properties are refuted.
  None of them is inductive, for the tables forget what a sweep removes while its
  datagrams and answers are still under way. The invariant follows the *traces* of a
  source address under an id: an entry of either table, a datagram or an answer in
  flight, a socket of that id that sent for it. `OneOwner` says that an id has the
  traces of one source address at most, `IdsFresh` that an id to be handed out has
  none, `SocketSound` that a socket answers only those it has sent for. Only
  `ReceiveNew` leaves a trace where there was none (`NewIdTraces`, `ServerTraces`,
  `ClientTraces`), and it does so under a fresh id.

Every invariant and every action property of the passing runs is stated by a theorem.
Model-checked only are the liveness properties (`LostTunnelIsCleanedUp`,
`KickEndsTheTunnel`, `KickAnswered`, `NextReturns`, `PublicEndReachesClient`,
`ClientForwardsEnd`, `OpenDecided`, `GoneClientIsDropped`, `ClosedLeadsOn`): liveness
under fairness is outside the reach of the prover.

A note for those who extend the proofs: the SMT backend of `tlapm` 1.4.5 derives
FALSE from an `EXCEPT` of an `EXCEPT` at the same point of a function, and writes
`[f EXCEPT ![x].a = .., ![x].b = ..]` as such a chain. The modules with proofs
update several fields as `[f EXCEPT ![x] = [@ EXCEPT !.a = .., !.b = ..]]`, which is
translated soundly, and have no update of an updated function. To see that no leaf
rests on a contradiction, each was also tried with FALSE for its goal: that fails but
in the cases that are meant to be impossible, such as `b > a` in `MinusInWindow`, the
step without a new datagram in `OwnEntry`, and the end that gives up in `HealthyLives`.

## 5. Where the code and the repository's words disagree

A run of the project shows the first. The others were met while modelling; each has a
configuration that TLC refutes (`tlc -config X.cfg M`). Where one names several
properties, TLC stops at the first it finds; leave the one to be seen.

| Configuration, module | What happens | What is said |
|---|---|---|
| **run** `MCTunnelCleanupRace`, `TunnelSessions` | a kick empties the entry between the two halves of `unregister_if_current` (`manager.rs:172`) and the cleanup of the old session removes the new one | README.md:44 |
| `MCTunnelKickRefuted` (`KickAlwaysEndsTheTunnel`), `TunnelSessions` | the Error frame of a kick arrives in the same read as the ack, goes with the dialer's buffer (`dialer.rs:80`), and the client keeps its tunnel | README.md:37 |
| `MCClientBackoff`, `ClientLink` | a delay of 1 s with a factor of 3/2 never grows (`client/mod.rs:91`) | client/mod.rs:65 |
| `MCStreamMuxEarlyData`, `StreamMux` | data that follow the ack closely find no stream and are dropped (`listener.rs:130`) | tunnel.rs:245 |
| `MCUdpReconnect` (`AnswersGoToAsker`), `MCUdpProxy` | after a reconnect a peer's old id is another peer's new one (`udp.rs:81`) | multiplex.rs:184 |
| `MCHeartbeatDead`, `Heartbeat` | the heartbeat task that finds the tunnel dead returns and closes nothing (`client/mod.rs:180`) | client/mod.rs:181, docs/handshake.md:230 |
| `MCProxyOrphan`, `MCProxyRules` | two creates of one name leave a listener nobody can stop (`proxy.rs:42`) | proxy.rs:3-5 |
| `MCTunnelAckLeak`, `TunnelSessions` | a failed write of the ack leaves the session registered (`tunnel.rs:174`) | docs/handshake.md:268 |
| `MCTunnelKickRefuted` (`KickRemovesToldSession`), `TunnelSessions` | the session removed by a kick is not the one that was told (`admin.rs:950`) | admin.rs:922 |
| `MCTunnelKickRefuted` (`KickAnsweredWhateverTheClient`), `TunnelSessions` | a client that takes nothing and still sends keeps its full queue, and the kick is not answered (`admin.rs:944`) | admin.rs:922 |
| `MCTunnelKickRefuted` (`KickedClientStaysOut`), `TunnelSessions` | a client reconnects before its kick is recorded (`admin.rs:953`) | manager.rs:92 |
| `MCStreamIdsLimit`, `StreamIds` | streams are refused although few are open (`multiplex.rs:65`) | README.md:29 |
| `MCStreamMuxEarlyClose` (`CloseEndsHandler`), `StreamMux` | a close that follows the ack closely is lost (`listener.rs:130`) | tunnel.rs:246 |
| `MCStreamMuxEarlyClose` (`TimeoutReachesClient`), `StreamMux` | the client is not told of a timeout and keeps a stream (`listener.rs:120`) | docs/handshake.md:255 |
| `MCStreamMuxGridlock`, `StreamMux` | every task of the tunnel waits for another (`listener.rs:166`) | listener.rs:146 |
| `MCUdpReconnect` (`SentUnderOwnEntry`), `MCUdpProxy` | after a reconnect a known peer's answers are dropped, and its id is not swept (`udp.rs:81`) | udp.rs:5 |
| `MCHeartbeatLateAck`, `Heartbeat` | a late ack revives a tunnel without a heartbeat task (`client/mod.rs:206`) | docs/handshake.md:228 |
| `MCProxyStalePersist`, `MCProxyRules` | of two persists the older copy is written last (`admin.rs:1252`) | admin.rs:1250 |
| `MCProxyReload`, `MCProxyRules` | a reload answers 200 and a rule of the file stays down after a failed edit (`admin.rs:1231`) | README.md:39 |
| `MCTrafficSample`, `Traffic` | a session that merges between `online_traffic()` and the copy of the totals is in a history point twice (`server/mod.rs:77`, `traffic.rs:107`) | traffic.rs:49 |
| `MCUdpTasks` (`NoTaskOutlivesItsSession`), `MCUdpProxy` | a reply task that is sending, or not yet polled, when its session is closed misses `notify_waiters` and keeps its socket (`client/udp.rs:124`) | client/udp.rs:135 |
| `MCUdpTasks` (`MappedSocketIsRead`), `MCUdpProxy` | after a failed receive the session stays mapped and nobody reads its socket (`client/udp.rs:110`) | client/udp.rs:4 |
| `MCClientDropped`, `ClientLink` | what the dialer's read took beyond the ack is lost (`dialer.rs:80`) | dialer.rs:5 |
| `MCClientPadding`, `ClientLink` | with a `padding_max` above the width of the length field the reader loses the frame boundary (`frame.rs:125`) | frame.rs:116 |
| `MCConsoleRefuted` (`EverySessionFollowsPassword`), `MCConsoleAuth` | a login that verified the old password inserts its session after the table was cleared (`admin.rs:603`) | admin.rs:1081 |
| `MCConsoleRefuted` (`ChangesTheVerifiedPassword`), `MCConsoleAuth` | of two changes the second was verified against a password that is no longer in force (`admin.rs:1112`) | admin.rs:1078 |
| `MCConsoleRefuted` (`FileParses`), `MCConsoleAuth` | a crash during `fs::write` leaves no configuration to start from (`config.rs:341`) | config.rs:337 |
| `MCLoginRefuted` (`CaptchaSingleUse`), `MCLoginGuard` | two requests use one captcha (`admin.rs:622`) | admin.rs:618 |
| `MCLoginRefuted` (`BanLasts`), `MCLoginGuard` | a request that found an old ban over removes the new one (`admin.rs:659`) | admin.rs:630 |
| `MCLoginRefuted` (`RecentFailuresBan`), `MCLoginGuard` | as many failures as the limit, all in one window, and no ban: the window starts with the first one and does not slide, and two requests may count in the other order than they read the clock (`admin.rs:635`) | README.md:35 |

Where a configuration names several properties in its comment, they are refuted there
one at a time, each as the one PROPERTY.

The passing runs say how far the promise does hold. `ServedUnlessKicked` excludes
only kicked client_ids. `KickEndsTheTunnel` excludes only Error frames that were lost. `StreamsInOrder` is what is left of the upload. `udp` is the
client's first tunnel. `QuietReadsAreComplete` excludes clients whose sessions moved
while they were read, `FramesInOrder` sessions whose dialer took too much,
`SessionsFollowPassword` logins that were overtaken, `AnsweredChangeHolds` saves that
met. A type invariant and a claim of one tunnel per client_id that no run checks are
proved (`TypeCorrect`, `SingleTunnel`).

Seen, with no property: the server's cleanup does not clear `session.streams`, so
a silent public connection outlives its tunnel (`tunnel.rs:207`); EOF of the
public side cuts off the answer of the target (`listener.rs:160`); the dialer
waits for the ack without a timeout (`dialer.rs:86`); while a dispatch waits for a
target, the client handles no frame of any stream and does not see the end of its
connection (`client/mod.rs:263`); a save that fails is logged behind an answer 200
(`admin.rs:1257`); a `traffic.json` that cannot be read for the moment is taken for
empty and overwritten by the next save (`traffic.rs:77`).

## 6. Not modelled

* The audit log (`server/audit.rs`): a file and a ring, each appended under its own
  lock. Two concurrent entries may be in a different order in each; nothing reads
  them but the console's view, and no order is promised.
* The webhook (`server/notify.rs`), TLS set-up, logging, error types: no state, or
  that of libraries. A TLS connection is a byte stream that works or breaks.
* IP allow lists: a pure predicate, looked at once before anything that is modelled.
* HTTP parsing, static files, status and the text of metrics: parsing and views. The
  figures behind the views are in `Traffic`.
* Validation of rules and configuration values: the models take valid ones.
* The fuzzing code, the examples and the web console.

## 7. Plan

1. Proofs: an invariant of `ProxyRules` for overlapping requests that names the
   orphans they can leave; what `UdpProxy` keeps after a reconnect.
2. The four counters of a session and the history as the console plots it.
3. An abstract two-way stream that `StreamMux` implements in the direction that
   loses nothing.
