# TLA+ specifications of rsp

rsp is a room-based socket server platform in C++. A **User server** accepts TCP
clients and keeps their sessions; a **Room server** keeps rooms and runs the
application ("contents") loaded from a shared library. The two talk over
ZeroMQ: the User server is a DEALER, the Room server a ROUTER. A command line
client speaks the same protocol as any TCP client.

The specifications are about what is hard to test in such a program: requests,
cancellations, timeouts, closes and shutdowns that meet in an order nobody wrote
a test for.

## The system

| Part | State | Operations | Meets |
|---|---|---|---|
| `tcp_server`, `acceptor`, thread pools, `main` | one outstanding accept, two pools of threads | start, accept, notify created / closed, start reading | clients, connection, session manager |
| `tcp_connection` | write queue, byte counter, overflow / graceful / closed flags | `send` (lock free, any thread), strand handlers for read, write, stop | session, kernel, peer |
| framing (`serializer`, `conn_interpreter`) | receive buffer | append a chunk, cut complete frames, dispatch | connection |
| `session`, jobs, `job_scheduler` | job queue, running, stopped; `finished_` per job | push, run, done, cancel, shutdown | connection, room channel |
| `session_manager` | `sessions_`, `uid_sessions_` | add, remove, find | acceptor, login job, room channel |
| `room_channel`, `pending_requests` | waiting requests with deadlines, timer thread | send, cancel, complete, expire, stop | jobs, dealer channel |
| `dealer_channel`, `router_channel` | outgoing queue, a poll thread | send, poll loop, stop | both servers |
| `user_channel`, `queued_requests` | active tickets, terminal records | admit, cancel, start, finish | router thread, strand |
| `room_manager`, `room`, `room_message_handler` | `rooms_`, `user_rooms_`; per room users, lifecycle, contents | create, join, leave, forward, kick, close, shutdown | router thread, strand, main thread |
| contents | the application's own | callbacks `on_create_room` ... `on_destroy_room` | room |
| `event_publisher`, `event_broker`, `event_subscriber` | queues of events and of subscription changes, a poll thread each | publish, subscribe, unsubscribe, start, stop | each other; no server uses them |
| client (`rsp-cli`) | state, write queue | commands, messages, stop | connection |

The behaviours that make it hard: two threads and a strand share the rooms;
`send()` is a compare-and-swap loop; a request may be answered, time out, be
cancelled and be shut down at once; the clock is read before the lock is taken;
both registries forget on purpose (retention, capacity); callbacks run outside
the locks. `PROJECT.json` lists these hazards with the line where each bites.

## Modules

| Module | Models | Checked by |
|---|---|---|
| `Maps` | `std::map` as a function | - |
| `QueuedRequests` | the Room server's request registry | `request_path`; proved in `RequestPathProofs` |
| `RoomServer` | the Room server around it | `room_requests`, `room_forwards`, two violation runs; proved in `RoomServerProofs` |
| `PendingParameters`, `PendingRequests` | the User server's pending requests | `request_path`, `user_session`; proved in `PendingRequestsProofs` |
| `RequestPath` | a request on its way through both registries and back, with crashes | `request_path`; proved in `RequestPathProofs` |
| `RequestPromise` | what the two servers promise of a request | implemented by `RequestPath` |
| `UserSession` | a session, its scheduler and jobs, over `PendingRequests` | `user_session`; proved in `UserSessionProofs` |
| `SessionManager` | the session manager, accepts, closes, logins | `server`, one violation run; proved in `ConnectionEndsProofs` |
| `TcpServer` | `main`, the accept loop and the pools around it | `server`; proved in `ConnectionEndsProofs` |
| `TcpConnection` | one connection | `tcp`; proved in `TcpConnectionProofs` |
| `RoutedChannel` | the DEALER and ROUTER channels between the servers | `channel`; proved in `RoutedChannelProofs` |
| `EventChannel` | publisher, broker and subscriber | `events`; proved in `EventChannelProofs` |
| `Framing` | the wire format: serialize, cut frames | `client` |
| `ClientSession` | the command line client, over `Framing` | `client`; proved in `ConnectionEndsProofs` |
| `MCRequestPath`, `MCRoomServer` | the keys of the path, symmetry sets for TLC | - |

Definitions called *Variant of X* are not part of any specification: each is X
with a plausible mistake, and shows that the property it is paired with in
`PROJECT.json` notices.

**QueuedRequests.** `active` and `terminal` are the two maps, `ticket` the atomic
state of each ticket. Each operation under the mutex is one action; its `now`
may be older than the clock by up to `MaxDelay`, since it is read first.

**RoomServer.** Three threads: the router thread, which handles one message at a
time (`router`); the strand (`strand`, `cur`); the main thread. `room_manager`
fills `strands_` with copies of one strand, so all rooms share one queue of
tasks. A step is a section under a mutex, a compare-and-swap, an access to
`users_` or a callback. Forwarded messages call contents on the router thread,
as the code does; where that meets the strand changing `users_` or releasing
`contents_`, the data race is the action `DeliverRaces`, which may end the
process. The registry inside is an instance of `QueuedRequests`, and
`RefinesRegistry` checks that the server uses it only in ways that
specification allows. Its clock stands still: one retention period.

**PendingRequests.** `complete()` is three steps (clock, take, callback), the
timer thread four, `stop()` three; the second `clear()` of `room_channel::stop`
is included. The `history` variables record deadlines, arrivals and callbacks.

**RequestPath.** `room_channel` with `PendingRequests`, the channel's two
directions, `user_channel` with `QueuedRequests`, and the strand that runs the
join. It extends the registry and instantiates the table, so that a step of the
path is a step of each or leaves it alone. `add` and `send` of `send_request` are
two steps: a timeout's cancellation can overtake its request. The User server
stops in the steps of `room_channel::stop`, and can crash in any state; `boot`
counts its starts, and a key is the pair of a start's routing identity and a
request id, since ids begin anew. Each start has its own pipe to the Room
server; what was not transferred when the socket closes is lost from the end of
it. `told` is what a session knows of its request, `applied` what the room has
carried out. One user joins one room that stays open.

**RequestPromise.** The abstract specification: a request is issued, carried out
at most once, and told of at most once, of success only when carried out. It
allows what the code allows: a join that is carried out although its session
was told of a timeout or gave it up.

**UserSession.** The session's strand runs scheduler and jobs; the timer and the
channel's thread are those of `PendingRequests`, whose actions it conjoins with
what the callbacks do. Create, join and leave jobs have the same control and are
one kind, "room". The Room server is external: it reads in order and answers a
request once or never; a cancellation may come too late. `TimeOwed` leaves the
bounded clock the time that the jobs under way need, so that the bound cannot
stop a job.

**SessionManager.** Closes happen on the connection's strand, logins on the
session's; `job_login` sets the uid and registers in two steps. `OneUid` says
that a connection logs in under one uid only: a second login under another uid
leaves the first uid's entry behind, and the properties are about sessions that
do not do so.

**TcpServer.** It extends `SessionManager`, whose accept and login actions it
conjoins with what `handle_accept`, the connection's strand and the clients do.
Clients connect and send as soon as the listening socket exists, before any
thread accepts or reads. `handle_accept` notifies the owner, starts the
connection and asks for the next accept, in three steps; a dispatch for a
connection without a session would end the process.

**TcpConnection.** Every atomic operation of `send()` is a step, so that a
worker and the read loop (which answers pings from inside `handle_read`) race at
the limit. Framing is abstracted here: a read holds a valid frame or an invalid
one.

**RoutedChannel.** Each end has a thread, `run()`, which takes over what other
threads have queued (`outgoing_`), sends it, and polls for one message. The
sends block, in the thread that also receives. ZeroMQ is external: a pipe per
direction that holds `HighWater` messages, a handshake that makes a dealer's
identity known to the router, and sockets with linger 0 that drop what was not
transferred when they close. The router's handler answers or does not.

**EventChannel.** One publisher, one broker, one subscriber, each with a thread
that owns its sockets and takes over what other threads queued for it.
Subscriptions travel from the subscriber through the broker to the publisher,
events the other way, filtered at the publisher and the broker. Each part can
stop, fail and be started again. ZeroMQ is external: it connects open sockets,
passes subscriptions on, drops events when a pipe is full or a socket closes.

**Framing.** `mset_be`, `mget_be`, `serialize` and `destruct_buffer` on bytes.
A byte is a digit in base `Base` and the widths are constants, so that a small
instance has short headers whose integers still take more than one byte.

**ClientSession.** The client is single threaded: a handler is a step, except
that the frames of one read are dispatched one by one. What the server sends
travels as bytes and is read in pieces of any size; what the client sends are
message types. The server side is the answers of the session's jobs, in order,
and their view of the room.

## Runs

| Run | Bounds | States |
|---|---|---|
| `request_path` | 1 request id, 2 starts of the User server, timeout 1, clock 2, capacity 1, retention 1, delay 1 | 174,215 |
| `room_requests` | 2 users, 2 ids, 2 rooms, 3 requests, capacity 2, no forwards, distinct ids | 117,412 |
| `room_forwards` | the same with chat and kicks, ids may collide | 158,849 |
| `tcp` | a worker and the read loop, two sends each, sizes 1 and 2, limit 2, 1 read | 694,532 |
| `user_session` | 2 jobs of any kind and `job_stop`, timeout 1, clock 2, 2 posts | 273,910 |
| `server` | 2 connections, 2 uids, 2 logins each, 1 failing accept | 118,185 |
| `events` | 1 topic, high-water mark 1, 2 events, 2 calls, 4 starts of the three parts | 279,759 |
| `client` | base 8, two-digit header integers, payloads up to 2, reads up to 7 bytes, 3 lines typed, 1 message unasked | 617,559 |
| `channel` | 1 dealer, high-water mark 1, 2 sends at each end and the answers | 75,792 |

What they show:

- `request_path`: the two registries keep the promise between them
  (`RefinesPromise`), a request has one fate in the User server's table, a join is
  not carried out while the Room server knows it as cancelled, duplicates are
  suppressed for the retention period, a user that joins again after a restart
  is delivered to; every request ends.
- `room_requests`: a request that was cancelled in time has no effect, a request is
  answered at most once, the user index and the rooms' members agree, contents
  are told before they are destroyed; every request finishes, shutdown
  completes, and an empty room closes.
- `room_forwards`: whatever messages and kicks do, a lookup finds an open room or
  none (`LookupsAreSound`: rooms in the table are open, the index points to rooms
  that exist), and the strand never calls released contents.
- `tcp`: the byte counter is exact and within the limit, `on_closed_` is called
  once, one write is outstanding at a time, writes keep their order and a graceful
  stop drains them first (`WrittenInOrder`); an overflow and a graceful stop close
  the connection (`StopCloses`).
- `user_session`: jobs run one at a time and in order, the client is answered
  once, cancellations match what the client was told, every job ends.
- `server`: a lookup by uid finds a registered session, the one that logged in
  last; a login sent before the server accepts, or beside accepts that fail, is
  carried out.
- `events`: events are handled in order and not twice over stops, failures and
  restarts; subscriptions asked for reach the publisher and those given up leave
  it; an event that a subscription was waiting for is handled.
- `client`: the frames dispatched are those serialized however the stream is
  cut; client and session agree on the room once nothing is under way; requests
  leave in the order typed; the process ends once the client has stopped or
  the server has closed the connection.
- `channel`: nothing queued is lost or reordered while the sockets are open,
  answers find their route, `stop()` returns, messages arrive.

Why the bounds suffice for the cases of interest: a request of each of two
starts makes an old and a new key that meet in the registry, and with capacity 1
the second record evicts the first; a clock of twice the timeout covers in time,
at the deadline and late. What more ids, starts or ticks would do to the two
registries and to the promise is proved (below). Two rooms with two ids cover
collisions, reuse of an id and a user in two rooms; three requests are a create,
a join or leave, and a cancelled or duplicate one; a limit of 2 with sizes 1 and
2 is met exactly, passed, and contended; two connections give an old and a
current session of a uid, and the theorems cover any number; four starts let one
of the three parts of the event channel start again, and a pipe of one event is
full with two; a read of 7 bytes holds a frame and part of the next, or two; a
high-water mark of 1 with two messages blocks both ends. Dealers share nothing
but the router's thread, and two of them are beyond reach in the time of the
other runs, so `channel` says nothing of one dealer holding up another.
`room_requests` has no forwarded messages and distinct ids because kicks and
collisions break `IndexedIsMember` and `DestroyAnnounced` (see below);
`room_forwards` checks what holds with them. Four runs do not check for
deadlock. In `channel`, channels that have stopped stay so, and the one deadlock
there is is the gridlock below; in `request_path` the bounded clock and starts
come to an end, in `events` the bounded calls and starts; in `server` the
clients fall silent, or the server has failed to start.

### What does not hold

Three runs check what a comment says, and TLC finds it violated:

- `recv_after_destroy`: a message reaches contents during or after
  `on_destroy_room`, since `room_message_handler.hpp:96` is the only call into
  contents that is not posted to the strand. The same call can also come before
  `on_create_room`, which is still queued, and beside the strand's own work on
  the room.
- `room_displaced`: a room id drawn twice displaces a live room, whose contents
  are destroyed without `on_destroy_room`.
- `closed_session_stays`: a login job that runs after the close callback
  registers the dead session for good.

Some properties state an exception because the code needs it:

- `ViewsAgree` excepts a refused leave: the session forgets the room before it
  knows the answer, the client stays in it.
- `Delivered` excepts `Gridlock`: both channels send in the thread that
  receives, so with both pipes full each waits for the other to read.
- `StopReturns` excepts a `run()` that is stuck in a blocking send: `stop()` joins
  a thread that no longer looks at `running_`.

- `RejoinRefreshes` excepts a join of an earlier start that the Room server
  carries out after the new one's: the room then delivers to the old route.
- `SubscriptionsPropagate` excepts a subscription of an earlier run: `start()` after
  `stop()` does not make it again, and `subscribe()` ignores it because it is still
  in `subscriptions_`.
- `RequestPromise` does not promise that a request of which a timeout was told has
  no effect: the cancellation may come too late.

Without the exceptions of `Delivered`, `StopReturns`, `RejoinRefreshes` and
`SubscriptionsPropagate` TLC finds the behaviours. `start()` of an event part whose
`run()` has failed by itself, with no `stop()` between, assigns to a thread that
was not joined and ends the process; in the model a restart after a failure
includes the `stop()` that joins it. The contents' callback
`on_kicked_out_user` runs before the user is erased from the room; the model has
the two as separate steps and no property rules on it.

### Fairness

Liveness is checked under weak fairness of the program's own threads: a thread
with something to do eventually does it, which the operating system and asio's
executors give. Clients, the peer server and whoever calls stop are owed
nothing, with these exceptions: in `TcpConnection` a write completes (the peer
reads, or the kernel reports an error), and after the server has shut its side
down the peer closes too, without which the code keeps the connection open; in
`UserSession` a stopping connection closes, which is `StopCloses`; in the
timed modules time passes; in `ClientSession` closing the input or the socket
completes the operations outstanding on it; in `RoutedChannel` ZeroMQ connects
open sockets, notices closed ones, and reads from the dealers in turn (strong
fairness of `RouterReceive`, ZeroMQ's fair queueing). `RequestPath` owes the
User server's threads their turn and the Room server nothing: requests end
without it. In `TcpServer` a waiting connection is accepted although others come
and accepts fail (strong fairness of `Accepted`: the listening queue is first
come, first served, and errors are finitely many). In `EventChannel` ZeroMQ
connects open sockets and passes subscriptions on.

## Proofs

TLAPS proves, for every value of the constants:

- **`RequestPathProofs`**, the registry. `RegistryInv` (types, active and terminal keys
  disjoint, capacity, every unfinished ticket reachable) is inductive; the
  cardinality facts about `Pruned` and `Remember` are lemmas of their own. From
  it follow `CapacityRespected`, `ReachableUntilFinished`, and the action
  properties `DuplicatesSuppressed` and `RaceHasOneWinner`. Assumed of the
  constants: `Keys` is finite; capacity, retention and bounds are naturals.
- **`PendingRequestsProofs`**. `OneFate` is not inductive: that a callback finds
  an empty history depends on where else the request is. `PendingInv` adds
  `Located` (a request is in at most one of table, channel thread, timer thread,
  history, dropped), `Timed` (the times the threads hold are past and fit the
  deadlines of what they hold, and the timer is off until `start()`) and
  `Answered`. From it follow `OneFate`, `TimeoutNotEarly`, `ResponseInTime` and
  `QuietAfterStop`. Assumed: `Timeout` and `MaxTime` are naturals, `NoId` is no
  id.
- **`ConnectionEndsProofs`**. `FoundIsRegistered` and `LatestIsFound` of the manager need
  each other and two more facts: all that a connection's session does with a uid
  is about the one uid it asked for (`OwnUid`), and a connection that was not
  accepted has no login under way (`NewIsIdle`). Their conjunction `ManagerInv` is
  inductive. `ServerInv` says that a connection that reads, or is about to be
  started, has a session, and keeps the types this needs. It gives
  `AttachedBeforeInput`, and that `TcpServer` implements `SessionManager`, so that
  the two hold in the server. Assumed: `OneUid`, and that `None` is no connection
  and no uid. At the client's end, `ClientInv` says that what the session has
  received, followed by what is queued and not received, is what the states sent,
  and that a running client waits for an input its state asks for (`Asking`): then
  every command and message adds one message to the queue or none.
  `RequestsInOrder` follows, with no assumption about the constants.
- **`RequestPathProofs`**, the path. That it keeps `RequestPromise` rests on `PathInv`:
  a request of this start is issued exactly if the table ever held it, is in at
  most one of table, timer and channel thread, and its session has heard nothing
  while it is there (`Outstanding`); a join on its way was issued (`JoinsIssued`); a
  ticket is started exactly if its join was carried out, and responses on their
  way to this start are about such joins (`ResponsesEarned`). The identity that a
  restart changes is what makes the last one inductive. `TicketsHeld`, that the
  strand's joins hold the tickets of their own keys, gives that the path
  implements `QueuedRequests`; `ReachableUntilFinished` and `DuplicatesSuppressed`
  follow in the path. `CancelPrevails` needs that a revoked join is kept from being
  carried out by its cancelled ticket or by a terminal record (`RevokedKnown`), and
  that the joins on the strand have not finished (`StrandUnfinished`).
  `RejoinRefreshes` needs that the route is that of the last join carried out
  (`RouteLatest`) and that only joins carried out are answered (`Heard`). `OneFate`
  follows from the table's own invariant: every step of the path is, for the
  table, a step of `PendingRequests` or a restart, which empties it. Assumed: keys
  are pairs of a start and an id, tickets are named by keys, there is at least one
  start.
- **`RoomServerProofs`**. `ServerInv` has three layers. Of requests: an admitted key
  is carried by one thread or one task at a time (`Carried`), from which
  `AnsweredOnce`, `CancelledHasNoEffect` and the refinement of `QueuedRequests`
  (`RefinesRegistry`) follow. Of rooms: whatever refers to a room refers to one
  that was made (`Born`), a room about to be closed is in the maps no more
  (`Stages`), and no kick is behind a close on the strand or left for a room that
  closed with users in it (`KicksFirst`); with these `LookupsAreSound` is
  inductive. Of contents: `on_create_room` is ahead of everything else the strand
  holds for a room (`CreatedFirst`), which gives `StrandCallsLiveContents`. Two
  theorems have a hypothesis, because the code does not keep the property without
  it. `DestroyAnnounced` is proved for executions in which `rng()` repeats no
  room id in use (`DistinctIds`); with a repeated id an open room is dropped, which
  is what `room_displaced` shows. `IndexedIsMember` is proved for such executions
  when, moreover, clients send no kick: a kick erases the user and leaves
  `user_rooms_` alone. Assumed: `None` is no user, room, room id or request.
- **`UserSessionProofs`**. `SessionInv` says where the scheduler stands (`Running`;
  `Lineup`: the queue is the end of what was pushed, what started is in front of
  it), what the strand holds (`Posted`) and what a room job's request has to do
  with its state, its answer and its cancellation (`Requested`). The request table
  inside the session keeps the `PendingInv` of `PendingRequestsProofs`, which is
  instantiated with the jobs as ids. `JobsSerialized`, `AnsweredOnce` and
  `CancelMatchesAnswer` follow.
- **`TcpConnectionProofs`**. `BytesAccounted` compares a counter with a sum over
  messages in three places, and sums are beyond the prover. A message is
  therefore taken as the set of its octets, numbered and named by sender and
  message number; the sum is the cardinality of a union, and the library's
  theorems about finite sets apply. That takes `Fresh` (what a thread is sending
  was not posted) and `Ordered` (what is written and queued is a prefix of what
  was posted, and the strand holds messages behind it), without which a message
  could be counted once for two places. With `OneOutstanding` (at most one write
  or completion) and `ShutdownLast` they give `BytesAccounted`, `ClosedOnce`,
  `OneWriteAtATime`, `WrittenInOrder` and the action property `ClosedForGood`.
- **`RoutedChannelProofs`**. `NothingLost` speaks of sequences; the invariant
  speaks of indices. The router's messages are numbered, and what waits in its
  queues is exactly the last of them (`Queued`); what has arrived at a dealer is
  genuine, in order, and without a gap unless a socket closed (`ToDealers`); what
  the router heard from a dealer, followed by what is in the pipe, is a prefix of
  what the dealer was given, and all of it with its queues while the dealer is
  open (`FromDealers`). `Lifecycle` and `Answering` (who is answered is known to the
  router's socket, or has closed) give `AnswersRouted`.
- **`EventChannelProofs`**. An event passes through five queues; the invariant
  `EventInv` is that each is in order, that all of one comes before all of those
  behind it, and that none holds what was not published. Every step drops events,
  passes the first of a queue on to the end of the next, or adds a new event to
  the last queue. `HeardInOrder` follows.

The invariants were checked with TLC before they were proved. A theorem's
assumptions are the named `ASSUME`s of the module that declares the constants.

Proved and in no run of their own: the type invariants,
`ActiveTerminalDisjoint`, `CapacityRespected` and `RaceHasOneWinner` of the registry;
`OneFate` (of the table alone), `TimeoutNotEarly`, `ResponseInTime` and
`QuietAfterStop` of the pending requests; `AttachedBeforeInput`; `ClosedForGood`.

Only model-checked: all liveness, which is outside the prover's reach; and
`FramesIntact` and `ViewsAgree` of `ClientSession`. What they say of the frames that
a client dispatches rests on what `MgetBe` of `Framing` computes by folding over any
number of bytes, which takes induction over data.

## Not modelled, and why

- Logging and tracing: output only.
- Contents loading (`so_factory`, `so_manager`): `dlopen`, no state of its own that
  changes while the server runs.
- Generated protocol code: messages are abstracted to their kinds and ids.
- The dispatch tables name the handlers that the actions model; only what the
  User server's dispatcher does without a session is in `TcpServer`.
- Heartbeats: disabled in `session::start`. `thread_safe`: unused.
- `stop()` of `tcp_server` and of the pools beside a running server: only the
  destructor calls it, when `start()` throws.
- What a room does about a user whose session ended: a logout or a lost connection
  sends the Room server nothing, and the user stays a member.
