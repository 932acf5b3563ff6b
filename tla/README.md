# TLA+ for sovd-toolkit

A verification project for the SOVD server, its UDS-over-DoIP adapter and its
clients (C++17, sources under `src/`). The system gives HTTP clients access to
a vehicle's diagnostic entities. What makes it hard is not its data but who may
touch an ECU when: HTTP worker threads, heartbeat threads, clients that die and
gateways that answer late all meet in a handful of small state machines. Those
are what is modelled here.

## 1. Inventory

| Part | State | Operations | Talks to |
|---|---|---|---|
| Lock manager (`core/src/lock_manager.cpp`) | `locks_`, `next_id_`, a clock | `acquire`, `release`, `renew`, `check_lock`, `held_lock_count` | called by the routes, under one mutex |
| Lock routes (`server/src/routes_locks.cpp`) and lock-gated routes (`routes_data.cpp`, `routes_operations.cpp`, `routes_faults.cpp`) | none of their own | POST, PUT, DELETE locks; PUT data, POST modes, POST operations, DELETE faults | lock manager, then the entity's vtable |
| UDS session manager (`session_manager.cpp`) | session type, security level, last touch, heartbeat thread and flag | `ensure_session`, `revert_to_default`, `ensure_security_level`, `heartbeat_loop` | sends through the adapter; called by its vtable functions |
| DoIP transport (`doip_transport.cpp`) | one TCP socket | `connect`, `send_and_receive`, `receive_pending_response` | a DoIP gateway |
| UDS/DoIP adapter (`uds_doip_adapter.cpp`) | `transport_mtx` | `send_and_resolve` and the vtable | session manager, transport, catalog |
| UDS codecs, framing (`uds_services.cpp`, `doip_protocol.cpp`, `nrc_map.cpp`) | none | pure functions | adapter, transport |
| Stream hub (`stream_hub.cpp`) | pollers by (path, id, interval), a thread each | `subscribe`, `wait_next`, `release` | vtable reads; the stream route |
| Data routes (`server/src/routes_data.cpp`, the adapters' `read_data` and `write_data`) | the request in progress; the devices' data | GET one item, GET several, PUT one | catalog, entity's vtable, ECU |
| Stream tickets (`stream_ticket.cpp`, `routes_streams.cpp`) | outstanding tickets | `issue`, `redeem`, sweep | stream route |
| Router (`routes.cpp`, `routes_util.cpp`) | proxies, one connection and mutex each | dispatch, authorisation, `try_forward` | everything above, remote servers |
| Entity registry (`core/src/entity_registry.cpp`), configuration and `main` | entities in order, their contexts, catalogs, proxies | `add_entity`, `find`, `remove_entity`; load, serve, exit | filled before the server listens, emptied when it has stopped |
| Client SDK (`lock_guard.cpp`, `sovd_client.cpp`) | lock id, heartbeat thread, `stop_` | guard, renew, retry on 503/504 | the server, perhaps through a gateway |
| Web UI (`useLock.ts`, `DataTable.vue`, `LiveChart.vue`) | lock id, timers, event source | acquire and release, change entity, unmount; stream and reconnect | the server |
| Catalog (`did_catalog.cpp`) | items, fixed once loaded | load, `find_by_id`, `find_by_did`, `decode`, `encode` | data routes, adapter |
| OAuth2, MQTT, mDNS, CLI, static files | none that others read | token check, best-effort I/O | |

Interactions. A worker thread runs a handler from the first line to the last.
The handler asks the lock manager, which answers atomically, and acts on the
answer later, without holding anything: by a second lock-manager call or by a
vtable call. A vtable call of the UDS adapter may escalate the ECU's session,
which starts a heartbeat thread. Workers and heartbeat share the ECU's one
connection under `transport_mtx`. Releasing a lock reverts the session by a
vtable call; a lock that expires silently reverts nothing, and the session
manager's idle timeout stands in for it.

What makes each part correct:

- lock manager: at most one live lease per entity; ids never come back; only its
  holder or the clock ends a lease; an abandoned one ends;
- routes: the check-then-act windows do bounded harm, and a session that was
  recorded under a lock ends with the lock;
- session manager: while calls do not overlap, bookkeeping, heartbeat and ECU agree
  and a heartbeat never outlives its session; nobody blocks for ever;
- transport: an answer belongs to its request; an exchange ends;
- streams: one poller per key while somebody listens, none after; a ticket opens
  one stream at most;
- client lock: a client that is served in time keeps the lock it believes it has, a
  lock nobody knows of any more ends, and a guard's destructor returns;
- start-up: the registry is a tree, and every adapter context that was handed out has
  one owner, whatever the configuration;
- data routes: a client is never told the opposite of what the device did, and is told
  what its items hold, for as long as no answer of the device is late.

What is hard to test in all this is listed, line by line, under `hazards` in
`PROJECT.json`.

## 2. Modules

| Module | Models | Proofs |
|---|---|---|
| `LockLease` | what the lock service promises, without clock or map | |
| `LockManager` | `lock_manager.cpp` | `LockManagerProofs` |
| `LockRoutes` (extends `LockManager`) | the lock and lock-gated handlers over it | `LockRoutesProofs` |
| `SessionManager` | `session_manager.cpp`, called by several workers, with its heartbeat thread and the ECU | `SessionManagerProofs` |
| `DoipTransport` | `doip_transport.cpp` and `send_and_resolve` | `DoipTransportProofs` |
| `StreamHub` | `stream_hub.cpp`: shared pollers, subscriptions, poller threads | `StreamRoutesProofs` |
| `StreamTickets` | `stream_ticket.cpp` | `StreamRoutesProofs` |
| `StreamRoutes` (extends both) | `routes_streams.cpp`: the handlers over hub and tickets, and clients that hang up | `StreamRoutesProofs` |
| `LockClients` (extends `LockManager`) | `lock_guard.cpp`, `useLock.ts` with `DataTable.vue`, the clients' retries, and what a gateway may answer | `LockClientsProofs` |
| `Topology` | `config_loader.cpp`, `entity_registry.cpp`, `main` from load to exit | `DataRoutesProofs` |
| `Catalog` | `did_catalog.cpp`, as operators | `CatalogProofs` |
| `DataStore` | what the data routes promise: registers, no bytes, no connection | implemented: `DataRoutesProofs` |
| `DataRoutes` (extends `Topology`, `Catalog`) | `routes_data.cpp`, the adapters' `read_data` and `write_data`, `uds_services.cpp`, `nrc_map.cpp` | `DataRoutesProofs` |
| `MC...` | the instances that are model-checked | |

`LockManager` is checked under its two users, `LockRoutes` and `LockClients`, whose
runs include its own properties.

### LockManager and LockLease

Each member function holds `mtx_` throughout, so each is one action. The code
keeps the instant of expiry and compares it with the clock; the model keeps the
distance between them, `left`, in seconds, and `Tick` shrinks it. An expired
entry (`left = 0`) stays in the map until something erases or overwrites it, as
in the code, because `release` and `renew` behave differently on it. `next_id_`
is a 64-bit counter; `MaxId` bounds it for TLC only.

`LockLease` says what callers may rely on: an entity is leased under one id or
free, a lease is granted on a free entity under an id nobody has seen, and lost
leases do not come back. `ImplementsLease` maps an unexpired entry to a lease and
the ids below `next_id_` to the ids issued.

### LockRoutes

Handlers are split exactly where they leave the lock manager: `PostLockCheck` and
`PostLockAcquire` (capacity test, acquire), `DeleteLock` (release) and the
`set_mode("default")` that follows it, `GatedCheck` (`check_lock_header`) and the vtable
call that follows it, or `GatedReject`.

A vtable call is split where the session manager releases `mtx_`, because any number
of calls, a release's revert among them, may be inside it together. `EnsureSession` and
`RevertToDefault` are the look at the recorded session; `RecordSession` and
`ForgetSession` are the record made of it afterwards, whatever others recorded in
between; `LeaveUnrecorded` is a call that ends without one, because the ECU did not confirm,
because there was nothing to end, or because its join of the heartbeat threw, which takes
another call in the same session manager (`crowded`). Heartbeat and ECU stay in `SessionManager`: here `session[e]`
is what is recorded, with the lock its call was admitted under (`owner`) and whether that lock
was still held then (`held`). `seen` (the value of `next_id_` when a call was admitted),
`released`, `lapsed` (releases whose revert threw) and `crowded` are history.

`ReleasedSessionIsTornDown` is what the teardown achieves, and no more: a session recorded while
its lock was held is gone once the releasing handler is through. A call that was admitted
before the release and records its session after it leaves that session up: the
revert sees 0x01 and only stops a heartbeat. So the comment at `routes_locks.cpp:139-141`, that session lifetime follows
lock lifetime, is not true in general; `held = FALSE` marks those sessions.

### SessionManager

Sections under `mtx_` contain no blocking call and are one action each, and so is
an exchange with the ECU, which `transport_mtx` serialises. All that lies between
them is a window: `ensure_session` is `EnsureSession`, `Escalate`,
`StopHeartbeat`, `JoinHeartbeat`, `StartHeartbeat`. `joinable()` and `join()` run
outside `mtx_`, and are separate. A join that loses a race ends the call, as the
exception does; assigning to a joinable `std::thread` sets `crashed`.

Time passes in heartbeat intervals; `IdleBeats` is the idle timeout. The ECU is
external: it leaves a session when it has heard nothing for `S3Beats`, drops its
unlock on every change of session, and may miss a request or have its answer lost.
An answer that does arrive belongs to its request: the cases where it does not are
the subject of `DoipTransport`. `overlap` and `dropped` are history: they say
whether calls were ever in progress together, and whether a message was lost before that.

The session a call asks for is any type, the default one included: `set_mode("default")`
reverts, but `requires_session: default` in a catalog reaches `ensure_session(0x01)`. From an
escalated session that records 0x01 and starts a heartbeat beside it, so `HeartbeatMatchesSession` does not say that a
heartbeat means an escalated session; it says whose heartbeat it is (`thread.session`, history). A write asks for a session, a
security level or both (`SecureOnly`), as its catalog item does. One security level stands
for all. `start_heartbeat_locked` is declared in the header and defined nowhere.

### DoipTransport

An exchange is `Begin`, `Connect` if there is no socket yet, `Send`, `ReadAck`, and
`ReadAnswer` once per response-pending message. Every failure is an action that
leaves the rest of the stream where it is. `torn` says that the reader stands inside
a frame, which happens when a read times out half-way, or when
`read_diagnostic_message` rejects a frame on its header and leaves its payload. The
next eight bytes are then no header, and after them the reader may or may not be
aligned again. Frames carry the number of the request they answer, which the code
cannot see: it compares only frame types, and the kind of request in the decoders.
Callers take turns under `transport_mtx`, so there is one exchange at a time.
`Outstanding` is the set of requests whose final answer can still be returned: it is in the
socket, or the request is at the ECU or on its way. `AnswersComeInOrder` says that only `Send` adds to it, and that
an answer that is returned is to an older request than all that stay in it: a late answer
is taken for a later request's once, and the one before it is never seen again.
Not split: a partial send, and the steps of the routing activation, whose
failures all close the socket.

### StreamHub, StreamTickets and StreamRoutes

`subscribe` and the first half of `release` run under `map_mtx_` and are one action
each. `Join` is the second half of `release`, which holds nothing: between the two
the key is free again and may be given to a new poller. The poller thread goes round
`Check`, `Publish`, `Wake`, one action for each of its three tests of `stop`, with
`read_fn` and the interruptible wait in between. A subscriber compares version
numbers only for being equal, so `seen` holds those that have nothing new to read
in place of the numbers. A `PollerState` goes when its last reference does, after the
join, and its identity is reused.

`StreamTickets` keeps the distance to `expires_at`, as `LockManager` does for leases;
`issued` is history. `StreamRoutes` is the worker's view: `OpenWithBearer` or
`OpenWithTicket`, then `RejectStream` or `BeginStream`, then `SendChunk` once per call of
the content provider until it finds that the client has hung up (`gone`), and
`EndStream`. `opened` counts how often each ticket was let through. Intervals only
split pollers further, and one stands for all.

### LockClients

A `Guard` is a process with one `LockGuard` after another: `Construct` sends the
acquire, the heartbeat thread goes round `HeartbeatTest`, `HeartbeatBlock`,
`HeartbeatTimeout` (the test of `stop_`, the gap before the wait, and the wait's end),
and `Destroy`, `Joined` and the release's return are the destructor. A
notification reaches the thread only while it waits, as the code's does: it is sent
without `cv_mtx_`. The wait's deadline is fixed when the thread comes round, so it runs
on in the gap. Whether a guard has a heartbeat is its caller's choice.

A `Tab` is a browser page. Its `lockId` and timers belong to the component and outlive
an `await`: `TabReturn` is the continuation of `acquire()`, and runs wherever the
component is by then, mounted elsewhere, unmounted, or holding another lock. An
interval that a second acquire overwrites stays in `leaked`, and goes on renewing whatever
id the component has, at the entity it was started for. `SelectEntity` is the watcher of
`DataTable.vue`: it runs after the path has changed, and releases there.

A request somebody waits for ends as `Answer`, `AnswerBusy` (503: `try_forward` found the
proxy's connection in use, or the server was at its capacity of locks; the client tries again up to
`MaxRetries`), or `LoseAnswer` (a timeout, a broken connection, or the 502 of a gateway that
timed out itself). The last, a crash and a closed page turn requests into `strays`, which the
server may still serve, in any order, or never. `late` is history: a client was once not
answered, was refused for being one too many, or did not get round to its heartbeat
before time moved on. It is the condition under which
`HoldersKeepTheirLock` speaks; without it the property would be false, and no client can
do better.

### Topology and Catalog

A path is the sequence of its segments. `LoadEntity` takes the next entry of
the configuration, and its kinds are those the loader tells apart: no adapter,
`mock`, `uds_doip`, a `uds_doip` whose `create()` returns null, one whose numbers are none
(yaml-cpp throws an exception that `main` does not catch: the program ends there), a proxy with or
without `base_url`, an unknown adapter; each with or without a type, with a catalog that
loads, that fails with a `CatalogError` (a warning), that throws another exception of yaml-cpp's, or
none. Nobody expects the third: `uds_doip_create` made its context before and catches everything
around it, so it returns null, the context is in nobody's hands (`forgotten`), and the entity is a
grouping in a server that goes on to serve (`AttachForgotten`); for a mock the exception leaves `main`
and ends the program (`AttachThrowing`). `config_loader.cpp:91-97` and `uds_doip_adapter.cpp:181-182`, by which one
misconfigured entity is not a crash and a bad catalog is not fatal, hold for `CatalogError` only.
Contexts are numbered in the order of their
creation, so the one that `add_entity` refuses, and nobody destroys, can be told from the
others. `Exit` is the registry's destructor.

`Catalog` has the loader's refusals, the two look-ups, and `encode` and `decode` with
their integers: a byte, a machine word, `std::round`, `max_raw` as a double, the cast that is
undefined when the value does not fit (any word). Numbers are whole, in units that make
every scale a whole number, which leaves out the rounding of doubles themselves. The
code's byte and word sizes are the constants `HexBase` and `WordBytes`.

### DataRoutes and DataStore

A GET or a batch is `GetData` and then one `ReadFromEcu` or `ReadFromMock` per id, in order. A PUT is
`PutData` (every rejection, in the order of the code, and the encoding), `Prepare` (session and
security level) and `WriteToEcu`, or `WriteToMock`. `send_and_resolve` holds
`transport_mtx`, so an exchange is one step. `Exchange` lists how it may end: the ECU
executes or refuses the request, or the request is lost; and independently of that its answer comes
in time, late or never, as do the older answers still awaited (`Arrivals`). A write whose
answer is lost for good is executed, answered 502 and leaves nothing behind. A late answer waits in the connection's queue for the next exchange, which
takes it for its own if service and DID agree; an ECU that says response-pending once too
often is answered 503 and late (`Pending`). This is what `DoipTransport`
models frame by frame. 307 stands for *handed to the proxy*. The handler looks an item up by id and the
UDS adapter again by DID; with the catalogue of the instance, whose DIDs differ, both find the same item.

`DataStore` promises clients a register per named item: what they are told is what the item
holds, as long as the connection to its entity has been punctual, and after that a value it once
held. A write may also be done without its client being told so (`WriteUnseen`). Connections are apart: each `UdsDoipContext` has a `DoipTransport` of its own, so an ECU that was late
weakens only its own items. `ImplementsDataStore` maps an item to the decoded bytes of its device
(`value`, which is history and recomputed when a device changes), `told` to the last result
a worker has for its client, and an accepted PUT to the value it asked for, to the
item's resolution. So every accepted value must survive encode, the wire, the device and
decode. `past` and `behind` remember the values and the paths on which an answer was late.

## 3. Runs

| Run | Shows | Bounds |
|---|---|---|
| `lock_routes` | overshoot of the cap, what a check-then-act race can hit, teardown of sessions recorded under the released lock; of the lock manager: types, unique ids, refinement of `LockLease` | 2 entities, 2 workers, 3 ids, cap 1, a clamped time to live |
| `lock_clients` | clients served in time keep their lock, forgotten and abandoned locks end, destructors return, one request per guard, who may cut a lease short | 2 entities, a guard and a page, one of them running at a time, 2 ids, leases of 2, 2 strays, 1 retry, 1 fault |
| `session_manager` | an escalated session has a heartbeat and a heartbeat is its session's, no `std::terminate`, bookkeeping and ECU agree, when calls do not overlap; an abandoned ECU reverts and every call returns, when they do | 2 callers, 2 sessions beside the default one, idle timeout of 2 beats, S3 of 1 |
| `data_routes` | the registry is a tree and owns the contexts it was given, the status of a PUT does not contradict the device, a batch is complete, refinement of `DataStore` | 2 workers, 12 configurations of 4 paths and depth 2, 3 items, 6 ids, bytes of 4 values, words of 3 bytes, 1 fault, 1 refusal |
| `doip_transport` | answers match, lag is bounded by misses, answers come once and in order, exchanges return | 3 requests of 2 kinds, 2 pending attempts, 4 frames buffered |
| `stream_routes` | subscribers stay on a live, exactly counted poller, old pollers are joined once and within a step, tickets are single-use and capped, a disconnect frees its worker, values keep coming | 2 workers, 2 items, 2 pollers, 2 tickets, time to live 1, cap 1 |
| `sessions_within_cap` | violated: the lock cap does not cap sessions | as `lock_routes` |
| `teardown_spares_new_holder` | violated: a release can revert the next holder's session | as `lock_routes` |
| `heartbeat_lost` | violated: a session can be left without a heartbeat | 2 callers, 1 session |
| `security_level_stale` | violated: a level outlives the session it was unlocked in | 1 caller, 2 sessions |
| `stale_answer` | violated: a late answer is accepted for a later request | as `doip_transport` |
| `release_wrong_path` | violated: changing the entity in edit mode releases at the wrong entity | as `lock_clients` |

Why the bounds are enough. Lock ids matter only by being equal or older, and the
code does not compare entities, so two entities and an id for each grant of a race
cover the cases; a cap of one is reached and overshot by two workers. Two
callers give every race between two calls, and two sessions the direct change
between non-default ones. Two kinds of request are the fewest for which a late
answer can be confused or told apart, and three requests let a lag last beyond the
exchange that caused it. Two workers on one item are enough for one to join
the old poller while the other starts or shares a new one, and more pollers than
workers are never in use. Clients that overlap do so through what they leave behind: a crashed
guard's or a closed page's requests are strays while the next client runs, for locks
it may take itself; what two lock holders do to each other directly, by requests
answered at once, is in `lock_routes`. The twelve configurations have each kind of
entry, catalogs that fail in both ways under both adapters, a duplicate, an orphan, a path too deep and an untyped entity; a float item with a
scale that divides none of its inputs evenly, an IO-controlled enum item and a read-only string are one
of each kind of item, one raw DID is an item's and another is in no catalogue, and one fault is one lost request,
one lost answer or one late answer, which the next exchange meets. One configuration has two ECUs, without catalogues so that it stays
small: a PUT to one is answered truthfully while the other is late. That a late ECU weakens only its own *named* items is
checked there for writes under a DID, and proved for everything else. `MaxId`, `MaxSent`, `MaxInbox`, `MaxFaults`,
`MaxActive` and `MaxStrays` bound counters, queues and events the code does not bound.
`CHECK_DEADLOCK FALSE` in the transport runs is there because an execution ends when its
requests are used up, and in `data_routes` because the program may exit.

Fairness. `Tick` is weakly fair because time passes. In `ClientsFairSpec` a guard's threads run and its requests are answered or time
out; nobody must click, a browser's `fetch` has no timeout, a stray may be on its way for
ever, and no one request must fail or succeed. The steps of a call in
progress and of the heartbeat thread are weakly fair because the operating system
schedules threads and every read has a timeout. The ECU's S3 timer is weakly fair.
The content
provider and the poller threads are weakly fair because `wait_next` and `read_fn`
return: the first has a timeout, the second ends with its exchange.
No caller is ever obliged to call, to stay or to leave, and the other end of a
connection owes nothing.

The six violations are disagreements between the code and what its comments,
design document or tests say; `findings` quotes both sides.

What the passing properties say next to them: sessions race only under
`overlap`, so `HeartbeatMatchesSession`, `NoTerminate` and `BookkeepingMatchesEcu` are
stated for calls that come one at a time; `AbandonedEcuReverts` and `CallsReturn`
hold without that condition. `CallsReturn` needs the arrivals to stop: a caller that
joins a heartbeat another caller has started since waits for the idle timeout, and
every further touch of the session puts that off.

## 4. Proofs

TLAPS checks all of the eight proof modules, from the constants' assumptions alone: the
clamp and the cap are positive, requests ask for at least a second, workers and
entities are finite sets (`LockManagerAssumption`, `LockRoutesAssumption`); guards and pages
are different, clients ask for no longer than the clamp, and a lease lasts more than one
step, so that a page's interval is at most half of it, as in `useLock.ts` (`LockClientsAssumption`);
the default session is none of the others, and both timeouts last at least a beat
(`SessionManagerAssumption`); the transport's bounds are natural numbers
(`DoipTransportAssumption`); subscribers are a finite set, a ticket lives at least a step, a
stream's item is a key of the hub and a bearer token no ticket (`StreamHubAssumption`,
`StreamTicketsAssumption`, `StreamRoutesAssumption`); configurations
are sequences of entries over paths, which are sequences of segments (`TopologyAssumption`);
what yaml-cpp and the JSON parser return has the C++ types: a scale is a number, the keys of an
enum are integers, a text is made of characters (`YamlItem`, `DataRoutesAssumption`); a hex digit
has at least two values and a word at least one byte (`CatalogAssumption`). The catalog file loads, and its
items and those that a PUT names are among the ids; devices hold bytes at first.

Two theorems have a further hypothesis, `Faithful` of an item or of every item, `FaithfulCatalog`, and it is not one that
`load_from_file` enforces: the scale of a float is not zero (encode then divides by nothing, and decode
multiplies by zero); a float is narrower than a word (`max_raw` is 2^64 as a double otherwise, so 2^64 itself passes
and its conversion is undefined); the keys of an enum are bytes, each used once (encode cuts a key to
a byte, and decode takes the first entry that fits); items of different ids have different DIDs (the register
of one would change with the other), and every device has the DIDs of its items. The items of `bcm.yaml` satisfy
it; `MCDataRoutes` asserts it of its instance (`CatalogIsFaithful`), so that TLC evaluates it.

*LockManager.* `LockInv` = `TypeOK` and `IdsUnique` is inductive. Uniqueness needs its
first conjunct, every id in the map lies below `nextId`, to survive a grant.
`SpecCutShortOnlyByHolder` goes through the actions: acquire needs an unlocked
entity, renew leaves the id, and a tick cannot end a lease with more than a second
left. `SpecImplementsLease` maps each action to a grant, a loss or a stutter.

*LockRoutes.* `RoutesInv` adds to `LockInv` the types and
- `SeenBefore`: a phase was entered before any id still to come, which makes
  `RacesOnlyNewerHolder` survive a grant;
- `ReleasedIdsGone` and `OwnersPlaced`: a released id is in no entry, and the id a session
  was recorded under while it was held is in no other entity's entry, which makes
  `ReleasedSessionIsTornDown` survive a release and an escalation.
The releasing handler finds a session recorded under its lock either up, and then it is in
`revert` until it forgets it, or gone; it cannot come up again as `held`, since the id is released.

`OvershootBounded` is proved by cases on who is admitted: an admission needs
`BelowCap` and a worker that was idle, and a grant turns an admission into a lock.
`RoutesImplementLockManager` shows that the handlers, seen on `locks` and `nextId`, are a
`LockManager`, so its theorems hold of the composition.

*LockClients.* `ClientsInv` adds to `LockInv` the types and `Phase`: a guard's request
belongs to where the guard and its thread are, and there is at most one. That is
`OneRequestPerGuard`, and it is also what types need: an answer to an acquire that
found its guard gone would start a heartbeat for no entity. `ClientsKeepLockManager`
shows that whatever clients, network and gateway do is a behaviour of `LockManager`, so
that `CutShortOnlyByHolder` carries over.

`HoldersKeepTheirLock` is not inductive: it says who holds a lock now, and what keeps it
so is time and the requests under way. `HoldersInv` adds
- `IdsInv`: clients' ids are apart from each other and below `nextId`, no stray
  release names an id that a client still believes in, and a call in progress is its owner's. So
  whatever the gateway delivers late cannot end the lease of a client that is served;
- `GuardHolding`: the entry a guard believes in is its own and outlasts its next beat
  (`beatIn < left`), and while the thread is renewing, the request is there;
- `TabHolding`: a page's lease is not at its last step, or its timer is due, or the
  renewal is already on its way.
A tick takes one from both sides of the second and may not pass a due timer of the third
without making the client `late`.

*SessionManager.* `SessionInv` = `TypeOK` and, as long as calls have come one at a time, `Serial`:
what the book, the flag, the thread and the ECU's session are at each of the steps of
the one call in progress, and between calls. `HeartbeatMatchesSession`,
`NoTerminate` and `BookkeepingMatchesEcu` are what `Serial` says between calls, or of a step
that would assign to a joinable thread.

*DoipTransport.* `Counted` fixes how many requests the connection has answered (those sent, less
the misses and the one in flight). `InOrder` says that what is
still to come, in the socket, at the ECU and at the gateway, is in the order of the requests, and
`Ahead` that it belongs to requests no earlier than the next to be answered; together they keep
`LagBounded` through a late answer. `OneRequest` is the state of a connection on which nothing
has gone wrong yet: one request at a time, its acknowledgement before its answer, nothing
left when the exchange ends. It gives `CleanAnswersMatch`. `AnswersComeInOrder` follows from `InOrder` alone: no
step makes a request `Due` but the one that sends it (`SendOrder`, `AcknowledgeOrder`, `AnswerOrder`, and
`SuffixDue` for what is lost), and what `ReadAnswer` returns was first in the socket (`ReadingOrder`).

*Streams.* `HubInv` ties the three views of a poller together: whoever streams is counted by
the poller that the map has for its key; a poller that left the map is joined by exactly one thread; and
none is referred to by neither. The counting is by cardinality, so it holds of any
number of subscribers. `TicketsInv` says that an outstanding ticket was issued and not yet opened, which
is what makes `OneStreamPerTicket` survive a redemption.
`JoinersStopped` says that a joined poller was told to stop. Nobody can reach it through the map, so only its own thread
and its joiner touch it (`JoiningAlone`), and each of the thread's steps tests `stop`: `JoinWaitsOneStep`.

*Topology.* `AddEntityTree` shows that an appended entity is new and its parent is before it,
which keeps `RegistryIsTree`. `ContextsAreOwned` needs that nothing is destroyed before
the exit (`OwnInv`), and that contexts a `create()` forgot stay out of every entity (`Returned`);
`BackendOwned` shows that a context that is refused is the last one
created, because the load ends with it.

*DataRoutes.* `DataRoutesKeepTopology` makes the above hold of the routes.
`StatusAlwaysTellsTheTruth` rests on `PunctualExchange`: with nothing outstanding before and after, an exchange
brings the answer to its own request, a response-pending or none. A positive answer that matches means that it was
executed, a refusal that it was not, and in the other two cases the status is 502 or 503. `ErrorStatus` shows that no result maps to 204.
`BatchAlwaysAnswersEveryId` has as its invariant that the results so far are for a prefix of
the ids. `DataAlwaysTyped` follows the bytes from `Encode` and `FromHex` through a prepared PUT and the
request into the device (`EncodeReturnsBytes`, `EcuHoldsBytes`), and needs that a device keeps
what it was sent and answers what it keeps.

*Catalog.* `DecodeUndoesEncode` is by the type of the item. A float's bytes are the digits of a
number below `Place[n]`, and reading them adds up what writing them divided out (`UintToBytesAndBack`);
an enum's byte is the key of the first entry with its label, and no other has it (`EnumAndBack`); a
raw value's digits are paired and parted again (`HexAndBack`). What the codecs compute digit by digit is a
recursive function. The library's induction theorems cannot be used with the provers at hand; where they
would be, a set of counterexamples has a least element (`Least`, `UpTo`, from `WFMin`), and a step below
it contradicts that.

*DataStore.* `DataRoutesImplementDataStore` goes through the steps of the routes. Each that ends or
goes on without a value is a `Forget` (`AnswerTold`), and loading is none at all. A read needs that whatever may
still come on a connection is a value that its item once had (`Known`, part of `StoreInv`), and that
it is the answer to this request while nothing was late on its connection (`ExchangePunctual`): `ReadBrings`. A write needs
that its body and bytes have not changed since they were encoded (`PutOp`), that what it stores is read as
`ReadsAs` says (`AcceptedReadsAs`, from `DecodeUndoesEncode` and `RoundedNearest`: `std::round` is the nearest multiple,
away from zero when there are two), and that only the item of that DID changes (`WroteOne`): `PutTold`, by whether
the write was executed and whether its client is told so. `StatusInv` says that the two do not contradict each other until an answer
of the entity is late, and that a path with none late has nothing in its queue; so a step makes at most the
connection it uses less punctual (`Lags`, `ExchangeLags`). So `Write`, `WriteUnseen`, `WriteMisled` and `WriteRaw` are the four ways that a PUT can end, and
nothing else happens to an item.

Only model-checked: liveness (`AbandonedLockExpires`, `ForgottenLockExpires`, `DestructorReturns`,
`AbandonedEcuReverts`, `CallsReturn`, `ExchangesReturn`, `DisconnectFreesWorker`,
`StreamsKeepFlowing`), which is out of the prover's reach, and that a fair heartbeat or tick is
enabled when it has to be. No module here declares a recursive operator. Proving found one flaw in the
model: `Encode`, `EcuReplies` and `ToldBy` were written as `CASE` with guards that overlap, which TLC reads in their order
and TLA+ does not; they now decide in the order of the code.

## 5. State of the plan

Done: the lock service under its handlers and under its clients, the session manager, the
transport, the streams, start-up, the data routes with their codecs, with one connection per device;
proofs of every safety invariant and action property the runs check, and of both abstract
specifications. Left to TLC alone is liveness; of `DisconnectFreesWorker` the safety half is proved
(`JoinWaitsOneStep`), and that the poller takes that step is its thread's fairness. What an abandoned lease could
still be given is the same: that its distance to expiry never grows.

## 6. Not modelled, and why

- `EntityRegistry::remove_entity` has no caller but its tests.
- `LiveChart.vue`'s reconnects: the awaits are those of `useLock`, and the server's side of a
  leaked stream is in `StreamRoutes`. The other views fetch and render.
- Fault lists, routine results and modes as payload; the calls that carry them are in
  `LockRoutes`. What the mock keeps under an id that is not a DID.
- Entity listings, path patterns, headers and CORS: formatting of what is there.
- OAuth2 is a stateless function of the request, its cryptography OpenSSL's.
- The server block of the configuration, static files, CLI, mDNS and the event publisher are I/O around the
  state machines above; the publisher's unguarded socket is listed as a hazard.
- The hub's destruction with the server, moving a `Subscription`, and the `weak_ptr` of
  the poller thread, which cannot fail to lock while a subscriber or a joiner lives.
- The session manager's destructor and vendored code.
- Byte-level encodings, except for what the decoders compare.
