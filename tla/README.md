# radapter: TLA+ models, model checking and proofs

radapter runs Lua scripts that connect industrial and network workers (Modbus,
Redis, WebSocket, SQL, ...).  All script code runs on stackful fibers over one
Qt event loop, so any call into a script may suspend and anything may happen
before it continues.  This project models the parts of radapter whose
correctness depends on such interleavings, checks them with TLC on small
instances, and proves the central invariants with TLAPS for all instances.

Paths below are relative to the repository (`src/fibers.cpp` and so on).

## 1. The system: inventory

| Component | State | Operations | Interacts with | What is hard |
|---|---|---|---|---|
| Fiber pool (`src/fibers.cpp`, `src/function.cpp`) | parked and flying fibers, `t_current`, one strong reference per suspended fiber | `Run`, `Await`, resume, `ForcedShutdown`, `Stop` | everything that enters Lua; promises settled on any thread | raw pointers, nested event loop in `Stop`, code run during an unwind |
| Instance lifecycle (`src/instance.cpp`, `src/worker.cpp`) | workers, handlers, `shutdown`, `shutdownDone`, `shutdownIdleArmed`, the budget timer | `Shutdown`, worker creation, `destroy`, `emitDoneWhenIdle`, `~Instance` | fiber pool, host, workers | two paths race for `ShutdownDone`; callbacks into Lua in destructors |
| Host process (`app/main.cpp`) | the AppState, `g_reloading`, `g_exited` | signals, reload by file watcher or script, rebuild, exit | Instance | exit and reload overlap |
| Promises (`src/scripts/async.lua`) | subscribers, settled value | `promise`, subscribe, `done`, `gather`, unhandled-rejection check | all asynchronous script code | callbacks that suspend or raise in the loop of `done` |
| Service (`src/scripts/builtins.lua`) | waiting requests and their countdown | request, response, timer tick | pipes, timers | late responses against a suspended tick |
| Pipes (`src/scripts/builtins.lua`, `match_msg`) | listener tables | `pipe`, cancel, `call_all` | workers and functions | the table changes under a delivery |
| Modbus master (`src/workers/modbus`) | read and write queue, busy flag, records of writes under way | `Execute`, `nextReq`, polling, retry, reconnect | QModbusClient | `Execute` re-entered from its overflow handling; one record per register |
| Modbus slave and codec (`modbus_units.hpp`, `modbus_slave.cpp`) | register table, last values on both sides | validate, sort, merge, encode, decode, poll, write | QModbusServer | merged ranges, packings, writers on three sides |
| Redis (`src/workers/redis`) | two connections per worker, pipelines, last stream id, cached state | reconnect, read chain, poll, subscribe, write | hiredis | replies of dead connections, a crash between delivery and save |
| Message maps (`src/utils.cpp`) | none | `Flatten`, `Unflatten`, `MergePatch` | Redis, Modbus, tags | round trip of nested lists and maps |
| Framing (`wire.hpp`, `slipa.hpp`, `binary_worker.cpp`; serial, stdio, process, local) | receive buffer | frame, drain | byte streams | partial and damaged frames, what a cut connection leaves |
| Local and WebSocket workers | routing map, ids, reconnect timers | accept, route, broadcast, reconnect | their peers | events and routing change at different times |
| Tags (`src/tags.cpp`) | tag -> quality, source | create, message, link event, subscribe | every worker | listeners publish inside a notification |
| HTTP and SQL workers | open requests, a query thread | request, abort, execute, destroy | network, database | timer, reply, thread and destructor race |
| Process worker | QProcess, events | launch, signal, destroy | a child | nested waits in `Destroy` |
| CAN and Cyphal (`src/workers/can`) | transmit queue, requests in flight, transfer ids | send, flush, process queue, request, time out | QCanBusDevice, libcanard, nunavut | re-entrance from listeners, reuse of transfer ids |
| Lazy messages, Lua glue (`src/lazy.cpp`, `src/builtin.cpp`) | retained tree, materialized table | index, assign, loop, `get`, `set`, `toQVar` | every message | views that outlive the first write; lists or maps |
| GUI, logging, plugins, command line | | | | not modelled, see section 6 |

What makes each correct:

* fiber pool: a fiber with unfinished work is never freed, resumed twice or
  forgotten; `Stop` always returns and leaves nothing half way; nothing starts
  on a fiber that is being unwound;
* lifecycle: one `ShutdownDone`, always, after all handlers; nothing refers to
  the Lua state when it is closed;
* host: one reload at a time, no leaked guard, an exit request ends the process;
* promises: each callback once, with the one value; `gather` sound and settling;
  no rejection is lost;
* service: each request answered once, by a response or a timeout;
* pipes: no listener served twice, or skipped while nothing is removed;
* Modbus: bounded queues that drain, no stale value on the wire, no write lost
  in silence; slave and master agree on every register;
* Redis: no stream entry is skipped, every one is read; a watched hash is
  mirrored again after whatever was lost;
* byte streams: after damage the receiver finds the next frame;
* sockets: what a script was told is what is routed; clients come back;
* requests, HTTP, SQL, Cyphal: each settled exactly once, with its own answer;
* tags: each belongs to its worker and is not good while the link is lost;
* CAN: each queued frame is written once or expires, flushes are told;
* conversions (maps, registers, Cyphal fields, Lua tables, lazy views): what
  comes back is what went in.

`PROJECT.json` lists, under `hazards`, each place where this is hard to test.

## 2. Modules

| Module | Models | Depends on |
|---|---|---|
| `Fibers` | the fiber pool | |
| `Lifecycle` | Instance shutdown and destruction, composed with the pool | extends `Fibers` |
| `App` | the host process; the Instance is reduced to what `Lifecycle` shows of it | |
| `OneShot` | abstract specification of a promise | |
| `Promise` | `make_state` and `gather`; implements `OneShot` | instance of `OneShot` |
| `Service` | `make_service` | |
| `Pipes` | one pipe source, its listeners and matchers | |
| `Modbus` | masters on one device | |
| `RedisClient` | a connection, its pipeline, SELECT and the reconnect timer | |
| `RedisStream`, `RedisCache` | the two Redis workers, with their two clients each | extend `RedisClient` |
| `Framing` | SLIP, lines and length prefixes as operators | |
| `Streams` | workers on a byte stream: chunks, damage, cut connections | extends `Framing` |
| `Sockets` | local and WebSocket servers and clients | |
| `Requests` | HTTP requests and SQL statements | |
| `Process` | the child process worker | |
| `Can` | the CAN worker and its device | |
| `Cyphal` | the Cyphal node on the CAN device: its transmit queue | extends `Can` |
| `CyphalRequests` | its calls in flight on a port, their transfer ids and timeouts | |
| `CyphalCodec` | messages to payloads and back | |
| `Registers` | register maps and the register codec as operators | |
| `Loopback` | a Modbus slave, a master and other clients on one table | extends `Registers` |
| `Maps` | `Flatten`, `Unflatten`, `MergePatch` | |
| `Tags` | the tag registry | |
| `Lazy` | a lazy message beside the plain table it replaces | |
| `LuaValues` | `get`, `set`, `toQVar`, `Push` | |
| `FibersProofs`, `ModbusProofs`, `RedisStreamProofs` | theorems | extend their module |
| `CyphalProofs` | theorems of `Cyphal`, `CyphalRequests` and `CyphalCodec` | extends the three |
| `LifecycleProofs` | theorems | extends `Lifecycle`, `FibersProofs` |
| `ScriptsProofs` | theorems of `App`, `Service` and `Promise` | extends the three |
| `EventsProofs` | theorems of `Pipes`, `Process`, `Tags`, `Lazy` and `Loopback` | extends the five |
| `TransportsProofs` | theorems of `Sockets`, `Requests` and `Streams` | extends the three |
| `MCFibers`, `MCLifecycle`, `MCPipes`, `MCModbus` | model values for TLC | extend their module |
| `MCScripts`, `MCTransports`, `MCCyphal` | several modules in one run | extend them |
| `MCRedis`, `MCSafety` | several modules in one run | extend those with theorems, instantiate the others |

In the last group the initial state chooses the `part` a behaviour is about; the
other parts stay in an initial state in which nothing with fairness is enabled
(workers that were never constructed).  Each such run therefore explores the
disjoint union of its parts, and a property of one part is not weakened by the
others.

Each module starts with what its variables stand for.  Operators commented
"Mutant of X" are faulty variants of the definition that follows them; none is
used by a specification.  `PROJECT.json` pairs each with the property that
finds it, which shows that the property depends on the code it is about.

### Fibers

An *entry* is a closure given to `Run`.  `coro` is what the coroutine does,
`holder` is the place of the one strong reference (`frame`: the C++ frame that
steps it; `promise`: the callback of the awaited promise; `event`: the queued
resume; `pool`: `parked`).  An action is a stretch of code between two points
where something else can run: `RunFresh` and `Resume` end with script code
executing on a fiber, `Await`, `EndEntry` and `ThrowForcedShutdown` end such a
stretch.  `Settle` may happen at any time, since promises settle on any thread.
`Stop` is split at its nested loop and at each unwound fiber, because
destructors on the unwound stack run code.  `Boundary` is the set of entries
whose starter catches `ForcedShutdown` (promise-returning calls, spawns,
listeners, shutdown handlers).  The Lua stack and the values are left out.

### Lifecycle

`Shutdown` is split at each handler call, since a handler called from a script
runs on that script's fiber and may suspend it (`sdFiber`, `sdDepth` remember
where the call of `Shutdown` is).  A `Shutdown` that is unwound while one of its
handlers is suspended does not go on with the others, but does its rest
(`Unwound`): a handler's call is a boundary that no `ForcedShutdown`
passes.  `quit` is `qApp->exit`: a nested loop does
not dispatch any more.  `DtorBegin` is the deferred delete, dispatched by the
loop it was posted from or flushed by `main`.  `~Instance` is split at the
points where it runs script code: dropped events, deleted workers, the loop of
`Stop(1)`.  `crashed` stands for undefined behaviour and `std::terminate`.
`Callback` is the set of entries started by `ResolveLuaCallback`, whose lambda
is `noexcept`: `MayTerminate` says when a throw gets to one.  `Reloading` holds the values `g_reloading` may have when
`ShutdownDone` is emitted.  All workers of the repository emit `ShutdownDone` from
`Destroy` at once, so a worker that was told to go has its deletion pending.

### App

Inputs are the constants in `Sources`, so that one run can look at all of them
and the violations at the pair that matters.  A zero timer and a queued call
may be dispatched in either order; with Qt 5, timer events are dispatched after
posted events, so that `Release` may come after the new script's own exit.
`--reload-exec` (replacing the process image) is left out.

### Promise and OneShot

`cursor` is the index of `done`'s loop; between two calls of the loop anything
else may run.  `gather`'s callbacks are indices in `subs`.  `under` remembers
the promise whose loop called `gather`'s own `done`, because an error of a
subscriber then ends both loops.  The identity of results is left out: what a
callback receives is "ok" or "err", and `results` is the set of filled indices.

### Service

Time is counted in ticks of `check_delta`; in milliseconds a timeout may come
up to one `check_delta` early, since a request is made between two ticks.
`next_id` is taken to give fresh ids (it wraps after 2^32 requests).

### Pipes

A message's loop index is `at`; `due` is what the table held when the delivery
began.  What messages contain is left out, except which ones a matcher accepts.

### Modbus

One merged read per master.  `stack` holds the nested calls of `Execute`; the
callback of a removed request is called while that request is still queued.
Left out: validators, the echo of write-only registers, the destruction of
masters.  Decoding is in `Loopback`.  `newest`, `lastSent`, `tries` and `untold`
are history variables.

### Redis

A pipeline is the commands on a context with their replies; `Serve` is the
server, which executes the first one without a reply.  A lost context answers
all its commands with null replies at once, and `NullReplies` does what the
workers do with these.  `Execute` asks for a context only, so that commands
given while the connection is being made run in database 0, as in the code: an
`XADD` puts its entry there, and an `XREAD` returns what is there.  Entries of all
databases are numbered in the order the server gives their ids, since it gives them
by its clock.  The content of a hash is its version.  `Crash` restarts the process
with the server's state kept.

### Framing and Streams

A message is its bytes; a parser returns the sequence of its results, empty on an
error.  The loops over a buffer (`parseSlipFrames`, `parseLineFrames`,
`DrainFrames`) are one function of positions, `ParseFrames`: a frame is cut off as
soon as its terminator, or as many bytes as its length says, is there, which is
where `indexOf` and the length find it.  `Streams` sends each message once, loses a
byte, a tail or a connection, and reads in chunks of any size.  Only
`parseLineFrames` has no handler for what does not parse: the exception takes the
messages of the chunk along, leaves the event loop and ends `main` (`ended`).
`Resync` says which messages have to arrive in spite of that.  JSON and
compression are one invertible step, the CRC an uninterpreted suffix (receivers do
not look at it); the length prefix has two digits instead of four.

### Sockets, Requests, Process

Connections have ids that are not used again (a WebSocket's address and port are
as unique).  The end of a connection is seen by the two sides at different
times.  The event of a disconnection is split at its listeners (`telling`): the
socket leaves the map when they have returned.  In `Requests`, the main thread, the query thread and the network step
on their own; `MainFree` is false while `~SqlWorker` waits for its thread.  In
`Process`, `Destroy` is split at its waits, in which listeners run.

### Can and Cyphal

`calls` holds the C++ functions below a running listener and where in them the
listeners run: a device that writes inside `writeFrame` emits from there, the
listener may send, fail to send or destroy the worker, `flushed` is emitted from
every such place, and its listeners may send again.  `writeFrame` may fail on a
connected device, which emits `errorOccurred` first; `processTx` keeps the frame
and tries it again from the next publication, request or heartbeat.  A transfer is
one frame.

`CyphalRequests` follows the calls on one service port.  A request that was pushed
is written later or not at all, which is what `Cyphal` shows of the queue; answers
come at any time or never, also after the timeout.  `TableMod` is the number of
keys of the table (`CanardTransferID`, 8 bits), `TidMod` the number of transfer ids
on the wire (5 bits).  `crashed` is undefined behaviour: an answer that is not in
the table is read through `end()`, and one on the port of `GetInfo` through a null
pointer (section 3).

### CyphalCodec, Registers, Loopback, Maps, LuaValues, Lazy

Conversions, checked against a statement of what has to come back.  A struct in
`CyphalCodec` starts as garbage: `Memory` is the set of what may be in the cells
of a field.  The conversions of QVariant are external and parameters: `Rounded` and
`FieldMod` for numbers in Cyphal fields, `ToBool`, `ToUInt` and `ToFloat` for
registers, where any of them may refuse.  `Reach` is the number of bits
`field_to_variant` can see through its pointer.  A register's word is a pair of
bytes, so that packings are permutations; `Queries`, `Words16` and `ScriptValues`
are what masters ask for, other clients write and scripts write.  The slave keeps
what a script gave it, unconverted, beside the words that hold the converted value.
Paths in `Maps` are sequences of
characters because `flatten` cuts them by length.  `Lazy` runs the lazy message
and a plain table side by side: `Retained` is the tree the message keeps, and a
captured view is the path to it, walked again on every access (`PushResolved`).  A
null field is a field of the retained tree and none of a table; the key
`materialize` of a view is its method.

Loops over a list or a path (`Walked`, `Sorted`, `MergeSingle`, `Inside`) are
recursive functions on the number of elements done, about which the proofs make
inductions (section 4).

### Tags

`loops` holds the loops of `onWorkerMsg` and `setWorkerQuality` that are below a
listener; a listener may publish and, since `destroy()` of a CAN worker emits its
state at once, lose a link.  Names are sequences of characters, since tags are found by prefix.
Values, time stamps and `tags.changed` tables are left out.

## 3. Runs

Runs that hold:

| Run | Bounds | Shows |
|---|---|---|
| `fibers` | 2 fibers, 4 entries, 1 parked | memory safety and bookkeeping of the pool; `Stop` returns and leaves nothing; resumes are served |
| `scripts` | host: all inputs, 4 builds; service: 3 requests, one raising, 2 ticks each, 2 overlapping ticks; promises: 2 inputs of `gather` (one twice), 2 callbacks, one raising | reload guard, reasons to exit, reloads end; exactly one answer; refinement of `OneShot`, `gather`, served subscribers, reported rejections |
| `lifecycle_live` | 2 fibers, a handler, a promise callback, 1 worker, `Shutdown` from the event loop | the shutdown ends |
| `modbus_retry` | 2 masters, 2 registers, 2 values each, queue of 2, 2 retries | queues, recursion, stale values, draining |
| `redis` | database 1; stream: 2 entries, 1 per read, 1 lost connection or refusal, 1 crash, every `start_from`; cache: 2 losses, 1 update | at-least-once reading, with what database 0 may put in the way; the chain goes on; the cache catches up and watches again |
| `transports` | 2 clients, local and WebSocket, 2 failures, 1 message; 1 HTTP worker, 2 SQL workers, 2 requests | events match routing, clients come back; requests are settled once and in the end |
| `cyphal` | queue: 3 frames, room for 2, 2 messages of scripts, writing and queueing device; requests: 4 calls, one of another type, 3 keys of which 2 fit the wire, 2 ticks, a usual port and that of `GetInfo` | each frame once, own answers, every request ends, flushes follow |
| `safety` | instance: 3 fibers, a handler, a callback, a spawn, 1 worker, exit and reload; pipes: 3 listeners, 2 of them matchers, 2 messages; bytes: 3 contents with special bytes, lines of 3 bytes, serial and local server, 1 fault; messages: 4 tables, three of them in each other, a null field and one named `materialize`, 2 assignments; tags: 2 names, one a prefix of the other, 2 fields, 5 calls, nesting 2; registers: 2 keys, index up to 2, one and two words and coils, a packing that is inverse for one word only and one for two words only, numbers that are not whole or do not fit, 2 writes; maps: 2 keys, 2 leaves, all small documents; process: 3 starts; codec: all pairs of field kinds, struct and union, bit arrays of 3 bits of which 2 are in reach, fields of 2 bits, memory of zeros, of ones and of both; Lua tables: 7 paths, 3 calls of `set` | order and completeness of the shutdown; deliveries; resynchronisation; lazy reads; tag ownership and quality; registers, maps, payloads and tables come back; ends of children are seen |

Some properties are conjunctions: `FibersInv` of the pool's parts,
`StopIsClean` of `StopLeavesNothing` and `NoWorkWhileUnwinding`, `PromiseInv` of
`CalledOnce` and `GatherSound`, `RequestsInv` of `SettledOnce`, each with what it
rests on (section 4), `WaitersServed` of `SubscriberServed` and
`GatherSettles`, `ReloadEnds` of `ReloadSettles` and `ReloadComesBack`,
`LifecycleInv` of `LifeTypeOK`, `DoneOnce` and `TeardownComplete`, again with
what they rest on,
`ShutdownIsQuiet` of `GracefulDoneIsQuiet` and `NoLateSpawn`, `ShutdownEnds` of
`ShutdownCompletes` and `InstanceDestroyed`, `DeliveredOnce` of
`NoDoubleDelivery` and `NobodySkipped`, `TagsSound` of `SourceOwnsTag` and
`LostLinkShows` with what they rest on, `MapsAgree` of `MergeIsOverlay` and `FlattenRoundTrip`,
`ModbusInv` of the types and the bounds of queues, recursion and tries.  Where a
run checks such a conjunction, it checks the inductive invariant of the proof as
well.

Runs that end in a violation, each a disagreement between the code and what
the repository says of it (`findings` in `PROJECT.json` quotes both):

| Run | The code does |
|---|---|
| `lifecycle_dangling` | `removePostedEvents` frees a fiber that `flying` still points to |
| `app_lost_exit` | `os.exit` during a reload is forgotten |
| `pipes_first_match` | a matcher misses a message when the one before it cancels itself |
| `modbus_silent_drop` | an overflow removes a second write and tells nobody |

The bounds are the smallest at which each case happens: reuse of a parked fiber
next to a flying one, an entry nested in another on a fiber that has a
neighbour, one more reload than fits in flight, a subscriber before and after
`gather`'s, two overlapping ticks, a queue that overflows while a retry is under
way, a connection lost again while the first loss is being repaired, transfer
ids that wrap in the table and on the wire, a worker's name that begins with another's, registers that touch.
The theorems of section 4 lift the bound for the safety of the fiber pool, the
Instance, the host, promises, services, pipes, tags, child processes, lazy
messages, Modbus masters and registers, the Redis stream reader, byte streams,
sockets, requests, and the Cyphal node and its codec.  Symmetry is used for fibers
in the safety runs of `Lifecycle` only.  `CHECK_DEADLOCK FALSE` is set where the
modelled activity ends (a destroyed Instance, a process that returned, bounded
numbers of messages).

### Observations without a run of their own

The models also reach the following states.  The properties above are stated so
that they hold in spite of them; no run is kept for each.

* `Lifecycle`, `FromScript`: a handler that awaits suspends a script's
  `shutdown()` before the budget of `instance.cpp:606` is armed, so `lifecycle_live`
  calls `Shutdown` from the event loop only.
* `Lifecycle`, `DropResume`: the fiber it frees is unwound without a `StepGuard`
  (`t_current` is unset), so `Run` starts work during that unwind.
* `Lifecycle`, `IdleInDtor`: the zero timer of `instance.cpp:232`, armed when
  `~Instance` deletes the last worker, can be dispatched while `d->fibers` is null.
* `Lifecycle`, `DtorBegin` in `Stop`: in a reload the budget can expire in the
  nested loop of `Stop`, which then deletes the Instance and its pool.
* `Lifecycle`, `Terminate`: a `ForcedShutdown` out of a native promise's callback
  leaves a `noexcept` lambda (`async_helpers.hpp:21`).
* `Lifecycle`, `DtorCallback`: script code run after `removePostedEvents` can
  queue another spawn, which outlives `lua_close`.
* `App`: a new script's `os.exit` whose `ShutdownDone` comes before `Release`
  leaves a process without an Instance that does not exit (`main.cpp:108`).
* `Promise`: a subscriber that raises keeps the later ones, `gather`'s included,
  from being called (`async.lua:58`); `SubscriberServed` and `GatherSettles`
  exempt exactly that.
* `Modbus`: `ok()` of one write erases the record of a newer write to the same
  register (`modbus.cpp:173`); the overflow recursion can use up all retries
  without an attempt on the wire; a master created on a connected device does not
  poll until the next reconnect (`modbus_device.cpp:38`).

* Redis: `Execute` checks only for a context (`redis_client.cpp:177`), so that
  commands given while connecting run before `SELECT`; a `PSUBSCRIBE` that comes
  first makes the `SELECT` fail.  An `XREAD` that is pipelined before `SELECT` (the
  reply of the other client's `GET` gives it) reads a stream of that name in
  database 0, where an `XADD` of a connecting client may have put an entry; its id
  becomes `lastId`, and older entries of the configured database are never read.
  `NoSkip` and `EveryEntryRead` allow exactly that.  Two pending `GET`s start two
  read chains.  An error reply to `XREAD` ends the chain until the next connection,
  from which on `EveryEntryRead` asks again.  The cache reads the hash before its subscription takes
  effect: an update between the two is not seen (`WatchedSync` is about updates
  that were watched).  The reply of `CONFIG GET` is a list, so the modes it reads
  are overwritten; an error makes both clients reconnect for ever.  Fields deleted
  in Redis stay in the cache's state.
* Framing: `CRC16_Modbus` indexes its table without a mask
  (`binary_worker.cpp:139`), and no receiver checks or strips the CRC; the SLIP
  buffer is unbounded; line framing removes a trailing CR of the message, and a
  msgpack line that does not parse, because of that or of a lost byte, raises
  through the event loop to `main`, which ends the process (`binary_worker.cpp:77`,
  `main.cpp:453`), where a SLIP frame is logged and skipped; a short write of stdio is only a warning, and one of -1 not even that (`stdio.cpp:92`);
  `4 + len` wraps at 32 bits (`wire.hpp:88`).
* The process worker in binary mode drops frames that arrive in two chunks
  (`process.cpp:31`), and the local client keeps half a frame over a reconnect
  (`local.cpp:171`): both receivers are in `Streams` and left out of the run.
* `Sockets`: a WebSocket server emits an invalid value for what does not decode; a
  WebSocket stays routable until it is destroyed, and a local socket while the
  listeners of its `disconnected` event run.
* `Lazy`: assigning to a field inside `pairs()` over a view makes the loop go on
  in another order, so fields are missed or repeated (`lazy.cpp:363`), and behind a
  null field, which the table does not have, `next()` may raise.  A loop over a view
  yields null fields as (key, nil), a plain table does not have them.  A field named
  `materialize` cannot be read through a view (`lazy.cpp:339`).  A view whose path
  is assigned over reads the new table, where a plain message would have kept the
  old one in the variable.
* `Maps`: after a nested container `flatten` puts a stray first character before
  the next sibling (`utils.cpp:18`); erased keys are not counted in the result of
  `MergePatch`, and the difference has a null for every unchanged key.
* `CyphalRequests`: a response without an entry is logged and then read through
  `end()` (`cyphalworker.cpp:457`); a late answer to a request that timed out
  reaches it while others wait on the port, and so does every answer of a request
  whose key is 32 or more, since the table counts in 8 bits and the wire in 5.  A
  late answer can resolve a later request that has its transfer id.  A response on
  the port of `GetInfo` is taken for a request by its port, and the null
  `user_reference` is dereferenced (`cyphalworker.cpp:447`).  When `pushMsg` raises,
  the entry stays until its timeout.
* `CyphalCodec`: a bit of a mask at its size is accepted and lost; bit arrays are
  limited to as many bits as they have bytes, and of those the ones from 64 on come
  back as 0, since `sizeof` is taken of a pointer (`cyphal_msgs.cpp:280`); numbers
  are rounded and cut to the type of their field without a check; a unique id is printed without
  leading zeros (`cyphal_msgs.cpp:287`), and text that is no uuid becomes the null
  one.
* `Registers`: overlaps are looked for with the next register only; the end of a
  manual query is in bytes; 16-bit values with `word = big` decode the other word
  and 32-bit ones with `byte = big` come back word-swapped, so that `LoopbackAgrees`
  asks for registers with a packing that is inverse (`Sound`); the slave keeps 2.7
  as the value of a 16-bit register that holds 3, and 0.1 for one that holds the
  float nearest to it (`modbus_slave.cpp:135`), so that the two sides agree after
  the conversion only; `parsePoll` leaves `data[1]` uninitialized.
* `Tags`: when a listener makes a worker lose its link, the loop of a message, or of
  a link that came, below that listener goes on and makes the tags it has not come
  to good although the link is lost; `LostLinkShows` counts that as something which
  came to the tag since; a deleted worker's tags keep their quality; after a nested update later
  subscribers see the older value last.
* `Requests`: a database that cannot be opened ends the process (`~QObject`
  deletes a running thread, `sql.cpp:81`); SQL workers share the default
  connection, and the last one takes it; a request with timeout 0 may never
  settle.
* `Process`: a listener that restarts the child inside `waitForFinished` leaves a
  child whose end nobody sees; `Destroy` may block the loop for 700 ms.
* `LuaValues`: `get` below a scalar calls `lua_rawget` on it (`builtin.cpp:376`);
  a table with `[1]` loses its other keys, number keys become strings, an empty
  list travels as a map.

Hazards of the code no run covers, beyond those listed in `PROJECT.json`: a
listener that suspends lets a later message overtake an earlier one
(`builtins.lua:4`); masters that join a device which is already connected, and a
queue of size 0 (`modbus_device.cpp:38`, `:67`); validators that await
(`modbus.cpp:110`); replies of the static network manager that outlive an
Instance (`fibers.cpp:208`); nested event loops of the GUI; a tag subscription made
by a listener of the same tag, which reallocates the vector being walked
(`tags.cpp:144`); a promise settled again when a subscriber of the first result
raises (`http.cpp:211`); a timer stopped and collected inside its own callback
(`builtin.cpp:470`).

### Fairness

Script code that runs returns or suspends in the end; the event loop serves each
posted event and expired timer (strong fairness where nested loops interrupt
it); straight-line C++ runs to its end.  No promise is ever obliged to settle,
no peer to respond and no Modbus device to accept a request; for `WritesDrain` a
request that was sent gets a reply or a timeout, which QModbusClient guarantees,
and the reconnect timer succeeds in the end.  `App` assumes that `Shutdown` ends,
which is `ShutdownCompletes` of `lifecycle_live`.

Redis: a connection attempt ends, the server executes what it was sent, replies
are read and reconnect timers fire; a stream with entries answers an `XREAD` with
them again and again, not only with null (strong fairness).  Losses and refusals
are bounded, so liveness is about what follows the last of them.  Sockets: the
same for connections, accepts and timers.  `Requests`: timers and posted events
are served, a statement ends, a thread told to quit leaves its loop; the network
may be silent for ever.  `Cyphal`: C++ functions and listeners return (weak), a
connected device takes frames (strong, since listeners interrupt it).
`CyphalRequests`: the timer of `checkReqTimeouts` ticks; no frame need be written
and no server need answer.

## 4. Proofs

* `FibersProofs`, for any set of fibers (finite) and entries and any pool size.
  The inductive invariant is `FibersInv`: types, `PoolKnowsBusy`,
  `CurrentIsExecuting` and `FiberConsistent`.  `NoDanglingFiber` is not
  inductive by itself: that the reference exists follows from what the coroutine
  does, and that `flying` holds exactly the busy ones.  From it follow
  `FibersTypeOK`, `FibersNoDangling`, `FibersResumeSafe` and
  `FibersUnwindRunsNothing`.  `FibersStopLeavesNothing` needs a second invariant,
  `LiveEntriesFound`: a live entry is on some fiber; `FibersStopIsClean` joins the
  two.  `FibersLiveEntriesPlaced` is the converse as well: what is on the fibers is
  live and at one place, also when one throw ends several nested entries.  The
  bound on parked fibers rests on two lemmas on cardinalities (`ParkOne`,
  `ParkFewer`).
* `LifecycleProofs`, for any fibers, entries, workers and handlers.  The pool's own
  invariant does not survive `~Instance`, which frees fibers that `flying` points to;
  `PoolSound` is what is left of it, and `StagesSound` says which stages of
  `Shutdown`, the two calls of `Stop` and the destructor go together.  With them
  `LifecycleInv` holds: one `ShutdownDone`, nothing half way at `lua_close`.
  `CallSound` (which needs `FibersLoaded`) adds that `Shutdown` has done its rest
  before: the fiber its call is on keeps the entries below it.
  `LifecycleShutdownIsQuiet` are the two action properties on top.
* `ScriptsProofs`.  Host, for any inputs and number of builds: `AppInv` adds who
  shut the Instance down and when the guard may be released (`ReloadConsistent`).
  Service, for any requests, ticks and timeout: `ServiceInv` adds that the countdown
  of a waiting request and the ticks it has seen add up to the timeout
  (`Countdown`), and that a collected request has seen all of them.  Promises, for
  any promises, subscribers, raising ones among them, and any list given to
  `gather`: `ListsSound` puts each callback at one place of the list of its own
  promise, `LoopSound` says that those in front of `done`'s index were not called.
  From both follow that nobody is called twice and that `gather` counts right, and,
  step by step, that `Promise` implements `OneShot` (`PromiseIsOneShot`): `Settle`
  puts, a subscription joins, a turn of the loop gives, all else stutters.
* `EventsProofs`.  Pipes, for any listeners, matchers, messages and nesting: the
  index of a delivery and the table shift against each other, so that
  `NoDoubleDelivery` needs `AheadFresh` (what is in front of a delivery's index has
  not had its message) and `NobodySkipped` needs `SteadyReaches` (a delivery under
  which nobody was removed has everyone it still owes the message in front of it).
  The lemmas follow a place of the table through `RemoveListener`.
  Processes, for any number of starts: `EndSeen` speaks of the whole list of events,
  `ChildKnown` ties its last state to the child (a start without an end was told
  exactly while a child runs) and says what `Destroy` leaves behind.
  Tags, for any names without a colon (the constructor refuses or replaces others), any fields
  and any depth: `CoversOwn` shows that `startsWith(name + ":")` finds the tags of
  that worker and of no other, also when one name begins with another;
  `LostLinkShows` needs `LossAnnounced` (a lost tag still shown as good is one that
  some loop on the stack which announces the loss is about to come to, however many
  messages and events are nested above and below it).
  Messages, for any retained tree, keys, values and number of assignments:
  `LazyReadsLikePlain`.  `LazyInv` says that the two sides hold the same tables
  (`SameTables`), that a captured view leads to the table that was captured while
  its path is what it was (`ViewsFollow`), and that a loop over a message that is not materialized has given
  exactly the fields in front of its place (`LoopInOrder`).  That an assignment somewhere in the
  tree does not lead a captured path elsewhere is an induction over the path
  (`SameWalk`) as long as the assignment is not to a field on that path; when it is
  (`moved`), the view is compared with what the same keys give in the plain table.
  Registers, for any map without overlaps, any addresses, types, values and
  queries: `LoopbackRoundTrip`.  `LoopbackInv` gives the words of a register one
  meaning (`Held`); the slave's values, once converted, and the master's since the
  last change, are that meaning.  A write of a register keeps the meaning of the others because they
  are disjoint, one that cuts through a register is decoded again (`Touches`), and a
  poll has all words of its registers (`RequestsCover`), which is an induction over
  the sorted list for merged requests (`MergeSingleWhole`) and follows from the
  bytes-for-words check for manual ones (`ManualWhole`).  `CodecInverse` is the round
  trip of one value that the conversion has put in the register, whatever the
  conversions are; it needs a packing of `Sound`, of which the property speaks.
* `ModbusProofs`, for any masters, registers, retries, queue sizes and values and
  both overflow policies.  Bounds on `tries` and on the nesting of `Execute` are no
  invariants of their own; what is kept is who pays: each try, each request under
  way and each retry left of a register's newest value is one of `Retries + 1`
  (`TriesPaid`), each nested call has used one retry (`NestingPaid`).  `NoStaleWrite`
  follows from `WritesInOrder`.
* `RedisStreamProofs`, for any stream, entries per read, losses, refusals and
  crashes: `NoSkip` speaks of two ids, but ids also travel in commands and
  replies, on two connections and possibly in two read chains.  `StreamInv` says
  of each of them that the entries up to it were sent, or are in the same reply, or
  that a newer one of database 0 was (`Backed`); commands run in the database their
  connection has selected by then.  The lemmas follow an id through `Execute`, the server's answer and
  the reply's handler.
* `CyphalProofs`, for any requests, devices, queue sizes and timeouts.
  `CyphalEachFrameOnce`: one `processTx` at most is on the stack (`OneProcessTx`),
  and queued frames are distinct; without the flag a listener's push would have it
  write the head of the queue twice, and a write that failed leaves the frame where
  it was.  `CyphalOwnAnswer`, for any calls, timeouts, numbers of keys and of transfer
  ids and any late answers: the entries have keys and calls of their own
  (`TableInv`), and a frame or an answer of a call that is in the table carries the
  key of its entry, as much of it as the wire does (`TransfersInv`), although the
  port may have been erased and its ids reused meanwhile.  `CyphalRoundTrip`, for any fields, sizes, values and contents of
  the memory a struct is built in: `CodecInv` says that what is on the bus is
  the payload of an input that was accepted, built over some such memory; field by
  field, decoding it gives the input, converted once, and nothing of the memory.
* `TransportsProofs`.  Sockets, for any clients, failures and messages:
  `SocketsInv` adds to `EventsMatchRouting` where an id is (`IdsPlaced`, also while
  listeners are told of its end), without
  which the deletion of a WebSocket could take away an id the script still knows.
  Requests, for any workers and requests: `SettledOnce` needs that a statement is at
  one place only (`StatementsPlaced`), that what is under way has no answer and all
  else has one (`OpenUnanswered`), and that a thread that has ended works on nothing
  (`GoneIsDone`), which is what the wait in `~SqlWorker` is for.
  Streams, for any messages, line limit, faults and chunks, with and without
  compression: `Resync` says nothing of a frame in the middle, so the inductive
  invariant follows single bytes.  `Tracks` says of every byte on the wire which
  byte of which frame it is and that frames without damage follow each other in
  full; `At` says what the receiver has, once it has read the `j`-th byte of frame
  `o`: nothing when that frame was put in full and is over, the first `j` bytes of
  a frame it has to find, and otherwise anything in which no frame ends.  What it
  rests on is that each of the three framings can be told from its bytes
  (`SlipFrames`, `LineFrames`, `LengthFrames`: only the last byte ends a frame, and
  the parser finds the message in it, for SLIP with `SlipRoundTrip`), one lemma per
  kind of byte (`ByteInside`, `ByteEnds`, `ByteUnsure`), and that parsing in chunks
  is parsing byte by byte (`ParseFramesAppend`, `UnbrokenParsed`, `ChunkRead`).  A
  cut connection keeps it because the server's buffer goes with the socket.  The
  theorem is for receivers other than the process worker and the local client, for
  which `Resync` is false (section 3).

The assumptions are the named assumptions of the modules; TLC evaluates them in
every run, directly or through an `ASSUME` of the module that combines them.

Definitions that proofs expand avoid `CHOOSE`: an operator that picks one of
several values is a quantifier over all it may pick.  The exception are recursive
functions.  The library's induction theorems take an operator as a parameter, which
the provers cannot instantiate; `SetInduction` of `EventsProofs` is induction over a
set of numbers instead (`TransportsProofs` has its own), derived from the well-foundedness of `<`.  With it each
recursive function is first shown to exist (`WalkExists`, `SortingExists`,
`MergingExists`, `TakingExists`, `WritingExists`, `ReadingExists`, `ParsingExists`)
and then followed step by step.

Only model-checked: all liveness (fairness and `ENABLED` are beyond the prover);
`MapsAgree` and `ValuesTravel`, whose modules walk trees with `RECURSIVE` operators,
which the provers cannot work with.  `RedisCache`, and `Can`
beyond what `Cyphal` uses, have liveness properties only.

## 5. What could follow

1. Proofs: of `Maps`, once its walks over documents are recursive functions of
   paths.
2. Modules: sleepers and timers with `Fibers`; destruction of masters and
   validators in `Modbus`; the serial port's reconnection; `--reload-exec`.
3. Compositions: a worker of `Sockets` or `Modbus` whose listeners run on
   `Fibers`, for messages that overtake each other.

## 6. Not modelled

GUI and GUI tester (rendering and input; only their nested event loops matter),
logging and pretty printing, the parsing and description of configurations, the
command line and `--reload-exec`, plugins, the SCADA project, examples and the
debugger scripts.  Of modelled components: the descriptions of single Cyphal
message types and the process-wide type registry, timers and the table of
sleepers, byte strings and `format()`, TLS and authentication, HTTP headers and
bodies, rows of SQL results, Modbus validators and the destruction of masters.
