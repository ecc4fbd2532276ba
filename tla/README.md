# A TLA+ model of fq-client-py

`fq` is the Python client of the fq server (counters, rate limits, quotas): a
synchronous and an asyncio client, each with a connection pool, a retry loop, a
sharded variant and event streams. This directory models what is hard to test
in it: what a call may do to a connection other calls will use, what may be
retried and what may not, what threads and tasks do to the pool, how a stream
goes on over lost connections and how it ends, and what a command does that
goes to several shards.

## The system

| part | state | operations |
|---|---|---|
| `Connection` (`fq/sync/connection.py`, `_framing.py`, `_chunked.py`) | the socket, `request_in_flight`, what HELLO negotiated | connect, reconnect, close, send, send_chunked, open_stream |
| `ConnectionPool` (`fq/sync/pool.py`) | a LIFO queue of slots (a connection or `None`), `_closed` | prefill, acquire, release, close |
| `Client` (`fq/sync/client.py`) | its pool; per call a deadline and an attempt counter | `_execute` and `inspect` (one answer), `_with_retry`, `_backoff`, `_stream` |
| `ReconnectPolicy`, `Deadline` (`fq/_reconnect.py`) | none; a point in time | delay, exhausted; remaining, check, clamp |
| commands, responses, types, errors | none | pure; `Command.read_only` decides what may be retried |
| `ShardedClient` (`fq/sync/sharded.py`, `_sharding.py`) | a client per shard; per fan-out a queue, a stop flag, threads | routing, mdelete, the scan walk, flushdb/truncate/inspect on all, streams |
| the `aio` package | the same with tasks for threads | the same, and cancellation |

A thread that makes a call acquires a slot, runs the retry loop on its
connection and releases it: the socket and `request_in_flight` outlive the call
and are found by the next one. Threads meet in the pool only. The server is not
part of the repository; it answers the requests of one socket in their order.

What is hard here:

* calls share a socket one after the other, and a call may end (timeout, error
  in the middle of a chunked answer) while its answer is under way;
* a retry may repeat a request that was carried out; the decision rests on a
  flag kept by the connection;
* the peer may go away between any two steps, and the client learns of it late;
* a deadline may pass between any two steps, also between two readings of the
  clock, and connecting runs on a timeout of its own;
* releases, failing factories and `close` interleave in the pool;
* asyncio adds cancellation at every `await`, and an `open` that several tasks
  may call, and call again;
* a stream reconnects inside an iterator, is left by its consumer at any event,
  and in a sharded client is one queue fed by workers that must be stopped;
* a command that goes to several shards may fail when some of them did their
  part.

`PROJECT.json` lists each of these as hazards, at the line where it bites.

## The modules

**`FqWire`** is one socket and the server at its end: requests not yet served,
answer frames not yet read, `shorn` when a reader stopped inside a frame, and
`link` when the peer is gone and the client does not know it. `Serve` answers
the oldest request, `Misread` answers what stands behind a request that was cut
short, `Drop` is a restart of the server or a break of the network. It is
written from what the client expects of a server; all of it that is not the
client's socket is marked external in the map. Frames are records (call, part,
tag), never bytes: the properties need no more than whose answer a frame is.

**`FqCall`** (extends `FqWire`) is the calls that land on one slot of the pool,
one after the other, in the threaded client or in the asyncio one (`client`).
`pc` is where the call is:

| `pc` | code |
|---|---|
| `idle` | no call holds the slot |
| `factory` | the slot was empty: `ConnectionPool.acquire` runs the factory |
| `try` | the top of `_write_request`: request size, socket, `deadline.check()` |
| `arm write`, `arm read` | between `deadline.check()` and `settimeout(deadline.remaining())` |
| `write` | `sendall` |
| `frame`, `header`, `body` | `_read_frame`: its checks, the length, the payload |
| `lost` | an `FQConnectionError` is caught in `_with_retry` |
| `sleep` | `time.sleep` in `_backoff` |
| `dial` | `connection.reconnect()` |

Each action is the code from one of these points to the next; its name is the
method's or what the method meets (`WriteTimesOut`, `ReadLost`, `GiveUp`,
`Exhaust`, `BackoffExpired`). `Finish` ends the call: the connection goes back
to the slot, whatever state its socket is in, which is what `_release` does.
The two clients differ where the code does: the threaded one reads the clock a
second time for `settimeout` (`SetNegativeTimeout`, `SetTimeoutFails`), its
`sendall` and `recv` may stop inside a frame; the asyncio one hands the whole
request to its transport before it waits (`DrainTimesOut`), `readexactly` takes
all of a piece or nothing, and its task may be cancelled where it waits (`Cancel`).
`due` is a `Deadline`: `none`, or in the `future` until `Tick` makes it `past`.
`written`, `applied`, `tries` and `clean` are history variables: how often a call was
written out in full, how often the server carried it out, how often the call under
way was tried, and whether the socket owed nothing when the call got it.

**`FqPromise`** is what `FqCall` implements (`KeepsPromise`): the calls as their
caller sees them, without tries, frames and sockets. It says what he may conclude
from how his calls ended. A mutating command is carried out once at most, after an
error that says it was not sent never, after a timeout, a lost connection or a
cancellation perhaps, and perhaps later. As long as every call was answered or
refused (`Settled`), each answer is the call's own, a value means that the call was
carried out, an error of the server that a mutating one was not, and nothing is
carried out after its call ended. From the first other ending on, the connection
promises no more than the first part, which is what `own_answer` shows.

**`FqPool`** is `ConnectionPool` and any number of threads: one step is one
operation of the `LifoQueue`, one access to `_closed` or one run of the factory,
the grain at which threads can interleave. It covers prefill and its failure,
acquire (with and without a deadline), a failing factory, sockets that close and
reopen while held, release and close.

**`FqAsyncPool`** is `AsyncConnectionPool` with `AsyncClient.open` and `aclose`,
and any number of tasks. Code between two awaits that suspend runs undisturbed,
so a step goes from one of them to the next, which is coarser than in `FqPool`:
a release tests `_closed` and pushes in one step. What is new is prefill: it may
run in several tasks at once, fail or be cancelled, and be run again.

**`FqStream`** is a stream of a sharded client: one worker per shard, which runs
`Client._stream` or `AsyncClient._iter_stream` on a connection of that shard's
pool and puts what it reads into a queue, and the generator of `_fan_out`, which
empties the queue for its consumer. A plain client's
stream is the same loop without queue and poll interval, its consumer at the place
of `Put`. A thread polls a stop flag at its poll interval
(`PollEnds`), after an event (`Put`) and before it subscribes (`StopAtTop`); a
task is cancelled (`Close` sets `cancelled`) and is hit at its next await
(`CancelHits`), unless that is the `wait_closed` of `AsyncConnection.close`, which
suppresses it (`CancelSwallowed`). `Acquire` takes what the pool has: a new
connection, or an idle one in the state its earlier holder left it in (`Used`), still
subscribed, with frames nobody read or in the middle of one. `CallAfter` is the next
call on the connection the stream gave back. `read`, `published`, `due`, `losses` and
`clean` are history variables: the events read off a shard's sockets, the number
published, the event that must come next on this subscription, the losses of a
worker's connection since its last event, and whether nobody had its connection
before.

**`FqShardedCommands`** is a sharded client from its opening to its closing:
routing by any sharding function, an out-of-range one included, `delete` of one key,
`mdelete` in groups, `flushdb` and `truncate` on all shards. The shards' own clients are the other modules'; here
a shard's call succeeds, or fails before or after the shard carried it out.
`before` is the database when the call under way began.

**`FqShardedScan`** is `scan` and `pscan` of the sharded client: a caller who
asks again and again with the cursor he got last, `_walk`, and the cursors made
of a shard and the shard's own cursor. `Scan` is the start of a call,
`PageInside` and `PageEnds` are a page that ends inside its shard and one that
ends it, `PageFails` is a shard whose call raises, `WalkEnds` is the return after
the loop. A shard's cursor is a place in its key space: the server answers with
the keys between the cursor it got and the one it returns. The keys in `Stable`
are there throughout, any other place may hold a key when it is looked at. `got`
and `twice` are what the caller has collected. **`FqScan`** is what it implements:
the scan of one server (`Client.scan`), which looks at every place once. The
refinement maps `covered` to the places up to the caller's cursor.

**`FqSlots`** is what the two pools have in common: what a slot is, and a stack on
which no connection is twice.

The theorems are in **`FqCallProofs`** and, extending it, **`FqAnswerProofs`**
(`FqCall`), **`FqPoolProofs`** and **`FqAsyncPoolProofs`** (with the lemmas on
stacks that they share in **`FqSlotsProofs`**), **`FqStreamProofs`**,
**`FqShardedScanProofs`** and **`FqShardedCommandsProofs`**. The modules whose names
begin with `MC` are the instances for TLC.

`FqCall` and `FqPool` fit together by `OneOwner`: a connection has one owner at a
time, so the calls of a slot are sequential and one call at a time is enough in
`FqCall`; the same holds of `FqAsyncPool` and tasks. Conversely the pools let a
holder do anything a call or a stream can do to the socket (`SocketCloses`,
`SocketReopens`, `Reconnect`). Each page of `FqShardedScan` and each step of
`FqShardedCommands` is a call of one shard's client, whose failures are
`PageFails`, `DeleteFails`, `FlushFails`.

### What is abstracted

* Connecting with its handshake is one step with its outcomes: no other call can
  see the connection during it. Its outcomes are success, `FQConnectionError`
  (with `request_in_flight` as HELLO left it), `FQTimeoutError` and a handshake
  that was answered but not accepted.
* Time has two sides of a deadline and no length. A `recv` that times out does
  so after the deadline; how far after is not modelled.
* The negotiated message size and the payload are one nondeterministic choice:
  `RefuseOversized` may happen at every try.
* After bytes were lost from the middle of the stream the next length is
  arbitrary: a misaligned reader swallows any part of what is there, then fails
  or times out (`Swallow`, `ReadGarbage`). That garbage happens to parse as an
  answer is left out.
* `LastDelay` stands for 1024, the last attempt whose `2.0 ** (attempt - 1)` a
  float can hold.
* A server that carries out a request after the connection was dropped cannot be
  told from one that did so just before.
* `FqCall` leaves out waiting for a slot and closing the pool, which are in
  `FqPool`: a call that never got a slot touches no socket, and a connection that
  comes back to a closed pool is closed and sees no further call.
* The cursors of `FqShardedScan` are those this client has handed out; malformed
  ones are refused by `parse_shard_cursor` and change nothing. A scan whose
  list of shards changes on the way is left out.
* A command's answer is decoded after the connection was released; only the tag
  matters here.
* `FqAsyncPool` makes calls only on a client that is open. On one that was not,
  `acquire` opens its slots one by one, and a later `open` would throw the open
  connections away that its prefill takes off the stack (a hazard in
  `PROJECT.json`). A closed client that a late prefill filled (`raced`) is not
  opened again.
* A cancellation that strikes in `AsyncConnection.close` is suppressed by the code;
  in `FqCall` and `FqAsyncPool`, where the step after it is the same, it is not a
  step of its own.
* In `FqStream` an event is a number and all four kinds of streams are one. A
  worker gets its slot or fails to get one; who else holds slots is the pools'
  matter. Events that nobody is subscribed to leave no trace.
* What an earlier holder leaves on a connection of `FqStream` (`Used`) is put
  together of the same frames: the number of an event stands for any frame that a
  stream takes for an event, `Refusal` for any other, the late answer of a call among
  them. Such an answer is there when the connection is handed out, it does not come
  later. A second STREAM on a subscribed connection leaves one subscription. Being
  given a used connection counts as one of the `MaxFailures` failures; that is a
  bound of the instance and nothing the code does.
* The shards of `FqShardedCommands` are asked one after the other and nobody else
  changes the database during a call. `close` is one step, for a call of a shard that
  is under way meanwhile is the pools' matter.

## The runs

All runs check for deadlock: where the system may rest there is a stuttering
step with that name (`Stop`, `AcquireRefused`, `Abandoned`, `Through`, `Silence`,
`Unusable`).

| run | instance | shows |
|---|---|---|
| `calls` | 2 calls, answers of 1 or 2 frames; threads without an attempt budget, tasks with budgets of 0 and 1; delays overflow at attempt 3; fair | `AtMostOnce`, `FailedUnsent`, `OwnAnswerIfClean`, `AnsweredLeavesQuiet`, `BudgetKept`, `TimedCallEnds`, `KeepsPromise`; 1,620,206 states |
| `pool` | 3 threads, 2 slots, 3 connections, fair | `OneOwner`, `SlotsAccounted`, `NoOrphans`, `IdleIsOpen`, `CloseReturns`, `TimedAcquireReturns`; 68,123 states |
| `async_pool` | 3 tasks, 2 slots, 3 connections, 1 failing open, fair | `OneOwner`, `SlotsAccounted`, `ReadyIsWhole`, `NoOrphans`, `ClosedIsClosed`, `OpenAndCloseReturn`, `TimedAcquireReturns`; 24,407 states |
| `sharded_scan` | 3 shards of 3 places, counts 1, 2, 4, two failures, fair | `Complete`, `NoRepeat`, `CountKept`, `SingleScan`, `ScanEnds`; 2,471 states |
| `sharded_commands` | 3 shards, 3 keys (symmetric) under every sharding function, up to 3 keys deleted at once | `DeletesAsOne`, `FailsInOrder`, `FlushIsWhole`, `OpenAllOrNone`; 592,822 states |
| `streams` | 2 shards, 2 events; 3 failures and three kinds of used connections on one of them; threads without a budget, tasks with a budget of 1; delays overflow at attempt 3; fair | `EventsKept`, `Gapless`, `RetriesSpent`, `Resubscribes`, `StreamCloses`; 707,213 states |

and the runs that refute what the repository says of itself:

| run | the repository says | TLC shows |
|---|---|---|
| `own_answer` | `send` reads the response of its command | a call that timed out leaves its answer on the socket; the slot's next call returns it, and every later call is one answer behind |
| `expiry_valueerror` | an expired deadline raises `FQTimeoutError` | between two readings of the clock it raises `ValueError` |
| `unsent_not_retried` | only a request that "already reached the socket" is kept from a retry | a HELLO lost in a reconnect leaves the flag set and an unwritten command is given up |
| `gives_up_early` | "Within that deadline the client reconnects as many times as it needs to" | a HELLO not answered within `connect_timeout` during a reconnect ends the call, with its deadline ahead |
| `closed_pool_leaks` | `close` closes "every connection in it" | a release that read `_closed` earlier pushes an open connection afterwards |
| `stream_leftovers` | `send` reads the response of its command | a stream that was left gives its subscribed connection back; the next call on it returns an event |

Two more things are against a sentence of the repository and have no run of their
own:

* Beside the HELLO of `gives_up_early`, a call also gives up before its deadline
  when its slot was empty and the connection is refused (`FactoryFails`), and when
  the outage lasts for more than 1024 attempts and `2.0 ** (attempt - 1)`
  overflows (`BackoffOverflows`).
* The same overflow ends a stream after 1024 losses in a row, also inside its
  reconnects, although "Streams have no deadline, so they reconnect indefinitely"
  (`src/README.md:83`; `fq/_reconnect.py:19` says the same). The run `streams` does
  take this step (`BackoffOverflows`), and `Resubscribes` holds only because it
  excepts it by name (`NotIndefinitely`). `RetriesSpent` says that this is the one
  attempt at which it happens.

What else the models show, without a sentence of the repository against it:

* A stream that is given an idle connection first reads what its earlier holder left
  there: old events, or a late answer, which ends it in an error. `Gapless` and the
  theorem about it therefore speak of the connections nobody had before (`clean`).
  A reconnect makes the connection one of these.
* A pool whose prefill failed once stays a slot short (`short`), so that
  `AsyncClient.open`, called again, always raises `QueueEmpty`: `ReadyIsWhole`.
* `aclose` during an `open` leaves a closed client with open connections
  (`raced`); it is the only way (`ClosedIsClosed`).
* A caller without a deadline that waits for a slot while the pool is closed waits
  for ever, in both pools.
* A polled stream whose interval ends inside a frame drops what it has read of it,
  and what follows is out of step until it ends in an error or happens to be in
  step again: events are missing then (`due` is 0 in `Gapless`).
* A cancellation suppressed by `AsyncConnection.close` leaves a stream's worker
  running, and the generator that gathers it waiting (`swallowed`).

**Bounds.** Two calls are enough for a call to inherit what another left behind;
an earlier version of `calls`, for threads alone, was also run with three calls
(28 million states) without a difference. Two frames per answer are enough for an
answer to break in its middle and for parts of two tries to mix. Attempts are cut
off by the overflow of the delay, which the code has, or by the budget. In the
pools, three tasks on two slots leave one waiting while the others hold, let two
prefills meet over the slots of one pool and a third task close it; four threads
on three slots were run too (31,494 states up to symmetry). Three shards have a
first, a middle and a last one; three places make a page start, end and lie inside
a shard, and a count of 4 is more than a shard holds; three keys make a group of
two beside a group of one, in any order, and repetitions.

The delays of `calls` and `streams` overflow at attempt 3, beyond the budgets of 0
and 1: the budget ends a call or a stream at its own attempt, one too early or too
late is seen, and without a budget a connection may be lost twice in a row and must
come back.

Two shards make streams mix. One of them is sound, the other loses connections,
fails to reconnect, or starts on a used connection, three times together: enough for a
reconnect that fails twice in a row, and for a used connection that is lost and whose
reconnect fails. Two events are enough for one to be missing and for an order. With
four kinds of used connections and failures on both shards (16.4 million states) the
invariants were checked once, without a difference. `MaxFailures` also bounds the
failing calls of `sharded_scan` and the failing opens of `async_pool`.

**Fairness.** `FqCall`: a client step that can happen does (the thread or task is
scheduled; a socket operation with a timeout returns) and the clock goes on.
Nothing is assumed of the server or the network, and nobody cancels. `FqPool` and
`FqAsyncPool`: prefill and every thread's or task's own step inside the pool's
code happen if they can; what it starts, and when the body of its `with` ends, is
its own affair (`Choice`) and not fair. Weak fairness of a thread's step says the
queue does not starve it only in so far as the slot stays available; the liveness
properties need no more, because a timed wait can also end by its timeout.
`FqStream`: workers are scheduled, sleeps and timed operations end, and `join` or
`gather` is reached and goes on; nothing is assumed of the consumer and the
servers. `FqShardedScan`: the caller goes on asking and a shard's call returns or
raises, which it does at most `MaxFailures` times; that is an assumption about the
servers and the caller, not about the code.

## The theorems

All safety properties of the passing runs, and the two refinements, are proved for
every value of the constants: any number of calls, threads, tasks, shards, events
and failures, any reconnection policy. The assumptions are those the modules
declare (`WireAssumption`, `CallAssumption`, `PoolAssumption`,
`AsyncPoolAssumption`, `StreamAssumption`, `ScanAssumption`,
`CommandsAssumption`, and `UsedAssumption`: what an earlier holder left is a
connection with a socket, subscribed only while it is up): bounds are numbers, at least 1 for sizes, `None`,
`Unlimited` and `Initial` are values of their own, and the sets that are counted over (the threads or tasks of a pool, the shards of
a stream) are finite. Two theorems are for positive counts. `TypeCorrect` of each
of the six modules gives the types.

### Calls (`FqCallProofs`)

* `MutatingAtMostOnce` (`AtMostOnce`) and `FailuresBeforeWriting`
  (`FailedUnsent`), for threads and tasks, cancellation included. `AtMostOnce`
  alone is not inductive: nothing in it says why the next write would not be the
  second. `OnceInv` adds that calls not made yet have left no trace, that while a
  mutating request is out `inFlight` is TRUE and the call is waiting for its
  answer or deciding (`FlagTells`, the heart of it: `GiveUp` then is the only way
  on), and that a whole mutating request in front of the server is there once and
  was not carried out (`UnservedOnce`).
* `AttemptsAreBounded` (`BudgetKept`) from `BudgetInv`: with a budget of N a call is
  tried N + 1 times at most, and a lost connection ends a call that need not be given
  up after exactly so many tries; without a budget never. `tries` counts the starts
  of the loop's body, `attempt` its failures; the invariant ties the two together at
  every place of the loop, also over reconnects that fail.

### Answers (`FqAnswerProofs`)

* `AnswersAreOwn` (`OwnAnswerIfClean`) and `AnswersLeaveQuiet`
  (`AnsweredLeavesQuiet`), from `AnswerInv`. What `send` and `send_chunked` rely on
  is nowhere in their code: answers are matched to calls by nothing but order. The
  invariant says why that is enough on a clean socket. Before the write the socket
  is `Quiet` in each try. While an answer is awaited either the request is in front
  of the server alone and nothing was received (`Asked`), or `body` followed by
  `inbox` are consecutive frames of one answer to the call under way
  (`Answering`). The last frame of an answer therefore finds nothing behind
  it, and a new try, which has a new socket, finds a new `body`. `Misread`, the
  answer to bytes out of step, cannot happen then.
* `CallsKeepTheirPromise` (`KeepsPromise`): `FqCall` implements `FqPromise`. The
  mapping is the identity but for `returned`, the calls named in the last result.
  `Begin` is `Begin`; every ending is `End`; a `Serve` that carries a request out
  is `CarryOut`; every other step stutters. `SettledIsClean` links the two levels:
  as long as every call was answered or refused, the next one finds a clean socket,
  and no request of a settled call is in front of the server. That is what makes
  `CarryOut`, which is forbidden for settled calls, cover every `Serve`; for
  mutating commands it needs `OnceInv` as well. The case that is easily
  overlooked is a call that just ended with everything before it settled: its own
  request might still be unserved, were the socket not `Quiet`.

### Pools (`FqPoolProofs`, `FqAsyncPoolProofs`)

* `FqPool`: `ExclusiveOwnership` (`OneOwner`), `NoSlotIsLost` (`SlotsAccounted`),
  `NoSocketLeaks` (`NoOrphans`) and `NoDeadSlots` (`IdleIsOpen`) from `PoolInv`,
  which adds to the four what the program counters tell of the rest (`PhaseInv`).
  They need each other: `put` can be relied on not to block only by the
  accounting, and a drain keeps sockets accounted for only because a connection is
  on the stack once.
* `FqAsyncPool`: `ConnectionsHaveOneOwner` (`OneOwner`), `NoSlotIsMade`
  (`SlotsAccounted`), `OpenMeansFilled` (`ReadyIsWhole`), `SocketsAreOwned`
  (`NoOrphans`) and `CloseLeavesNothing` (`ClosedIsClosed`), from one invariant
  (`IInv`). Several prefills may hold slots of one pool at once, so the slots in
  hand are counted as pairs of a task and a number (`Units`); the lemmas on `Units`
  say what one task's change does to the count. `PhaseInv` is why a prefill takes
  no connection off the stack: nobody dials before a prefill succeeded, which
  needs that it had all slots, so that no other can be under way. Ownership
  (`OwnersInv`) is told of what each task holds, what it has opened and what is on
  the stack as sets, without the order of the stack, which a step that moves one
  connection need not look at; `OwnersAsSets` gets `OneOwner` and `NoOrphans`
  from it.

### Streams (`FqStreamProofs`)

* `EveryEventIsKept` (`EventsKept`): what was read off a shard's sockets is what
  the consumer got of that shard, then what is in the queue, then what the worker
  holds. The queue mixes the shards, so the place of an entry among its shard's
  (`Rank`) is a cardinality, and the lemmas say what `Append` and `Tail` do to it.
* `NoEventIsMissed` (`Gapless`), from `InStep`: the frames on a connection that
  nobody had before are consecutive events, later than everything read (`InOrder`), up to the latest one
  published while the subscription lives (`UpToDate`), and begin with the event
  that is due unless bytes were dropped (`NextIsDue`); a worker about to subscribe
  has nothing left of the old connection (`Fresh`). The last is the reason why
  a reconnect repeats nothing. Of a used connection nothing is known; what was read
  on it does not count (`SeenPublished`, `InOrder`), and the reconnect that replaces
  it establishes the rest.
* `StreamsRetryAsAllowed` (`RetriesSpent`), from `CountsLosses`, which says what the
  worker's `attempt` is to the losses that happened at each place of its loop, and
  `ErrorsAreLast`, which keeps the count still once its error is in the queue. An event
  starts the count again, and nothing else does.

### Shards (`FqShardedScanProofs`, `FqShardedCommandsProofs`)

* `ScanComplete` (`Complete`) from `NothingMissing`, which follows the walk place
  by place: what the calls that returned looked at is in `got`, what the call
  under way looked at beyond that is in `keys`.
* `NothingTwice` (`NoRepeat`) from `NothingAgain`: a call collects only what lies
  beyond the cursor it began with, and stands inside a shard only before its
  first page. The latter is why a cursor with the start of the next shard is
  right when the count is used up.
* `CountIsKept` (`CountKept`) from `Counted`, and `ImplementsSingleScan`
  (`SingleScan`), for which all three are needed.
* `ShardedDeleteIsOne` (`DeletesAsOne`), `DeleteFailsInOrder` (`FailsInOrder`),
  `FlushAsksEveryShard` (`FlushIsWhole`) and `AllShardsOrNone` (`OpenAllOrNone`)
  from `CommandsInv`. Its parts: a shard holds only keys that are routed to it
  (`StoresRouted`), without which a key deleted on its shard might survive on
  another; inside `mdelete` each group is as it was or wholly done, its results
  are known exactly when it is done, and the groups still to do are closed under
  coming later (`DeleteInv`); inside a flush the shards before `index` have
  answered (`FlushInv`); while opening, the open shards are those before `index`
  (`OpenInv`).

`NothingTwice` and `ImplementsSingleScan` assume that no count is 0. A call with a
count of 0 and a cursor inside a shard never enters the loop and returns the
start of that shard, so that keys are repeated; no key is missed (`ScanComplete`
covers it), but the scan does not get on.

### What the proofs leave to TLC

The liveness properties (`TimedCallEnds`, `CloseReturns`, `OpenAndCloseReturn`,
`TimedAcquireReturns`, `ScanEnds`, `Resubscribes`, `StreamCloses`): they need
fairness and ENABLED, which the prover does not handle. And the six runs that refute
something, whose counterexamples are the result.

## Next

1. One specification of a pool, slots and who has them, that `FqPool` and
   `FqAsyncPool` both implement, each step by step as in `CallsKeepTheirPromise`.
2. The stream of a sharded client as an implementation of the streams of its
   shards, merged: from `EventsKept` and `Gapless`.
3. Action properties that are left to the invariants so far: that a closed pool
   stays closed and hands nothing out, that a stream's worker that ended stays
   so.

## Not modelled

* The decoding of responses and INSPECT reports, and the value checks of the
  commands: pure functions of one frame or one call, covered by the unit tests.
* FNV-1a: its products do not fit TLC's integers, and the unit tests compare it
  with a second computation of it. `FqShardedCommands` takes every sharding function instead.
* `inspect` on all shards and the read-only commands of a sharded client: they
  change nothing.
* How long anything takes: a `recv` that is handed some bytes at a time may keep a
  call past its deadline, and `timeout` bounds the call of each shard, not that of
  `mdelete` or `flushdb`. The models tell before from after a deadline.
* Calls on an `AsyncClient` that was not opened, and several tasks opening one
  `AsyncShardedClient`.
* TLS contexts and the wording of errors.
