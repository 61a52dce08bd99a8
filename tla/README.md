# dr-manhattan in TLA+

dr-manhattan is a Python library and MCP server that trades on prediction
markets: exchange adapters behind one interface, a stateful client, strategies
that quote a market in a loop, WebSocket feeds, a market data relay, background
persistence of events, and a server that starts and stops strategies for a
caller; beside it a crawler that stores market data. This directory models the parts that carry state across threads, tasks
and calls, checks them with TLC and proves what matters most with TLAPS.

## 1. Inventory

Paths are relative to `src/dr_manhattan/`, those of the crawler to `src/`.

| Component | State | Operations | What is hard | What makes it correct |
|---|---|---|---|---|
| `runtime/async_worker.py` | bounded queue, critical lane, `_closed`, four counters, a thread | `submit` (4 policies, critical or not), `close`, `_run` | callers, closer and thread run between any two locks; wake-up tokens and the sentinel share the queue with items | no item lost or handled twice, counters add up, critical first, no lost wake-up, `close` ends the thread |
| `mcp/session/strategy_manager.py` | `_sessions`, `_status_cache`, `_orphaned_sessions`, session status, `is_running` of the strategy | create, status, pause, resume, stop, cleanup; end of `_run_strategy` | threads end at any moment; flags written by two sides; cleanup joins under the lock the threads need | a stopped session stays stopped, "running" has a thread, cleanup forgets no live thread and ends |
| `base/strategy.py` | snapshots of positions, orders, delta; orders at the venue | tick: refresh, cancel, quote; cleanup: cancel, liquidate | fills between any two calls; failures read as "nothing there"; a status query refreshes the snapshots from another thread; orders and shares left from before | few open orders, bounded exposure, a cleanup that leaves no uncovered order |
| `base/exchange_client.py` | balance, position and mid-price caches, polling thread, orderbook manager, order tracker | cached reads, `setup_orderbook_websocket`, `stop` | staleness, a thread that outlives `stop`, hand-over between WebSocket and polling | a cache is never older than its TTL plus one poll, one poller |
| `base/websocket.py` | connection state, attempts, subscriptions, socket | connect, disconnect, receive loop, reconnect, watch, unwatch | every `await` is a switch; disconnect and watch race reconnection | CLOSED is final, every subscription is replayed, attempts are bounded |
| `exchanges/polymarket/polymarket_ws.py` | book per asset; user channel with `_connected`, `_running` | snapshots, price changes, reconnect loop | a normal close, changes for an old book | the book equals snapshot plus changes, the user channel comes back |
| `marketdata/polymarket_relay.py` | clients, assets by client, last book, source and its lock, a task per book | subscribe, refresh, broadcast, disconnect | broadcasts overlap, a refresh replaces the source while books arrive, what all want is computed before the wait for the lock | the source asks for what the clients want, all that are still there have got the newest book in the end, nothing is left of a client that is gone |
| `runtime/sqlite_sink.py` | connection, run row, drops by event, a worker | write, handle, reset, close | repeated writes, a connection shared by the thread and `close`, a reconnection that resets the row, the timeout of the join | an event is stored once or reported, the run row says that the run has ended |
| `runtime/order_hooks.py` | hook lists, dispatcher over a worker | prepare, emit_result | a hook that rejects or raises in the middle | first rejection wins, later hooks see the modified intent |
| `base/order_tracker.py` | tracked orders with filled size | track, untrack, handle_trade, stop | trades before tracking, twice, or after completion | filled never exceeds what was traded, FILLED once |
| `base/exchange.py` | request times | `_check_rate_limit`, `_retry_on_failure` | time moves while it sleeps; requests repeated, decorators that nest | at most the limit per second, bounded attempts |
| `mcp/utils/rate_limiter.py` | tokens, last update | acquire | waiting outside the lock | burst bound over every interval |
| `mcp/session/exchange_manager.py` | exchanges, clients | get, refresh, cleanup | clients of one exchange share its WebSocket and its books | one exchange per name, none leaked |
| `exchanges/*`, `exchanges/polymarket/*` | a session or token, credentials, small caches | `create_order`, `cancel_order`, login; otherwise one REST call per method | an answer that is lost, a session that ends under several threads, silent failures | no order is placed twice, a call reports what is so |
| `backtest/crawler/polymarket_crawler.py` | a queue of rows, a writer, buffer and lock per path, files and their objects in a bucket | `write_event`, `flush_all`, `finalize_asset`, `cleanup_stale_locks` | four threads that share a dictionary of locks two of them prune; rows that come late; uploads that fail | no row it took is lost, a file in the bucket is complete |
| `models/`, `cross_exchange/`, `strategies/`, `utils/`, MCP tools, validation | none shared | pure functions, delegation | none | not modelled |

How they interact: a strategy owns an `ExchangeClient`, which calls one exchange
adapter and starts its WebSocket; the MCP server's `call_tool` drives
`StrategySessionManager` and `ExchangeSessionManager`; each session runs one
`Strategy.run()` in a thread that shares `is_running`, the session's status and, through
`refresh_state()`, its snapshots with the manager; order hooks and the SQLite sink hand their work to an `AsyncWorker`;
the relay owns a Polymarket WebSocket and forwards its books. The crawler shares no
state with the library.

The hazards, each at its line, are in `PROJECT.json`; a hazard without a property
has a note that says why.

## 2. The modules

| Module | Models | Role |
|---|---|---|
| `WorkerPromise` | what a caller of `submit()` may rely on | abstract specification |
| `AsyncWorker` | `runtime/async_worker.py` | component; implements `WorkerPromise` |
| `AsyncWorker_proofs` | | theorems about `AsyncWorker` |
| `StrategySessions` | `mcp/session/strategy_manager.py`, `Strategy.run()` | component |
| `MarketMaking` | `Strategy` tick and cleanup, `ExchangeClient`, the venue | component |
| `MarketMaking_proofs` | | theorems about `MarketMaking` and `StrategySessions` |
| `OrderBookWebSocket` | `base/websocket.py` | component |
| `OrderBookWebSocket_proofs` | | theorems about `OrderBookWebSocket` |
| `OrderTracking` | `base/order_tracker.py`, the user channel of `polymarket_ws.py`, `ExchangeClient` set-up, `create_order`, `stop` | composition of tracker, channel and clients |
| `OrderTracking_proofs` | | theorems about `OrderTracking` |
| `OrderRequests` | `base/exchange.py`, `create_order()`, `cancel_order()` and the login of five adapters, the venue | component, parameterised by the adapter |
| `OrderRequests_proofs` | | theorems about `OrderRequests` |
| `MarketRelay` | `marketdata/polymarket_relay.py` | component |
| `MarketRelay_proofs` | | theorems about `MarketRelay` |
| `EventSink` | `runtime/sqlite_sink.py`, `runtime/order_hooks.py` | composition over two instances of `WorkerPromise` |
| `EventSink_proofs` | | theorems about `EventSink` |
| `ParquetSink` | `backtest/crawler/polymarket_crawler.py` | component |
| `ParquetSink_proofs` | | theorems about `ParquetSink` |
| `MC*` | | values of the constants for TLC |

A definition named as a fault in a comment (`TokenPutNever`, `KeepCached`, ...) is
not part of the model: it is a plausible bug beside the correct definition, and
`PROJECT.json` pairs it with the property that finds it.

### AsyncWorker

A step is what a thread does under one lock (the worker's `_lock`, the counters'
lock, the mutex inside `queue.Queue`); `call`, `closer` and `thread` say where
each thread is. Each `submit()` call is a process of its own, named by its item,
so all of them may overlap. A regular call goes `new -> checked -> put ->
accepted`, or through `evict`, `popped`, `retry`, `overflow`, `dropped`, `raised`
as its policy has it; a critical one `checked -> appended -> counted ->
accepted`. The thread alternates between `draining` the lane and `getting` one
queue entry; the sentinel makes it drain once more (`stopping`) and end. A
handler that raises is counted as failed, and an `on_error` that raises kills the
thread (`dead`). `handled`, `evicted`, `owed` and `overtaken` are history only.

### StrategySessions

A session's thread is `pc`: setup, loop, cleanup, left (before the last lock
section of `_run_strategy`), reported (after it, still alive), ended. `is_running`
is read by the loop only, so `running` is kept while a thread is in its loop. `call_tool` runs one tool handler to its
end on the event loop and `cleanup()` follows the last one, so the manager's
callers are one process `op`, with a step per assignment another thread can see.
Only `cleanup()` holds `_instance_lock` across steps; `LockFree` is the guard of a
thread that needs the lock while it does. `join(timeout)` returns when the thread
has ended or, at any moment, by its timeout. A status that is computed refreshes the
strategy's snapshots, which are not state of this module: `Query` in `MarketMaking`.

### MarketMaking

The venue keeps holdings and open orders and may fill any part of an order
between any two calls; a sell is filled only from what is held, since shares
cannot be sold short. `pos` and `seen` are the snapshots of a tick: outcomes
without shares are not listed, a failed fetch of positions loses some or all of
them, a failed fetch of orders reads as none, a failed cancellation is swallowed.
What a pass has read of them is in locals (`position`, `mine`, `stale`), as in the code.

`get_status()` and `get_metrics()` of the session manager call `refresh_state()` of the
running strategy in another thread: `query` fetches positions, writes them over, fetches
orders, writes them and the delta over, with the strategy and the venue going on in
between. `setup()` cancels nothing and sells nothing, so `Init` holds any of `Holdings`,
also more than `max_position`, and any orders of `Found`.

`MaxFailures` and `MaxWrites` bound the calls that fail and the snapshots that a query
writes over; `Slips` is their number, and the properties say what each one costs.
`FewQuotes` is then not "one order per side" but what the code gives: one, or those found,
and one more per slip. `ExposureBound` says the same of holdings: `max_position` is added
to by every order that may be open, because the guard knows only the positions of the
last fetch. Neither would hold if somebody else traded in the strategy's market with its
account while it runs; that is assumed not to happen.

Cash and prices are abstract: a quote may always be left out, for
want of cash, of a valid book or of an answer. The snapshots are cleared with the last
outcome of a tick, where the code keeps values it overwrites before it reads them.

### OrderBookWebSocket

One object that several tasks of one event loop use without a lock: the main task
is `start()` (connect, then `_receive_loop()`, which calls `_reconnect()`), each
caller runs `watch_orderbook()` and `unwatch_orderbook()`, and a closer calls
`disconnect()`. A step is what a task does between two awaits; `pc[t]` names the
await it is at: `opening` (`websockets.connect`), `opened` (`_authenticate`),
`replaying` (a send of the replay), `receive` (`async for`), `asleep`, `closing`.
Sockets are named, because `async for` goes on with the one it began with when
`self.ws` is another. `leaked` says that a socket is open to which no variable
refers, and its name is used again. `served` is what the server sends on a socket.
Two things the code does not prevent are recorded in the history `excused`, and
the properties say what holds without them: "overlap", a second task enters
`connect()`, or a caller does beside the receive loop; "late", `disconnect()`
begins while a task is in `connect()` or the loop in `_reconnect()`.

A message received changes books and calls callbacks, nothing the model has, and
is left out; so is the exception handling around one message. A subclass's
subscribe is one send, as in `polymarket_ws.py`; `_authenticate()` is an await that
succeeds, or the connection is lost at it and the next send fails. The overrides of
`connect()` in other adapters are not this module (a hazard says where one differs).

### OrderTracking

`get_user_websocket()` gives every client of an exchange the same channel object, so
clients start and stop one `_running`, `_connected`, `ws` and `loop`. A client is
`new -> active -> stopping -> halting -> stopped`: the constructor with `start()`,
then `OrderTracker.stop()`, `_running = False`, and the `close()` given to the loop. `start()` makes a
thread when `_running` is clear, also while an earlier thread lives; threads are
named by the client that made them, and a thread's socket by the thread. `pc` says
where a thread is in `_receive_loop()`: `head`, `opening` (connect), `opened` (the
credentials are being sent), `reading`, `completing` (the callbacks of a complete
order have not returned), `asleep`. A thread that reads a socket of another loop
gets an exception. A `close()` runs only when its loop awaits something.

A trade is a number of units of an order, received on every open socket (`inbox`)
and handled in any grouping; one whose message names another order as taker
(`_parse_trade`) and one that is received by nobody are dropped, as is one that arrives before
`create_order()` has tracked its order. The server may send units again. `overlap`
is history: a thread was started beside a living one, which hands each trade to the
trackers twice; the properties say what holds until then.

### OrderRequests

Threads share one exchange object: its `request_times` and its session at the venue.
Each makes an order and may cancel it afterwards; `adapter` is chosen once, and small
operators say what an adapter does differently:

| | predictfun | limitless | kalshi | polymarket, opinion |
|---|---|---|---|---|
| fetches the market before an order (`Nests`: two decorators) | yes | yes | no | no |
| `create_order` under `_retry_on_failure` (`Retries`) | yes | yes | no | no, one call of an external client |
| what the venue knows an order by (`Signs`) | its hash, signed once | its hash, signed once | each request is an order | each call is an order |
| renews its session (`Renews`) | drops the token first | keeps it | - | - |
| an answer that never comes is reported as (`SaysRefused`) | an error of its own | refused | an error of its own | refused; opinion: an error of its own |
| status 5xx or a body that cannot be read | refused | refused | refused | refused; opinion: an error of its own |
| reads whether the venue refused | yes | yes | yes | polymarket: no (`Unread`) |

A request is `checking` (the look at `request_times`), `waiting` (the sleep, and then
the record of the time from before it), `sending`, and after a 401 `renewing` and
`resending`. Time is in ticks: `times` holds the ages of recorded requests, and
`recent`, history, those the rate limit really let pass. Who need not sleep goes on in
the same tick; the pause between two attempts is of any length. The venue handles a
request or refuses it; its answer arrives and says which, or never comes (`Troubled`, which
is retried), or comes and says nothing (`Broken`, which is not), and either may follow an
order that was carried out (`Unanswered`, with `unheard` as history). `Reported` is what a
caller may conclude from what comes back: a success is one, except on Polymarket; every
other end leaves no order unless an answer went astray; and `InvalidOrder`, which reads like
a refusal, is no proof of one on the adapters that raise it for such an answer.

### MarketRelay

A handler is `away -> reading -> locking -> closing -> replacing -> connecting ->
watching -> answering -> reading`, with `closing` to `connecting` only when
`refresh_on_client_subscribe` is set, until it has `ended`. `lock` is the queue of
`_source_lock`. A step lasts from one await that really waits to the next. A book is
the number of changes the venue has made to it, so "older" is a comparison; `due` are
the snapshots the venue owes after a subscription. Each book makes a task in `casts`;
a task serves some of its clients, up to one that does not read (`wait`), and goes on
later with those it had copied (`rest`), and drops the `stale` ones in the end. Tasks
run in the order in which they became ready, as the event loop runs them. A client's
`link` is fast, slow (its buffer is full), full (so much is unread that it is skipped),
or gone. A handler ends when its connection is gone, or with a living connection when a
message raises (`Leave`). A reconnection of the source is one step here; `OrderBookWebSocket` has all
of it.

### EventSink

Results of orders pass two workers: `posted` is their fate in the pipeline's, `fate`
in the sink's. Of both the module uses only `WorkerPromise`, which `AsyncWorker` is
shown to implement, and which says nothing of what a closed worker leaves behind
(`ThreadEnds`). `_handle_event()` and `_close_connection()` are two users of `_conn`:
`pc` is `ensuring` (the look at `_conn`), `connecting`, `writing`, `committing`, and
`own` is the connection a user has in a local variable. sqlite3 is external: one
transaction at a time (`txn`), a connection commits whatever was written with it by
anybody, and loses what it has not committed when it is closed or nobody holds it any
more. A call fails by itself, `MaxErrors` times, or for a reason: the connection is
closed, or the database locked by another. `outlived` and `botched` record that the
join of `close()` timed out, or that `close()` met an exception.

### ParquetSink

The files of one asset. Threads: the `writer` of rows, the `flush` loop, `poll`, which
finalizes the asset when it leaves the market list, and `tidy`, which removes stale
locks. The first three take the path's lock from the dictionary (`GetLock`: a new one
if there is none), wait for it, and work `inside` it; `finalize_asset()` and
`cleanup_stale_locks()` remove the entry without holding it. A file has rows and is
whole once its footer is written; a writer goes on with a file that was removed
(`unlinked`) and nobody sees what it writes. Uncaught exceptions (`KeyError`, a
dictionary that changes while it is read) end a loop, and `main()` with it
(`crashed`), and so do a file that cannot be opened (`OpenFails`) and a `write_table()` that
raises (`WriteFails`, `FlushFails`). In a removal an exception is logged by the poll loop
and no more: `FinalizeFails` closes the writer without its rows, its footer or both, the
paths the removal had not come to stay open, and so does another asset of the same
poll (`FinalizeNever`).

Three things the code does not prevent are history, and the properties
say what holds without them (`Calm`): a lock was removed while a thread used it
(`broken`), a row came after its path had been finalized (`late`), and the file could not
be closed (`failed`). A row is `Safe` when it can be read: in a file that has its footer, on
disk or in the bucket, or while the program runs in the open file and the buffer. Without a
bucket a removal deletes the only copy, as the code intends, so `RowsKept` ends with it.

## 3. What the runs show

| Run | Instance | Shows |
|---|---|---|
| `worker` | 2 regular items and 1 critical, queue of 1, all policies, a failing handler | `TypeOK`, `Conserved`, `PriorityBound`, `DrainHonoured`, `KeepsPromise`, `CriticalHandled`, `ThreadStops` |
| `sessions` | 2 sessions, status cache of 1 | `SessionsTypeOK`, `StopSticks`, `RunningIsAlive`, `StopHeard`, `CleanupEnds` |
| `market` | 2 outcomes of which 1 is quoted, 2 books, 3 order ids, size 2, limit 2, delta 1, 3 shares and up to 1 order from before, 1 failure, 1 snapshot written over | `TypeOK`, `FewQuotes`, `ExposureBound`, `CleanupCovered` |
| `websocket` | 2 callers, 2 markets, 3 socket names, 1 attempt, 2 connections lost or refused | `TypeOK`, `Replayed`, `SoleConnection`, `DisconnectCloses`, `FeedReturns` |
| `fills` | 2 clients, 1 order of 2 units, 1 connection lost or refused, 1 unit sent again | `TypeOK`, `FillsCounted`, `FilledOnce`, `StopEnds` |
| `requests` | 2 threads, all five adapters, 1 retry, 1 request per second of 2 ticks, 1 session that ends | `PlacedOnce`, `Reported`, `AttemptsBounded`, `RateBounded` |
| `relay` | 3 clients, 2 assets, 5 subscriptions, 1 failure of the source, no books | `Covered` |
| `broadcast` | 2 clients, 2 subscriptions, 1 asset that changes twice, 3 broadcasts at a time, a client that stops reading once | `NoGhosts`, `InOrder`, `UpToDate` |
| `sink` | 2 results of orders, 1 other event, 3 attempts, 3 failures of sqlite3 | `TypeOK`, `StoredOnce`, `ResultsKept`, `Finalised` |
| `parquet` | 2 paths, 2 rows for one and 1 for the other, flushed every 2, 2 attempts of an upload, the asset removed once | `LocksWork`, `RowsKept`, `Delivered` |
| `critical_lost` | that of `worker` | that `CriticalNeverLost` fails |
| `channel_dead` | that of `fills` | that `ChannelRecovers` fails |

Bounds and why they are enough. A queue of one slot makes every overflow path
reachable with two regular items: one occupies it, the other overflows, and the
thread, the closer and a token compete for the slot; a critical item can be overtaken and
can come after the last drain. Two sessions let one thread end while `cleanup()`
is stuck with the other, and overflow a status cache of one entry. In the market
one outcome is quoted because outcomes share nothing but the failures; size 2
allows partial fills and a limit of 2 is met by one order of it, with holdings of 3 from
before on its other side; one failure and one snapshot written over let three orders of a
side be open, as many as there are ids. For the WebSocket two
callers can be in `connect()` beside each other and beside the loop, two markets
let one be added or removed while the other is replayed, three socket names are
what `self.ws`, the one being read and the one being opened need, and two troubles
let a reconnection fail as well as the connection before it, with one attempt so
that the bound is reached. For the fills a second client is what stops the shared
channel under the first and starts a second thread, an order of two units can be
filled in part, and one unit sent again completes it early or comes after its
end; orders share nothing but the channel. For the requests two threads suffice to
take a slot of the rate limit between the other's look and its record and to drop
the session under each other; one retry in each of two decorators is enough to tell
one after the other from one within the other, a limit of one makes the second
request sleep, and a second of two ticks lets it sleep a part of one. The relay is
checked in two instances, because who subscribes to what and which task runs when
share nothing but the list of clients: two assets let one client's wish be missing
from the union the other has computed; a client that is served and one that makes the
task wait, with a second task behind, is all that an overtaking needs, and a third
task lets one wait behind another that waits. Two subscriptions are one of each client, or
two of a client that a broadcast has dropped in between. Three clients let one wait for the lock
while a second holds it and a third goes away. For the sink
three failures exhaust the attempts of one event or are spread over two events and
`close()`. Two rows of a path fill its buffer or come before and after its
removal; a second path with a row is what a removal that fails at the first leaves behind,
and a lock each is what two threads can mix up. Order ids, callers, results and the relay's clients and assets are symmetric; no liveness is checked with
symmetry.

Fairness. In `AsyncWorker` a thread that can take a step takes one (weak fairness
per submission, for the closer and for the worker thread); nobody is obliged to
submit, to call `close()` or to let a `BLOCK` timeout run out. In
`StrategySessions` each strategy thread is fair except for the end of its loop
(`on_tick` may go on for ever), and a manager call once begun goes on, since its
joins have timeouts. In `OrderBookWebSocket` only the main task is fair, since each
of its awaits ends (the library's timeouts) or is the feed itself; callers and the
closer are obliged to nothing, so `FeedReturns` lets a caller that connects excuse
it, and a finite number of troubles stands for a network that is up in the end.
In `OrderTracking` a thread goes on, a `close()` whose loop awaits something runs, and
a client that has begun to stop ends; nobody is obliged to create a client, to trade
or to lose a connection. `StopEnds` excepts a thread that is just connecting: the
`close()` finds the old socket and the thread opens a new one.
`MarketMaking`, `OrderRequests`, `MarketRelay`, `EventSink` and `ParquetSink` have safety
properties only. Where the system
may come to rest (all calls returned) deadlock checking is off.

Disagreements between the code and what its documentation says, each a run of
its own:

- `critical_lost`: a critical item accepted by `submit()` while `close()` runs is
  never handled (`runtime/async_worker.py:43` "They are never dropped").
- `channel_dead`: a user channel that the server closes normally stays "connected" and
  is never opened again (`polymarket_ws.py:467` "real-time trade/fill
  notifications").

What does hold instead is stated beside each: `PriorityBound` and `DrainHonoured`
for the lane, `StopEnds` for the channel. Other behaviour that surprised us is part of
the models, and the properties name it as an exception:

- `resume_strategy()` returns True for a strategy whose loop `pause_strategy()` has
  ended (`strategy_manager.py:293`): `excused` in `RunningIsAlive`.
- A thread that has responded may be reported as orphaned, because `cleanup()` holds
  the lock it needs to end (`strategy_manager.py:461`): `CleanupEnds` says no more than
  that the joins get it out.
- A fill between the two snapshots of a tick is in neither, and the next order may
  exceed `max_position` (`strategy.py:67`); an outcome without shares is not listed, so
  the delta of a one-sided inventory is 0 (`exchange_client.py:959`). Nor does
  `max_position` bound what `setup()` finds. `ExposureBound` is the limit, or what was held
  at the start, plus every order that may be open.
- A status query refreshes the snapshots of a running strategy from another thread
  (`strategy_manager.py:241`, `:410`). Between the fetch of the orders and the quote it can
  put back a list from before, or an empty one if its call fails, and the strategy quotes
  a second time without a failed call of its own: `written` in `FewQuotes`.
- `InvalidOrder` does not say that an order was refused: limitless raises it for an answer
  that never came, all but Opinion for a status 5xx or a body that cannot be read
  (`kalshi.py:548`), and Polymarket for whatever its client raises, while a refusal in its
  answer reads as success (`polymarket_clob.py:299`). `Reported` has each.
- An exception while a removal closes a file loses its last rows and leaves a file that is
  never uploaded (`polymarket_crawler.py:353`), and the rest of the removal undone:
  `failed` in `RowsKept` and `Delivered`.
- The rate limit lets one request more through than it says, because one that had to
  sleep is recorded with the time from before (`base/exchange.py:410`; `wiki/README.md`
  of the sources promises a limit), and more when threads share an exchange:
  `RateBounded` states both.
- A refresh of the relay that finds no connection leaves all clients without books
  until somebody subscribes (`polymarket_relay.py:176`): `failed` in `Covered`. A client
  that is sent a cached book may get an older one after it (`replayed` in `InOrder`), and so
  may anybody once a broadcast had to wait: `UpToDate` says only that the newest book is
  among those a client has got, not that it came last.
- When the join of `close()` times out, the thread and `close()` commit and close each
  other's connection: one event may be stored twice, and the run may be open again
  (`sqlite_sink.py:191`, `:289`): `outlived` in `StoredOnce` and `Finalised`.
- A row that comes after its file was finalized opens it anew and truncates it, also
  one kept on disk because the upload was given up (`polymarket_crawler.py:306`,
  `:387`): `late` in `RowsKept` and `Delivered`. A lock may be removed while it is in use
  (`:396`): `broken` in all three.

Seen while reading and not checked: the signal handlers of `mcp/server.py` and
`mcp/server_sse.py` set `_shutdown_requested`, which nothing reads.

## 4. What is proved

`AsyncWorker_proofs`, for every set of items, queue size and set of policies that
satisfy `WorkerAssumption`:

- `TypeCorrect`: `TypeOK`, with the queue's bound, is inductive as it stands.
- `NothingLostOrDuplicated`: `Conserved` is inductive together with `TypeOK`. Its
  conjuncts are the strengthening: that an item is in one place (lane, queue,
  handler, done, evicted) is preserved by a move only because each sequence holds
  it once and because the call's state says whether it has been handed over.
- `WorkerKeepsPromise`: every step maps to a step or a stutter of `WorkerPromise`
  under the mapping `Fate`, from the two invariants before and after the step.
- `CriticalFirst`: `PriorityBound` needs `IPriority`, which adds that no item in the
  lane has been overtaken when the thread is at its `get()`, and that an item is
  overtaken only after it was appended: after each entry the thread drains first.
- `CloseDrains`: `DrainHonoured` follows from `IDrain`: what `close()` owes is in the
  lane, in the handler, in the queue before the sentinel (`Before`), or settled. The
  sentinel is last when it is put, and a queue that is popped or evicted from at its
  head keeps that order (`TailBefore`, `AppendBefore`).

`MarketMaking_proofs`, for every set of outcomes, order ids, limits, holdings and orders
from before and number of failures and snapshots written over that satisfy
`MarketAssumption` (order ids are finitely many):

- `TypeCorrect`: `TypeOK` is not inductive, since it does not say where the tick's
  loops stand; `IAt` adds that a pass quotes and cancels within its own outcomes
  and its own snapshot.
- `OneQuotePerSide`: `FewQuotes` is inductive with `IQuotes`: once the orders have
  been fetched, either every open order of a side is in what the pass goes by (`seen`
  until it comes to the outcome, `mine` until the side, then `stale`) and will be
  cancelled before the side is quoted, or a slip has paid for it (`Few`). A step of a
  query changes `seen` only where it counts as a slip. An order is placed only when `Few`
  leaves room for it, and a fill only removes orders (`OrdersFinite`, `OneAdded`).
- `CleanupLeavesCovered`: `CleanupCovered` with `ICovers`: without a failed call the open
  orders of the clean-up are among those it is about to cancel, none is left when it
  begins to sell, and it sells each outcome once, for what was held then.
- `ExposureIsBounded`: `ExposureBound` with `IExposure`: from the fetch of the positions to
  its buy an outcome has room for one more order, or the positions it goes by show that it
  has none (`Spare`); positions that a query writes over are paid for by the slip
  (`NoMore`, `AllowedGrows`). At the fetch `FewQuotes` bounds the open buys, each of them
  the largest order at most (`BuysBound`). What is open is a sum over the orders, the fold of the
  community modules: its first lemmas show that taking out any order leaves the sum of the
  others (`LeftRemove`), whatever order the fold's CHOOSE takes them in, that it grows
  with what is added and is at most the number of terms times the largest. They are
  inductions on the size of the set, by a least counterexample.

`OrderBookWebSocket_proofs`, for every set of callers, markets, at least three
socket names and every number of attempts and losses that satisfy
`SocketAssumption`:

- `TypeCorrect`: `TypeOK` with `IAt`, which adds that a socket is read in the receive
  loop only and that a caller in `connect()` has a market.
- `ReplayMissesNothing`: `Replayed` says nothing while a task is in `connect()`;
  `IReplay` does: a subscription that is not served is still before some task
  there, all of them before one that has just opened a connection. Most steps
  leave served and pending as they were (`CarryReplay`).
- `StoppedStaysStopped`: `NoRetryAfterStop`, from `TypeOK` alone.
- `OneConnection` and `DisconnectIsFinal`: `SoleConnection` and `DisconnectCloses`
  follow from `Alone`, inductive while nothing is excused: the tasks take turns in
  `connect()` (`TakeTurns`), nothing is open unless the state says connected
  (`OneOpen`), the loop reads `self.ws` (`ReadsIt`), and nobody connects once
  `disconnect()` has begun (`StaysClosed`).

`OrderTracking_proofs`, for every set of clients and orders, every size and any number
of losses and repetitions that satisfy `TrackingAssumption`:

- `TypeCorrect`: `TypeOK` with `IAt`: no socket holds more units of an order than were
  traded and sent again, and there is a loop whenever there is a thread or a socket.
- `CountsWhatWasTraded`: `FillsCounted` follows from `ICount`, which adds what waits in a
  socket to what is counted. Moving units from a socket to the total keeps the sum,
  because no other thread holds any: one thread lives (`IOne`), and only a thread that
  reads its own socket has units waiting (`IRead`).
- `ReportsOnce`: `FilledOnce` needs `IForget`: a reported order is not tracked any more,
  or the thread that reported it is about to forget it and handles nothing
  meanwhile.

`MarketMaking_proofs` also proves about `StrategySessions`, for every finite set of sessions
and every size of the status cache:

- `SessionsTypeCorrect`: `SessionsTypeOK` needs only that a status about to be stored is one that was
  read (`ISaw`); that the cache keeps its bound is a fact about cardinalities
  (`StoreAdds`, `CacheShrinks`).
- `StoppedStaysStopped`: `StopSticks` with `IStop`, which says of each manager call under
  way why it cannot undo a stop: a resume has seen that the session was not stopped, a
  status read after the stop is one of the ended ones, and the cached entry is gone
  before the stop returns.
- `RunningHasThread`: `RunningIsAlive` follows from `IRun`: a thread that has reported its
  end has set the status, unless the session was not registered yet.

`OrderRequests_proofs`, for every set of callers and adapters, every number of retries
and every rate limit:

- `NeverTwice`, `ReportsTruly`, `RetriesBounded`: `PlacedOnce`, `Reported` and
  `AttemptsBounded` follow from one invariant, `Order(c)` for each caller: before its call
  ends an order is at the venue only if an answer went astray and the retry sends the same
  signed order, and what was sent is bounded by the failed attempts, two for each. A
  step of one caller leaves the invariant of the others alone (`OneCaller`); the clock
  does not occur in it.
- `RateIsBounded`: `RateBounded` with `IRate`: while one thread uses the exchange, of the
  requests that passed within a second all but the first are among the recorded times,
  each as no older than the request before it (`Aligned`), and a caller that waits will
  find room when it is done (`Paced`). `Tick` lets all ages grow
  and drops those of a second; `OlderIs` says what that leaves of a list in which the
  oldest is first: its end, from one position on. `Older` is a recursive function, and its
  lemma an induction over the list.

`MarketRelay_proofs`, for every set of clients and assets:

- `NobodyHaunts`: `NoGhosts` with `IGhosts`: who has a handler is a client until its
  connection is gone, and the clients a broadcast has noted as stale are all gone,
  which none of them regains. The rest is about sequences of tasks (`CastsType`,
  `AppendCast`).
- `SourceCovers`: `Covered` says nothing while handlers wait for the lock; `IWanted` does:
  the last of them asks for what all want, or without refreshing for all of it that the
  source lacks. The queue holds each handler that is between its request and the
  release once, and only its first goes on (`ILock`); a subscription becomes the last
  (`LockAppend`), and when the last releases the lock the source has what it asked for
  or the refresh has failed (`LockTail`, `HolderLeaves`).
- `BooksInOrder`: `InOrder` with `IOrder`: as long as no task has waited, the tasks of an
  asset stand in the order of their books, only the first of all can run, and nobody who
  was not sent a cached book has a newer one than a task still holds. Once a task has
  waited nothing of this is left, which is why the property excuses it.
- `AnsweredIsUpToDate`: `UpToDate` speaks of the moment without tasks; `IFresh` of every
  other one: who wants a book that it has not got in its newest form has it among what its
  handler will still replay, or in a task that has yet to serve it (`Coming`) or will drop
  it (`Dropping`), or missed one. A task that waits keeps whom it still has to serve, and
  every other task survives its end (`BroadcastFresh`); a new source empties the cache.
  Nothing is assumed of the order in which tasks run.

`EventSink_proofs`, for every finite set of events, any number of attempts and failures:

- `TypeCorrect`: `TypeOK` with where the two users of the connection can be (`IUsers`) and
  that the event in hand is being handled (`IItem`).
- `ResultsAreKept`: `ResultsKept` from `IResults` and that a handled event is stored or
  failed (`IDone`).
- `EventsStoredOnce`: `StoredOnce` needs what a transaction may hold (`IRows`): one event
  at most, the one in hand while it is being committed, and nothing that a retry would
  commit again. `ICount` bounds the copies by what is done, with one event that may
  have been stored twice after the join timed out.
- `RunIsFinalised`: `Finalised` needs two phases: until the join only the thread uses
  `_conn` (`IEarly`), and if the join found it ended, only `close()` does (`IAlone`).

`ParquetSink_proofs`, for every finite set of paths, every sequence of rows and any number of
attempts and removals, with a bucket and without:

- `LocksHold`: `LocksWork` from `ILocks`: a thread between `GetLock` and the release has the
  lock that the dictionary still holds for its path, unless an entry was removed under it,
  and who is inside holds it. Two threads inside at one path would hold one lock
  (`OneInside`), so the writer that a row has opened is closed by nobody (`IWriter`).
- `NoRowLost`: `RowsKept` from `IFiles` and `IKept`. A calm path that no removal is done
  with has all its rows in the buffer and the file, and without a writer it has none; one
  that is done with has no writer until a late row opens it. From the close on, `IKept`
  follows the file to the bucket, and the crash does not matter any more. A path with two
  locks stays excused: the code reads, writes and clears a buffer under a lock, the model
  flushes it in one step, so that the proof says something of the code only where the lock
  does its work. A removal that fails at a path marks that one only, and what it leaves
  open is as any other.
- `FilesDelivered`: `Delivered` from `IKept` and `IWhole`: a file whose close did not fail is
  whole, what is uploaded was closed, and a file is left on disk only while the removal is
  at it (`Here`) or when its upload was given up.

Some lemmas about data are inductions: on the size of a set or the length of a list, by a
least counterexample (`NatLessThanWellFounded` and `WFMin` of the library), since the
library's own induction theorems take an operator that the provers cannot instantiate.

Every invariant that a run shows to hold is proved. Only model-checked: the temporal
properties but `KeepsPromise` and `NoRetryAfterStop`, since the prover handles neither
fairness nor ENABLED.

## 5. Not modelled

- `ExchangeClient`: its balance, position and mid-price caches, orderbook polling, and
  the orderbook feed, in which the clients of an exchange share its WebSocket, its loop
  and its books (listed as a hazard without a property). What a strategy calls in a tick
  is in `MarketMaking`, the set-up and the stop of the tracker in `OrderTracking`.
- The exchange sessions of the MCP server: creation under one lock. Nothing in the
  repository calls `refresh_credentials()`, so no strategy runs while it does.
- The levels of a book, to which snapshots and price changes are applied, and the
  WebSockets of the other adapters, which differ from the base in how they connect.
- The other requests of the adapters, most of the library by lines: each is one request
  and the parsing of its answer, with no state between calls that a model would add to.
- The token bucket of the MCP server: real-valued time under one lock.
- The order hooks before an order (`prepare()`), a fold without shared state; the
  cross-exchange matching, which compares texts; the data models; validation,
  credentials and routing of the MCP tools.
- The backtester reads files and runs one simulation in one thread. Its notebooks, of
  which one holds most of the repository's lines, are recorded output and data; the
  website, the examples and the scripts are samples and static pages.

## 6. Plan

1. The orderbook feed of `ExchangeClient`: clients that start, receive and stop on one
   WebSocket and one loop, with two properties: a book is never replaced by an older
   one, and a running client ends up with the newest. `BookState` (a book is its
   snapshot plus the changes since), as a function checked against a reference
   definition.
2. Compositions: sessions with the shutdown of `MarketMaking`; the relay over
   `OrderBookWebSocket` instead of a source that reconnects in one step.
3. An abstract log that `EventSink` implements until the join times out.
4. Proofs: the next components as they are modelled. Liveness stays with TLC.
