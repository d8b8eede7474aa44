# Verification of the order routing core

TLA+ specifications of the parts of cryptorouter that carry orders and market
data: the FIX gateway with its database (`fixengine/`), the engine's order manager
and currency pair syncer (`engine/`), the websocket connections with their request
matching (`exchanges/stream`), the local order books kept from a stream
(`exchanges/binance`, `stream/buffer`, `orderbook`) and the dispatcher that passes
state changes between subsystems (`dispatch/`).
TLC checks them on small instances; TLAPS proves the main safety properties for
every value of the constants. `PROJECT.json` lists runs, mutants, theorems,
hazards and, for every definition, the lines of code it stands for.

    tlc -workers 2 -config RoutingFills.cfg MCOrderRouting     # one run
    tlapm OrderRoutingProofs.tla                               # one proof module

## 1. The system and its parts

cryptorouter is a fork of GoCryptoTrader with a FIX 4.2 gateway. Two programs
share most of the code: `main.go` starts the `engine`, `fixengine/main.go` the
FIX gateway. Both talk to some thirty exchanges through wrappers
(`exchanges/<name>`) that offer a REST API and a websocket stream.

| component | state | operations | interaction | what is hard | what makes it correct |
|---|---|---|---|---|---|
| FIX gateway (`fixengine/fixgateway.go`) | sessions, market data subscribers, `execID` | log on/off, new order, cancel, cancel/replace, market data request, `WebsocketDataHandler`, execution reports | called by the FIX library (a goroutine per session), by the websocket receiver and by the poller; reads and writes the database; calls the exchange | three goroutines read, call out and write the same rows without a transaction; a crash between row and report | rows and reports say only what the exchange said; one row and one creation per order; no status stored and never reported; the end of an order is reported |
| FIX order poller (`fixengine/order_manager.go`) | `processingOrders` | `processOrders` every 5 s | REST, database, gateway | races with the stream; REST failures; stale answers | the same, and convergence |
| Tables (`fixengine/models`) | orders, trades | create, read, update, upsert | SQLite through GORM | unique indexes, updates of non-zero fields only | uniqueness |
| Order manager (`engine/order_manager.go`) | store of orders, `started`, `processingOrders`, `shutdown` | Submit, Cancel, Modify, GetOrderInfo, UpsertOrder, `processOrders`, Start, Stop, `run`, `gracefulShutdown` | callers over RPC, websocket routine, REST | read-copy-write between locks; replaced order ids; shutdown against itself | one entry per order; never ahead of the exchange; nothing taken for active for ever; a running manager polls; a stopped one ends |
| Websocket routines (`*/websocketroutine_manager.go`) | state, `shutdown` | Start, Stop, receiver, handler | receive from `stream.Websocket.ToRoutine` | Exists/Add and Get/merge/Update are not atomic | no event applied twice or to the wrong order |
| Order details (`exchanges/order`) | – | merge, `IsActive`, derive | used by both managers | partial details (unknown status, zero sizes) | merging never loses what is known |
| Dispatcher (`dispatch/`) | routes, channel pool, jobs, count | start, stop, publish, subscribe, unsubscribe, relayer | tickers, order books and accounts publish; RPC streams subscribe | goroutine per delivery, recycled channels, stop with a time-out | no panic, no foreign data, no lost delivery, no leak |
| Websocket connection (`exchanges/stream/websocket.go`) | connection state, monitors, connections, queued error | connect, shutdown, enable, disable, flush, monitors, readers | wrappers, routines, RPC | monitors that reconnect and shut down each other's connection; a lock held over a wait; a flush without it | no connection of a link is read once the next one is opened; faults are known; it reconnects; disabled it ends |
| Request matching (`stream_match.go`, `websocket_connection.go`) | signatures with their channels | register, send, wait, deliver, remove | callers of the wrappers; the stream's reader delivers | a time-out against the last answer; signatures used again; the reader sends with the lock held | the reader never waits; no closed channel taken for an answer; signatures become free |
| Order books (`exchanges/binance`, `stream/buffer`, `exchanges/orderbook`) | price levels, update ids, buffer, three flags per pair | stage, fetch, align, apply, invalidate, clean up | reader and workers; the syncer overwrites over REST | an id read before the lock; flags reset one by one; lost jobs; reconnects | the book has every change up to its id, is fetched once at a time, catches up |
| Currency pair syncer (`*/sync_manager.go`) | trackers per pair, wait group | Start, Stop, worker, update, protocol switch | stream and REST | a lock per item, get and add apart, initial-sync counter | the counter is exact; late data is refreshed; the initial sync ends |
| Exchange manager, engine life cycle | exchanges, subsystems | add, remove, shutdown, SetSubsystem | everything | time-outs, double stop | each started part is stopped once |
| Data history, events, withdrawals, currency states | job tables, events, cache | periodic checks | database, REST | retries, ids | job state machine |
| RPC/API servers, connection, NTP, portfolio, communication, database managers, scripting, backtester, wrappers, config, currency, log, CLIs | – | – | – | – | not modelled, see section 8 |

## 2. Modules

| module | models | extended by |
|---|---|---|
| `OrderRouting` | gateway, poller, tables, FIX receiver | `MCOrderRouting`, `OrderRoutingProofs` |
| `OrderManager` | order manager, its store, the engine's receiver | `MCOrderManager`, `OrderManagerProofs` |
| `Dispatch` | dispatcher, multiplexer, pipes | `MCDispatch`, `DispatchProofs` |
| `Websocket` | `stream.Websocket`, its monitors and readers | `MCWebsocket`, `WebsocketProofs` |
| `Link` | abstract specification of a websocket | instantiated by `Websocket` |
| `Match` | `stream.Match` and the callers that wait on it | `MCMatch`, `MatchProofs` |
| `OrderbookSync` | Binance's `orderbookManager` with `buffer.Orderbook` and `Depth` | `MCOrderbookSync`, `OrderbookSyncProofs` |
| `Syncer` | `SyncManager` | `MCSyncer`, `SyncerProofs` |

The modules have no state in common. Where components meet, each model has the other
as an environment that does whatever the other's code can do: the order models have a
stream that drops data (`observeData`), `OrderbookSync` has a link that closes and
opens as `Link` says (readers and workers end before it is down) and a syncer that
overwrites the book at any time, `Syncer` has a websocket that comes and goes. The FIX
engine does not use the engine's order manager (it has a copy of its own, of which only
`processOrders` runs), and neither publishes orders through the dispatcher.
`Mutant of ...` definitions are plausible bugs, each next to the definition it
distorts; they are no part of the specifications. They serve to show that every
property can be broken by a change of the code.

### OrderRouting

State: `sessions` and `subscribers` are the two maps of `Application`; `rows` and
`dbTrades` the two tables; `job["ws"]` and `job["poll"]` the local variables of
`WebsocketDataHandler` and of one round of `processOrders`, `fix[s]` those of a
cancel request; `wsq` the channel `ToRoutine`; `processing` and `todo` the flag and
the list of `processOrders`. `exch` is the exchange, with the set of statuses an
order has had. `told`, `creates`, `lost`, `unstored` are histories.

Every database call, network call and report is a step, so that the handler, the
receiver and the poller interleave between any two of them:

    WsReceive ─► StoreTrades ─► StoreNew ─► Report
                 StoreTrades ─► StoreTraded ─► (WsReread) ─► Report
                 StorePlain ─► Report
    PollStart ─► PollInfo(o) ─► PollRead ─► the same steps ─► ... ─► PollDone
    CancelRead ─► CancelSend ─► CancelWriteBack
    NewOrderSubmit, OnOrderCancelReplaceRequest: one call that changes state

`Crash` is a fault of the process or a panic (`ReportWithoutTrades`, the nil exchange of
`NewOrderUnknownExchange`, the concurrent map access of `SessionMapRace`) with the restart
that follows: what is in memory is gone, tables and exchange stay. Writes fail as in the
code: a trade that cannot be written is passed over and the row written all the same
(`StoreTrades` stores any of the trades, `unstored` notes the orders it has left without
one), while the job ends with a row that cannot be written (`StoreFails`,
`CancelWriteBack`). Abstractions: the trades of a detail are upserted in one step (trade ids
are keys, so the loop is idempotent and its order does not matter); `GetOrderInfo` answers
at one moment; price and amount are one version number `px`; the fields of a row no property
tells apart are left out; rejections are messages only and change no state; one exchange and
one receiver (rows of different exchanges meet only in the unique indexes, which
`routing_ids` exercises); orders stay in the window of `GetOrderHistory`.

### OrderManager

State: `store` is the slice of the one exchange in `orderStore.Orders`, its index
standing for the internal id; `job[p]` what a caller, the receiver or a run goroutine is
between two steps of; `poll` the `processOrders` under way; `started`, `chan`,
`closed`, `run`, `ch` the life cycle, with one shutdown channel for each `Start`. A
method that holds the store's mutex is one step, a network call separates steps.
`Replace[o]` says whether a modification keeps the id (same id) or gives another one, and its
response has that id, a status or none, and the size, which `modifyExisting` merges into the
entry; `Omits` which fields streamed details leave out; `Market` which orders are market
orders, that `Submit` takes for filled. Abstractions: spot orders only (no futures
positions); amounts up to `Amount`; life-cycle calls come one at a time; the passage of
a minute and of a tick are nondeterministic.

### Dispatch

State: `running`, `jobs`, `routes`, `pool`, `count` are the fields of `Dispatcher`;
`gen` numbers the starts, each of which makes its own jobs and shutdown channel;
`at[r]` says on which start's channels a relayer selects (it evaluates the fields
anew in every round, so that a relayer that outlives a stop joins the next run);
`senders` are the goroutines that wait on a pipe. `stop` is the only operation that
spans several steps: it holds the lock (`stopping`) until all goroutines are gone or a
second has passed. Abstractions: the order of the slice of a route is not kept; a
pool may always hand out a new channel instead of a pooled one; a pipe is released
once; `Publish` is taken for one id.

### Websocket and Link

State: `state`, `enabled`, `running` are fields of `Websocket`; `lock` is the mutex
`w.m` and `pc[p]` where a caller, the connection monitor or a goroutine of a traffic
monitor is in `connect`, `shutdown` or `FlushChannels`; `slot` the managed connections
(or the single `w.Conn`), `up` the `connected` flag of each, `net` whether the exchange's
end is open, `reader` the goroutine that reads it; `errs`, `alert` the one-place channels
`ReadMessageErrors` and `TrafficAlert`; `data`, `traffic` the number of monitors in the
wait group, `stop` a closed `ShutdownC`. `missed`, `ignored`, `astray` are histories of
the three races the code does not exclude (below), `stray` one of the connections that belong
to no link. Exchanges with one connection and with
managed ones (`multi`) are in one model.

`Link` says what the wrappers rely on: a link is opened, comes up or is given up, and is
closed. Connections are added to it while it is opened or up. It is down after that only
once nothing is read at all, and is opened again only once none of its connections is read.
What may be read beside a link are strays: connections of an attempt that was given up,
whose readers end by themselves, and connections that `FlushChannels`, which does not take
the lock, adds while the link is closing or down. `Implements` is that specification with
`phase` computed from `state` and `stop`, `reading` from `reader`, and `stray` the history of
that name. Abstractions: the authenticated connection is left out;
managed connections are dialled in any order; `DataHandler` has room; the tables of
subscriptions are the set `wanted`; timers are nondeterministic.

### Match

`m` is the map of `Match`; a caller's channel is the number of answers in it (`buf`)
and `closed`. Each call under the lock is a step; sending, the `select` of
`waitForResponses` and `RemoveSignature` after a time-out are separate, so that answers
come between them. Answers to an earlier request with the same signature come late
(`owed`), or not at all.

### OrderbookSync

One pair. The exchange numbers its changes; a book is its id, its marks and the set of
changes it holds. `fetching`, `needs`, `initial`, `last`, `buffer` are the fields of
`update`; `jobs` the pair's part of the queue; `lock` the manager's lock while
`checkAndProcessUpdate` goes through the buffer; `holder` whether `buffer.Orderbook` has the
pair; `book` the `Depth`. The reader and each worker go through the same steps of
`applyBufferUpdate`; `recent[p]` is the id read before the lock. `Empty` are changes without
a price level, which `buffer.Orderbook` refuses. `faults` counts what goes wrong outside: a
lost message, jobs thrown away, a full queue, a failed fetch, a REST overwrite, and answers
to the fetch that are older than the exchange's book, of which there may be any number.
`VerifyFails` is a book that does not verify after an update. `opened` is the version at the
last `Open`: messages up to it are of an earlier connection, as a reconnect does not empty
the buffer. `outrun` is a history of what the code does not exclude, the check of the first
update being spent before its time: a fetch that begins, or a snapshot that is loaded, while
a goroutine that came through `handleFetchingBook` earlier still applies updates
(`Applying`); a snapshot under which `initialSync` is off; and a snapshot older than a
message that the last connection has left in the buffer. Abstractions: the manager's map of
pairs; the optional buffering of `buffer.Orderbook` (off by default); price levels.

### Syncer

`pairs` is `currencyPairs`, its agents being structures that may be replaced; `tracker`
has, per kind of data, whether it uses the websocket, has had data, and is late; `wg` is
`initSyncWG`; a tracker is locked while a worker fetches for it; `seen` is the shutdown
channel a worker selects on, which it reads anew each round. `WaiterWakes` has the
panic of a `sync.WaitGroup` that is counted up before the waiting goroutine has run on.
Abstractions: one exchange and asset; `Stop` is one step; an error of a fetch counts as an
update, as in the code; the time-outs are nondeterministic.

## 3. Runs

All runs finish within two to four minutes with two workers. The type invariants of
`Dispatch`, `Match`, `OrderbookSync` and `Syncer` are left to their theorems. Deadlock is not
checked in any: the bounds let every system come to rest, and a router with no orders
left, or a stopped dispatcher, really stops.

| run | shows |
|---|---|
| `routing_fills` | one order, two trades, crashes, lost events, cancel requests, writes that fail: `NothingInvented`, `RowsAnnounced`, `FillsHaveTrades` |
| `routing_ids` | two orders with the same ClientOrderID, modified in place, market data subscriptions: `TypeOK`, one report of a creation (`CreatedOnce`), and rows never change hands (`RowsStay`) |
| `routing_live` | an exchange whose stream lists no trades, so that streamed fills crash the process, writes that fail for a time: `Converges`, `EndsReported` under fairness |
| `store_live` | caller, receiver and poller, details that leave fields out: `IdsUnique`, `NeverAhead`, and under fairness `EndedInactive`, `OpenStored` |
| `store_replace` | replaced ids, a market order and an exchange without GetOrder: `TypeOK`, `EntriesStay` |
| `restart` | two starts and a shutdown that cancels orders: `RunWhileStarted`, `RunsEnd` |
| `dispatch` | two subscribers, two channels, two runs, a stop that times out: `NoSendOnClosed`, `ChannelsOwned`, `CountCovers`, and under fairness `Delivered`, `AllEnd` |
| `reconnect` | a caller with every outside call, the monitor, a late shutdown, failed attempts, a connection that breaks: `TypeOK`, `Watched`, `FaultsKnown`, the refinement `Implements`, and under fairness `Reconnects`, `DisabledEnds` |
| `book_sync` | reader, two workers, two connections, a buffer of two, one kind of fault: `BookConsistent`, `FetchOwned`, `OneFetch`, and under fairness `CatchesUp` |
| `sync_live` | one pair that is enabled at any time, two workers, a websocket that comes and goes: `WgCounts`, and under fairness `Refreshed`, `InitialSyncEnds` |
| `match` | three callers, two with one signature, one and two answers, inspectors: `Room`, `NoBlank`, and under fairness `Freed` |

One run ends in a violation of a statement of the repository (quoted in `PROJECT.json`,
findings): `streamed_fill`, where a streamed fill with the documented fields makes the
report index an empty list of trades, a panic.

### Where the code does less than it says

Found while modelling; the properties name these cases as exceptions or leave them out.

- `fixgateway.go:283-293`: "Determines if current trading activity is turned off"; after
  the rejection there is no `return`, and the order is submitted.
- `fixgateway.go:563-566,615-618`, `fixengine/order_manager.go:806-809,834-837`: a trade that
  cannot be written is logged, and the row is written as filled without it (`unstored`). The
  poller stores it later, as it compares the numbers of trades.
- `engine/order_manager.go:105,109`: "cancels all orders (if enabled) before shutting
  down"; `Stop` resets `started` first, and `CancelAllOrders` returns at once.
- `dispatch.go:310-317`: "Drain and put the used chan back in pool"; one read without
  waiting does not empty a channel with several senders, and its next owner may get data
  of the former id.
- `websocket.go:1179`: an error that the monitor takes while a `Connect` is under way is
  dropped, although `ReadMessage` says that the monitor handles it by reconnecting
  (`ignored`). The traffic time-out finds the dead connection later.
- `websocket.go:362,1209`: a `Connect` that finds `connectionMonitorRunning` set by a
  monitor on its way out is not watched (`missed`).
- `websocket.go:638-682`: `FlushChannels` changes managed connections without the lock:
  a connection dialled while a shutdown goes on is closed by nobody, and that shutdown
  waits with the lock held until the exchange ends it (`astray`, `Orphans`); a connection
  taken away is called all the same (`FlushPanics`).
- `binance_websocket.go:112`: "Change state on reconnect for initial sync"; `fetchingBook`
  is not reset, so that a job thrown away at a shutdown, or a failed fetch, stops the
  pair's book for good (`FetchOwned` and `CatchesUp` except these faults).
- `binance_websocket.go:738`: the id that updates are checked against is read before
  the lock; a snapshot that comes in meanwhile is followed by updates older than it
  (`outrun`).
- `binance_websocket.go:1043`: "The first processed event should have U <= lastUpdateId+1
  AND u >= lastUpdateId+1"; the check is for `initialSync`, which `validate` turns off at
  line 1050 for any aligned update. A goroutine that is past `handleFetchingBook` when
  another starts a fetch does so too early: after the snapshot of that fetch the first
  update is not checked, and what the full buffer dropped at line 889 is missing from a
  book that counts as valid. It takes two workers, a REST overwrite and an update that
  `buffer.Orderbook` refuses (`outrun`; found when the proof of
  `BookConsistent` did not go through, and confirmed by TLC with six changes).
- `buffer.go:331-333`: a snapshot is loaded whatever the id of the book it replaces. After an
  update that `buffer.Orderbook` refuses, the book that is fetched again is still valid, and a
  snapshot older than the stream sets it back. It then is a whole book of an earlier moment,
  and valid; the check of the first update throws it away, but only with the next message
  (`Unchecked` in `CatchesUp`).
- `binance_websocket.go:104-121`: a reconnect does not empty the buffer. A message of the last
  connection may pass for the first update on top of an old snapshot; what comes next is not
  checked any more, and what was missed between the connections is missing from a book that
  counts as valid (`outrun`; found when the model was given old snapshots).
- `sync_manager.go:517`: of two agents added for one pair the first may never get data,
  and the initial sync does not end (`Replaced`); lines 115-123 and 209 have two panics
  (`dead`); a `Start` of a sync that is complete and not continuous (line 228) leaves
  `started` set, no worker and the wait group counted up, which is why the liveness
  properties are checked for one `Start`.
- `websocket_connection.go:325`: a request that could not be sent keeps its signature
  (`Freed` excepts it); line 358: a late time-out closes the channel of whoever has the
  signature by then (`NoBlank` speaks of callers with a signature of their own).

Other limits of the code that shaped the properties: an answer of `GetActiveOrders`
older than the fill sets a filled order back to active, and as nothing remains to
execute it is not asked for again, so `EndedInactive` speaks of `IsActive` and not of
the status; when the stream stores the replacement of a modified order before
`Modify` renames the entry, two entries have one id, and the renamed entry has what was
executed of the old order, so `IdsUnique` and `NeverAhead` leave out ids that take the place of
another (`Replaced`); `stop` of the dispatcher leaves the count of
subscribers as it was, so `CountCovers` is an inequality; and a pipe released after a
stop that timed out stays in the routes.

### Bounds

One order is enough for what concerns a single order, since rows and entries of different
orders meet only in the unique indexes and in searches by id; the runs on these have two.
Two trades make a partial and a full fill and a stored count that differs from a received
one; the order manager's runs have orders that fill at once (`Amount = 1`), and the theorems
cover partial fills. A queue of one lets an event be overtaken by any number of polls and be
dropped; `store_replace` and `restart` run without a stream (the theorems cover replaced ids
with one), so that polling races with two ids and two runs stay within reach. Only
`routing_ids` has sessions that ask for market data (`Subscribing`), which no other step
depends on. Two starts are what a goroutine of the last run needs to meet the next. Two
channels and two subscribers make a recycled channel and one that is held; ids do not meet,
and the theorems cover several. `reconnect` has one connection, which a failed, a flushed
and a shut down link have to share, and room for the monitors of two attempts; the theorems
cover several slots and connections. In `book_sync` three changes make messages of one, two
and three changes, a gap and an overflow of the buffer of two, with a second connection
after any of it; a behaviour has one kind of fault, since two mask each other, though any
number of old snapshots. In `sync_live` two workers race on one pair, whose book is the kind
of data with the most branches; the second agent is the one that replaces. The sync is one
that stops when complete; with `Continuous = TRUE` the same properties hold (252,748
states). In `match` one caller of the shared signature expects one answer and one two, so
that what one leaves behind fits, or does not fit, the other. `MaxPx`, `MaxStarts`,
`MaxPubs`, `MaxQueue`, `MaxMonitors`, `MaxVersion`, `MaxOpens`, `MaxFaults`, `MaxOwed` and
the sets of agents and workers are the only caps; they appear in guards. Symmetry (trades in
`routing_fills`, orders in `routing_ids`, where both have the same `ClientOrderID`) is used
in runs without liveness only.

### Fairness

Goroutines that can go on do (weak fairness of the receiver, workers, poller steps, run,
relayers, senders). Network calls may fail any number of times but not for ever: strong
fairness of `PollInfo` in `OrderRouting`, of `GetActiveOrders` and `FetchExchangeOrder` in
`OrderManager`, where it also says that a minute without updates comes to pass. A `select`
with a closed channel and a ticker takes the closed channel in the end (`RunShutdown`,
`RelayerEnds`), as Go's choice is random. In `Dispatch` subscribers read until they release,
which is what the loops over `Pipe.Channel()` do. In `Websocket` the mutex starves nobody
(strong fairness of `Acquire`, as Go's mutex hands over to a waiter after a millisecond) and
a dial is let through in the end (strong fairness of `Dial`); in `OrderbookSync` and
`Syncer` the exchange answers, with an error or not; in `Match` the timer of a waiting
caller expires. Nothing is assumed of FIX clients, callers, publishers, the exchange, or of
who starts and stops. The liveness properties say for themselves what they need: a session
on, no cancel in flight and writes that succeed in the end (`Settled`), a manager that stays
up (`Up`), a websocket without the three races (`Sound`), a link that stays up.

## 4. Proofs

For all constants that satisfy `ConstantsAssumption`. In each module the invariant is
layered: a later layer uses the earlier ones.

- `OrderRoutingProofs`: `TypeInv` (types, and that a job past its read has a row) gives
  `TypeCorrect`. `RowInv` (unique keys; a report of a creation pending or sent at most once,
  and only for a row that exists) gives `CreatedOnceAlways`, and, as whoever writes a row
  back has read one that is still there under the same two ids, the action property
  `RowsStayAlways`. `HeardInv` says that all copies – queued details, jobs, rows read by
  cancel requests – repeat what the exchange has said; `NothingInvented` alone is not
  inductive, since a stale copy is written back later. It gives `NothingInventedAlways`.
  `AnnInv` adds that the copies of rows in flight are announced too, for a write-back of an
  old status; it gives `RowsAnnouncedAlways`. `FillInv` (a job about to store a fill has
  stored, or found stored, one of its trades, or has noted that it could not) gives
  `FillsHaveTradesAlways`.
- `OrderManagerProofs`: `TypeInv` with the facts that what is stored or being stored
  was placed; `LoopInv` (which channel each run goroutine holds and whether it is
  closed) gives `RunWhileStartedAlways`. `OneOrder` (the
  detail a goroutine holds is of the order it works on; that of a modification has the id
  the exchange put in its place) gives `EntriesStayAlways` and `IdsUniqueAlways`.
  `HeardInv` – every copy of an order, queued, merged, fetched or listed, is behind the
  exchange – with the lemma that the exchange only moves on gives `NeverAheadAlways`. All are
  for any `Replace`; TLC agrees on an instance with a replaced id and a stream (3.6 million
  states), which is too large for a run.
- `DispatchProofs`: `TypeInv` contains `CountCovers`, as the count is a natural number
  only because it covers what is taken out: `TypeCorrect`, `CountCoversAlways`.
  `OwnInv` (what is closed, pooled, registered or held has been made; what is registered or
  pooled is open; one holder, one route) gives `ChannelsOwnedAlways` and
  `NoSendOnClosedAlways`.
- `WebsocketProofs`: `TypeInv` adds who holds the lock and what the link is meanwhile
  (`LockInv`) and how many monitors there can be (`CountInv`): `TypeCorrect`. `WatchInv` (the
  flag says whether there is a monitor; one about to leave has shut down, or a connect
  since has been noted) gives `WatchedAlways`. `SlotInv` (a connection is in one slot; who
  flushes has managed connections) and `FaultInv` (while a connect goes on the error
  must still be on its way; afterwards the monitor may be about to act on it) give
  `FaultsKnownAlways`. `ImplementsLink` is the refinement: initial states and every step
  are mapped to `Link`, from `TypeInv` and `StrayInv`: while the websocket is disconnected and
  not shutting down, whatever is read is a stray.
- `MatchProofs`: `Room` is inductive with the types and gives `RoomAlways`; for
  `NoBlankAlways` `Waiting` says that a caller alone with its signature will find an answer
  for all it has still to read, in its channel or owed by the map.
- `OrderbookSyncProofs`: `Writing` (one goroutine writes, with the lock and an update in
  hand) and `AllOff` (no goroutine is left when the link is down) make `TypeOK` and
  `FetchOwned` inductive: `TypeCorrect`, `FetchOwnedAlways`. `BookConsistent` takes two more
  layers. `CInv` is about control: `SingleFetch` (at most one fetch, as a job or in one
  goroutine's hands, and the pair is marked meanwhile), `HolderKnown` (the pair is known
  while someone applies to it), `FetchAlone` (nobody applies beside a fetch, unless
  `outrun`), `FlushedGone` (who cleans up has thrown the book away) and `CheckOn` (from the
  start of a fetch on the first update is going to be checked); it gives `OneFetchAlways`.
  `SInv` is about data: `InSequence` (the buffer is in the stream's order and not ahead of
  it), `Whole` (beyond the book, and beyond what the last connection has left, the buffer
  has no hole up to `last`), `ReadBehind` (an id read that is older than the book's does no
  harm, as the buffer is then beyond the book), `WriteNext` (the update in hand is the next
  one), `NothingDropped` (past the first check every change not in the book is in the
  buffer), and `RoomForNext` (which is why nothing is dropped: past the check the reader
  finds room). No layer says that a snapshot is new. `HeadIsNext` draws from these that an
  update that passes `validate` starts where the book ends, which gives
  `BookConsistentAlways`. Most actions need no proof of their own: the lemma `Kinds` says
  that all but nine leave book and buffer alone (`Quiet`), or are followed by a book that
  the stream does not keep (`Dim`).
- `SyncerProofs`: `Placed` (who synchronises has an agent in hand) and `Tally` (every agent
  someone can update has been counted) make the exact count inductive, which gives
  `WgCountsAlways` and, as the count is a natural number only for that reason,
  `TypeCorrect`.

Only model-checked: liveness (`Converges`, `EndsReported`, `EndedInactive`,
`OpenStored`, `RunsEnd`, `Delivered`, `AllEnd`, `Reconnects`, `DisabledEnds`, `CatchesUp`,
`Refreshed`, `InitialSyncEnds`, `Freed`), which needs fairness the prover does not
handle. Every invariant and every action property of the passing runs is also a theorem.

## 5. What holds and what does not, in short

The unique indexes and the comparison with the stored row are enough to keep one row, one
creation report and nothing invented, in every interleaving and with writes that fail; and
polling repairs what stale events and stale write-backs do, as long as the order has a
ClientOrderID of its own. A report is lost for good when the process dies between row and
report, or when nobody is logged on: the properties say so with `lost`. In the order manager
every path that stores an order checks under the lock, so entries are unique but for ids
that a modification brings. In the dispatcher the wait for the senders makes closing safe,
also after a time-out, and the price of the time-out is a leaked route. A websocket is
opened again only once no connection of the last link is read, in every race of monitors,
callers and time-outs; beside a link it may read connections of an attempt that failed and
connections a `FlushChannels` added without the lock. What it may lose is the notice of a
fault during a connect, and its monitor when it is disabled and enabled at once. A streamed
book is either whole up to its id or invalid, unless the check of the first update was spent
too early (`outrun`) or REST wrote it; it may be set back by an old snapshot until the next
message; and a failed fetch is what it does not recover from. The syncer's counter is exact
as long as the process lives; two workers adding one pair is what keeps the initial sync
from ending.

## 6. Hazards

`PROJECT.json` lists them at their lines with the properties that watch them. Not in that
list, as no model covers them: `genExecID` counts without synchronisation and the poller
has a copy of the gateway (`fixgateway.go:995`); `GetOrdersSnapshot` reads the map without
the lock (`engine/order_manager.go:551`); two `Stop`s at once close a channel twice
(`engine/order_manager.go:104`); `RemainingAmount` counts trades again
(`exchanges/order/orders.go:295`); the dispatcher's wait group is reused after a time-out
(`dispatch.go:132`); `ExchangeManager.Shutdown` outlived by its goroutines
(`exchange_manager.go:179`); a buffered update that fails half way
(`stream/buffer/buffer.go:220`); the syncer's map read without its lock
(`sync_manager.go:384`).

## 7. Plan

1. Done: `OrderRouting`, `OrderManager`, `Dispatch`, `Websocket` with `Link`, `Match`,
   `OrderbookSync`, `Syncer`, with their proofs.
2. Done: every safety property of the runs is proved.
3. Engine life cycle and exchange manager: double stop, shutdown with time-out.
4. Refinement: an abstract order log (placed, moved, ended, reported) implemented by
   `OrderRouting`; an abstract publish/subscribe implemented by `Dispatch`; an abstract
   copy of a remote book implemented by `OrderbookSync`.
5. `order.Detail` arithmetic (remaining amount), price levels against a reference
   definition, ExecIDs and market data broadcasts, `alert.Notice`, the request limiter,
   data history jobs, events.

## 8. Not modelled

Exchange wrappers (clients of remote APIs; an exchange is an environment here), RPC
and API servers (translation of requests), scripting, the backtester, configuration,
currencies, logging, communications, generated database models, CLIs and tools. The
managers for connections, NTP, portfolio and communications are shells around one
periodic call.
