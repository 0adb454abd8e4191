# Verification of orderflow-grpc

TLA+ specifications of the ordering system in `src/`, checked by TLC on small instances. What they say of
safety is also proved by TLAPS, for every instance (§4). All paths below are relative to `src/`.

## 1. The system

Two services and two PostgreSQL databases. `order-service` (FastAPI, asyncio) serves HTTP and
WebSocket clients; it calls `inventory-service` (Django and a threaded gRPC server, several replicas
behind one name) over gRPC.

| Component | State it keeps | Operations | Talks to |
|---|---|---|---|
| **Stock reservation** (`inventory_app/services.py`, `models.py`) | `Product.available_quantity`; `StockReservation` rows (order_ref, product, quantity, idempotency_key, status) with a partial unique index on (key, product) of RESERVED rows | `reserve_stock`, `release_stock` | PostgreSQL: row locks, one transaction per operation |
| **Unary servicer** (`grpc_server/servicer.py` 31–81) | none | `ReserveStock`, `ReleaseStock` | validates, delegates to the reservation |
| **Order saga** (`orders/service.py` 38–125) | `Order` rows; a session per request | `create_order`, `_release_quietly` | inventory by gRPC, its own database |
| **gRPC client** (`grpc_client/client.py`, `errors.py`) | one channel | `reserve_stock`, `release_stock`, streams | channel retry policy, deadlines, status mapping |
| **Bulk orders** (`orders/service.py` 127–212, servicer 83–143) | `Order` rows, many at once | `create_orders_bulk`, `ReserveStockBulk` | one stream of lines up, one summary down; release by order |
| **Stock watch** (servicer `WatchStock`, `notifications.py`, migration 0003) | watch set, last_seen, an events queue per call | subscribe, unsubscribe, notify, resync | NOTIFY trigger; three threads over one queue |
| **WebSocket bridge** (`inventory/service.py` `stock_watch`) | a command queue, two pump tasks | frames in, updates out | the watch stream |
| **Low-stock stream** | none | `WatchLowStock`, NDJSON response | a read-only scan |
| **Server lifecycle** (`grpc_server/server.py`, `healthcheck.py`) | worker pool, health status, shutdown flag | serve, probe, drain | every servicer |
| Interceptors, order lookup, configuration, migrations, demo page | none of their own | | |

How they interact: `POST /orders` → `create_order` → `ReserveStock` → commit of the order →, when that
raises, `ReleaseStock`. The channel retries an attempt that ends UNAVAILABLE (`maxAttempts` is 4; the runs take 2 or 3, which is already one attempt more than the outages they allow where that matters), so
one RPC may be several executions on several replicas, some of them still running when a later one
starts. Every change of a product's stock fires NOTIFY, which wakes the watches.

What is hard here:

* two executions with one idempotency key run together on different replicas, and the replay query of
  `reserve_stock` runs outside its transaction;
* reserves lock products, releases lock reservation rows and then products, in one order or in a circle;
* a batch fails in the middle and has to be undone, by code that keeps evaluating the other lines;
* a call ends for the client (deadline, broken connection) while it goes on at the server;
* the saga's compensation is triggered by exceptions that do not tell whether the commit took effect, and
  names only the order, not the reservation it undoes;
* the order service or a replica dies between any two steps;
* a watch is three threads and a queue: notifications get lost while the listener reconnects, commands change the watch
  set between a test and its use, and any of the three may end first;
* the bridge's two pumps end each other by cancellation, which hits the survivor at whatever it awaits;
* handlers with and without a deadline share one pool of threads with the health probe.

What would make each component correct:

* *reservation*: stock never negative, available plus reserved units constant, batches whole, a key never
  held twice, no deadlock, each call answered, and all of it indistinguishable from calls executed at one instant;
* *saga*: a persisted order is backed by exactly one booking of its own items, orders never exceed the stock,
  a client told "failed" leaves no stock held under its key, no stock is held for an order that does not exist, each request is answered;
* *bulk*: each order of the answer is backed by the lines it names, partial orders hold nothing;
* *watch*: updates follow the commits, every subscription gets its snapshot, every watched product converges to its
  committed value, and the three threads end together;
* *bridge*: each frame is treated in order, only what should end a session ends it, and a session leaves nothing behind;
* *low stock*: the HTTP status tells whether the scan failed before its first row, and the response ends;
* *lifecycle*: only open watches may starve other calls, the token decides, the probe tells the truth, the drain ends.

`PROJECT.json` lists every component with its status and every hazard at its line.

## 2. Modules

| Module | What it is |
|---|---|
| `InventoryRequests` | What both levels share: products, initial stock, the requests callers may send, their validity and their demand |
| `AtomicInventory` | **Abstract specification** of the inventory service: each reserve, replay and refusal at one instant; a release in two |
| `Inventory` | **Detailed specification**: `reserve_stock` and `release_stock` one SQL statement at a time, under PostgreSQL's READ COMMITTED |
| `MCInventory` | Instances of `Inventory` for TLC |
| `InventoryProofs` | Proofs about `Inventory`: the inductive invariant of its transactions, and `NoWaitCycle` |
| `BookingProofs` | On top of it: `Conservation`, `AllOrNothing`, and that `Inventory` implements `AtomicInventory` |
| `AtomicProofs` | What `AtomicInventory` keeps whoever calls it: the base of the two proofs about the order service |
| `OrderSaga` | `create_order` and the gRPC channel, composed with `AtomicInventory` |
| `MCOrderSaga` | Instances of `OrderSaga` for TLC |
| `SagaProofs` | Proofs about `OrderSaga` |
| `BulkOrders` | `create_orders_bulk` and `ReserveStockBulk`, composed with `AtomicInventory` |
| `MCBulkOrders` | An instance of `BulkOrders` for TLC |
| `BulkProofs` | Proofs about `BulkOrders` |
| `StockFeed` | **Abstract specification** of a watch: a server that polls |
| `StockWatch` | **Detailed specification**: reader, listener and generator over the events queue, woken by NOTIFY |
| `MCStockWatch` | Instances of `StockWatch` for TLC |
| `StockWatchProofs` | Proofs about `StockWatch`: `NoMissedChange`, and the safety half of the refinement |
| `WatchBridge`, `MCWatchBridge` | `InventoryService.stock_watch`, one WebSocket session, and its instance |
| `WatchBridgeProofs` | Proofs about `WatchBridge` |
| `InventoryServer`, `MCInventoryServer` | Interceptors of both services, worker pool, health service, shutdown, the low-stock stream, and its instances |
| `InventoryServerProofs` | Proofs about `InventoryServer` |

`Inventory` implements `AtomicInventory` (`ImplementsAtomic`, checked on an instance and proved for all), and `OrderSaga` composes the order
service with `AtomicInventory` instead of with the statements, which keeps its interleavings few. `StockWatch` is checked
to implement `StockFeed`, and its safety half is proved; `WatchBridge` knows the watch only by what it promises, that it ends when its requests do.

### 2.1 Inventory

An element of `Calls` is one execution of a handler, in a worker thread of some replica, with its own database
connection. It takes one step per SQL statement:

| Code | Actions |
|---|---|
| servicer 35–54, 56–81: validation | `Accept`, `Abort` |
| services 102–119: replay query, outside `atomic()` | `Replay`, `BeginReserve` |
| 126–134: quantity ≤ 0, `Product.DoesNotExist` | `RejectLine` |
| 136–151: `select_for_update().get`, comparison | `EnoughStock`, `InsufficientStock` |
| 153–167: `product.save`, `StockReservation.create` | `WriteLine`, `LoseUniqueRace` |
| 169–170, end of `atomic()` | `Commit`, `Rollback` |
| 171–180: `IntegrityError` | `LoseUniqueRace` |
| 215–218: `select_for_update().filter(...).order_by` | `Select`, then `LockRows` per product |
| 220–225: `F("available_quantity") + n`, `reservation.save` | `ReleaseRow`, `CommitRelease` |
| a replica killed, a connection lost | `Crash` |

The database is `avail`/`reserved`/`released` (committed) and `dirty`/`fresh`/`freed` (uncommitted, by
transaction), with `lock` and `held` for row locks. A plain SELECT reads the committed part. FOR UPDATE and UPDATE
wait for the row's lock and then see the newest version; a release's query finds its rows by snapshot and
rechecks each one when it gets its lock (`StillReserved`). An INSERT waits for an uncommitted row that clashes under
the unique index and fails on a committed one. `seen` is the `product.available_quantity` the function has read: the
save writes `seen - quantity`, not a difference computed by the database, so a lost update is possible in the
model if the lock does not prevent it.

Abstractions. `product.save` and the INSERT after it are one step, as no statement of another transaction can tell
them apart: the row lock is held since the SELECT, and if the INSERT fails both go. The rows of one product that one release locks are
locked in one step; every query takes them in the same heap order. The CHECK constraint of
`PositiveIntegerField` is left out: `TypeOK` shows the code never relies on it. Failures of
single statements (serialisation errors, timeouts) are `Crash`: the transaction is rolled back and the caller gets an error.

### 2.2 AtomicInventory

`Reserve` takes all lines or none, against the stock of that instant; `Replay` answers from an active booking under
the key; `Miss` then `Reserve`/`Reject`/`Collide` leaves the gap the code has between its replay query and its
transaction, in which a booking under the key may appear. `Find` and `Return` are two instants, since a
release takes its snapshot before it has its locks: two releases may find the same booking, one returns it.
The refinement mapping is `Atomic` at the end of `Inventory`: free stock is the committed quantity, a booking is
the rows one call has inserted, a release's `due` is the rows its query has found.

### 2.3 OrderSaga

One handler per element of `HttpRequests`; each await of `create_order` is a step. `at` is where the handler
stands: `new`, waiting for the `reserve` RPC, about to `persist`, in `refresh`, waiting for the `release` RPC, `done`.
An attempt of an RPC is a call of `AtomicInventory` named ⟨request, op, attempt⟩: sent when `req` holds it and executed whenever
the server takes its steps, which may be after the client has given it up. `Unavailable` is the channel's
view of a dead replica or a broken connection, and `Retry` and `GiveUp` follow the retry policy (client.py 28–45).
`DeadlineExceeded`, `ServerError`, `CommitRaises`, `CommitUnanswered`, `RefreshRaises` and `Crash` are the failures, each enabled
by the constant `Faults`; `MaxOutages` bounds how many attempts lose their replica or connection. The `except` of lines
100–109 runs in three cases it cannot tell apart: the commit failed (`CommitRaises`), it took effect but its answer was lost
(`CommitUnanswered`, fault `"lost"`), it succeeded and `refresh` failed (`RefreshRaises`).

Two constants say which executions an instance admits: `Overlap`, whether requests with one key may be in
flight together, and `Late`, the operations whose abandoned attempts the server may still execute. The
properties of the saga hold only under restrictions on them (§3.2), and the violation runs show that each restriction is needed.

### 2.4 Bulk orders

One handler per batch, `at[b]`: `new`, waiting for the summary in `stream`, about to `persist`, in the loop of
`release`s, `done`. An order is ⟨batch, position⟩ and its own order_ref, because the code draws a uuid; its line i is the call
⟨batch, position, i⟩ of `AtomicInventory` and its release the call ⟨batch, position, 0⟩.

| Code | Actions |
|---|---|
| client 126–135, service 159–160: the stream is opened | `OpenStream` |
| servicer 102–131: the next line, reserved in a transaction of its own | `ReadLine`, then the steps of `AtomicInventory` |
| a line raises or its replica dies; service 161–167 | `CallFails`, `LineRaised` |
| deadline or broken connection; service 161–167 | `StreamBroken` |
| servicer 138–143: the summary | `Summary` |
| service 169–196: regroup, add, commit | `Commit`, `CommitRaises` |
| service 200–201, 114–125: `_release_quietly` of each partial order | `SendRelease`, `ReleaseEnds` |
| 208–212: the report | `Report` |
| the process dies | `BulkCrash` |

The server may read on after the client has left (a sync servicer notices a cancelled stream when it asks for the next
message), and a commit that raises may have taken effect. `ReserveStockBulk` has no retry policy, so there are no
attempts; the attempts of a release are one call, because nothing else uses its ref. The branch for a line without
order_ref is left out: the only client always sends one. Lines have no idempotency key, so `Replay` and `Collide` do not happen here.

### 2.5 Stock watch

One WatchStock call. The shared variables have the names of the code: `watchSet`, `newlyAdded`, `lastSeen`, `stop`, `events`.
A product's stock is a `version`, how many changes have committed; `Level` gives the quantity, and it returns to a value it had
before, since `last_seen` compares quantities and would miss that if it compared stale ones.

| Code | Actions |
|---|---|
| migration 0003, trigger and `pg_notify` at commit | `Change` |
| servicer 213–238, one command under the lock; `finally: stop.set()` | `Subscribe`, `Unsubscribe`; `RequestsEnd`, `CallEnds` |
| notifications 70–78: connect, LISTEN, yield resync | `TryConnect`, `Connect`, `ConnectFails`, `PutResync` |
| notifications 80–86, servicer 243–250: a notification, the watched test, the put | `Notified`, `PutChanged` |
| notifications 87–93, servicer 251–253 | `ConnectionLost`, `ListenerStops`, `ListenerFails` |
| servicer 286–301: loop condition, `events.get`, the three markers | `LoopAgain`, `Timeout`, `TakeSnapshot`, `TakeChanged`, `TakeResync` |
| 260–264: the watch set once more, then one query | `Filter`, `Select` |
| 273–283: each row | `SkipRow`, `YieldRow`, `Exhausted` |
| 302–304 | `Leave`, `Return` |

A step of a thread reaches from one point where another thread can interfere to the next: between them lie the lock, the
queue, the database and the yield. A notification is on its way from the commit on if LISTEN stands, and is lost
otherwise; a connection that breaks may take those under way with it. `shown` and `owed` are history: the version each product was last sent at, and the
subscriptions without a SNAPSHOT.

`StockFeed` has neither threads nor notifications: it asks for some watched products at any time (`Ask`), reads
their rows at one instant (`Read`), and shows or skips each (`Show`, `Skip`). That it converges and answers each
subscription is part of the specification (`Converges`, `SnapshotsCome`), so `ImplementsFeed` states
the liveness too. The mapping is `Feed` at the end of `StockWatch`; a poll begins when the generator is about to query.

### 2.6 WebSocket bridge

The handler and the two pumps are asyncio tasks and grpc runs a third over `_command_stream`; an action is what a
task does from one await to the next, and a put on the unbounded queue is no await.

| Code | Actions |
|---|---|
| service 133–148 | `ReceiveCommand`, `ReceiveInvalid`, `Reply` |
| 134: `receive_json` raises; 144: an id that is no int64 | `ReceiveFatal` |
| 138, 149: the socket is gone | `ReplyFails`, `Disconnected` |
| 151–152: the sentinel, however the pump ends | `EndInbound` in each of these and in `InboundCancelled` |
| 117–123 | `TakeCommand`, `DropCommand`, `EndRequests` |
| 154–164, client 188–189 | `TakeUpdate`, `SendUpdate`, `SendFails`, `StreamEnds`, `OutboundCancelled` |
| 171–175, 185–187; the handler itself cancelled | `Wake`; `Interrupted` |
| 188–192 | `Close` |
| the server's side, as `StockWatch` has it | `Emit`, `Complete`, `Break` |
| servicer 234–238, 251–253: its reader or listener raises | `QuitWatch`: the call ends OK, its requests still open |

What matters is where `_pump_outbound` is cancelled. While it awaits an update, the cancellation goes through the call and
cancels it. While it awaits `send_json`, the call is not involved and stays open, held by grpc's task, which
waits for a command; then only the sentinel ends it (`NothingLeft`).

### 2.7 Server, interceptors, low stock

A call is `new`, `open` for its client, or has a status; for the server it is `queued` for the pool, `running` in a thread or
`done`. The two views part when a deadline passes or a client leaves. `HandlerFor` composes what server.py
registers with what the interceptors make of it: `Registered`, or `Aborting` unless `Authorised`; the logging interceptor keeps both the kind and the
body. `Presented` is the client's side: the token, on each kind of call that has an interceptor.

There is one pool and one queue. server.py 61–64 hands the health service a pool of its own, but `HealthServicer` gives it to its `Watch`
method, which nobody here calls: the container probe (`healthcheck.py`) calls `Check`, and that one is queued with everything else.

| Code | Actions |
|---|---|
| dispatch through the interceptors | `Arrive`, `Refuse` once the server is stopping |
| server 44: a free thread | `Start` |
| handlers | `Abort`, `Answer`, `AnswerProbe`, `EndWatch`, `QuitWatch`, `FailWatch`, `SendRow`, `EndScan`, `FailScan` |
| timeouts of client.py and healthcheck.py; leaving | `Deadline`, `Hangup` |
| inventory/service 64–76: the first message | `FirstRow`, `NoRow`, `NoStream` |
| 78–94: the body | `WriteLine`, `EndBody` |
| server 75–86 | `Sigterm`, `Stop`, `GraceOver`, `Exit` |

What the handlers do to the stock is in the other modules; here they run for a while and return, except `WatchStock`, which runs until
its client leaves (`EndWatch`), its reader or listener raises (`QuitWatch`, which ends the call OK) or its query does (`FailWatch`). How grpc treats a
call nobody waits for (`Called`) and which method the health library gives its pool to are not visible in the code; both are modelled as the
libraries have them.

## 3. What the runs show

### 3.1 Inventory

| Run | Instance | Properties |
|---|---|---|
| `inventory_every` | 3 calls, each any of 11 requests; 153 425 states | `TypeOK`, `UniqueActive`, `NoIndexWait`, `ImplementsAtomic`, `EveryCallAnswered` |
| `inventory_contend` | 4 calls, each any of 5 contending requests, symmetric; 32 657 states | `TransactionInv`, `Conservation`, `AllOrNothing`, `NoWaitCycle` |

Two products with stock 2 and 1: two products are the least that can be locked in a circle, and stock 2
distinguishes a lost update, a double return and a request that fits only once. Requests are the orders that meet in
the ways that matter: both lock orders, one key with other items, a line without a key as
`ReserveStockBulk` sends it, one product on two lines, bad quantities and products, no lines, no order_ref.
Three calls are a winner, a loser and whoever follows; the fourth call of
`inventory_contend` gives two bookings and two releases of one order. Symmetry is used only with invariants, and the calls are
interchangeable there. `CHECK_DEADLOCK FALSE`: the instance ends when its calls are used up; that transactions never wait in a
circle is `NoWaitCycle`, that they end is `EveryCallAnswered`.

*Fairness.* `WF(Step(c))` per call: a worker thread that is running gets on with its function, and
a lock that becomes and stays free is granted. Weak fairness is enough because locks are
held only by transactions that end. Nothing is assumed of arrivals and crashes.

### 3.2 Saga

| Run | Instance | Properties |
|---|---|---|
| `saga_safe` | 3 requests (2 of them copies with one key, symmetric), 2 attempts, 2 outages, late reserves, faults deadline, error, commit, crash; 628 980 states | `SagaTypeOK`, `Backed`, `NeverOversold`, `ReserveOnce` |
| `saga_settles` | 3 requests, 3 attempts, 2 outages, faults commit, lost, refresh; 62 027 states | `NoStranded`, `FailureFreesStock`, `EveryRequestAnswered` |
| `saga_overlap` | overlapping requests with one key; violation | `NeverOversold` |

`saga_safe` admits everything the client's timeouts and retries can do to a *reserve*, and a crash of the order
service, as long as requests with one key follow one another, a release is executed before its client gives
it up, and no exception follows a commit that took effect (`refresh`, `lost`). `saga_overlap` lifts the first of these restrictions; §3.7 says what happens when the others are lifted.
`saga_settles` asks what the README of the repository promises, that no stock is stranded: it holds when an RPC has
more attempts than there are outages and nothing is abandoned while it runs (a crash of the order service and a release that
fails for good strand stock, as `_release_quietly` documents). `FailureFreesStock` is sharper, as it speaks of the very step that answers: a client that is told
409, 5xx or 500 has no stock left under its key, in particular after a commit of which the handler cannot know whether it took effect.
That it has no *order* either is not true then: the order is there and its stock is gone (§3.7). Two requests with one key and
one with another are the least in which a wrongly released booking is taken by someone else; stock 2
holds the first order twice but not both orders.

*Fairness.* `WF(Handle(r))` per handler and `WF(SagaServe(c))` per attempt: an event loop that runs resumes a coroutine whose
await is done, and a replica works off its calls. Sending, outages, deadlines, exceptions and crashes are not obliged to happen.

### 3.3 Bulk orders

| Run | Instance | Properties |
|---|---|---|
| `bulk_safe` | 2 batches of 2 orders with up to 2 lines, 2 failing calls, all faults; 8 794 states | `BulkTypeOK`, `SavedBacked`, `PartialReleased`, `EveryBatchAnswered` |
| `bulk_commit` | a commit that raises; violation | `BulkNoStranded` |

The stock (2 and 1) serves some of the lines only, and an order may name a product twice: depending on who comes first
each order ends persisted, partial or failed. `SavedBacked` and `PartialReleased` hold with every
failure switched on; what a failure can do is strand stock: `bulk_commit` shows it for a commit that raises, and with
`Faults = {"stream"}` the same instance shows it for a stream that breaks or passes its deadline.

*Fairness.* As for the saga: handlers and the server's steps are weakly fair, and lines are read only while
the client waits. Breaking the stream is never obliged to happen, so the liveness property does not rest on it.

### 3.4 Stock watch

| Run | Instance | Properties |
|---|---|---|
| `watch_safe` | 2 products and an id without one, 2 changes of one product, 1 lost or failed connection, 2 command sequences; 328 940 states | `WatchTypeOK`, `NoMissedChange`, `ImplementsFeed`, `ThreadsEnd` |
| `watch_order` | the same; violation | `SnapshotFirst` |

Two changes that cancel out are the least in which a stale `last_seen` would hide a change; one loss gives a second
resync. The sequences are a subscription of two products at once, and one that is taken back and made again, with
an unknown id in it. `NoMissedChange` is the argument why nothing is lost: for each watched product whose current quantity the
viewer does not know, somebody is still going to read it. `CHECK_DEADLOCK FALSE`: a watch that has ended stops.

*Fairness.* Each of the three threads that can go on does; the connection is made in the end, because its
failures are bounded. Nobody has to change stock, to leave or to break a connection, so convergence does not rest on the end of a call.

### 3.5 WebSocket bridge

| Run | Instance | Properties |
|---|---|---|
| `bridge_safe` | every sequence of up to 3 frames, 2 updates; 546 824 states | `BridgeTypeOK`, `EveryFrameTreated`, `EndsForCause`, `SessionEnds`, `NothingLeft` |

A frame is a command, a command with an id that no int64 holds, JSON that is no command, or no JSON at all; the second and the fourth end the session
(`Fatal`). Three frames put a kind before, between and after others; two updates let one be in hand while another waits.

*Fairness.* The event loop runs every task that can run; a write to the socket ends or fails (the server's own pings take care of a
peer that is silent); the inventory service ends a call whose requests have ended, which is `ThreadsEnd` of §3.4. Browsers and failures
are not obliged to anything.

### 3.6 Server and low stock

| Run | Instance | Properties |
|---|---|---|
| `server_safe` | 2 workers; a watch, a low-stock scan with one row, and a third call: probe, reserve, watch, a stranger's watch or an unknown method; 44 759 states | `ServerTypeOK`, `TokenDecides`, `LowStockHonest`, `ServingAccepts`, `OnlyWatchesStarve`, `LowStockEnds`, `Drained` |
| `probe_stalled` | 1 worker; violation | `ProbeNotStalled` |

Two watches can hold both workers and the scan waits behind them. One row is enough to tell a failure before the first row
from one after it. `Drained` holds because `server.stop` cancels what outlives the grace period, which two documents deny (§3.7).

*Fairness.* Threads take calls and get on, timers expire, the grace period ends, the event loop of the order service runs. Nobody has to call, leave, fail
or send a signal.

### 3.7 Disagreements found

Each of the first four is a run:

* **Overlapping retries oversell** (`saga_overlap`). Two `POST /orders` with one Idempotency-Key: both find no order, the
  second's reserve replays the first's booking, the first commits, the second violates the primary key and its
  compensation releases the booking they share.
* **Bulk commit raises** (`bulk_commit`). `session.commit()` of `create_orders_bulk` stands outside any `try`, before the
  releases: the whole batch stays reserved.
* **A CHANGED before the SNAPSHOT** (`watch_order`). A resync queued before a subscription is processed after it has changed the watch
  set; every stream begins with a resync. A client that waits for the snapshot of a product has to cope.
* **The probe waits behind the watches** (`probe_stalled`). server.py 59–60 gives the health service a pool so that this does not happen. Two
  things keep `Check` off that pool, and either is enough: `HealthServicer` hands it to its `Watch` method only, and the closures of
  `LoggingInterceptor` (interceptors.py 88–104, 143–148) do not carry the attribute by which grpc would find it. Taking the
  interceptor away would not help the probe.

Others can be had from the same modules by one change of an instance:

* **Exceptions after the commit.** `session.refresh` is in the `try` whose handler releases, and `commit` itself may raise after it took
  effect: the client is told 500, the order exists and its stock is given away. `Backed` fails in `saga_safe` with
  `Faults = {"refresh"}`, and with `Faults = {"lost"}`.
* **Late release.** A release names an order_ref that a retry uses again: `Backed` fails with `Late = {"release"}` and
  `Faults = {"commit", "deadline"}`.
* **Stranded after a deadline.** Nothing compensates a reserve the server commits after the client's deadline: `NoStranded`
  fails with `Faults = {"deadline"}`.
* **The loser does not replay.** `services.py` 171–173 leaves it to "the caller's retry", but an OK
  answer with `success=False` is retried by nobody: `NoStranded` fails with `Late = {"reserve"}` and one outage.
* **Stock stranded by a bulk stream** that breaks or passes its deadline: `BulkNoStranded` fails with `Faults = {"stream"}`.
* **One key with two payloads.** The replay of services.py 105–119 looks at the key and not at the lines: give `r2`
  other items than `r1` (`MCItems`, without symmetry) and a retry persists its own items backed by the first
  attempt's booking: `Backed` and `NeverOversold` fail in `saga_safe`. If the two lists share no product, the unique index does not
  see them either, and `ReserveOnce` fails.
* **Two lines of one product.** They "work" (`services.py` 88–89) only without an idempotency key; with one, the second line's row
  clashes with the first's (`RepeatsProduct` in `InventoryRequests`).
* **A frame that is not JSON** ends the session, although inventory/service.py 128–130 says that a malformed frame is "not fatal" and that "only
  the socket closing ends the pump": without its third disjunct `EndsForCause` fails.
* **A command whose id is no int64** passes `WatchCommandIn` (`list[int]`, schemas.py 30) and raises at service.py 144, outside the `try` for
  `ValidationError`: the command is lost and the session ends. It is `"huge"` in `Fatal`, and `EndsForCause` fails without it.
* **A watch that gives up ends OK.** When its listener (or reader) raises, `WatchStock` sets `stop` and returns (servicer.py 251–253, 286), so
  that neither the bridge nor its log sees an error; the browser's socket is closed as after a regular end.
* **`server.stop(grace)` and open watches.** specs/007 101–102 says that it "won't force-close long-lived streams (teardown is
  client-driven)", and decisions.md 347–348 (D-038) the same. It does not while the grace period lasts; then grpc cancels every call, the watches see an inactive context and return. `Drained`
  holds because of that, and fails for the server these documents describe (`BugGraceOver`), which would wait for as long as a browser
  stays. The same passage counts two pool threads per watch; the reader is a thread of its own.

## 4. What is proved

Every safety property of the passing runs, for all products, stocks, requests, calls, scripts and bounds, and that
`Inventory` implements `AtomicInventory`. `PROJECT.json` lists the theorems; the theorem about a property `P` is `PCorrect`.

| Module | Theorems | What they say |
|---|---|---|
| `InventoryProofs` | `TypeCorrect`, `TransactionCorrect`, `UniqueActiveCorrect`, `NoIndexWaitCorrect`, `NoWaitCycleCorrect` | no version of `available_quantity` is negative; what each transaction owns; a key never holds a product twice; no insert waits on the index; no deadlock |
| `BookingProofs` | `ConservationCorrect`, `AllOrNothingCorrect`, `ImplementsAtomicCorrect` | available and RESERVED units add up; orders are reserved and released whole; every interleaving of SQL statements is one of atomic calls |
| `SagaProofs` | `SagaTypeCorrect`, `ReserveOnceCorrect`, `BackedCorrect`, `NeverOversoldCorrect`, `NoStrandedCorrect`, `FailureFreesStockCorrect` | §3.2, under the hypotheses below |
| `BulkProofs` | `BulkTypeCorrect`, `SavedBackedCorrect`, `PartialReleasedCorrect` | persisted bulk orders hold their lines, reported partial ones hold nothing |
| `StockWatchProofs` | `WatchTypeCorrect`, `NoMissedChangeCorrect`, `WatchPolls` | no change of a watched product is forgotten; each step of the threads is a step of the polling server |
| `WatchBridgeProofs` | `BridgeTypeCorrect`, `EveryFrameTreatedCorrect`, `EndsForCauseCorrect` | commands are relayed once and in order, also up to a frame that ends the pump; a pump ends only for a cause |
| `InventoryServerProofs` | `ServerTypeCorrect`, `TokenDecidesCorrect`, `LowStockHonestCorrect`, `ServingAcceptsCorrect` | the token decides who reaches a handler; the low-stock status is honest; SERVING is answered only while calls are accepted |

*Assumptions.* Those named in the modules, which TLC evaluates in every run: `ProductsAssumption`, `StockAssumption`,
`RequestsAssumption` (product ids are integers, initial stocks naturals, requests records of integers), `CallsAssumption` (finitely many
calls), `SagaAssumption` and `BulkAssumption` (how calls are named, the shape of payloads that pydantic lets through: at least one
line), `WatchAssumption` (a change changes the quantity), `BridgeAssumption`, `ServerAssumption`.

*Hypotheses of the saga's theorems.* `SagaTypeCorrect` has none. `SamePayload` (who sends a key again sends the same
items) is all that `ReserveOnce` needs. `Backed` and `NeverOversold` need `Careful` too: no two handlers of one key at a
time, no exception after a commit that took effect, no late release. `NoStranded` and `FailureFreesStock` need `Settling`: no two handlers of one key at a
time, nothing that abandons an attempt that runs, and fewer outages than an RPC has attempts; exceptions after the commit are
allowed there. They are the restrictions of `saga_safe` and `saga_settles`, not
promises of the code. That they are not idle is shown by TLC: lifted one by one, `SamePayload`, no overlap, no failing refresh, no lost commit and no
late release each cost `Backed` or `NeverOversold` (`saga_overlap`, §3.7), and late reserves, a deadline, an error status, a crash of the order service or
2 attempts for 2 outages each cost `NoStranded`. Only that `NoStranded` needs handlers of one key to follow one another is a matter of
the proof: TLC finds it true of the instance with overlaps as well. Within the hypotheses the theorems hold for any number of requests, keys,
attempts and outages.

### 4.1 Inventory

`TypeOK` is not inductive: that `seen - quantity` is a natural number rests on `seen` still being the newest
version when it is used, hence on the lock. `IInv == TypeOK /\ TransactionInv` is: `WriteInv` says what holds between the
SELECT ... FOR UPDATE and the save; `FreshInv` and `FreedInv` that whoever has inserted or flipped a row holds the
product's lock, so that two transactions never have uncommitted rows of one product; `HeldInv` that a row lock of a
release is exclusive and its row still RESERVED; `StageInv`
what each stage of a function may own, so that a call that ends leaves nothing; `UniqueInv` that a transaction's rows fit the
index beside the committed ones, which `WriteLine` establishes from `~Duplicate` and a `Commit` of another call
cannot disturb because both would hold the same product lock. There is one lemma per kind of step and `NextPreserves` joins them.
The other theorems add what they need to `IInv`:

* `NoWaitCycle` (`OInv`) needs that what a call has locked is not above what it still wants (`OrderAt`). Whoever blocks a call and is
  blocked itself wants a higher product, or is a release past the stage of locking reservations; a call of highest rank in a group is not
  blocked. That a finite set has such an element is proved from the well-foundedness of strict inclusion (`Highest`).
* `Conservation` (`CInv`) speaks of committed values, which a COMMIT replaces by uncommitted ones. `StockInv` says that the newest
  version of a product also adds up, with the rows as its lock holder would commit them. The lemmas about `Tally`
  count a set of rows with one row more or less; the library's facts about finite sets do the rest.
* `AllOrNothing` (`WInv`) needs that a loop in which no line has failed has a row for each line done (`LinesAt`), and
  that a release has found the rows of whole orders and locked each one it has passed, unless another release had flipped it
  (`ClaimAt`); then a commit flips whole orders.
* `ImplementsAtomic` (`RInv`) rests on all of these, as the two levels count differently. `Inventory`
  subtracts line by line from the version it has locked; `AtomicInventory` subtracts an order's demand, the number of a set of units, from
  the stock of one instant. `DemandRows` and `ReturnedRows` are the bijections between the units of the rows that a transaction has
  written or flipped and the demand of the orders they belong to, and `StockInv` turns them into the change of the committed quantity. A refusal has to be
  one the committed stock justifies, although the loop compares with what earlier lines have left, and goes on after a failure:
  `FailedAt` says that a loop that has failed has passed a line that still cannot be served. `OpAt` ties each stage to its
  operation, which the abstract actions have as a guard. There is one lemma per group of actions (`ArriveMaps` to
  `ReturnMaps`): reads, locks and writes are stutters, commits, refusals and lost races are steps.

### 4.2 Order service

`AtomicInv` (`AtomicProofs`) says that free units and the units of active bookings add up, so that a booking can be taken off once only; it is kept
by every step of a call and every arrival of a well-formed request, and both proofs about the order service build on it.

* *Saga*. `BaseInv` adds that a call carries the message of its own request and that a release in progress has found bookings of its own order only
  (`MessageInv`). With it, `Once` is inductive: a second reserve of an order either finds the first one's booking or fails on the unique
  index. `Backed` alone is not inductive, as it does not say what a handler that is about to commit relies
  on. `CareInv` does: a handler that was told "reserved" has its booking (`HoldInv`), nobody else
  works on its key (`Single`), no release of the key is under way (`ReleaseInv`), and the row is not there yet (`NoRowYet`). `NeverOversold` then counts:
  by `Backed` and `Once` each order has a booking of its own, and the bookings fit the stock by `AtomicInv`.
* *No stranded stock*. `SettleInv` follows the one handler of a key: inventory works only on the attempt the handler waits for (`CurrentInv`); each attempt
  before it has cost an outage (`OutageInv`), so that an attempt that may fail is never the last; a reserve past its replay query
  is alone with its order and a release that has read bookings has read all of them (`AloneInv`); so a refusal or a finished release leaves
  nothing (`EmptyInv`), and what is held has an order or a handler that is not done (`OwnedInv`). `FailureFreesStock` follows from the same
  invariant: an attempt that fails is never the last, so the only error answers are a refusal and the answer of a release (`AnswerFreed`).
* *Bulk*. Requests and answers are final (`Final`), so an order persisted with every line reserved never has a
  rejected line, while one that is released, or waits to be, always has one (`HandlerInv`); a booking is returned only by the release of its own order
  (`ServerInv`). `SavedBacked` alone does not say what a release in flight is about to return. `PartialReleased` needs
  that a report accounts for every order (`ReportInv`) and that a release is sent when every line of its order has its outcome, so
  that what it finds is all there will be (`ReleaseInv`).

### 4.3 Watch, bridge, server

* *Watch*. `NoMissedChange` misses one thing to be inductive: a row that was read before a change and is sent after it would
  replace what the viewer knows by an older value. `StaleAnnounced` says that the change is still on its way then. `WatchPolls` is the safety half of
  `ImplementsFeed`, its initial state and its steps: updates follow the commits, and only watched rows are sent.
* *Bridge*. What is on the call and in its queue together only grows at the end, and the sentinel is the last of it
  (`PutInv`); each invalid frame has its reply or is about to (`ReplyInv`). A call that ends OK because its requests did has been given the sentinel, so the
  inbound pump had ended before; one that ends OK because the watch gave up is a cause of its own (`CauseInv`).
* *Server*. A call is what it was on arrival and a code once given stays. `CallInv` says that only a call with a handler waits for a thread and only an
  authorised one is executed; `ScanInv` that a scan that ended well has yielded every row; `QueueInv` that each call waits once.

### 4.4 Only model-checked

Liveness under fairness and ENABLED are beyond the prover: `EveryCallAnswered`, `EveryRequestAnswered`, `EveryBatchAnswered`, `ThreadsEnd`,
`SessionEnds`, `NothingLeft`, `OnlyWatchesStarve`, `LowStockEnds`, `Drained`, and of `ImplementsFeed` the conjuncts
`Converges` and `SnapshotsCome`. The violations of §3.7 are TLC's counterexamples.

## 5. What is not modelled, and the plan

* *Order lookup* (`get_order`), routers and schemas: one read of one row; what pydantic lets through is the range of the
  request constants.
* *Lifespan and configuration*: one channel and one engine, opened at the start and closed at the end; settings are constants.
* *Migrations and start order*: one-shot jobs that finish before a service starts (`service_completed_successfully` in
  `docker-compose.yml`); the schema they create is the state of `Inventory` and `OrderSaga`.
* *Demo page, generated stubs, nginx, scripts*: no logic of the program's own.
* Inside the modelled parts: backoff times and load balancing of the channel, keepalive, log lines, the text of frames and
  rows, which rows a low-stock scan matches, the connection a Django thread keeps from call to call.

Left to do: nothing of the plan; what one key with two payloads does is not a run but a change of an instance (§3.7).
