# Formal models of deribit_trading_system

TLA+ modules for the trading client in this repository, the TLC configurations
that check them on small instances, and TLAPS proofs of what matters most for
every size. Source paths and line numbers refer to the repository.

    tlc -config ThreadPool_pool.cfg MCThreadPool.tla     # one run
    tlapm ThreadPoolProofs.tla                             # one proof

`PROJECT.json` lists the runs, the properties, for every property a change of
the code it would catch, the source lines behind every definition, the hazards
and the theorems.

## 1. Inventory

### The system

Two programs that share no code.

*The trading client* (`main.cpp`). `main` asks **TokenManager** for an access
token and runs `benchmark`: a market order, a limit order, a modification, an
order book and a cancellation through **OrderAPI**. `cancelOrder`,
`modifyOrder` and `getOrderBook` hand their body to the global **ThreadPool**
with **executeAsyncTask** and block until it is done; `placeOrder` runs in the
caller. (OrderAPI has a `ThreadPool` of its own as well, `order_management.h:24`,
to which nothing is ever given: its workers wait until its destructor, which
runs when `main` returns and is the one of `pool_destructor`.) Every body sends its request with `performAsyncCurlRequest`
(`std::async` and an immediate `get`), which runs **performCurlRequest** on a
handle of **CurlConnectionManager**, retries it up to three times, and then
cuts off headers, gunzips and parses the reply. Orders that succeeded are kept
in the map `orders`; each also takes a block of the **MemoryPool** `orderPool`.

*The market data programs* (`websocket_project`). **WebSocketServer** starts a
detached thread per message, which subscribes the connection and sends it an
order book every second while it is subscribed. **WebSocketClient** subscribes
to one symbol and starts a detached thread for every message it receives.

### Components

| component | state | operations | interacts with |
|---|---|---|---|
| ThreadPool (`utils.cpp:45-81`) | `tasks`, `queueMutex`, `condition`, `stop`, worker threads | constructor, `enqueueTask`, `workerThread`, destructor | runs closures of executeAsyncTask |
| executeAsyncTask (`utils.h:60-70`) | promise and closure in the caller's frame | one call | enqueues into ThreadPool, blocks in `future.get` |
| CurlConnectionManager | `curlPool`, `freeHandles`, `poolMutex`, the options of each handle | `initializePool`, `getCurlHandle`, `releaseCurlHandle` | used by performCurlRequest |
| performCurlRequest (`order_management.cpp:25-56`) | `retries`, `response`, the handle | one call | network, exchange |
| MemoryPool (`utils.cpp:18-43`) | `freeBlocks`, `memory` | `allocate`, `deallocate` | used by OrderAPI |
| OrderAPI | `orders`, `orderPool` | `placeOrder`, `modifyOrder`, `cancelOrder`, `getOrderBook` | all of the above, the exchange's orders |
| reply parsing | none | cut at the empty line, gunzip, JSON | used by OrderAPI |
| TokenManager | `access_token`, `expiry_time`, `token_mutex` | `getAccessToken` | the authentication server |
| main, benchmark | `orderId` | five operations in order | OrderAPI, TokenManager |
| batch requests (`order_management.cpp:58-120`) | vectors of responses and futures | two operations, no caller | performCurlRequest, libcurl's multi interface |
| WebSocketServer | `m_subscriptions`, `logFile` | `on_open`, `on_close`, `on_message`, the update loop | clients, the exchange |
| WebSocketClient | `m_hdl`, `logFile` | `on_open`, `on_close`, `on_message` | the server |
| WaitFreeQueue | `head_`, `tail_`, `buffer_` | `enqueue`, `dequeue`, no caller | - |
| LockFreeQueue | linked nodes, `head`, `tail` | `enqueue`, `dequeue`, no caller | - |

`auth.cpp` is not named by `CMakeLists.txt` and is, but for one stateless
fetch, commented out.

### What is hard, and what makes each component correct

* **ThreadPool.** A notification sent after the unlock, the window between a
  worker's test of the predicate and its sleep, `front`/`pop` by several
  workers, tasks still queued when the destructor starts, and exceptions that
  leave a worker. Correct: no task lost or run twice, none left in the queue
  with everybody asleep, the queue drained before the destructor returns, and
  a destructor that returns.
* **executeAsyncTask.** The closure refers to a frame of another thread.
  Correct: the frame outlives every use, and every call returns.
* **CurlConnectionManager, performCurlRequest.** Handles shared by threads and
  reused with the options of their last user; attempts that time out and are
  executed all the same, or are refused and count as a success, since any HTTP
  status does; several attempts that write into one string.
  Correct: handles neither leak nor are shared, a request writes to its own
  response, it always returns, and its result can be explained by what the
  exchange did.
* **OrderAPI, MemoryPool.** A request that took effect and whose reply did
  not arrive; replies that fail an assertion; addresses of map nodes that
  enter the pool; blocks that are never given back. Correct: the map agrees
  with the exchange, a failed call changes nothing, the pool holds its own
  blocks and each of them once.
* **TokenManager.** Several threads that find the token expired, failures and
  exceptions in the middle, a fetch without a time limit under the mutex.
  Correct: no redundant fetch, no older token after a newer one, failures are
  not cached, the mutex comes free again.
* **main, benchmark.** Later operations run on the `orderId` of earlier ones,
  whatever these returned. Correct: an order that was refused does not make it
  modify or cancel one that does not exist.
* **Batch requests.** Threads that append to one vector without a lock, more
  urls than handles, transfers without a time limit. Correct: every response is
  there once, the result is true only if every request was answered, nothing is
  refused that the pool could serve, nothing is written after the return.
* **Reply decoding.** A text longer than the buffer of inflate, doubled names, NUL
  in names and strings. Correct: the order book is the document of the reply, or empty.
* **WebSocketServer.** Detached threads and handlers share an unsynchronised
  map; a connection closes between a test and a `send`; a thread subscribes
  after `on_close`. Correct: updates as long as the client is connected, and
  none after; what was erased stays erased.
* **WebSocketClient.** Messages handled on one thread each overtake each other,
  some throw while they are read, and the process ends under its threads.
  Correct: every update that can be read is displayed once, and one that cannot
  takes no other with it.
* **The queues.** Late views of the other side's index; indices that go round; a
  local variable that hides `tail`; copies that race with exchanges. Correct:
  each is a FIFO, and every accepted item is handed out.

`PROJECT.json` has the whole list under `hazards`, each at its line.

## 2. Modules

| module | models | checked by | proved in |
|---|---|---|---|
| `TaskExecution` | what an executor promises: FIFO start, once each, closed when drained (abstract) | as `ImplementsExecutor` | `ThreadPoolProofs` |
| `ThreadPool` | the pool, with mutex and condition variable | `MCThreadPool` | `ThreadPoolProofs` |
| `ExecuteAsync` | executeAsyncTask on top of `ThreadPool` | `MCExecuteAsync` | `ThreadPoolProofs` |
| `HttpReply` | what attempts leave in the response string (pure) | through its users | `CurlRequestsProofs` |
| `CurlRequests` | handle pool, performCurlRequest, network and exchange | `MCBatchRequests` | `CurlRequestsProofs` |
| `BatchRequests` | both batch operations on top of `CurlRequests` | `MCBatchRequests` | `CurlRequestsProofs` |
| `TokenManager` | the cached token | `MCTokenManager` | `TokenManagerProofs` |
| `OrderManagement` | MemoryPool, placing, modifying and cancelling, the orders at the exchange | `MCOrderManagement` | `OrderManagementProofs` |
| `ReplyDecoding` | the output loop of decompressGzip and rapidjsonToNlohmannJson (pure) | `MCBenchmark` | `OrderManagementProofs` |
| `Benchmark` | main and benchmark on top of `OrderManagement` and `ReplyDecoding` | `MCBenchmark` | `OrderManagementProofs` |
| `WebSocketServer` | handlers, detached threads, the unsynchronised map | `MCWebSocketServer`, `MCMarketDataFeed` | `WebSocketServerProofs` |
| `MarketDataFeed` | server, channels and clients | `MCMarketDataFeed` | `WebSocketServerProofs` |
| `BoundedFifo` | what both queues promise (abstract) | as `ImplementsFifo` | both queues' |
| `WaitFreeQueue` | the ring of one producer and one consumer | `MCWaitFreeQueue` | `WaitFreeQueueProofs` |
| `LockFreeQueue` | the linked list of any number of both | `MCLockFreeQueue` | `LockFreeQueueProofs` |
| `InductionTheorems` | - (lemmas: induction, recursion, folds) | - | itself |

Composition: `ExecuteAsync` extends `ThreadPool` and joins its steps to the
pool's; `BatchRequests` extends `CurlRequests`, whose requests are the urls of
a batch; `Benchmark` extends `OrderManagement` and calls its operations in the
order of the program; `MarketDataFeed` extends `WebSocketServer` and joins its
steps to channels and clients. `OrderManagement` takes the possible outcomes of
a request from `HttpReply`, which `ResultExplained` shows to describe the
response string. Both queues instantiate `BoundedFifo`.

### Correspondence

**ThreadPool.** A worker's place in `workerThread` is `wpc`:

    lock    about to take queueMutex: the top of the loop, or woken
    test    evaluates the predicate, mutex held
    block   found it false, mutex still held, not asleep yet
    waiting asleep in condition.wait, mutex released
    run     inside task()
    done    returned

`test` and `block` are two states because the destructor writes `stop` without
the mutex and can do so between them. The critical section of `enqueueTask` is
a single `emplace` and one action; `notify_one` follows the unlock and is
another. Spurious wakeups and exceptions of tasks are actions. A task is a
value that is enqueued at most once, which bounds a run by the number of tasks.

**ExecuteAsync.** A call is named by the closure it enqueues. `awaiting[s]` is
the call whose frame thread `s` has, `fulfilled` the promises that are set. The
closure may return after its caller has.

**CurlRequests.** One element of `Requests` is one call with its thread, header
list and response. The options of a handle are `writeTo` and `headersOf`, each
a request, and survive `releaseCurlHandle` as they do in libcurl. The exchange
executes an attempt at any time after it was sent (`Execute`), also after curl
gave it up, or never. Whether an attempt is answered does not depend on that:
`CURLE_OK` comes with any HTTP status, for `CURLOPT_FAILONERROR` is not set, so
`Succeed` takes any reply, and only one that reports a result is tied to an
attempt that was executed (`Reported`). `curl_easy_init` may fail, hence pools
smaller than asked for.

**BatchRequests.** `operation` says which of the two is called.
`performBatchAsyncCurlRequest` is a `thread` per url around a request of
`CurlRequests`; `push_back` has a beginning and an end, and where two of them
meet the behaviour ends (`raced`). `batchNetworkRequests` is a `transfer` per
url with a handle of its own: it may not start (no handle), end well or not,
which nobody looks at, or be ended by the cleanup after an error of
`curl_multi_perform`; the function returns true in every case.

**HttpReply.** Text is a sequence of pieces: header blocks (`head`), what was
broken off (`part`), and bodies that report a result (`result`) or do not
(`error`: an error of the exchange, the page of a gateway, nothing). A reply has
the header blocks of up to `MaxRedirects` redirections before its own, and is
cut after the first one, so a reply that was redirected does not parse.

**TokenManager.** Tokens are the serial numbers the server gives them, 0 is the
empty string. The fetch ends by a token, by a failure that is stored as `""`
with a renewed expiry, or by an exception that unlocks and assigns nothing. The
clock ticks at any time, the fetch included.

**OrderManagement.** A call is one action: the caller blocks until the thread
that works for it is done, and the program has one caller. The outcome of a
request says whether curl succeeded, whether the text behind the first header
block is one body, what the body says, and how many attempts the exchange has
executed. It is assumed of the exchange that a reply with a `result` belongs to
an attempt it has executed; every other reply may come whatever it has done, also
the object with neither `result` nor `error` that `cancelOrderRequest` takes for
a success (line 321). `lost` has the orders the client has lost track of: bought
or cancelled by an attempt whose reply it never had or did not accept, bought
twice, bought when the pool was empty, or taken from the map on a reply that
reports no result. `orders` maps an order to the address of its node and `mem` says what
lies at an address, so that a block and a node may be the same memory: what
`cancelOrderRequest` gives to the pool is `orders[id]`, an address that a later
node can have. A failed rapidjson assertion sets `aborted` and ends the run.

**WebSocketServer.** `link` is the life of a connection (open, closed at the
transport, erased by `on_close`, gone when its object is destroyed), `io` the
handler that is inside the map, `pc` the place of each detached thread. The
values of the map are never read, so it is a set of keys. A key is a weak
pointer that hash and comparison lock (lines 22-32), so handles of destroyed
connections are all the key `Expired`; an entry made before the destruction
keeps the hash libstdc++ stored for it and is not found any more. An access of
the map has a beginning and an end; when two collide the behaviour is undefined
from there on, and ends in the model (`raced`). An exception that leaves a
detached thread ends the process, and `cause` says which: a member of an unexpected type, an unexpected reply, or a `send` to
a connection that is not open. The one-second sleep is part of the fetch.

**MarketDataFeed.** An update is its number and how a client reads it: `well`, or
`ill`, for the server passes on whatever object the exchange answers with.
`channel` is what a client has not received, `handling` what its detached
threads have in hand, `displayed` its screen. An update that reads ill throws,
and the catch of `websocket_client.cpp:110` logs and drops it (`CatchException`,
`dropped`) while the client goes on; where the JSON library has no defined
behaviour instead (a side missing, a level too short), the process may also end.
A client process ends too when its connection does (`run` returns and so does
`main`), and its threads end with it. The subscription that
`on_open` sends is a message of the server.

**ReplyDecoding.** A stream is how many bytes each call of inflate writes and
what the last one returns. Bytes are their positions in the text, so that a
byte doubled, dropped or left from an earlier round shows. A rapidjson value
has its members in a sequence, a nlohmann object is a function of the names;
names and strings are sequences of tokens, of which `NUL` ends a C string, so
that two names can become one;
`Meaning` states, without a fold, what the conversion has to yield.

**Benchmark.** `step` is the next operation, `orderId` the out parameter that
the operations share, 0 while it is empty. `orderBookData` is what
`getOrderBook` returned, `replied` the document that the exchange sent.

**WaitFreeQueue.** `headSeen` and `tailSeen` are what an acquire load of the
other side's index returns: any value since the last one it returned. The
slot is written or read, and the own index released, in steps of their own.
Calls that find the queue full or empty change nothing.

**LockFreeQueue.** `next`, `head` and `tail` are the shared pointers, `old` and
`seen` the copies a thread has. The second look of lines 40 and 61 makes the
copies of one round a snapshot, which is one step; a thread is at `copy` from
the beginning of a round to it. A copy is plain, so an exchange of a pointer
that another thread is copying ends the defined behaviour (`status` is `race`).
`std::atomic_compare_exchange_weak` on a `shared_ptr` takes a lock in libstdc++
and never fails spuriously. Line 58 initialises the local `tail` with itself:
the copy may crash (`counter`), or `tail` is anything; if it is not `old_head`,
an empty queue makes line 68 dereference null (`null`).

## 3. Runs

| run | question | result |
|---|---|---|
| `pool` | tasks conserved, no lost wakeup, drained at join, the abstract executor implemented, every task runs | holds |
| `pool_destructor` | the destructor returns | **violated** |
| `async_calls` | frames alive, nothing to drain, calls return | holds |
| `batch` | handles conserved, options own, results of requests and batches explained, no refusal within the pool, no write after the return, batches return | holds |
| `token_calls` | fetches needed, tokens monotone, failures not cached, only a hung fetch keeps the mutex | holds |
| `order_calls` | map agrees with the exchange but for lost orders, failures clean, stored data right, pool bounded | holds |
| `order_blocks` | the pool holds its own blocks only | **violated** |
| `benchmark_run` | the order of operations avoids foreign blocks; main cancels the order placed last and leaves the others; the order book is the reply's | holds |
| `feed` | updates until the connection closes, stale entries only by late subscribers, threads of closed connections end, updates displayed once or dropped as unreadable, and all readable ones displayed | holds |
| `server_disconnect` | a disconnecting client does not end the server | **violated** |
| `wait_free` | views one round late at most, slots apart, a FIFO, every item arrives | holds |
| `lock_free` | a FIFO, the tail leads to the end, enqueues of producers that go on return | holds |

The three violations:

* `pool_destructor`. A worker finds `stop` false and the queue empty; the
  destructor sets `stop` and notifies; the worker goes to sleep; `join` waits
  for ever. `utils.cpp:52` sets `stop` without `queueMutex`, the readme's
  listing (`readme.md:206-215`) holds it. The counterexample is found under
  the fairness of section 4 and needs no task.
* `order_blocks`. `allocate` takes a block, the order is copied into the map,
  and `cancelOrderRequest` returns the address of the copy inside the map's
  node to the pool just before `erase` frees it (`order_management.cpp:326-331`).
  The block itself never comes back. `benchmark_run` shows that `main` never
  allocates after its one cancellation, so the address is not used there.
* `server_disconnect`. A client disconnects while its thread sleeps or fetches,
  where the thread spends nearly all its time; the next `send` (line 107 the
  first time, 124 in the loop) throws, nothing catches it in the detached thread, and the process ends. `websocket_project/readme.md:63`
  says that `on_close` handles disconnections. The log in the repository
  (`websocket_project/build/server_metrics.log`) has four "Client connected"
  and no "Client disconnected".

Beside these the runs make some behaviours explicit that the code does not
claim to exclude. A request that is retried can be executed more than once, or
after it was reported as failed, and one that was refused is reported as a
success whose response is an error (`ResultExplained` states exactly this much).
After a reply that was broken off, the text of a successful retry contains both
replies, does not parse, and the failed assertion of line 223, 322 or 376 ends
the process; the reply behind a redirection does the same. `BookMatchesExchange`
therefore leaves out the orders in `lost`, one by one: what happens to them
disturbs no other.
`StoredDataRight` is conditional on no object having been constructed outside
the pool, which is where `order_blocks` would lead. Where the code races
(`push_back` of a batch, `m_subscriptions`, the copies of `LockFreeQueue`) the
properties hold up to the race and say nothing of what follows; that these
races can happen is in the models, not excluded by them. A race is modelled as two
accesses that overlap in time. By the letter of the C++ memory model two
`push_back`s of different threads race even if one ends before the other begins,
since nothing orders them; `BatchOutcome` is about implementations in which an
append that has ended is seen by the next. A text of a reply that
is not one gzip stream, or not one body, yields an empty order book, never a
wrong one.

### Bounds and why they suffice

* Pool: 2 workers, 2 submitters, 3 tasks. Two workers compete for a task and
  for a notification while the third task waits; a lost wakeup needs one
  sleeper and one runner. The proofs remove the bound for safety.
* Batches: 2 urls with 2 attempts each (the code has 3) and pools of 2, 1
  and 0 handles, so that requests overlap, a handle is reused, and a request is
  refused; one retry is enough for a late execution, a second execution and a
  reply behind a broken one (929,292 states). `MaxRedirects` is 0 here, which
  keeps the responses few; it is the code's 3 in the runs of OrderAPI, and the
  theorems are for every number of requests, handles, retries and redirections.
* Tokens: 3 callers, 3 tokens, a lifetime of 2 ticks within 5 ticks, so that a
  token expires twice and two callers wait while one fetches.
* Orders: `MaxOrders = 3` at the exchange, 2 blocks so that the pool is
  exhausted, 3 heap addresses, the code's 3 attempts and 3 redirections (315,706
  states). The benchmark has 3 blocks, as many as it can take, and 6 orders: two
  placings of three attempts each (12,054 states).
* Decoding: a buffer of 2 bytes and up to 3 calls of inflate, so that a text
  ends in the middle of a buffer, at its end and in a later round; books with
  up to two levels, a doubled `result`, a string with NUL, and two names that are
  one up to the NUL.
* Server and feed: 2 connections, 2 messages and 2 updates: two threads of one
  connection, which collide with each other, or one thread each, where one
  connection closes while the other is served; two updates overtake each other
  in the client, and one of them may be unreadable (`MaxIll = 1`), while the
  other is still owed (531,728 states). `MaxUpdates` and `MaxIll` bound what is
  sent; the theorems do not depend on them.
* `WaitFreeQueue`: 3 slots, of which 2 hold items, and 5 items, so that both
  indices go round and each side's view is up to a round late.
  Capacity 1 can hold nothing, capacity 0 is excluded by `WaitFreeAssumption`
  because line 16 divides by it.
* `LockFreeQueue`: 2 producers, 2 consumers and 3 items: a producer meets a tail
  that lags, a head that has passed the tail, and an item linked before its own
  (381,138 states).
* Symmetry is used in runs without liveness only, over sets whose elements the
  model does not tell apart. `CHECK_DEADLOCK FALSE` stands where the program
  ends.

## 4. Fairness

* Threads of the pool: weak fairness per thread, that is, a scheduler that does
  not starve a thread that can run, and a mutex that is not refused for ever
  to all (`WF` on a thread's next step, `queueMutex` being free only between
  steps). Tasks end, by returning or throwing: the bodies are requests bounded
  by `CURLOPT_TIMEOUT` and `maxRetries` (`BatchReturns`). Nobody is obliged
  to enqueue, to start the destructor, or to wake spuriously.
* Requests: weak fairness of each calling thread, one attempt ending after two
  seconds (`CurlConnectionManager.cpp:46`), and of the caller of a batch. Nothing is
  assumed of the exchange, nor of `batchNetworkRequests`, which sets no limit:
  its transfers may go on for ever and no property says that it returns.
* Tokens: weak fairness of the steps between fetches. A fetch has no time limit
  in the code and no fairness in the model; `LockedOnlyByHungFetch` names the
  end of every fetch as its hypothesis instead.
* Feed: weak fairness of each detached thread of the server, where a fetch ends
  after the ten seconds of line 146, of each channel while its client lives, and
  of the threads of each client. `LoopsEnd` excuses a thread only when a thread
  of its own connection, or of a destroyed one, has subscribed late. Nothing is assumed of who connects and leaves, of the
  server's event loop, or of what a fetch returns.
* Queues: in `WaitFreeQueue` an enqueue that has begun goes on, the consumer
  keeps calling `dequeue`, and a store becomes visible in finite time. In
  `LockFreeQueue` no thread is assumed to go on. `EnqueuesReturn` says of each
  producer that its enqueue returns if it goes on itself (`GoesOn`, weak fairness
  of its own steps), wherever the others stop, between lines 42 and 50 too. It
  relies on a finite number of items: another producer can make an enqueue start
  again only by an enqueue of its own.

## 5. Proofs

All are for arbitrary sets of threads, tasks, requests, callers, handles,
blocks, orders, connections, items and documents, from the named assumptions of
the modules (`PoolAssumption`, `CurlAssumption`, `TokenAssumption`,
`OrderAssumption`, `DecodingAssumption`, `BenchmarkAssumption`, `ServerAssumption`,
`WaitFreeAssumption`, `LockFreeAssumption`), which TLC evaluates in the runs.

Every safety property of the passing runs, invariant, action property or
refinement, is a theorem.

* `InductionTheorems`. The library's induction theorems take predicates, which the
  provers cannot instantiate, so induction is stated with sets (`NatInSet`, from
  `WFMin`), and recursion with functions: one along `1 .. n` has a solution
  (`Recursion`), and two that start alike and go on alike agree
  (`RecursionUnique`). `FoldExists` does the same for the folds of the community
  modules, which go down a set of positions from its greatest. The proofs below
  open `FlattenSeq`, `FoldLeft` and the recursive functions of the models with
  them.
* `ThreadPoolProofs`. `IInv` is `TypeOK`, `NoTaskLostOrRunTwice` and "a worker
  that has returned found the queue empty after `stop`, and the queue stays
  empty". `NoTaskLostOrRunTwice` is inductive with `TypeOK`, which ties the
  mutex and the running task to the worker's place; the lemmas `PopFacts` and
  `AppendFacts` say what the queue operations do to the range of a sequence.
  `DestructorDrains` and `PoolImplementsExecutor` assume `Workers # {}`: with
  `hardware_concurrency() = 0` there is no worker, `join` has nothing to wait
  for, and queued tasks are dropped. The refinement maps each step to
  `Submit`, `Start`, `End`, `Close` or a stutter. `NoLostWakeup` is inductive
  together with `BlockedOnEmpty`: between the predicate and the sleep of a
  worker the mutex is held and nothing can be enqueued.
  Calls: `NextX` implies a step or a stutter of the pool, so
  `IInv` carries over; the invariant adds that queued closures and active ones
  whose promise is not set are awaited.
* `CurlRequestsProofs`. Typing of the pool part, `HandlesConserved` and
  `OwnOptions` are inductive together: the options of a handle stay its own
  because no other request holds the handle. A step of a batch is a step of
  these or leaves the handles alone, so both hold there (`BatchKeepsHandles`).
  `BatchInv` adds what a request knows of its attempts (a response that ends with
  a result has its last attempt executed, and nothing takes that back) and what
  the caller has seen: once the call has returned every thread is finished or
  every transfer over.
  `BatchIsComplete` and `NothingIsRefused` are for finite batches; the second
  counts: the users of a pool found empty are an injection of its handles into
  the other requests. `ResultsAreExplained` counts: before its n-th attempt a request
  has the response that n - 1 given-up attempts left, one after the other
  (`Collected`), and n - 1 attempts on record, n while one is under way
  (`Explained`). `FlattenAppend` adds one attempt to a flattened response. Neither
  theorem says that "true" means executed, which is not so: it means answered,
  and of an answer that is no result nothing follows. `SuccessBuffers` has the
  responses with any number of header blocks up to `MaxRedirects + 1`.
* `TokenManagerProofs`. The invariant says that a caller past the lock is the
  only one, that `newest` is at most the cached token or the token is missing
  or in renewal, and what `fetched` records of the call in progress.
* `OrderManagementProofs`. `BlocksAccounted` and `BookMatchesExchange` are each
  inductive with the types; `FailureChangesNothing` follows from the actions.
  `ReportedWasExecuted` states the assumption on the exchange that a result means
  an executed attempt; an order whose fate the client has not learned joins
  `lost`, and the equality of map and exchange outside of `lost` is kept order by
  order. `StoredDataRight` is inductive with `NodesDistinct`: the node of an
  order is neither the block it is copied from nor another order's node.
  `BenchInv` follows the benchmark: until the cancellation the pool has only its
  own blocks (`PoolStillOwn`), and what a run that has lost track of no order has
  created and left at each step, by the results so far (`OnCourse`, `Counted`).
  Decoding: `PiecesAreTheText` is by induction over the calls of inflate: after each
  the text collected is 1 .. `total_out`, although the rest of the buffer is
  old. For the conversion, one induction over the members shows that the last of
  one name counts (`LastMemberCounts`), one over the elements that each keeps its
  place, and `CStringFacts` finds the first NUL. So the bodies of
  `rapidjsonToNlohmannJson` and `Meaning` are equal for every function that
  converts what is inside (`ConvertedIsMeant`), hence the functions are
  (`ConversionIsMeaning`). `ConversionEnds` adds that there is such a function,
  by induction over the depth, if values have a finite one; the other theorems
  do not need that. `BookIsTheReply` is then a matter of the cases in
  `getOrderBook`.
* `WebSocketServerProofs`. `IInv` is `TypeOK` and: a connection has its entry
  from the end of `on_open` to the end of `on_close` (`Subscribed`), a thread that
  has left found its connection erased (`LeftIsOver`), and every other entry was
  made by a late thread of its connection or of a destroyed one (`NothingStale`).
  A race ends the behaviour.
  The feed: every step of the feed is a step of the server or
  leaves its variables alone (`FeedHasServer`), so the theorems above hold in the
  feed. `FeedLosesNothing` needs that no update is sent twice (`SentOnce`) and
  that only an unreadable one is dropped (`DroppedRight`): then the received prefix
  of what was sent is exactly what is displayed, in hand or dropped, and each of
  them once (`Delivered`).
* `WaitFreeQueueProofs`. For every capacity. `SmallModulo` says what `%` does to
  an index that has gone round at most once; all facts about indices follow from
  it. `ViewsLate` counts slots along the ring, from the producer's view of
  `head_` to `tail_`; with what each side knows between its test and its release
  (`Writing`, `Reading`) it is inductive. It yields `SlotsApart`, and
  the refinement: `Publish` is `Put`, `Release` is `Get`, and `Store` writes to a
  slot outside the abstract queue.
* `LockFreeQueueProofs`. For any number of producers, consumers and items, whatever
  `dequeue` finds in its local `tail`, and up to the first race, where the model
  ends. The invariant says that there is a `path`, the nodes ever linked in
  order: its links and no others are in `next`, `head` is where the items taken
  end, `tail` is somewhere on it, a node that a producer still has to link is not on it,
  and no two producers have the same (`PathInv`). A copy may be old, but is of a
  node on the path, and a link that was read never changes. `path` is
  quantified, not a variable: each step names the path after it, the same or
  one node longer (`LinkedList`). `BehindFacts` shows, by induction over
  the path, that `Behind` is the rest of the path at each of its nodes; then
  `TailLeadsToEnd` is immediate, and `Link` is `Put` and `Take` is `Get`.

Only model-checked: liveness (`EveryTaskRuns`, `CallsReturn`, `BatchReturns`,
`LockedOnlyByHungFetch`, `LoopsEnd`, `EveryUpdateIsDisplayed`, `EveryItemArrives`,
`EnqueuesReturn`, `DestructorReturns`), since fairness and `ENABLED` are
outside the prover's reach, and of course the violations. RECURSIVE operators
are kept out of all modules.

## 6. Not modelled

* The destructors of CurlConnectionManager and MemoryPool: they run at the end
  of the process, after the last request. `bufferPool` is never used.
* Contents of requests and replies beyond what decides the control flow and
  what the conversion keeps; inflate and the JSON parsers themselves.
* `parseMarketData` (`order_management.cpp`), which nothing calls.
* `compressString` and `decompressString` of the websocket programs: what
  deflate wrote, inflate reads back.
* The text of logs and timing output. The server's threads and handlers write to
  one `ofstream` (`logFile`) without a lock, and so do the client's: undefined
  behaviour that the models leave out, as no property is about the log.
* The `ThreadPool` that OrderAPI owns: it is given no task, and its threads and
  destructor are those of `ThreadPool`.
* What happens after a data race, and after line 58 of `lock_free_queue.h` has
  crashed.
* The result of using memory that was freed, beyond aliasing with later nodes.
* Concurrent callers of OrderAPI: the program has one, and `orders` has no
  lock.
* `auth.cpp`, build files and logs.

## 7. Plan

Every safety property a run checks is proved. What would be worth adding:

1. The refinement of the server's detached threads to the promise of a feed, a
   subscription that is served or ends, as an abstract specification of its own.
2. The abstract executor for the calls: `ExecuteAsync` as an implementation of
   a call that returns what its task returned.
3. Lemmas that carry part of the liveness: which step of a thread brings a call
   nearer to its return, as an action property with a measure.
