# Verification of the interview exercises

The repository is a course of Go interview preparation: chapters of notes and
exercises `NN-topic/exercises/<level>/<name>/`, each with a statement
(`task.md`, in Russian), a stub (`main.go`), tests (`main_test.go`) and a
reference solution (`solution/main.go`).  The solutions are the program: small
independent components, many of them concurrent, which readers study and copy.
The root `main.go` is empty.  This directory holds TLA+ models of the solutions,
TLC runs, and TLAPS proofs.  Paths below are relative to `src/`; "line n" is a
line of the `solution/main.go` at hand.

## 1. Inventory

The components share nothing: each is a package of its own.  Interaction is
inside a component, between the goroutines that call it and those it starts.

| component | state | operations | how its parts interact | hard behaviour | what makes it correct |
|---|---|---|---|---|---|
| **Event broker** `20-kafka/.../01-event-processor` | topic → subscribers, one buffered channel and one worker per subscriber, `RWMutex`, `WaitGroup` | `Publish`, `Subscribe`, the returned `cancel`, `Close` | Publish sends without blocking under the read lock; worker retries the handler; cancel and Close close channels | closing against sending; steps outside the lock (62, 85, 99); full buffers; Close against Subscribe | no send on a closed channel; accepted events handled once, in order; nothing after cancel; Close drains and returns |
| **Worker pool** `06-concurrency-patterns/.../01-worker-pool` | task queue (capacity 2n), result channel per task, `WaitGroup` | `NewPool`, `Submit`, `Close` | callers → queue → workers → result channels | full queue; results nobody reads; Close against Submit | every task sent is run once and answered; Close completes the queue |
| **Cache with TTL** `05-sync/.../01-cache-with-ttl` | map, `RWMutex`, `done`, ticker | `Set`, `Get`, `Delete`, `Len`, `Close`, the cleanup goroutine | Get reads, looks at the clock, then deletes, under three different regimes | stale reads; the instant of expiry; ticker against `done` | an answer was right at some moment of the call; nothing unexpired is lost; expired entries go; Close stops cleanup |
| **Fan-out / fan-in** `06-concurrency-patterns/.../01-fan-out-fan-in` | n unbuffered channels, `wg` | `FanOut`, `FanIn` | producer → dealer → n forwarders → caller, by rendezvous | deadlock by order of reading; closing `out` | each value once and in turn; `out` closed last; the caller ends |
| **Ping-pong** `04-concurrency/.../01-ping-pong` | slice without a lock, two channels, `done` | `PingPong(n)` | two goroutines hand over a turn | who closes `done`, and when; n = 1 | messages alternate, the caller gets all n |
| **Parallel fetch** `04-concurrency/.../01-parallel-fetch` with `vendor/golang.org/x/sync/errgroup` | result slice, semaphore, wait group, first error, context | `FetchAll` | loop → slots → goroutines → group error and context | limit; failing fetch; cancellation racing the last answers | limit kept, every outcome in its place, an error only for a cancellation |
| **URL shortener** `17-system-design/.../01-url-shortener` | two maps, counter, `RWMutex` | `Shorten`, `Resolve` | look under the read lock, look again under the write lock | two callers miss at once | one URL, one code, for ever |
| **Task service** `22-architecture/.../01-clean-layers` | id → task, `int32` sequence, `RWMutex` | `Create`, `GetByID`, `List`, `UpdateStatus`, `Delete` over a repository | the service calls the repository several times per operation | a stale copy written back; wrap of the sequence | an id stands for one task and stays deleted |
| **LRU cache** `01-fundamentals/.../01-lru-cache` | map and linked list | `Get`, `Put`, `Len` | the two structures must agree | eviction | it holds the keys used last |
| **Sharded map** `interview-problems/hard/01-concurrent-map` | maps, one `RWMutex` per shard | `Set`, `Get`, `Delete`, `Len`, `Range` | scans lock one shard after another | the map changes under a scan | a scan reports what the writers' steps justify |
| **Sharded counter** `23-performance/.../01-sharded-counter` | atomic cells, `next` | `Inc`, `Value` | Inc picks, then adds; Value adds up cell by cell | a sum of no single moment | Value is an answer one counter could have given |
| **Rate limiter** `04-concurrency/.../01-rate-limiter` | tokens, last refill, mutex | `Allow`, `Wait` | Wait polls Allow until the context ends | clock and cap; poll against cancellation; starvation | never more than burst plus refill in any window; Wait ends with its context |
| **Chat service** `19-grpc/.../01-chat-service` | user → channel, `RWMutex` | `Send`, `Subscribe`, unsubscribe, `ActiveSubscribers` | Sends under the read lock, everything else under the write lock | a second Subscribe of a user; the first one's unsubscribe; full channels | no send on a closed channel; each message once, in order, to everybody with room |
| **Health check** `18-production/.../01-health-check` | `checks` under an `RWMutex`; per request results, `healthy`, mutex, `wg` | `AddCheck`, `Handler` | one goroutine per check marks, stores, leaves; the handler waits for all | the order of the goroutines; a check that ignores its context | the response says what the checks said, 503 if one failed |
| **Graceful server** `interview-problems/hard/02-graceful-server` | `server`, `active` counter | `Start`, `Shutdown`, `ActiveRequests`, the counting middleware | Start and Shutdown in two goroutines over `net/http` | Start stores the server without a lock (32), Shutdown reads it twice (40, 43) | after a Shutdown that returned nil nothing of its server runs |
| **TCP scanner** `26-networking/.../01-tcp-scanner` | channel of ports (capacity = workers), result slice, mutex | `ScanRange` | feeder → workers → slice | no workers; order of the appends | every port dialled once, the open ones sorted |
| **Pipeline** `06-concurrency-patterns/.../01-pipeline` | unbuffered channels | `Generate`, `Square`, `Filter` | stage to stage by rendezvous | a reader that stops early | values in order, all of them, then closed |
| **User service** and the mock repository of its tests `11-testing-advanced/.../01-mock-repository` | two maps, `nextID`, recorded calls, forced error | `GetByID`, `Create` | service validates, repository stores | seeds of a test that meet the ids the mock deals out; failed calls | a created user stays, ids and emails are its own |
| **Process monitor** `28-linux/.../01-process-monitor` | none; `/proc` changes under it | `GetProcessInfo`, `ListProcesses`, `TopByMemory` | Glob, then one open and one read per entry | processes that exit, or whose pid is used again, between these | every process that stayed is listed once; the largest come first |
| **Object pool** `23-performance/.../01-pool-benchmark` | a `sync.Pool` of buffers | `ProcessWithPool` | buffers go from call to call, after a panic too | a buffer handed back before its contents are copied | a call has its buffer to itself and returns its own result |
| **Pure algorithms** (merge intervals, custom sort, two-sum, unique, reverse, min-slice, palindrome) | – | pure functions | – | empty, equal and touching inputs | results equal a reference definition |
| **Commit parser** `29-git`, **JWT** `24-security`, **struct validator** `14-reflect` | – | `ParseCommit`; `GenerateJWT`, `ValidateJWT`, `AuthMiddleware`; `Validate` | – | `(` `)` `!` inside a scope; the instant of expiry; zero values | what is formatted or signed reads back; a field is refused exactly if a rule says so |
| Safe counter, passwords, options, errors, shapes, sets, FizzBuzz, compiler and Docker demonstrations | little or none | straight-line code | – | – | – |

`PROJECT.json` lists them all with their status, and the hazards, each at its
line.  Every hazard listed has a property; where the property leaves out a case
the code decides nothing about, a note says which.  Beyond those the code is
exposed to what section 5 notes without a run.

## 2. Plan

Order of work, the most concurrent and most used first.  Done:

1. `EventBroker`, `EventBrokerProofs` – the broker.
2. `WorkerPool`, abstract `PoolPromise`, `WorkerPoolProofs` – the pool and the
   promise it implements.
3. `TTLCache` – the cache and its clock, with its proofs in `ServicesProofs`.
4. `FanOutFanIn`, `ParallelFetch` with errgroup (+ `ParallelFetchProofs`),
   `Pipeline`, `PortScanner` and `PingPong`, composed in `Flows` (+ `FlowsProofs`).
5. `ChatServer`, `RateLimiter`, `HealthCheck`, `GracefulServer`, composed with
   the cache in `Services`; `ServicesProofs`.
6. `Shortener`, `TaskService`, `LRUCache`, `ShardedMap`, `ShardedCounter`,
   `UserService`, `ProcessMonitor`, `BufferPool` and the pure functions of
   `Algorithms` and `Parsers` (+ `FunctionsProofs`), composed in `Stores`;
   `StoresProofs`.

Left:

7. An abstract mailbox (accepted, then delivered once and in order, until
   unsubscribed) that both `EventBroker` and `ChatServer` implement, with the
   refinement proved.

## 3. Modules and code

Every module names, above each action, the lines it models.  Conventions:

- **Granularity.**  What happens under one lock without blocking is one step.
  Everything the code does between locks is a step of its own, and any other
  goroutine may run in between.  A send over an unbuffered channel and its
  receive are one step.
- **Panics** of the runtime (send on a closed channel, close of a closed
  channel, misuse of a `WaitGroup`) set `panic` and end the behaviour, as they
  end the program.
- **Data** (events, tasks, URLs, values) are model values or small numbers; a
  handler, a hash and a fetch are nondeterministic or constant and always end.
- **History variables** (marked "history") record what happened and never
  influence a guard.
- A definition `X_Something` next to `X` is `X` with a plausible mistake.  No
  specification uses it; it serves to see that a property notices.

| module | models | state ↔ code | actions ↔ code |
|---|---|---|---|
| `EventBroker` | the broker | `subscribers`, `ch`, `chClosed`, `wg` are the fields; `caller`, `worker`, `closer`, `inflight`/`todo` are the places of goroutines; a Publish with an event in flight is the read lock | `Register` 51-60, `StartWorker` 62-75, `CancelLocked` 75-84, `CancelClose` 85, `PublishBegin/Visit/End` 34-49, `Receive`, `Handle`, `Exit` 63-73, `CloseLocked` 89-98, `Wait`, `WaitWoken` 99 |
| `WorkerPool` | the pool; with `MCPoolClose`, which adds the history `waiting` of the Submits that waited for room when Close came | `tasks`, `closed`, `result`, `wg`; `hand`, `outcome` are a worker's locals | `SubmitBegin`, `Send` 41-44, `Take` 35, `Handle` 36, `Reply` 37, `Exit` 34-39, `CloseQueue`, `Wait` 47-50 |
| `PoolPromise` | what task.md:5-7 promises, without workers or queue | `status`, `door` | accept, answer, close, shut |
| `TTLCache` | the cache; an entry holds the time it has left, less than none if `Set` was given a negative ttl, `Advance` is one unit of time, the ticker fires every `Interval` units | `items`, `done`; `get`, `key`, `seen` are a Get's locals | `Set`, `GetRead`, `GetCheck`, `GetDelete` 54-70, `Delete`, `Sweep` and `Stop` 28-45, `Close` 89-91 |
| `FanOutFanIn` | both functions between a producer and a caller, who reads what FanIn gives, or FanOut's channels in turn (`MCFanOut`) | one place per goroutine, the value in its hands | `Produce`, `Deal`, `CloseOuts` 10-19, `WorkerTakes/Sends/Ends` 33-37, `CloseOut` 40-43 |
| `PingPong` | the function and its two goroutines | `result`, `done`, the loops' `i`, `j` | `Start`, `FirstTurn`, `PingAppends/Gives/Closes`, `PongAppends/Gives/Closes`, `Return` |
| `ParallelFetch` | `FetchAll` and the part of errgroup it uses | `sem`, `wg`, `err`, `gDone` of the group, `results` | `Go`, `FetchEnds`, `Check`, `Fail`, `Release`, `Leave`, `Wait`, `CancelCtx`, `Propagate` |
| `Pipeline` | the three stages as `TestPipeline` composes them | `hand`: the value a stage is sending; `reading`: the caller may leave | `Generate` 7-8, `Square` 18-19, `Filter` 29-31, `CloseOut` (deferred closes), `Deliver`, `Abandon` |
| `PortScanner` | `ScanRange` | `ports` the channel, `open` the slice, `team` the workers | `Feed` 41-43, `CloseQueue` 44, `Dial` 31-32, `Record` 33-35, `Exit`, `Return` 45-48 |
| `ChatServer` | the chat; a subscription is named by its Subscribe | `subscribers`, the channels `ch` and `closed`; a Send under way is the read lock | `SendBegins`, `Visit`, `SendReturns` 26-35, `Subscribe` 38-42, `Unsubscribe` 44-49, `Receive` |
| `RateLimiter` | the limiter; a token is `Scale` parts, `Advance` a unit of time | `tokens`, `idle` = time since `last`; `waiter`: where each Wait is | `Take`/`Refuse` 36-45, `Try` 49-51, `Fire` and `Retry` 55, `GiveUp` 53-54 |
| `HealthCheck` | checks and one request after another | `checks`, `results`, `healthy`; `job`: the goroutine of each check | `AddCheck` 33-37, `Begin` 41-55, `CheckReturns` 61-70, `MarkDown` 71-73, `Store` 64-78 (the status the goroutine has in hand), `Leave` 56, `Answer` 81-95 |
| `GracefulServer` | Start, Shutdown, the middleware; `net/http` external | `server`, `active`; a server is named by its Start | `StoreServer` 32-35, `Listen` 36, `Count`/`Uncount` 25-28, `Check` 40-42, `Drain` and `Finish` 43 |
| `Shortener` | the shortener, base as a parameter | both maps, `counter`; `missed`: what a caller did not find under the read lock | `ShortenFinds/Misses` 40-45, `ShortenLocked` 47-58 |
| `TaskService` | service over repository, width of the sequence as a parameter | `tasks`, `seq`; `copy`: a task read by an UpdateStatus | `Create`, `UpdateReads` 151-158, `UpdateWrites` 159, `Delete` |
| `LRUCache` | map and list; an element is an address | `items`, `order`, `element` | `GetHit`, `GetMiss`, `PutAgain`, `PutNew` |
| `ShardedMap` | the map, one scanning goroutine, any number of writers | `shards`, `held` the scanner's read lock | `Set`, `Delete`, `LenAdds` 60-64, `RangeLocks/Calls/Unlocks` 70-77 |
| `ShardedCounter` | the three counters, by `kind`: Inc in two steps and Value cell by cell, or both in one | `cells`, `turn` | `IncPicks` 61, `IncAdds` 62, `ValueLoads` 67-69, `SingleInc`, `SingleValue` |
| `UserService` | service over mock repository, one goroutine | `users`, `taken`, `nextID`, `calls`, `forceError` | `GetByID`, `CreateRefused`, `Create`, `SetForceError` |
| `ProcessMonitor` | `TopByMemory` over a changing process table | `entries` left of the Glob, `file` the open status, `procs` | `Glob` 55, `Open` and `PassOver` 61-70, `Read` 28-51, `Return` 77-87, `Birth` and `Exit` (external) |
| `BufferPool` | `ProcessWithPool` | `pool`, `content` of each buffer; `call`, `buf` of each caller | `Get` 19, `Encode` and `Panic` 25-29, `Copy` 30-32, `Put` 20, `Collect` (external) |
| `Algorithms` | functions on slices and strings as operators; a loop is a recursive function of the elements it has been through | `list`: the input, grown pair by pair (`Grow`) | none: the properties are invariants over all inputs |
| `Parsers` | commit parser, JWT, validator as operators; extends `Algorithms` for its inputs.  A part of a token is a text: what it decodes to and how it is spelled, as base64 without padding has several spellings of one signature | the same | none |

`Flows` (`ParallelFetch`, `FanOutFanIn`, `Pipeline`, `PortScanner`, `PingPong`),
`Services` (`TTLCache`, `ChatServer`, `RateLimiter`, `HealthCheck`,
`GracefulServer`) and `Stores` (the rest) put several components together: a
behaviour picks one of them in its initial state and the others stand still.
They share no state, so this is as many independent systems, and a product of
their states would show nothing more.  The compositions keep every constant a
parameter, with the assumptions on it, and state the properties the runs check
and the theorems are about.  `MCFlows`, `MCServices` and `MCStores` extend them
with the values of a run, next to the reason for each.  `Services` extends `TTLCache` and
`Stores` extends `Parsers`; the other components are instances.

## 4. Runs

| run | instance | shows |
|---|---|---|
| `broker_delivery` | one subscriber, buffer 2, three events of two publishers, two cancels, two Closes | `Ledgers`: accepted events are finished, held or buffered, in order, and tried at most three times; `CancelIsFinal`; `TypeOK` |
| `broker_registry` | two subscribers, one event, a cancel each, a Close, fair | `ChannelsSafe`: nothing is sent on a closed channel and the registered are open; `CloseDrains`; `WorkEnds`: accepted events are finished, and Close returns if nobody stays registered |
| `broker_wait` | the smallest | **violated**: `CloseWaitsForProcessing` (task.md:11) |
| `pool` | four tasks, one worker (queue of two), two Closes, fair | `TypeOK`, `OnePlace`, `CloseCompletes`, `KeepsPromise` (the refinement), `CallsReturn` |
| `pool_graceful` | four tasks, one worker (queue of two), two Closes | **violated**: `GracefulClose` (task.md:7): a Submit that waits for room when Close comes panics |
| `services` | `Services` with the values of `MCServices`; fair | cache: `AnswersWereRight`, `OnlyStaleGetLoses`; chat: `ChatDelivers`; limiter: `WindowBound`; health: `AnswerMatches`; server: `DrainedWhenNil`; in the end `ServicesAnswer`: expired entries go and cleanup stops, Wait ends with its context, requests are answered |
| `graceful_starts` | the same, without fairness | **violated**: `StopsTaking` (task.md:7-8) |
| `ttl_fresh` | one key | **violated**: `FreshEntryStays` (task.md:12) |
| `pp_even` | n = 2, 4 | **violated**: `ReturnsAll` (main.go:4) |
| `flows` | `Flows` with the values of `MCFlows`; fair | fetch: `LimitKept`, `AllThere`, `FailsIfCancelled`; fan: `InTurnAndOnce`, `ClosedBehindAll`; pipeline: `InOrderAndAll`; scanner: `EachPortOnce`; ping-pong, every n from -1 to 24: `TakeTurns`, `ReturnsMost`; in the end `FlowsEnd` |
| `fan_in_turn` | six values over three channels, read in turn, as in TestFanOut; fair | **violated**: `InTurnCollected` (main_test.go:34-36) |
| `stores` | `Stores` with the values of `MCStores` | `CodesForGood`, `IdsForGood`, `KeepsLastUsed`, `ScansAreFair`, `ValueInBounds`, `UsersKept`, `ListIsFair`, `OwnBuffer`; the pure functions: `SortedRight`, `ScansRight`, `ReadsRight` |

**Bounds and why they are enough.**

- Broker: a buffer of two overflows with three events while the worker holds
  one; two cancels and two Closes are needed for a second close, more would
  repeat it; two subscribers suffice to see one cancelled while the other is
  visited.  Pool: four tasks are one more than one worker and its queue of two
  hold, so a Submit really waits; several workers are covered by the proofs.
- Cache: times to live -1, 0 and 1 give entries that are expired when they are
  stored, at the next instant and after it; the ticker fires every unit in `services`, every
  other one in `ttl_fresh`, and every `Interval` in the proofs.  No counter
  grows, so runs of any length are covered.
- Chat: channels of one message (`Cap`, 100 in the code) overflow with two
  overlapping Sends; three subscriptions (`MaxCalls`) of two users let one user
  subscribe twice while the other is visited.
- Limiter: two thirds of a token per unit make refills that leave a remainder;
  a burst of two is full after three units, so a `Horizon` of five looks past
  the cap; time since the last refill is counted up to `Fill`, where the
  bucket is full anyway.
- Health: two checks that fail, pass or never come back, added at any moment.
  Server: two Starts, three clients, any number of Shutdowns one after another.
- Fan: seven values over three channels go round twice and leave a remainder.
  Fetch: twice as many URLs as slots.  Pipeline: eight numbers are more than the
  stages hold; lists of which all, some or none are kept.  Scanner: five ports,
  no worker, one or two, queues that long.  Ping-pong: a call depends on n only
  through its parity and n ≤ 1; the proofs cover all n.
- Stores: base 3 gives codes of one and two digits; a sequence of two bits wraps
  within five Creates (`MaxCreates`); capacity two with four keys evicts; two of
  three keys share a shard; four Incs over three cells with two Values; four
  calls to the repository (`MaxCalls`); three pids with three sizes; two callers
  and two buffers, so that one is used again while the other is out.
- Pure functions: every list of up to three pairs of digits 0 to 3 (`MaxLen`):
  three intervals touch, overlap, nest and lie apart; commit scopes, and whole
  messages, of up to six tokens hold every arrangement of `(`, `)`, `!` and a
  word.  What is presented as a token has any header of two, any payload (or one
  that does not decode), each in two spellings, with the signature that was
  issued, one by any other secret, or none.  A field has any of the rules, in any
  order, with any minimum and maximum.  `sort.Slice` is
  an insertion sort up to twelve elements, which these are; `SortsRight` speaks
  of no more, and where intervals begin together the order in which they are
  merged makes no difference.

`TypeOK` is checked for the broker and the pool, where it holds bounds (buffers,
queue, the wait group's counter) besides types; elsewhere it would hold by the
shape of the module.

**Symmetry** is used in `broker_delivery` only, which checks no liveness.

**Deadlock** is not checked: every component may stop because its callers have
no more calls to make or because a panic ended it.  Where stopping would be an
error a liveness property says so.

**Fairness.**  Weak fairness of every goroutine that has something to do, which
the Go scheduler gives, and of calls that have begun.  Never of calling: nobody
need call Publish, Submit, Set or Close, cancel a context, or read a result.
Beyond that: time passes for the cache; a `select` with two channels ready picks
at random, so it does not pass over `done` (cache) or a finished context
(`SF` on the limiter's `GiveUp`, whose timer branch comes and goes) for ever; every
fetch and dial ends, which is the caller's and the network's business; a health
check that heeds its context comes back within its five seconds, a deaf one need
not.  For `PingPong`, `FanOutFanIn` and `PortScanner` weak fairness of the whole
step relation suffices because no step can be taken for ever.

## 5. Where the code does not do what the texts say

Shown by runs (with the quotations in `PROJECT.json`):

- Broker: `Close` does not wait for a subscription whose `wg.Add` (62) comes
  after its unlock (60).
- Pool: a `Submit` that waits for room in the full queue when `Close` comes
  panics, and the program ends with the tasks in hand.  (One that is called only
  after Close panics as well; nothing is promised to it.)
- TTL cache: the Delete inside Get removes an entry set again meanwhile.
- Ping-pong: for even n the slice may be returned without the last message.
- Fan-out: `TestFanOut` (main_test.go:34-36) reads the channels one after another
  and expects every value; this never ends for more than one channel and value.
- Graceful server: after two calls of `Start` (as in main_test.go:19-21) Shutdown
  stops the later server only and the other takes requests on.

Met while modelling, without a run of their own:

- `PingPong(1)` may close `done` twice (24 and 37) and panic; `Closing` in `FlowsProofs`
  says that this happens for n = 1 only.
- The broker drops events silently when a buffer is full; `Close` may wait for
  ever when a `Subscribe` comes after it, hence the premise in `WorkEnds`.
- A second call of the broker's cancel, of a chat's unsubscribe, or of `Close` of
  the pool or the cache closes a closed channel and panics; all are modelled, no
  text promises otherwise.
- TTL cache: at the instant of expiry `Len` counts the entry as gone while `Get`
  still returns it.
- `FetchAll` goes on starting fetches after a cancellation, and returns no error
  for a cancelled call without URLs.
- Shortener: codes have one character and more, task.md:6 says six and more.
- Chat: rooms are not looked at.  A second Subscribe of a user takes the place of
  the first, and the first one's unsubscribe then removes the second from the map
  (46), which gets nothing more; `ChatReachesAll` excepts it.
- Limiter: a Wait may be overtaken for ever by others that poll; it ends only
  with its context.
- Health: the handler gives each check a context of five seconds and waits for the
  group; a check that is deaf to it holds the response back, for ever perhaps.
  `ServicesAnswer` excepts such a request.
- Graceful server: a Shutdown before Start has stored its server returns nil and
  stops nothing; `DrainedWhenNil` speaks of a server that was found.
- Scanner: with no workers the call never ends.  Pipeline: a reader that stops
  early leaves the stages waiting.  `FanOut(in, 0)` divides by zero.
- Process monitor: a process that exits between open and read is listed with
  empty fields; `TopByMemory` with n < 0 panics (85).
- User service: a seed under id 1 is overwritten by the first Create.
- `SortByField` panics on a slice of pointers.  A commit's scope is cut at its
  first `)`.  `Validate` refuses a required int of 0 whatever its bounds, and
  ignores min and max on other kinds than string and int.
- A `Range` of the sharded map whose function writes to the same shard waits for
  itself.

## 6. Proofs

Checked by TLAPS for every value of the constants.

**`EventBrokerProofs`.**  Assumes `BrokerAssumption` (finitely many Subscribe
calls, at least one topic, a positive buffer).  `TypeOK` and
`ChannelsSafe` are not inductive: that Publish finds its channels open
depends on who is registered.  `LockInv` adds that `wg` counts the running
workers, that registered subscribers have open channels and no cancel behind
their critical section, and that the subscribers a Publish has still to visit
are registered, which holds because it keeps the read lock.  From it follow
`TypeCorrect`, `ChannelsStaySafe` and, for single steps, `CancelFinal`.  `LedgersHold` adds one lemma per step that moves an event.
`CloseDrainsRunning` adds `CloseInv`: a worker that left, left a closed and empty
channel; a Close that was let go has seen its workers leave, because `wg` was
zero then.

**`WorkerPoolProofs`.**  Assumes `PoolAssumption` (finitely many workers).
`PoolInv` says that queue, hands, result channels and callers hold disjoint
sets of sent tasks, and that a worker leaves a closed and drained queue only.
From it `TypeCorrect`, `OnePlaceEach`, `CloseIsComplete`; and
`PoolKeepsPromise`, by step simulation: under `status` and `door` every step is
a step of `PoolPromise` or a stutter, `Send` accepts, `Reply` answers,
`CloseQueue` closes the door and `Wait` shuts it.

**`ParallelFetchProofs`.**  Assumes a natural number of URLs and a positive
limit.  `Progress` relates goroutines to the loop and to what they stored;
`Canceling` says that a cancellation that came in time is still on its way: some
goroutine is yet to see it, about to report it, or has.  From it `TypeCorrect`,
`LimitIsKept`, `NothingLeft`, `FailsOnCancelAlone`.

**`ServicesProofs`, `FlowsProofs`, `StoresProofs`** are about the compositions, so
that their theorems state the very definitions the runs check.
`EachAsAlone`, `EachFlowAsAlone` and `EachStoreAsAlone` say that a behaviour of a
composition is one of each component (a step of it, or a stutter).  What remains
is one inductive invariant per component.

| theorem | inductive invariant, and why the property needs it |
|---|---|
| `MessagesDelivered` (`ChatDelivers`) | `ChatInv`.  What a subscriber has or will have is the line of what it got and what its channel holds: in the order of the Sends (`InLine`), and a message that is neither there nor dropped is one of a Send that has the subscriber still to visit (`Reached`).  The subscribers a Send has to visit are registered and open (`OpenOnly`), because it keeps the read lock (`OneSend`). |
| `WindowsBounded` (`WindowBound`) | `LimiterInv`: for every window, what it let through and what the bucket would hold after a refill now (`Budget`) are within the burst and the refill of the window.  The history `through` has, per age up to `Horizon`, the calls let through since then. |
| `ResponseMatches` (`AnswerMatches`) | `HealthInv`: flag and map tell exactly what the goroutines behind their `MarkDown` and `Store` have found, so they are complete when all have left. |
| `NothingLeftBehind` (`DrainedWhenNil`) | `ServerInv`: the counter is the number of requests in the counted part, and a server that was shut down never listens again, so that once its requests are done it has none. |
| `InTurn` (`InTurnAndOnce`), `OutClosedLast` (`ClosedBehindAll`) | `FanInv`: where the dealer, the forwarders and the counter of the group are in relation to the values dealt (`Progress`); a channel was dealt every n-th value (`Turns`); a value that was dealt is with one forwarder or with the caller, and nobody has what another has (`Apart`). |
| `ComposedInOrder` (`InOrderAndAll`) | `PipeInv`: what the caller got, followed by what the stages hold, is what the numbers taken so far should give (`WantOf`, a function of how many were taken); a stage has closed only with empty hands and behind the one before it. |
| `PortsScanned` (`EachPortOnce`) | `ScanInv`: each port is still to come, queued, with one worker, or dialled; `open` has those that answered, once each.  `Sorted` picks a permutation, and any two that put distinct numbers in ascending order give the same list. |
| `TurnsTaken` (`TakeTurns`), `MostReturned` (`ReturnsMost`) | `TurnInv`: while a call is under way one goroutine has the turn, and who has it, with the loop variables, determines the length of the slice (`Turn`); `Closing` says who closes `done`. |
| `CodesKept` (`CodesForGood`) | `UrlInv`: each map leads back where the other came from, both have as many entries as the counter says, and their codes are those of the ids given.  `CodesDiffer`: two numbers with the same digits are one number, for any base from 2 up. |
| `TasksForGood` (`IdsForGood`) | `TaskInv`: the ids in the map and in copies were made; until the sequence has been all the way round the next one was not. |
| `LastUsedKept` (`KeepsLastUsed`) | `LruInv`: place by place the list is that of the keys used last, cut at the capacity, and the map leads from each key to its element. |
| `ScansFair` (`ScansAreFair`) | `MapInv`: a key belongs to one shard, so what a scan has counted or seen is judged by the shards before the one it is at. |
| `ValuesInBounds` (`ValueInBounds`) | `CountInv`: the Incs that are done are parted by the shard they have picked, so the cells add up to their number; a Value is bounded shard by shard. |
| `NobodyLost` (`UsersKept`) | `UserInv`: the users created have ids below `nextID`, so Create writes over none of them, and their emails are taken. |
| `ListFair` (`ListIsFair`) | `MonitorInv`: a pid is still to come to, open, or listed, and that once; one that has stayed is one of these. |
| `BuffersOwned` (`OwnBuffer`) | `BufferInv`: a buffer is not made yet, in the pool, or with one call; and what is in it between the steps of that call. |

**The cache, in `ServicesProofs`.**  Assumes `CacheAssumption` (integer times, and a value for
"no entry" that is none).  `AnswersWereRight` is not inductive: it needs `Knows`,
what a Get in flight knows of its answer.  One that saw a fresh entry has its
value among the answers that were right during the call, and keeps it there
however old the entry grows; one that found nothing has "miss" there; one that
found an expired entry has answered "miss" already, and its own Delete makes that
right.  `OlderItem` says what a unit of time does to an entry.  From it
`AnswersRight`; `OnlyStaleGets` goes action by action.

**The pure functions, in `FunctionsProofs`.**  Assumes that digits are integers
(`DigitsAssumption`) and that the list is one of pairs of digits, of any length;
`StoresProofs` shows that it always is (`ListAlways`) and states the theorems.
The functions keep no state, so what takes the place of an inductive invariant is
an invariant of each loop: what the function has after k elements.

| theorem | the loops and what holds after k elements |
|---|---|
| `SortedAlways` (`SortedRight`) | `SortBy`: the first k elements, in order (`Ascends`; for records `LexOrdered`, as an equal goes behind those that came before).  With the negation of less each `Insert` mirrors what less makes of it (`InsertMirrors`), so the descending result is the ascending one reversed, although the negation is no proper order.  `MergeIntervals`: the intervals so far are `Apart` and have the points of the first k. |
| `ScansAlways` (`ScansRight`) | `TwoSum`: the map has each number met, with a place of its own (`SeenSays`); `Unique`: each value met once, in order of the first places (`OnceEach`); `MinSlice`: the least so far; `IsPalindrome`: every letter is at its rank among the letters (`Cleaned`), and to compare one half with the other compares each with its mirror. |
| `ReadsAlways` (`ReadsRight`) | `ParseCommit`: the places of the brackets in what `Format` writes (`BodySays`), from which the first `(` and `)` follow, and in any text (`BangTaken`, `ParseAccepts`).  The token: what each part of any three says (`TokenSays`), so that the handler is opened by the issued header, payload and signature (`OpensWith`, `TokenIssued`) and by no other.  `Validate`: the entries are what the rules of the first fields have to say (`Tells`), each `StandsAhead` of the next because the tags of a field differ; then kind by kind what the rules leave. |

That a recursive function has the value its definition gives (`LoopExists`), and
that what one element keeps holds after all of them (`Climb`), are proved from a
least counterexample: the library's theorems on induction take an operator as a
parameter, which the provers cannot instantiate.  How far they speak of the
code has two limits: beyond twelve records `sort.Slice` is no insertion sort
(`SortsRight` stops there), and the digits stand for the texts, tokens and values
that section 3 gives.

The assumptions on the constants are named in `Services`, `Flows` and `Stores`, each
with the line or the reason it comes from; TLC evaluates them in the runs.  They
say that what is counted is finite (requests, ports, keys, Incs, pids), that
sizes the constructors make or the statements demand are positive (channels of a
FanOut, shards, capacity, width of the sequence), that a base has two digits,
that ports and pids are natural numbers and arguments of PingPong integers, and
that a value for "none" is none.

The width of the sequence is `2 * Half`, so that the numbers below zero are as
many as the others.  Where an argument descends (the digits of a code, a list that
is in order step by step) it takes a least counterexample from `NatMin`, which
follows from the well-foundedness of the natural numbers and stands in for an
induction.

**Only model-checked:** the liveness properties `CallsReturn`,
`WorkEnds`, `FlowsEnd` and `ServicesAnswer`, because fairness and ENABLED are
outside the prover's reach.  Every invariant and every action property of a
passing run is a theorem.

## 7. Not modelled

Passwords (two calls of bcrypt), the safe counter (every method is one step under
one lock, as `MutexCounter`, which is modelled), options, errors, shapes, sets,
FizzBuzz and text building (straight-line code, where a definition would restate
the lines), demonstrations of the compiler, the Dockerfile, the chapters of notes
and the stubs.  External, and modelled only as the code uses it: `net/http`,
`sync.Pool`, `sort.Slice`, `/proc`, dialling, HMAC (one to one), base64 (many to
one) and JSON.  That nobody without the secret makes a signature under it is an
assumption of `Signatures`.
The read-only `Get` of the sharded map, `Len` of the LRU cache,
`ActiveSubscribers`, and the task service's `GetByID` and `List` change nothing
and are not actions.  Formatting, latencies and messages are left out.
The Go memory model is taken at its word for locks, channels and atomics; the
unsynchronised slices of `PingPong` and `FetchAll` are covered by showing that
their accesses never overlap, and the unlocked `server` field of the graceful
server is a word that is read and written whole.
