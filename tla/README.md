# glibs in TLA+

A verification development for the Go library `glibs` (`src/`): TLA+ modules
of its concurrent and stateful parts, TLC configurations that check them on
small instances, and TLAPS proofs of what matters most for every instance.

glibs is a toolbox for web services: a task queue, a gorm wrapper with a query
cache, optimistic locking and retention, redis and in-memory stores, token
sessions, two JSON-RPC servers, two iris applications, an MQTT client and
utilities. It has no tests; its documentation is its comments.

## Inventory

| Component | Source | State | Operations | What makes it correct | Model |
|---|---|---|---|---|---|
| Task queue | `util/queue.go`, `queue/` | FIFO queue, handler table, `taskChan`, per-group slots and WaitGroup, a pool of 100 | Enqueue, Register, StartServer, Wait; loop and watcher goroutines; retries | no task lost, doubled, called too often or early; groups bounded; everything settles | `GQueue` |
| Query cache | `mdb/gm2c.go` | entries by primary key and by SQL text, singleflight | query, fill, invalidate on create/update/delete | answers are the database's, staleness only where explained and not for ever | `QueryCache`, `CacheKeys` |
| CRUD, versions, finders | `mdb/curd.go`, `mdb/version.go`, `mdb/finds.go`, `util/map.go` | rows with a version | Create, Update, Delete, FindByID, FindResult with its pages | no lost update; a walk through the pages meets every row | `Curd`, `Paging` |
| Retention | `mdb/db.go` 523-625 | a table | AutoDelete, BatchDeleteFromTop | only expired rows go | `Retention` |
| Connections, migration | `mdb/db.go`, `mdb/migrate.go` | the database, tables, first rows, lock files, the pool's settings | createDB, dbInitiate, MigrateModels, initializeModel, CreateIfNotExists, DropDB | initial rows exist once, after crashes too; a lock file means that nothing is left to do | `DbStart` |
| Cache stores | `mdb/storage.go`, `mdb/storage-redis.go` | ccache, freecache, a redis hash | Get, Set with TTL, Del, DropPrefix, ClearAll, StoreGC | who cleans up takes only what has expired | `Stores` |
| Token sessions | `jwt/`, `giris/jwt.go`; `giris2/jwt.go` | one entry per user, in a map or in redis with a memory in front of it in each process | AfterLogin, Logout, Verify with sliding expiry, clearing ticker | a logout is final, an expired token is never accepted | `Sessions`, `GirisJwt` |
| Singletons, redis clients, log writers | `util/singleton.go`, `mdb/redisv9.go`, `util/logger.go` | a map of built values | LoadSingle, GetClient, GetLogWriter, Close | built once, leaks and deadlocks only where explained | `Once` |
| Configuration | `config/config.go` | what is loaded, a file and a temporary file | load, writeDefault, Write2tempCall, SetValue, the watcher | a start finds what was last set | `Config` |
| Boot, shutdown, HTTP applications, `ConcurrentLimit` | `boot/boot.go`, `giris/iris.go`, `giris2/iris.go`, `giris/mid-limit.go` | open services, the host, interrupt callbacks, a stop channel, slots | Start, StartApp, Shutdown, the callbacks | services outlive the requests, slots add up | `App` |
| Commands | `cmd/`, `cmd2/` | processes, the port, a pid file | start -d, stop | one server at a time | `Daemon` |
| JSON-RPC server `j2rpc` | `j2rpc/` | method table, middleware, pooled contexts, a run flag | Register, Use, Handler, Next, Stop | an answer is the request's own, a method is called once and only behind its gates | `Rpc` |
| JSON-RPC server `j2rpc2` | `j2rpc2/` | groups of handlers, a chain per request | Use, Group, RegisterFunc, Next, Abort, Recover | each handler runs once and in order, none after an abort, one answer | `Rpc2` |
| MQTT client | `gemq/` | a connection, a channel of messages | Dial, publish loop, PublishC, ACL | a message is sent or its failure logged; dropped only when the channel is full or was not made yet at the call | `Emq` |
| Closeable channel | `util/closeable.go` | queue, channel, closed flag, RWMutex | Enqueue, Dequeue, Send, Close, background loop | no panic, order, nothing doubled, Close ends | `CloseableChan` |
| Time and retries | `util/time.go`, `util/async.go`, `util/cron.go` | none that lasts | RetryDo, RetryDoTimes, Ticker, ConcurrentRun | the number of attempts | - |
| Crypto, validators, files, random, templates, resty | `crypto/`, `util/`, `gresty/`, `env/` | none | wrappers of libraries | - | - |

How they interact: `queue` wraps one `GQueue` as a singleton of `util`. The
query cache is a gorm plugin: every query of `mdb/curd.go` goes through it, and
its write callbacks run inside the caller's transaction; it stores its entries
in a cache store (`CCStore`, `FreeStore` or `RedisStore`). The token stores use
`RedisStore` and `FreeStore`. `boot` opens redis, the database and the MQTT
client, starts the application, whose requests pass `ConcurrentLimit` and may
go to a JSON-RPC server, and closes all of them when the interrupt comes, which
the commands send.

The hard behaviours are interleavings of goroutines around a mutex that is
released too early, reads that are used after the lock or the transaction that
protected them, several processes on one redis or one database, processes that
end in the middle of a start or of a write, callbacks in an order nobody chose,
timeouts that drop a value, panics, and errors that are not looked at. `PROJECT.json` lists them as
hazards, each at its line with the property that would catch it.

## Modules

Each module translates the code named in its head comment; `map` in
`PROJECT.json` gives the lines of every definition. A goroutine (or a process)
is a program counter in a record; an action is what the code does between two
points where another goroutine can come in: a critical section, a channel
operation, a call to a store or a statement to the database.

**`GQueue`** (`util/queue.go`). `queue`, `handlers`, `taskChan`, `chs` and `wg`
are the fields of the same name; `loop` and `watch` are the two goroutines of
each `StartServer`, `execs` the closures in the pool. `dequeue` is two actions,
`LoopPoll` (the test of `Empty` under the read lock) and `LoopTake` (under the
write lock, where the queue may be empty by now). `NewQueueTask`, the literal
and the options fix `Request`, so defaults such as the retry limit are
computed as the code does it (`JobMaxRetry`, `MaxRetryOf`, `GroupOf`).
History: `outcome`, `calls`, and what a `Wait` owes. `TaskLifecycle` is the
abstract specification: what the queue promises of one task; `GQueue`
implements it with the mapping `StatusOf`.

**`QueryCache`** (`mdb/gm2c.go`). `pkc` and `sc` are the entries by primary key
and by SQL text, `flight` the singleflight group, `rd` the readers, `tx` the
writers with their callbacks. A fill is a read and one or two stores, so
invalidations come in between. `taintPk` and `taintSc` are history: this entry
was read while a transaction was under way. They say precisely which staleness the code
allows, and the properties say there is no other.

**`CacheKeys`** (`mdb/gm2c.go` 98-215). Which entry a WHERE clause reads and
which entries a write drops, for one caller: names, not interleavings.

**`Curd`** (`mdb/curd.go`, `mdb/version.go`, `util/map.go`). One row, its
version, the entry of the row in the cache, and calls of Update (with and
without `force_update`) and Delete in steps: Take through the cache, fill,
statement, invalidation, commit. `Merged` is `MergeBean`, `Matches` and
`After` the UPDATE that `ModifyStatement` builds.

**`Paging`** (`mdb/curd.go` 237-356, `mdb/finds.go`). A client that asks for one
page after the other; a page is a count and a select. `Page` is what the select
returns of one of the orders the database may choose (`Sorted`), with the offset
wrapped as an int is. Create, Update and Delete come between any two statements;
`moved`, `torn` and `stayed` are history.

**`Retention`** (`mdb/db.go` 523-625). A table as a set of growing ids; a
cleaner counts, then looks for the end of each batch, then deletes it.

**`CloseableChan`** (`util/closeable.go`). The mutex with its writer and
readers, the queue, the Go channel (buffer, receiver, closed or not), the
background loop and callers of every method.

**`Sessions`** (`jwt/`). One user; what remains of a copy's life stands for its
`ExpiresAt`. Both stores are in the module (`store`): with the map store, the only one
of `giris2/jwt.go`, a refresh changes the shared object, with the redis store it
changes a copy.
`haunted` is history: the copies another request or process had while a logout
was under way.

**`Stores`** (`mdb/storage.go`, `mdb/storage-redis.go`). One module for the
three stores (`kind`), since they implement one interface and differ in
lifetimes (`Life`), in who deletes what has expired and in whether DropPrefix
is one step. `gc` is `StoreGC` with its cursor over the hash. `raced` is history: keys
written while somebody who had found them expired was about to delete them.

**`DbStart`** (`mdb/db.go`, `mdb/migrate.go`). Each process is a program counter
from `createDB` to the lock file, with a step for every statement to the
database; `Crash` may come between any two. `Pool` is the arithmetic of the
connection pool. `raced` is history: a count while another insert was due.

**`GirisJwt`** (`giris/jwt.go`). The variant of the sessions whose refresh
makes another token. `age` counts from when a token was generated, `over` and
`ghosts` say which tokens have been ended and which copies were out of reach then.
`Logout` reads and deletes in redis only, so one step is the whole of it.

**`Once`** (`util/singleton.go`, `mdb/redisv9.go`, `util/logger.go`). Objects
found by name; `holder` says which of the three. A caller has a stack of names,
since a `newFunc` may load another.

**`Config`** (`config/config.go`). Two files as functions on settings. Opening
the temporary file (which empties it) and writing it are two steps; the watcher
reads and rewrites in two steps, too. `latest` and `lost` are history.

**`App`** (`boot/boot.go`, `giris/iris.go`, `giris2/iris.go`,
`giris/mid-limit.go`). The main goroutine, the host with its requests, the
interrupt callbacks in the order of their registration, the stop channel.

**`Daemon`** (`cmd/`, `cmd2/`). Commands and the servers they start, which go
from `spawned` to `listens`, `drains` and `dead`.

**`Rpc`** (`j2rpc/`). A request is a goroutine with a context from the pool. What
arrives is a record that says at which gate it fails (`Fault`), what its id,
method and parameters are like, and whether it `carries` a result or an error of its
own: the decoder fills the message that is also the answer (`Brought`). Middleware, hooks and methods do whatever the
interface lets them, in any order, panics included.

**`Rpc2`** (`j2rpc2/`). The stack of running handlers (`frames`), each with the
place it has reached, so that a `Next` from inside a handler, a deferred one and
the unwinding of a panic can be told apart. The chain is whatever order the groups
can have (`Handlers`, `Grouped`).

**`Emq`** (`gemq/`). The connection, the channel of the publish loop and where
each message is. A `select` evaluates its channel once, so a message is `offered` to the
channel or, when the call began before `Constructor`, `early`: that one waits on nil
until its time is over. `MessageLine` is the abstract specification, what a publisher
sees: a line that messages join and leave in order, with the one in the loop's hand at its
head; `Emq` implements it.

**`Data`** and **`Runtime`** put the small machines side by side, each an
`INSTANCE` with variables of its own: `Data` has what keeps data (`Retention`, `CacheKeys`,
`Stores`, `DbStart`, `GirisJwt`, `Paging`), `Runtime` what a server runs (`Rpc`,
`Rpc2`, `Config`, `App`, `Daemon`, `Emq`, `Once`). None of the machines reads what
another writes, so interleaving them would only multiply states. A variable
`machine`, fixed at the start, picks the one that runs, and the others stand still.

`MC*` modules give TLC its constants. The proofs are in the modules `*Proofs`.

## Runs

TLC, two workers, deadlock checked unless the configuration says otherwise
(`CurdSafe`, `CurdFailedRead`, `RetentionAllOld`, `Data`, `Runtime`: the number of
calls, rows, tokens, requests or commands is bounded, processes end and a nested
load may block for ever; `CloseableChan`: everything may be closed and sent).

| Run | What it asks | Bounds, and why they are enough |
|---|---|---|
| `GQueueSafe` | No task is lost, in two hands, called too often or too early; slots and counters; group limit; refinement of `TaskLifecycle` | 3 tasks: one with a retry in a group of its own, a bare literal of an unknown group (falls into group 1), a later one; 2 servers, so that two loops race for the last task; 2 workers; group 1, which serves two of the tasks, has one slot, group 2 has two |
| `GQueueLive` | Every task settles, `Wait` covers what was under way and ends | `taskChan` of one place, so the loop blocks; 2 tasks with retries; a waiter |
| `QueryCacheSafe` | Stale entries, search entries, singleflight | 2 rows, so that the answer of a search can move; 2 readers, so that one joins the other; 2 writers and 2 transactions |
| `QueryCacheLive` | Everybody is answered; staleness ends | one row, one writer: the last transaction is what matters for "from some time on" |
| `CacheKeysMixed` | Is the answer that of the query asked, with a key and another condition? | expected violation, see below |
| `CurdSafe` | No lost update; the caller's version is a condition | 2 callers, a column with and one without omitempty, three calls after the first row |
| `CurdFailedRead` | The row an Update merges into is one the database has held | expected violation |
| `CloseableChan` | No panic, order, conservation; Close and the loop end | 2 callers, 3 values, channel of one: two are in order, the third is sent directly |
| `RetentionAllOld` | A batch deletes what it was told | expected violation |
| `Sessions` | A logout is final; no token is accepted after its expiry | 2 processes, 2 requests, 2 logins, an expiry of 1 with a refresh in the second half of it |
| `Data` | Retention: only rows beyond the tag go, and as many as counted. Keys: the answer is that of the query asked. Stores: no live value is taken. Start: repeated, raced and killed. Pages: every record is met, once and in order. Tokens of `giris` | 8 rows, batches of 2, 2 saved: up to three batches, with and without a remainder; clauses of one and two keys, equal and different, and none; a hash of three fields with collector batches of 2, a key without a field, two clients; two processes on one host, a table with and one without a unique key, pool settings above the limits and smallest; three records in two grades (so that an order has ties), page sizes of one and two, the second through the cap, and clients that begin at the first page, the second, and one whose offset overflows; two processes, two requests and two tokens that live two units and are refreshed in the second half |
| `Runtime` | The servers: own answers, guarded calls, chains. The process: settings across restarts, services and slots, one server, messages (with the refinement of `MessageLine`), objects made once | `Rpc`: 2 requests and 2 contexts, so that one is reused beside the other, bodies that carry a result, an error or both, a chain of two handlers one of which is given twice, inputs that fail at each gate; `Rpc2`: groups at four depths with Recover, a function registered twice; 2 settings of 2 values; 3 requests on 2 slots, every subset of services; 3 commands, 2 servers; 3 messages on a channel of 2; 2 callers, 3 objects, one nested load |

Bounds: `MaxTx` (transactions), `MaxOps` (calls), `MaxId` (rows ever inserted, in `Retention` and `Paging`),
`Values` and `Tokens` (offers and logins), `Objects` (what `Once` makes), `Reqs`,
`Cmds` and `Servers` count things that go up for ever. `Deliver` in `Emq` lets the
broker get a message twice at most, `seeds` in `DbStart` counts initial rows up to
two. `Batch`, `Hour`, `Minute`, `Expire`, `DefaultSize`, `MaxSize` and `MaxInt` are the code's numbers made small:
`Batch` below the number of fields, `Minute` below `Expire`.
Symmetry is used only in runs without liveness.

Fairness. `GQueue`: every goroutine runs (weak), the channel, slot and pool
operations are strong since Go serves the waiters of a channel in order, a
handler returns, a `runAt` comes. `QueryCache`: readers and writers go on, the
database answers, and a TTL passes; with `ttl <= 0` nothing expires and
`EventuallyFresh` is not claimed. `CloseableChan`: goroutines run, timers
fire, `sync.RWMutex` starves nobody (a waiting writer stops new readers); the
receiver owes nothing.

## What the runs show beyond their verdict

Three expected violations, each a disagreement of the code with its comments:

- `CacheKeysMixed`: `findPrimaryCacheKey` counts the distinct keys it found and
  ignores conditions that are none, so `flag AND id = 1` is answered from the
  entry of `id = 1`. The comments at `gm2c.go` 154 and 164 ask for "all".
- `CurdFailedRead`: `setCache` runs after a failed query and stores the zero
  struct; the next Update takes it for the old row ("get from db") and writes
  every column without a version condition.
- `RetentionAllOld`: the last batch of a table has no "first row that stays",
  so the loop breaks and deletes nothing.

Met while modelling, without a run of their own:

- `queue.go` 159 calls the values of `Groups` percentages; the code takes
  tenths, and everything above 10 as 1. The models take them as the code does.
- `closeable.go` 104 says the loop sends all values; one that finds no receiver
  within 100 ms is dropped (`lost` in the model, part of `Accounted`).
- `util/map.go` 24 says empty source fields are not copied; a field whose tag
  lacks `omitempty` is (`Merged`), so `NoLostUpdate` speaks of `Omit` only.
- `curd.go` 295-320: the count and the select of a page are no transaction, and the next
  page is found by its offset. A record deleted before the place a client has reached
  makes the walk miss another, one created makes it read one twice (with `id DESC`, the default),
  and an order with ties may do either while nothing moves (`MeetsAll`, `NoneTwice`,
  `InOrder` say when it does not). `(PageIndex - 1) * PageSize` may overflow;
  a negative offset is left out, so that page is the first one (`EmptyBehind`).
- Two cleaners at once delete as many fresh rows as both counted: with
  `Cleaners` of two `OnlyExpired` fails.
- `j2rpc.go` 184-186 says that `Stop` waits for the pending requests; it sets a flag,
  and requests past that test go on (`CallsGuarded` is about those that came later).
- `j2rpc`: `setError` is called only for a request that failed, and the decoder takes an
  `"error"` in the body for the message's own. A successful request whose body had one is
  answered with it, even beside the result of the method (`OwnAnswer`).
- `j2rpc`: a null for an argument that is no pointer passes the check meant to
  refuse it and becomes a zero value; a method whose first parameter is a type of
  its own that implements `context.Context` is registered with the context taken off
  its arguments and panics at every call (`Fits`).
- `j2rpc2`: the handlers of wider groups run in the order of a Go map, that is in
  any (`Handlers`); a method that is the name of a group without a function gets no
  answer at all (the last case of `AnsweredOnce`).
- `giris/jwt.go`: a refresh stores a token that no client is told, so the next
  request with the old one is refused; `Logout` leaves the token in the memories of
  all processes, where it is accepted for a while (`ghosts`).
- `config.go`: of two SetValue calls between starts only the second lasts, since
  each starts from what is loaded; edits made by hand while a temporary file
  exists and the process is down are lost at the next start; a crash after the
  temporary file was truncated leaves it empty, and the next start falls back to
  the defaults; a rewrite by the watcher drops an earlier SetValue (`lost`).
- `boot.go`: the goroutine of the host may register its interrupt callback after
  boot has; then the services close while requests are under way. An interrupt
  between the two is never answered by boot (`WaitExplained`). A `giris2` process may
  end while the host still drains, and `Shutdown` next to the hook of the host closes
  `stop` twice, which panics (`StopOnce`).
- `mid-limit.go`: a panicking handler keeps its slot for ever (`broken`).
- `cmd`, `cmd2`: two commands at once, or in `cmd` one before the first server
  listens, give two servers; a command can wait for a server that another command
  started after its kill, for ever if that is meant to stay (`TwoExplained`, `WaitExplained`).
- `emq.go`: when the connection takes longer than the limit of `Dial`, the publish loop is
  never started although the client connects later; the channel fills and
  everything after that is dropped. A `PublishC` that began before `Constructor` times
  out even if the channel has been made meanwhile and is empty (`early`, which
  `DroppedFull` names); `boot` calls `Constructor` after it has injected the logger, without
  which the report of a drop panics.
- `redisv9.go`, `logger.go`: two callers that look at the same time both make a
  client or a writer, and the first is never closed; a `newFunc` that loads a single
  instance blocks for ever on the lock it runs under (`LeakExplained`, `StuckExplained`).
- `db.go`: with a lifetime of one second the idle time becomes 80% of it, that is 0,
  which `database/sql` takes for no limit; with one open connection no idle one is
  kept (`PoolWithin`). A lock file outlives `DropDB`, after which no start migrates.

Premises worth knowing: `NoLostUpdate` is about callers that send no version or
that of the row the cache gave; `EntriesFresh` and `QuietAnswers`
except what was read while a transaction was under way (a fill that overlaps an
invalidation is not caught by the code); `LogoutFinal` excepts the copies other
requests and other processes held, which a refresh can even put back. The
properties of the small machines are written the same way: each names the ways out
that the code leaves (a race, a crash, a panic, kept as history), and says that there is no
other, so that a new one would break it.

In `StartRepeatable`, for example, rows inserted twice need a table without a unique
key *and* a count that happened while another process was about to insert, or
failed; a crash is no excuse.

## Proofs

`tlapm` checks every theorem for all values of the constants. What is assumed of
them is named in the modules, and TLC evaluates it in the runs: `QueueAssumption`,
`CacheAssumption`, `CurdAssumption`, `ChanAssumption`, `SessionAssumption`,
`RetentionAssumption`, `DataAssumption` and `RuntimeAssumption`. The last two are made of
one definition for each machine (`KeysConstants`, `DbConstants`, `StoreConstants`,
`GirisConstants`, `PagingConstants`; `ConfigConstants`, `AppConstants`, `DaemonConstants`,
`EmqConstants`, `OnceConstants`, `RpcConstants`, `Rpc2Constants`). All of them say what kind of values
the constants are and that `None` is none of them; the sets of tasks, readers,
requests, processes and so on are arbitrary. `DbConstants` asks for settings that are not
negative, `AppConstants` for a limit that `make` accepts as the size of a channel,
`PagingConstants` for no more rows than an int counts.
Two theorems have a hypothesis of their own, since the code does not keep the
property without it: `OneCleaner` (at most one cleaner, for `OnlyExpiredGo` and `CountIsDeleted`;
two delete fresh rows) and `Unmixed` (every clause names the primary key in all of
its conditions or in none, for `QueriesAnswered`; the run `CacheKeysMixed` has one that mixes).

| Module | Theorem | Property |
|---|---|---|
| `GQueueProofs` | `Typing`, `Conservation`, `OneHand`, `BoundedCalls`, `DelaysKept`, `Refinement` | types, `NothingLost`, `OnePlace`, `CallsBounded`, `NeverEarly`, `ImplementsLifecycle` |
| `GQueueProofs` | `SlotsExact`, `GroupsBounded`, `WaitCoversAll` | `SlotsAccounted`, `GroupLimit`, `WaitCovers` |
| `QueryCacheProofs` | `EntriesStayFresh`, `QuietQueriesRight`, `OneExecutor` | `EntriesFresh`, `QuietAnswers`, `OneFlight` |
| `CurdProofs` | `CurdTyping`, `NoUpdateLost`, `VersionIsCondition` | types, `NoLostUpdate`, `GivenVersionHolds` |
| `CloseableChanProofs` | `NeverPanics`, `OrderKept`, `ValuesAccounted` | `NoPanic`, `InOrder`, `Accounted` |
| `SessionsProofs` | `LogoutIsFinal`, `NoStaleToken` | `LogoutFinal`, `NoStaleAccept` |
| `DataProofs` | `DataTyping`, `StartsRepeat`, `CleansExpired`, `GirisTokensEnd` | types, `StartRepeatable`, `OnlyRacedLost`, `TokensEnd` |
| `DataProofs` | `OnlyExpiredGo`, `CountIsDeleted`, `QueriesAnswered`, `PagesMeet` | `OnlyExpired`, `DeletesUnlessAll`, `AnswersOwnQuery`, `PagesMeetAll` |
| `RpcProofs` | `AnswersAreOwn`, `CallsAreGuarded`, `ChainsAreHonoured` | `OwnAnswer`, `CallsGuarded`, `ChainHonoured` |
| `RuntimeProofs` | `RuntimeTyping`, `SettingsKept`, `ShutdownHolds`, `ServersExplained` | types, `ChangesKept`, `AppHolds`, `OneServer` |
| `RuntimeProofs` | `LineKept`, `MessagesAccounted`, `MadeAndFound` | `ImplementsLine`, `NothingSilent` (which contains it), `OneEach` |

Hardly any of the properties is inductive as it stands. What each proof adds, and why:

`GQueueProofs`: `IInv == TypeOK /\ Placed /\ NotStarted /\ Counts`. `NothingLost` alone is not
inductive: a step that moves a task has to know that it is in no other hand,
so `OnePlace` comes along (`Placed`), a goroutine that is not started must hold
nothing (`NotStarted`), and the number of calls is tied to the retry count
that the copy of the task carries (`Counts`). `AppendElements` and
`TailElements` say what queue operations do to the set of elements;
`LoopMoves`, `WatchMoves`, `RunLeaves` do the same for goroutines. Each action
is mapped to a step of `TaskLifecycle` or to a stutter. `DelaysKept` says that
every task of `Beyond` (in `taskChan`, with a watcher or running) is due: only the
loop lets a task in, after the test of `runAt`, and a handler that failed takes
its task out in the step that gives it a new `runAt`.

For the worker groups, slots and WaitGroups are
numbers in the code and sets of goroutines in the argument, so the invariant
`SInv == Finite /\ Fresh /\ Slots /\ Counters /\ Within` equates each number with
a cardinality. `Fresh` is what makes the counting right: two closures under way
are two different calls (no two agree in task and call number), hence adding or
removing one changes the cardinality by one. `WInv == Old /\ Ahead` follows
what a `Wait` owes, the calls that were counted when it began: they are old (a new
call gets a new number, so nothing owed is ever counted again), and those not
yet done belong to a group that the `Wait` has still to pass.

`QueryCacheProofs`: an unmarked query or fill was alone with the database, since
`TxBegin` marks whoever is under way and whoever comes later sees it; so what it
carries is what is committed now (`ReadersRight`). A transaction opened by
the caller has emptied the entries before it commits (`OwnDropped`), one that gorm opens
commits first, and then its entries are those it has still to drop (`RowsFresh`, `SearchFresh`).
`Flights` counts executors: everyone who joins waits for one who runs.

`CurdProofs`: `IInv == TypeOK /\ Versions /\ FromPast
/\ Checked`: committed rows with one version are equal, everything a call or the
cache carries was committed once (or is the zero struct), and a read that found
nothing has failed. Hence a row that passes the version test *is* the current
row (`MatchIsCurrent`), however stale the cache was.

`CloseableChanProofs`: `LockHeld` says who is inside the mutex and what may be closed
by then; with it `NoPanic` is a consequence. `ValuesKept` orders the values: the
queue is the end of everything enqueued, in that order, the value in the loop's hand
is the one before it, and all before that are past, each in one place.

`SessionsProofs`: a copy that stands beside a logout under way is `haunted` or still
to be reached by it (`Marked`); once redis is emptied it gets the token back only
from such a copy. For `NoStaleAccept`, `Ages`: the age of a token and what
the life of any copy of it has left are together at most `Expire`.

`RpcProofs`: a context is in the pool and carries nothing (`Clean`), or belongs to one
request and names it (`Owns`), and what it holds at each gate is what this request has put there
(`Fine`); the error in a message on its way is the one its body brought, or none, as long as
nothing has failed (`Filled`). `reset` and the gates of `Handler` are the steps that need an argument.
For `j2rpc2`, `ServedInv`: the handlers entered are the first `hid` of the chain (`InOrder`), who
aborts has answered (`Aborted`), a handler that called another is past its body
(`Deeper`). That an answer comes at all is `DueInv`: while it is due, whoever has
come back from `Next` has left nothing of the chain undone (`Ends`), the handlers of the
method are in the chain or its reader is still at work (`Finds`), and a function that
was entered is still being called (`CallsOpen`). So at the end of the chain a method with a
function cannot be without an answer.

`DataProofs` and `RuntimeProofs` have one inductive invariant for each machine, under
the hypothesis that this machine runs.

- `DbStart` (`DbInv`): where nobody counted beside an insert, one process at most is about to
  insert, into a table without rows (`Single`); a process past the creation of
  tables has all of them, and those it has counted have rows (`Counted`); the lock file is written only then (`Locked`).
- `Stores` (`StoreInv`): a value that lives although somebody has found it expired was
  written since.
- `GirisJwt` (`GirisInv`): the age of a token and what any copy of it has left are
  together at most `Expire` (`InStep`), the copies that an end does not reach are `ghosts`, and
  a writer under way leaves none but those (`Overwritten`).
- `Retention` (`RetentionInv`): what a cleaner has still to delete is never more than the
  rows that may go, which inserts and age only add to, and the rows below its next
  cut are one batch of what it counted. Rows are compared by how many are below them,
  cardinalities, so that no order has to be built by induction; the number of batches is the
  arithmetic of `\div` and `%`.
- `CacheKeys` (`KeysInv`): an entry that is there is what the database answers; a write of a
  row drops what names it.
- `Paging` (`PagingInv`): the place of a record is the number of records before it in the
  order. What was read has places before the next page while nobody comes in (`ReadOnce`),
  what stayed and has a place there was read while nobody goes out (`ReadAll`), and while
  nothing moves as many were read as the pages so far hold (`ReadInOrder`). A record that
  comes or goes shifts places one way only, which is all that a write has to show. A select
  reads a piece of a sorted sequence, in which a record's index is its place (`SortedFacts`).
- `Config` (`ConfigInv`): while the process is down, the next start finds all settings
  but `lost` (`DownInv`); while it is up, the file has what SetValue has not
  overridden, memory has that and what is not edited since, and who writes the temporary file
  started from there (`UpInv`).
- `App` (`AppInv`): callbacks are registered once each and run in that order (`Calls`); the host drains while
  its callback is the first of those left to run (`Serving`); boot's callback
  closes `stop` behind the host's unless it was registered before it (`StopOfBoot`), and in
  `giris2` the hook and `Shutdown` are the only ones that close it (`StopOfHook`).
- `Daemon` (`DaemonInv`): commands under way at once are in `overlap` (`Together`), so of the servers of a
  command that does not overlap none serves any more when the next command has killed, or it had not listened yet (`Met`);
  what serves nevertheless was born since (`Younger`).
- `Emq` (`EmqInv`): a message that was taken is in the channel or in the loop's hand, once
  (`InHand`), the broker has what was acknowledged and nothing that was not taken (`Arrived`),
  and whoever waits for a place does so on the channel that was made (`Waiting`).
  The line of `MessageLine` is the hand before the channel (`Line`): taking a message
  from the channel is a stutter, and every other step is one of the line (`LineSteps`).
- `Once` (`OnceInv`): what is found under a name was made for it (`Known`), what is up is found or was
  replaced (`UpFound`), what a caller will replace was made since it looked (`Replaces`), and
  the holder of the lock waits for it only below another name (`Asking`).

`DataTyping` and `RuntimeTyping` join these invariants and add what they leave out, each
inductive beside them:

- `Stores` (`StoreBounds`): lives end one past zero, and what is dropped or was rewritten
  are keys. `Config` (`ConfigBounds`): what the histories name are settings.
- `GirisJwt` (`GirisBounds`): ages are counted to one past `Expire`, and whoever is still told a
  token carries one that was made (`LoginMade`).
- `CacheKeys` (`KeysTyped`): entries are what some query found, whether or not a clause mixes
  the primary key with other conditions: the types need no `Unmixed`.
- `Rpc` (`RpcBounds`): of the handlers of a request each was started by a `Next` of the one
  before, so there are no more than the index counts (`Depth`), and the index stops at the end of
  the chain. A step that touches neither shortens the stack (`Shrinks`).
- `Rpc2` (`ServedBounds`): what was entered before an abort is part of what was entered.

Only model-checked, and why: `EventuallySettles`, `WaitEnds`, `Answered`, `EventuallyFresh`,
`Ends`. Liveness and `ENABLED` are out of the prover's reach. Every safety property of the
passing runs is a theorem.

## Not modelled

Payloads, logging, reflection, SQL text, HTTP, formatting and ciphers; gorm, the
database, redis, ants, viper, iris and paho are external and modelled from their
use. Whole components left out:

- the bloom filter of `mdb` (`bloom.go`), which is commented out as a whole;
- `util/time.go`, `async.go`, `cron.go`: conversions, and loops around a function
  (`RetryDoTimes(n, ...)` makes up to n + 2 attempts, and nothing here calls it);
- the HTTP helpers of `giris` and `giris2` (captcha, logging, profiling, files);
- the ciphers of `crypto/` and `util/crypto.go`;
- the small utilities (`gresty`, `env`, validators, files, random names, templates).

Parts left out of modelled components: `Subscribe` and `DailWithOption` of `gemq`,
injection and `BuildValue` of `util`, the rotation of log files,
the reflection of `RegisterTypeBus`. `PROJECT.json` gives the reason for each.

Failures that the code ignores and the models assume away: errors of the scan and the
delete in `BatchDeleteFromTop` (so `DeletesUnlessAll` counts deletes that succeed), of
`HSet` and `HDel` in the redis stores (a logout whose `HDel` fails leaves the token
where it is). And a goroutine that does not get to run for 100 ms between the start of the
timer and the `select` of `PublishC` could choose the timer although there is room.

## Plan

The modules above are what the plan asked for, and its theorems are proved. A client's view
of `Rpc` as an abstract specification was considered and left: it would say again what
`OwnAnswer` and `CallsGuarded` say of each request. What is left is what the prover
cannot do (liveness) and what is not modelled.
