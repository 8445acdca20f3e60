# Formal model of go-blog-cache

A TLA+ model of the caching service in this repository: its in-memory cache,
the mutexes of that cache, the business logic that reads through it, the client
with a cache of its own, the Redis cache that replicas share, the adapter of
go-stash, and the processes of the service and of the scenarios that load it.
TLC checks the model on small instances; the TLA+ proof system proves its safety
properties and its refinements for every instance.

Sources are quoted as `file.go:line`, relative to `src/internal` where no
directory is given. `PROJECT.json` maps every definition to its lines.

## The system

The service is a demonstration of caching strategies: an HTTP API over a MySQL
table of employees with a cache beside it. It runs as several replicas behind
nginx, all on one database, each with a cache in its own memory or all with
one cache in Redis.

| Component | State | Operations |
|---|---|---|
| errors (`data/errors.go`, `cache/cache.go`) | none | errors carry a type; `Error.Is` compares types, never texts |
| memory cache (`cache/memory.go`) | maps of employees, searches and sleeps with the moment each was cached; in-progress flags; remembered absences | reads, writes and deletes of employees, searches and sleeps, `EmployeesNotFoundWrite`, `Clear`, `Open`, `Close`, three pruner goroutines |
| Redis cache and mutex (`cache/redis.go`) | the same as hashes of a shared server, and one key per mutex | the same, each a sequence of Redis commands, some under a mutex made of a key; two pruner goroutines per replica |
| stash cache (`cache/stash.go`) | none of its own | the same reads, writes and deletes on a store of the library go-stash, a key at a time; absences and sleeps are not supported |
| logic (`logic/logic.go`) | none between requests | `EmployeeCreate/Read/Update/Delete`, `EmployeesSearch`, `Sleep`: the cache-aside pattern with retries |
| sql store (`sql/sql.go`, `sql/execution.go`) | the table `employees` | the statements of those requests; a number for a new employee is the greatest plus one |
| service (`service/`) | the HTTP server and its goroutine | HTTP handlers around the logic, timed; clearing the cache, counters, timers; `Open`, `Close` |
| client (`client/`) | optionally a cache of its own | a second cache-aside layer over HTTP that retries on 429 |
| timers (`utilities/timer.go`) | a list of timers per group | `Start`, `Stop`, `ReadAll`, `Clear` |
| counter, logger (`utilities/`) | a map under a mutex | measuring |
| lifecycle (`cmd/service/main.go`, `execution.go`) | a context that a signal ends | opens the parts in order, waits for the signal, closes them in reverse |
| scenarios (`cmd/scenario/main.go`) | an employee of its own, goroutines, timers | three programs that load the service through clients: a stampeding herd, reads of an absent employee, sleeps |

How they interact: a handler calls the logic on the goroutine of its HTTP
connection; the logic calls the cache, then the store, then the cache again,
with nothing held between two calls; pruners run on tickers beside it. The only
things shared are the cache, behind its mutexes, and the database.

What is hard about it, and where:

- Between any two calls of one request every other request, every pruner and
  the clock may run (`logic.go:164-306`): what was read from the store may be
  overtaken before it reaches the cache.
- A mutation may take effect and still return an error (`logic.go:280`), after
  which nothing is invalidated.
- The branches of a cache read hang on error types, declared in `cache.go`,
  compared in `data/errors.go` and tested in `logic.go:166-196`.
- The memory cache has three RWMutexes that readers take in one order and
  writers in another, and changes maps under a read lock of the outer one.
- Times to live are counted from several moments and enforced by goroutines
  that prune one map at a time; a search and the employees it lists expire
  apart.
- A Redis mutex expires, is cleared, is left behind by a process that stopped,
  and is released by a script that cannot tell one holder from another.
- The stash cache reads and writes a search one key at a time while the store
  evicts and other requests write; it deletes a search's key after it saw an
  employee missing (`stash.go:117`), and hides a delete that failed (149).
- A timer is stopped by its place in a list that other requests make longer and
  `Clear` makes shorter (`timer.go:57-63`), after the answer was written.
- `Close` of the server gives up requests after a time-out, by default at once,
  and `Main` then closes what they use (`cmd/service/main.go:103-156`).
- A scenario gives calls up; the service carries them out all the same, beside
  the deferred clean-up (`cmd/scenario/main.go:132`, `276`).

What each component must keep, as properties: `memory.go`: a key is never both
cached and flagged, flags go away again, and absences unless they are recorded
again and again, a live search is not cut short by the pruner. Its mutexes: no
map is raced for, no operation waits for ever, none wait for each other in a
circle, `Close` leaves no pruner behind. `logic.go`: the cache is wrong only
where an invalidation is on its way or by a known leak, no request waits for
ever, no error of the cache is answered, and whatever the service does is
something the cache's contract allows. `redis.go`: one holder per mutex while
nothing takes it away, a pruner deletes nothing it has not seen, a mutex that
was left behind becomes free. `stash.go`: the store is wrong in no window that
the memory cache does not have, and the service promises what it promises over
the other caches. Lifecycle: a part is not used after it was closed, a signal
ends the process. Timers: a request stops its own and loses no answer by it,
and they can be read when nothing runs. Scenarios: they end, delete what is
theirs and leave nothing behind.

`PROJECT.json` lists every component under "components" and every place where
this code is hard to test under "hazards", with the properties that guard it and
what they except. A definition that stands for the same lines of several
requests is mapped to those of one of them, `EmployeeRead` where it can be.

## Modules

| Module | Models |
|---|---|
| `CacheErrors` | the errors and `Is`, which the logic's switch depends on |
| `MemoryCache` | `memory.go` without its mutexes: every operation, every pruning function, the clock; also the specification `Logic` is shown to implement |
| `MemoryLocks` | the mutexes of `memory.go`: each operation as its sequence of lock, map access and unlock |
| `Logic` | `logic.go` over `MemoryCache` and the table (`sql.go`): any number of requests in parallel |
| `ReadThrough` | what callers may think the service is: one table, one cache, and changes on their way to it; `Logic` implements it |
| `Client`, `MCClient` | `client.go` with its own cache, and the service's endpoints, over `ReadThrough` |
| `MCLogic` | searches and symmetry for TLC's instances of `Logic` |
| `RedisCache` | the employees' part of `redis.go`, one Redis command per step |
| `StashCache`, `MCStashCache` | the requests of the logic over `stash.go`, one call of the store per step; implements `ReadThrough` |
| `Timers` | `timer.go`: what each operation makes of the lists |
| `Service` | the process of the service: `Main`, the server's goroutine, `Close`, and timed requests |
| `Scenario` | a scenario, its goroutines and its calls, over `Service` |
| `MemoryCache_proofs`, `MemoryLocks_proofs`, `Logic_proofs`, `RedisCache_proofs`, `StashCache_proofs`, `Client_proofs` | theorems and proofs about the module of that name |
| `LogicRefinement_proofs` | that `Logic` implements `ReadThrough`, over `Logic_proofs` |
| `Scenario_proofs` | theorems and proofs about `Scenario` and the `Service` below it |

`MCClient`, `MCLogic` and `MCStashCache` only give TLC its instances. `Client` takes
`ReadThrough` by INSTANCE, with version numbers for contents.

`Logic` EXTENDS `MemoryCache`: a step of a request conjoins the cache operation
it calls with its own change of place, so a step of the logic *is* a step of
the cache. `MemoryLocks` is apart, because it justifies what `MemoryCache`
assumes: that an operation under the outer mutex is one step.

### MemoryCache

A Go map is a function on the keys it has. An entry's `age` stands for
`time.Since` of the moment the code stored; it is counted in ticks of `Elapse`
and stops growing one tick past the time to live, since the code only asks
whether it is greater. An operation is an action under the name it has in the
code; reads take the error they return as a parameter, so a caller can say
which outcome it is about. The functions of one pruner are separate actions,
since each takes and releases the mutex: the three of `launchPruneCache` run in
their order (`pruning`), the others may run at any time.

Times are whole ticks. A difference of clock readings within one tick is not
seen; the properties about ages hold for every time to live (see the proofs),
so the coarseness hides no order of expiry.

### MemoryLocks

A goroutine is at one place in the list of what its operation locks and
touches. `Lock` takes two steps, as in `sync.RWMutex`: from the first
(`announced`) new readers wait, in the second the readers that were there have
left. Deferred unlocks are given back together at the end. `PruneCache` is the
three functions of one tick, each with the mutex to itself. A hit or a known
absence may end a read at each of its lookups. A pruner's `select` may take its
tick or the cancelled context when both are ready.

### Logic

`pc` says what a request does next: `cache` (read it), `sql` (the first
statement), `insert` and `readBack` (later ones), `fill`, `absent` and
`invalidate` (the cache again), `done`. `tries` counts the tries of
`backoff.Retry`. `Retried` is the switch of `logic.go:166-182`: its first case
takes every error with the type of `ErrEmployeeNotCached` *or* of
`ErrEmployeeReadAlreadySet`, which is every error of the cache. `SqlFails`,
`SqlAnswerLost` and `SqlCutShort` are a statement that fails, one that took
effect but whose answer was lost, and a search whose connection ended between
two rows (`sql.go:186-200` does not ask `rows.Err`).

`leaked` is a history variable: employees whose entry disagrees with the table
because a fill was overtaken (`Fill`), or because a mutation that took effect
returned an error before it invalidated (`SqlFails`, `SqlAnswerLost`). It is
what makes "the cache is wrong only when ..." exact.

### ReadThrough and Client

`ReadThrough` keeps, of everything in `Logic`, what a caller can be affected
by: the table, the contents the cache holds, what each request has read but not
yet written to the cache, which employees it has changed but not yet
invalidated, and `leaked`. `RT` in `Logic` reads all of it off the logic's
variables. An update that finds its employee removed (`NotThere`) may skip its
invalidation only because the delete has still to do its own, or has left
nothing; that this is so is the hard part of the refinement.

`Client` gives every statement a number and lets it be the row's contents, so
newer is greater. A call of `client.go` goes to the client's cache, to the
service, whose steps are those of `ReadThrough`, and back; `answer` is what the
endpoint sends, success or any error (`handleResponse`). `Failed` is an error,
or an answer that was lost or came after the client's time-out: the client's
cache keeps what it has. A caller that goes on after its time-out is another
element of `Procs`. The retry of `client.go:85-97` is in `Failed` too: it
exchanges method and uri, and a request with such a method is refused before it
is sent. `known` and `stained` are history variables: the newest contents a
client has been given or was told it wrote or removed, and the entries of its
own cache that are older than that or came from one leaked at the service.

### RedisCache

A hash is the set of its fields (searches keep the numbers they list), a mutex
the ticks its key has left, 0 when there is no key. Each worker, client or
pruner, executes an operation command by command; `todo` holds the fields a
command is still to be given: what a pruner scanned, or what a write has left.
`lost` is a history variable: mutexes that expired or were cleared under a
worker that still believes to hold them, until the last such worker has left.
`Stop` ends any set of workers where they are, as a crash and restart of a
replica does; `Panic` is the panic of `Unlock`, which the HTTP server recovers
for a request and which ends the process for a pruner.

### StashCache

The store is two sets of keys: `cached`, employees with their contents, and
`searches`. The value under a search's key is the search itself, so the set is
enough. `LookUp` and `Write` take one employee per step. Any look-up may miss,
since an error of the store counts as one, and `Evict` is the store's own
eviction beside `Clear`. The requests around it are those of `Logic` with their
statements in one step and any number of tries; `leaked` gains the delete that
failed unseen. `RT` maps `fetched`, what a request has read from the table and
not yet written, to `held`: employees leave it one by one, which is why `Fill`
and `Forget` of `ReadThrough` take a set.

### Service, Timers and Scenario

`main` is the statement of `Main` that runs next, and `part` what it has opened
and closed. `listener` is the goroutine of `launchServer`: it may fail to
listen, or end by itself later, which `Main` learns only within the first second
(`LaunchFails`); connections it has are then still served. `Told`, `Drained` and
`TimedOut` are `Close`: `Shutdown` begins, ends, or is out of time. `CloseCache`
may hang (`stuck`), as `MemoryLocks` shows, and then for ever. A request starts its timer (`Begin`), does its
work and writes its answer (`Work`), and stops the timer in a deferred call
(`Stop`), which panics when the index is past the end; the server then closes
the connection before the answer has left its buffer. What it works on is
`Logic`; here only that it does matters. `overtaken` and `hurried` are history
variables: requests that saw the timers cleared, and that `Main` did not wait.

In `Scenario`, `todo` is what the scenario's function has still to do. A call,
`CacheClear` and those for the counters (`Administers`) included, takes a connection of `Service` (`Requests`), and ends with the answer, with the
end of the connection, by being given up, or without a request at all. The
request of a call that was given up stays and takes effect when its turn comes,
so a late `EmployeeDelete` and the deferred one are on their way together. `row`
is whose employee has the number of the scenario's, since the number of a
deleted employee may be given out again. A goroutine that takes a tick although
`stop` is closed is in the model: `select` chooses.

## Runs

| Run | Question | Instance |
|---|---|---|
| `memory_cache` | Do flags and absences behave under every order of operations and pruning? What do overlapping searches and pruning leave of an answer? | 1 employee, 2 searches, 1 sleep, both features, an entry and an absence live 1 tick |
| `logic_create` | Is the cache coherent when numbers are given out again? Does the service keep to the cache's specification? | 2 requests at once: search, delete, create, sleep; failures |
| `logic_searches` | Do searches beside updates list only employees they match? | 2 requests: read, search, update; 2 employees |
| `logic_progress` | Does every request end, without an error of the cache, and every wrong entry too? Is the service what `ReadThrough` says? | 2 requests: read, update, delete; flags, absences, 2 tries, failures; fair scheduling |
| `locks_close` | Is a map ever raced for, and does `Close` leave a pruner behind? | 2 callers of every operation, the cache pruner, 1 closer |
| `locks_order` | Do operations ever wait for each other in a circle, or any for ever? | 2 callers of the operations that take several mutexes, the flag pruners |
| `redis_cache` | What does the distributed mutex give, and is it ever taken for ever? | 1 client, both pruners, 1 employee, 1 search, expiration after 2 ticks, failures, lost answers, stops |
| `client` | May a program see an employee go back in time? | 2 callers of a client with a cache, 1 of a client without; 1 employee, 2 statements |
| `stash_cache` | When is the store wrong about an employee? Does the service still do what `ReadThrough` says? | 2 requests: read, search for two or for everybody, update, delete, create; 2 employees with 2 contents; eviction and failures |
| `scenario` | Does a signal end the service, is a closed part used, are timers and answers right? Does a scenario delete what is its own, leave nothing behind, and end unless the service hangs? | 2 connections, 2 timers in a group, 2 goroutines, each scenario; a cache that may hang in `Close` |
| `finding_close` | Does `Close` return? Not always. | the cache pruner and a closer |
| `finding_redis_unlock` | Does `Unlock` find the key it asserts? Not always. | 1 client, 1 pruner, nothing fails |

### What the runs show

- **The cache is wrong only in known windows.** An entry that disagrees with
  the table has an update or delete on its way to `EmployeesDelete`, or is one
  of two leaks; and of an employee that is *gone* only a delete can be on its
  way, although numbers are given out again. `StaleEntriesEnd`: even a leaked
  entry ends, because reads do not renew it.
- **Flags and absences.** A flag whose reader failed is taken away by the
  pruner, and never stands beside the entry. A *search* remembered as empty
  keeps its first moment however often it is remembered, so it is forgotten. An
  *employee's* absence does not: `memory.go:464` stamps it anew with every
  record, and one that is recorded again and again may never be forgotten. What
  holds is that asking for it does not renew it
  (`AbsencesEndUnlessRecordedAgain`).
- **Searches.** A search never lists an employee it does not match. An
  employee is never older than a search that lists it, so the employee pruner
  never cuts a search that is itself alive; an invalidation does, and the
  search answers short until it expires or is written again. A search that the
  database cut short (`sql.go:190`) looks complete to all of this, and so does
  one employee recorded as everybody (`logic.go:209`): these properties catch
  neither.
- **Mutexes.** Readers and writers take the inner mutexes in opposite orders;
  the outer one keeps them apart, and taking it away deadlocks (that is the
  mutant of `NobodyIsDeadlocked` and of `OperationsReturn`).
- **Two caches** in a row give a program no older employee than it has seen, or
  was told it wrote or removed, although each is filled and invalidated on its
  own; the exceptions are an entry leaked at the service, and one that an
  overtaken read of the same client left. `EmployeeCreate` is not counted: it
  drops nothing, so its caller may be shown the former holder of the number.
- **The stash cache** is wrong about an employee only while a request that
  changed it has yet to delete its key, or by a leak; a delete that failed
  unseen (`stash.go:149`) is one more way to leak, and there is no other,
  although employees go one by one and numbers are given out again. So what
  `client` shows holds over it too. A search key that is deleted although it was
  just written (`stash.go:117`) costs a miss, which nothing here speaks of.
- **The process.** A signal ends it at any moment of its life, whatever requests
  do; only a `Close` of the cache that hangs (`finding_close`) keeps it. A part
  is used after it was closed only if `Shutdown` ran out of time, or the server
  ended within its first second with requests in it.
- **Timers.** Only the newest of overlapping requests is timed, but each stops
  no other's timer, and every group can be read once nothing runs, even if the
  timers were cleared meanwhile. A request that saw them cleared may panic in
  its deferred `Stop` and lose the answer it has already written.
- **Scenarios** end, unless `Close` of the cache hangs under one of their calls:
  it keeps the cache's mutex (`memory.go:288-293`), the handler waits for it, and
  without `CLIENT_TIMEOUT`, which is the default, so does the call, and `wg.Wait`
  with it. They leave their employee only if they never got its number
  or the deferred delete failed. One may delete the employee of another program:
  its delete took effect without a good answer, the number was given out again,
  and the deferred delete ran. The timers a scenario reads are complete, since
  every goroutine has a group of its own.
- **The Redis mutex** excludes for as long as its key was not taken away, and a
  pruner then deletes nothing it has not scanned, although it scans and deletes
  in two commands. Once the key was taken away nothing is said until the last
  holder has left. A key left behind expires however many wait for it.

### Bounds

Two processes are enough for every race named above: each needs one request
that read and one that changed something in between. Two employees and two
searches are the least with which searches overlap. Two contents make an old
and a new row differ. Times to live of 0 or 1 tick give every order of write,
tick, expiry and prune, since ages saturate one tick later. Two tries are the
default of `CACHE_MAX_RETRIES` and the least with a retry and a last try.
`FindEmpNo` stops at the greatest number of `EmpNos`; beyond it a create fails,
which the code does for an empty table. Three workers (a client and two
pruners) give every pair of sections of one mutex: the client takes either
mutex against that mutex's pruner; an instance with two clients and the flag
pruner keeps the same invariants. `finding_redis_unlock` gives the mutex ten
ticks, as the default of ten seconds, and needs none of them.

`logic_progress` leaves creates out, to keep its liveness in reach; the
`logic_create` instance satisfies `ReadThroughRefined` too. For the client, two
statements are enough for a change that overtakes a read and for a delete with
the create that takes its number again; three callers give two that fill one
cache while a third changes the row.

One employee shared by two searches is the least with which the age of a search
and that of its employee differ. For the stash cache, two employees make a
write that is half done, and the other request can be anywhere in between. In `Scenario` two connections give the overlap of a call that was given
up with the next, or of two goroutines; two timers are the least of which one
is not the last. Other programs send requests, and the service keeps timers,
when no scenario runs (`kind = "none"`): a scenario uses timers of its own, and
its requests meet other ones only in the service, where the two connections of
`kind = "none"` already give every overlap. Each group of timers is by itself
but for `Clear`, so one is enough.

The proofs have none of these bounds.

### Fairness

- `CacheFairSpec`, `FairSpec`: tickers fire and the clock runs, so each pruning
  function and `Elapse` is weakly fair. A process with a request takes its next
  step: the database and the waits of `backoff` end. Nothing is assumed of
  clients: requests need not come, and none may be asked to come.
- `MemoryLocks`: goroutines are scheduled, and one that waits for a mutex in
  the end gets it (strong fairness): `sync.Mutex` hands over to a waiter after
  a millisecond and an unlock of `RWMutex` lets in the readers that waited.
  `TakeDone` is strongly fair because `select` chooses at random.
- `RedisCache`: only Redis's clock. Workers may stop anywhere, so nothing is
  assumed of them, and `MutexRecovers` holds without them.
- `Scenario`: `Main` and the scenario's function go on when they can, a goroutine
  takes its answer, and a handler ends its work as long as `Main` is not stuck in
  `Close` of the cache, where a handler may wait for the cache's mutex for ever. `Stops` is strongly fair, because
  `select` chooses at random when a tick and `stop` are both ready. No signal,
  time-out, failure or start of the server is assumed to come. `SignalsEnd`
  needs nothing of requests: `TimedOut` is a step of `Main`.

`locks_close` does not check for deadlock, since there the system may stop:
everything has been closed, or `Close` and the pruner wait for each other; nor
does `scenario`, where both processes exit.

## Findings

Two places where the program does what its documents, tests or assertions say
it does not, each with a run (texts in `PROJECT.json`):

1. `Close` of the memory cache holds the mutex that the pruner it waits for may
   need (`memory.go:292`).
2. `Unlock` of the Redis mutex panics if `Clear` or expiry took the key
   (`redis.go:235`); in a pruner that ends the process.

Met while modelling, in the modules as the code has them, but without a run:

- Reading one employee records it as the result of the search for everybody
  (`logic.go:209`): a later search without criteria is a hit and answers with
  that one, where README.md:321 asks for a unique key for every search. Over the
  stash cache, which records what was asked for and not what was found, such a
  search is answered with nobody (`stash.go:107-112`).
- `Stop` of the timers refuses any timer but the last and panics past the end;
  `ReadAll` divides by zero while the first request of a group runs.
- `SERVICE_SHUTDOWN_TIMEOUT` is 0 unless set, so `Shutdown` waits for nothing.
- The server's error is read for one second only (`service.go:121-127`).
- The deferred `EmployeeDelete` of a scenario has the context that a signal has
  cancelled, so a scenario that was interrupted leaves its employee.
- A read that an update overtakes fills the cache after the invalidation; an
  update that fails to read back never invalidates. README.md:203 speaks of one
  round trip; the entries last for `CACHE_TTL`. `leaked` counts both, and
  `StaleEntriesEnd` says what is left of the promise.
- README.md:565 says the in-progress flag makes the database be hit once; with
  two tries a reader waits once and then reads itself. README.md:423 says only
  *other* consumers wait; the one that set the flag waits too, since
  `errors.Is` compares types.
- A `Close` of the cache that hangs blocks the handlers that still run, and with
  them a scenario whose client has no time-out (finding 1 reaches the client).
- A remembered absence is retried and then looked up in the database all the
  same (`logic.go:172`): its error has the type of a miss, where the README
  says that remembering a miss spares the store of record.
- A cached search answers without an employee that was invalidated
  (`memory.go:351`), where README.md:353 says it can never differ.
- `redis.go:87-88` takes each value of the scan for both field and time, so
  every flag and absence goes at the next tick, whatever its time to live;
  `redis.go:521` and `607` delete from the wrong hash; `redis.go:315` sets a
  time to live only at `Open`.
- The flag pruner ranges over maps that `memory.go:396`, `SleepWrite` and
  `Clear` change without its mutex.

## Proofs

`tlapm` checks every leaf. The theorems rest only on the named assumptions of
the modules: times to live are natural numbers, switches are booleans, employee
numbers are natural numbers, a search is a sequence of them and the empty search
is one, at least one try, an expiration of at least one tick, pruners that are
not clients, and, for the stash cache, numbers from 1 and searches for some of
them. `MemoryLocks` names which operations requests call, and that a goroutine
that serves requests neither prunes nor closes (`CallersAssumption`,
`RolesAssumption`): the handlers call the cache's methods, `Open` launches the
pruners, `Main` closes. `NamesAssumption` of `Scenario` only keeps the names of
model values apart.

Every safety property a run checks is a theorem, for every instance, and so is
every refinement.

`MemoryCache_proofs`, for any keys, contents and times to live:
- `CacheTypeCorrect` (no run repeats it), `ClaimsExcludeCached` (inductive with
  the types).
- `MembersNoOlder`: inductive with the types. A write stamps the search and
  every employee it lists with 0, and a tick keeps the order because both ages
  saturate at the same value.
- `PrunerSparesLiveSearches`: an action property that follows from the ages:
  an employee that is pruned is too old, so every search that lists it is.

`Logic_proofs`, for any processes, requests and contents:
- `ControlInv` is the type invariant strengthened by which request may be at
  which place (`Placed`) and what it then holds (`Holds`): at `fill` at least
  one employee, all of them asked for.
- `ServiceRefinesCache`: under `ControlInv` every step is a step of
  `MemoryCache` or leaves it alone, so `Spec => CacheSpec`, and the cache's
  invariants carry over to the service.
- `StaleOnlyIfPending`: `CoherenceInv` adds that a cache that is not enabled is
  empty. Per step: a mutation of a row makes its own request pending; a fill
  adds to `leaked` exactly what was overtaken; an invalidation removes the
  entry; the rest removes entries or touches no row.
- `SearchesListMatches`, `LogicTypeCorrect`, `CacheErrorsHidden`: `AnswerInv`
  bounds the tries and says every answer is from the store; it rests on
  `CacheErrorsAreRetried`, that `Retried` turns every error of the cache into
  one that is not.

`LogicRefinement_proofs`, for the same:
- `LogicImplementsReadThrough`: what `ReadThrough` calls `held` and `pending` is
  read off the place of a request and what it fetched, so most steps stutter:
  a query is `Fetch` or `Change`, a cache write `Fill`, an invalidation
  `Invalidate`. It needs `CoherenceInv` twice: a fill may put in the cache only
  what was fetched, and is counted in `leaked` exactly when the table has moved
  on; and an update that finds no row (`NotThere`) may leave the cache alone
  because the entry, if any, is a delete's to invalidate, or has leaked.

`MemoryLocks_proofs`, for any requests and closers and any of the pruners:
- `LocksTypeCorrect` (no run repeats it), `CachedMapsAreNotRaced`,
  `RequestsAreNotRaced`. Neither
  race freedom is inductive, since the state only has places in lists. The
  proof has two halves. `Exclusive` (no goroutine holds a mutex for writing
  while another holds it) is inductive because a goroutine comes to hold only
  what a step has just granted it. The other half is about the lists:
  `RequestsHold` and `PrunersHold` say that at any place where a map is touched
  the mutex that covers it has been taken, which is proved of each operation as
  the code has it. A request that holds the outer mutex only for reading
  changes flags of `inProgress` alone, and those under that mutex.
- `NobodyDeadlocks`: no set of goroutines waits in a circle for mutexes. `Rank`
  says by what a goroutine asks for how far it is from going on, and `RanksFall`
  that whoever it waits for has a lower one, so the lowest of any set waits for
  nobody in it. Readers, who hold `notFound` and ask for `inProgress`, and
  writers, who do the reverse, hold the outer mutex in ways that `Exclusive`
  keeps apart; a pruner asks for its mutex with nothing in its hands. What
  `Close` waits for besides, the pruners, is finding 1.
- `CloseStopsPruners`, from `Waited`: a `Close` past its wait, or back from it,
  leaves every pruner exited, and those stay so.

`Client_proofs`, for any clients, callers, employees and changes:
- `ClientTypeCorrect`, `ClientsReadForward`. `ReadsGoForward` speaks of an
  answer; what keeps it is an order of every copy of an employee there is.
  `Newest`: the row is at least as new as all of them. `CachedRecent`: an entry
  of the service that has not leaked is at least as new as what anyone has
  been told. `OwnRecent`: an entry of a client's cache that is not stained is
  as new as what this client knows. `ReadsRecent`: what a call carries, from
  the moment it began, is no older than what its client knew then.

`Scenario_proofs`, for any connections, timers, goroutines and scenarios:
- `NoUseAfterClose`, `AnswersAreNotLost`, `IdleReadsAreDefined`,
  `StopsOnlyItsOwn`, from `ServiceInv`. `MainInOrder` ties the place of `Main` to
  the listener and its connections: unless `Main` was hurried, nothing runs or
  can begin once it closes parts. `RequestsInOrder` says that a request that
  runs a timer finds its own where its index says, and that the last timer of
  every group was stopped or is run by a request; from this follows that an idle
  group can be read.
- `ScenarioTypeCorrect`, `CleansUp`, `ScenarioIsQuiet`,
  `ScenarioTimersAreStopped`, `SparesOthers`, from `ScenarioInv` beside it. Its
  parts say which goroutines call while the function is where, that whoever
  waits has a connection to itself, what the function has been told by how far
  it has come, and whose the employee's number is: the scenario's from its
  create to its first delete, and once it was told of a delete never again, since
  no create of its own can still be on its way. Unless its first delete was
  reported as failed, one delete at most is on its way and finds its own row.

`RedisCache_proofs`, for any workers and expiration:
- `RedisTypeCorrect`, `HoldersExclude`, `ScansAreCurrent`. Mutual exclusion is
  inductive with the types since `lost` is exact; that a scan is current needs
  it: only a holder of the mutex adds to the hash the pruner scans.

`StashCache_proofs`, for any requests, employees and searches:
- `StashTypeCorrect`: `StashInv` adds to the types what a request carries at
  each step.
- `StashImplementsReadThrough`: reading the store is stuttering, a query is
  `Fetch`, each employee written is `Fill`, or `Forget` if the store fails, a
  delete that failed unseen is `Abandon`. `StashInv` gives the
  domains that make `Record` and `Clear` a `Forget` and an `Evict` of every
  number; `Create` takes a number above every row's, so it is `Add`.
- `StoreWrongOnlyWhereExpected`: shown of the steps of `ReadThrough`, which those
  of the cache are. A change makes its own entry pending or leaked, and touches
  no other; a row that is added could only turn an entry wrong that was wrong
  before; what is written is right or counted as leaked; and what is no longer
  pending is out of the store, or leaked.

Only model-checked: everything about liveness (`ClaimsAreReleased`,
`NotFoundSearchesForgotten`, `AbsencesEndUnlessRecordedAgain`,
`TruncatedSearchesEnd`, `RequestsComplete`,
`StaleEntriesEnd`, `OperationsReturn`, `MutexRecovers`, `SignalsEnd`,
`ScenarioEnds`), which the prover does not do. Of the refinements, the theorems
cover the initial state and every step; the abstract specifications state no
fairness.

## Not modelled

- `CACHE_MAX_RETRIES=0`, which leaves only the library's fifteen minutes, and
  the `ExponentialBackOff` that all requests share.
- `CACHE_REDIS_MUTEX_EXPIRATION=0`, which makes a mutex that never expires, and
  `CACHE_REDIS_MUTEX_DISABLED`, where there is nothing to say of the mutex.
- `Close` of the Redis cache beside requests in `Lock`, which then return
  without the mutex; sleeps in Redis.
- Contents of the Redis hashes: `MemoryCache` and `Logic` cover what a cache
  does to coherence.
- Search by name or gender: the store looks only at employee numbers
  (`sql/execution.go:13-30`), and so do criteria here. `ToKey` is taken to be
  injective.
- The client's `EmployeesSearch`; replicas with a memory cache each, as
  `nginx.conf` sends reads and writes to: an invalidation reaches one of them.
- The calls of a scenario beside those of other programs, but for a create;
  opening its clients and their caches; two scenarios at once.
- Connection pools, HTTP, JSON, counters and logs. What go-stash does inside:
  any eviction and any failure stands for it.

## Plan

Done: every module above with its runs, and a proof of every safety property and
refinement they check. What is left:

1. A proof of what liveness rests on and that is itself safety: that an entry's
   age bounds how long a flag stays.
2. `Client`: searches. `RedisCache`: sleeps, `Close`, the mutex disabled.
3. That `MemoryLocks` justifies taking an operation of `MemoryCache` for one
   step, as a reduction argument over the two modules.

A project of a dozen runs stays readable and quick to check. Runs of new modules
take the place of findings that have been settled, and questions about one module
share a run where one instance shows them all.
