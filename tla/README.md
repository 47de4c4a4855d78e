# A verification of ConsoleCalculatorServer

TLA+ models of the calculator service, checked with TLC on small instances, and proofs
with TLAPS of its safety properties for every value of the constants. Paths are relative to
the repository (`src/`).

## 1. The system

| Part | State | Operations | Runs on |
|---|---|---|---|
| `OperationKey` | none | `make`: the text key of an operation, or an exception | any thread |
| `Checker`, `Abacus` | the request's `CalculatorData` | `check_arguments`, `calculate_result` | network threads |
| `CacheRepository` | `cache_`, text key to record | `put`, `warm_up`, `find` | storage thread |
| `PostgresRepository`, `PostgresConnection`, `PostgresResult` | table `operation_history`, one connection | `init_schema`, `load_history`, `save` | storage thread |
| `StorageService` | the two above | `initialize`, `find`, `save` | storage thread |
| `StorageWorker` (an `IOperationStorage`) | `jobs_`, `stopping_`, the thread, one promise per call | `start`, `stop`, `find`, `save`, `thread_main` | owner, network threads, storage thread |
| `RequestHandler` | none between requests | `handle` | network threads |
| `TcpJsonServer`, `Session` | `running_`, acceptor, io_context threads; socket and buffer per session | `start`, `stop`, accept, read, write | owner, network threads |
| `SignalHandler` | `running_`, the sigwait thread | `start`, `stop`, `thread_main` | owner, signal thread |
| `ServiceApplication` | `stopping` under a mutex | `run` | main thread |
| `ServerConfig` | fields with defaults | `from_file`, `from_environment_and_file`, `database_connection_string` | main thread |
| `Logger` | the spdlog logger | `init`, levels, `shutdown` | any thread |

A network thread reads a line and calls `handle`, which asks the storage for the
operation, answers from the cache when it can, and otherwise checks, calculates,
saves and answers. Every storage call is a job in the queue of the one storage
thread, and the calling thread waits for its future. The storage service answers
lookups from the cache alone; a save goes to the cache first and then to the
database. On start-up the cache is filled from the table.

What makes this hard: network threads interleave between their `find` and their
`save`; `stop()` races callers; notifications are sent outside the lock; the
database fails after the cache was changed, with or without having committed; a
broken connection is never reopened; the process dies and comes back with what
the table kept; handlers of one session move between network threads; signals come
while the service starts; starts fail half way and are unwound. `PROJECT.json` lists
these hazards with their lines and the properties that cover them.

## 2. Modules

| Module | Models | State and actions |
|---|---|---|
| `OperationKey` | `OperationKey::make` | Operators only. `Make` keeps a key as its parts, `Text` is the string. |
| `CacheRepository` | `CacheRepository` on texts | `cache`, and the last `lookup` for the properties; `Put`, `WarmUp`, `Find`. |
| `CalculatorCore` | `Checker`, `Abacus` | Operators on ints `MinInt .. MaxInt`. The arithmetic library is external: the exact result when it is an int, a status otherwise. |
| `StorageService` | `StorageService`, the repositories, the connection | `cache`, `history` (the table), `connected`, `faults`. A save succeeds (`InsertSucceeds`), is rejected, breaks the connection before or after the commit, or meets a broken connection. |
| `OperationStorage` | `IOperationStorage`, abstractly | `job`, `future`, `open`. An accepted call takes effect once, in one step (`Perform`). |
| `StorageWorker` | `StorageWorker` | The queue, the condition variable with its waiter, the promises and three kinds of thread. One step per critical section; notifications are steps of their own. |
| `RequestHandler` | `RequestHandler::handle` over `OperationStorage` | One step from one storage call to the next; `Crash` and `StartUp` end and restart the process. |
| `PostgresRepository` | the rows as text | `table`, what was `saved`, what was `loaded`; `InitSchema`, `Save`, `LoadHistory`. |
| `Repositories` | `StorageService` over both repositories, on texts | The state of the two and the `phase` of `initialize()`; save, find, the steps of a start, `Restart`. |
| `TcpJsonServer` | `TcpJsonServer`, `Session` | The owner's `start` and `stop`, the operations in progress (`pending`), the queue of due handlers (`ready`), what each network thread runs, and each client's lines: `sent`, `arrived` in the buffer, `taken` out of it, `received` answers. |
| `SignalHandler` | `SignalHandler` | `running_`, the sigwait thread, the owner, the mask and where a signal is pending. |
| `Logger` | `Logger` | Which file is open; `Create`, `Log`, `Shutdown`. |
| `ServiceApplication` | `ServiceApplication::run`, `main` | Instances of `Logger`, `SignalHandler`, `StorageWorker` and `TcpJsonServer`, and the main thread that starts, awaits and stops them. |
| `ServerConfig` | `ServerConfig` | File and environment, the fields, and what libpq reads out of the connection string; one step per line of the file. |
| `StorageServiceProofs`, `StorageWorkerProofs` | | The theorems on `StorageWorker`. |
| `RequestHandlerAnswers`, `RequestHandlerProofs` | | The theorems on `RequestHandler`. |
| `TcpJsonServerInvariant`, `TcpJsonServerSteps`, `TcpJsonServerProofs` | | The theorems on `TcpJsonServer`. |
| `ServiceApplicationProofs` | | The theorems on `ServiceApplication`. |
| `MC*` | | The constants of the runs. |

Composition: `RequestHandler` extends `OperationStorage`, so it is checked over the
abstract storage, and `StorageWorker` implements `OperationStorage` with
`open <- main = "running"` (checked and proved). Keys are handled as their parts
outside `Repositories`, which checks that the text identifies the parts up to the
intended equivalence, also after it has been in the table. `ServiceApplication` puts the real worker, server and signal
handler together: a network thread inside `handle` calls `StorageWorker` itself and
returns to its session with the answer; the handler's own logic is in
`RequestHandler`, here a request is up to `MaxCalls` storage calls.

Abstractions. Requests are records of an operation and a sequence of integers;
`Malformed` stands for every line `parse_request` rejects, and is answered
`INVALID_JSON`. Messages, ids, timings and logging are left out. An exception is
its error code. `enqueue` on a stopping worker throws and changes nothing: in
`StorageWorker` this is no step, in `RequestHandler` it is the second disjunct of
`CallStorage`, answered `INTERNAL_ERROR` since the exception is no
`CalculatorException` (inside the inner catch it is only logged). A thread
that cannot be created is `StartFails`, a connection that fails during start-up is
`WorkerInitFails`. Calls on the worker before
`start()` has returned are excluded (`MayCall`), as in `ServiceApplication::run`.

Boost.Asio is external: an operation completes when it can, its handler joins one
queue, and any network thread takes the oldest; `run()` returns when the context is
stopped, or has no guard and no work. A line is its length and its answer is its
number; pieces of a line are not seen, since `async_read_until` waits for the whole.
A session has no state of its own but the operation or handler that holds it. The
accept handler is two steps, so that `stop()` may come between its look at `running_`
and its next `do_accept`. `start()` of the server is called once, as in the
application and the tests (its io_context is never restarted). SIGINT and SIGTERM
are one signal. A signal before `pthread_sigmask` ends the process (`killed`).
Every step of a thread that may log does (`Log!Log`). In `ServerConfig` a name or
a number is one character; the text around it is read and escaped character by
character, because `ConnectionIsAsConfigured` is about just that. A number is the one
its text begins with, as `std::stoul` reads it (`65535x` is 65535), and a negative port
is refused since it wraps to a large one. `worker_threads` and `max_message_size` do
not occur negative in the run.

## 3. Runs

| Run | Instance | Result |
|---|---|---|
| `cache_keys` | operands -1, 1, 11; six names of operations; at most 2 saves, any number of restarts | `HitIsSameOperation`, `EquivalentOperationHits`; `LoadedIsSaved`, `SavedIsFound` through the table and back. Operands of one and two digits and both signs make texts such as `11--1`, `1-11`, `-1-11`. A start must load every record saved before it. Two entries are enough to confuse a lookup. |
| `storage_worker` | 2 callers; a find, a find whose key throws, a save; 1 database failure; start, failing starts and stop any number of times; both callers may wait at once | Types, `EveryCallHasOnePlace`, `NoStrandedCaller`, `NoLostWakeup`; `CallReturns`, `StopReturns`; `ImplementsInterface`. |
| `shared_operations` | 2 threads, ints -4..3; 1+2, 2+1, 1/0 and a malformed line; 2 database failures, 1 death | `AnswersAreRight`, `AcknowledgedIsStored`, `CacheCoversHistory`, `RowsNeverChange`, `StoredAsAnswered`. Two failures let the save of a result and the save of its error both fail. |
| `requests_are_answered` | 2 threads, 2 requests, 1 failure, 1 death | `EveryRequestIsAnswered`. |
| `every_operation` | 1 thread; all operations on -4, -1, 0, 2, with 0 to 3 operands and operands beyond int | `AnswersAreRight` from every cache of at most one entry (a state constraint; a lookup reads one entry, so more entries add nothing). |
| `tcp_server` | 2 threads, 2 clients that send 2 lines in all, at the limit or one above it; 1 lost connection or failed accept | `AnswersInOrder`, `RefusedOnlyTooLarge`, `OneOperationPerSession`, `AcceptLoopLives`; `HandledIsAnswered`, until the server is destroyed, which drops the writes in progress. Two lines of one client on two threads are the least that could change places; the other client keeps the accept loop busy. |
| `service` | 2 network threads, 1 client with a line, one storage call per request, no lost connection | `StorageOutlivesRequests`, `LogsToConfiguredFile`, `NoThreadOutlivesRun`, `EndsOnlyOnSignal`, through every failing start; `RequestsAreAnswered` through the whole chain, `SignalEndsService`, `FailedStartEndsService`. One thread is in a request while the other takes part in the stop, or exits before it. Lost connections, failed accepts, a second client and a second line are left to `tcp_server`. With one client only one thread at a time waits for the storage; all of them waiting at once are in `storage_worker` (`CallReturns`) and `requests_are_answered` (`EveryRequestIsAnswered`). |
| `configuration` | every quoted value of up to 2 characters among letter, blank, `=`, backslash and both quotes; up to 2 plain lines, ports with text after them, negative or too large among them; 54 environments | `FieldsAreAsConfigured`, `ConnectionIsAsConfigured`. An escape concerns one character and its neighbour, so two are enough. |
| `environment_overrides` | as `configuration` | violated, see below |
| `poisoned_cache` | as `shared_operations`, 1 failure | violated, see below |
| `lost_result` | as `shared_operations`, 1 failure | violated, see below |
| `missing_operand` | 1 thread; factorials of 0 and of nothing | violated, see below |

The threads are interchangeable, so the safety runs on two of them use their
permutations as symmetry (of the clients too where there are several); the liveness
runs do not. Deadlock is checked except where the program ends: the server that is
destroyed, the process that has exited, the configuration that has been read.

Fairness. `StorageWorker`: a thread that can go on does so (the scheduler), for the
storage thread, for a caller inside a call and for an owner inside `start()` or
`stop()`; nobody has to call, start or stop, and spurious wakeups are not obliged.
`RequestHandler`: network threads and the storage thread go on. This assumes that
libpq returns from every statement, with a result or an error.
`ServiceApplication`: the main, signal, storage and network threads run and the kernel
completes what can be completed; no client has to connect or send, and no signal has
to come. That `handle` returns is not assumed: it follows from the storage thread.

`TcpJsonServer` by itself is checked for safety only. That a session goes on after an
answer is the invariant `OneOperationPerSession`: one that is still served is always
in exactly one operation or handler. That every line of several clients is answered
in the end is not a run of its own; `RequestsAreAnswered` has one client and one line.

What the violated properties show:

1. `CachedErrorsAreCalculationErrors`: a save that fails is caught by the handler
   meant for failed calculations, which files `ERROR_STORAGE` under the key of a
   sound operation. It is answered from the cache from then on, as a
   "cached calculation error", and is stored when the second save succeeds.
2. `AcknowledgedResultIsStored`: with two threads, the second insert meets
   `ON CONFLICT DO NOTHING` over the first thread's error row and is logged as saved.
3. `MissingOperandIsRejected`: the cache is asked before the arguments are checked,
   and a missing operand is 0, so a factorial of nothing hits the factorial of 0.
   This needs a protocol parser that accepts an empty operand list; the parser is
   not in the repository.
4. `EnvironmentOverrides`: a `database_password` in the file silences
   `CC_DB_PASSWORD_FILE`, and a `database_connection_string` in the file silences
   `CC_DB_HOST` and the other database variables, although all are documented as overrides. Each field by itself is
   overridden (`FieldsAreAsConfigured`); it is `database_connection_string()` that
   then prefers the other field.

`AnswersAreRight` is stated to hold beside these: it allows `STORAGE_ERROR` only
after a failure of the database and the third case by name.

## 4. Proofs

The theorems hold for every value of the constants: any number of network threads,
clients, lines, requests and storage calls, any width of int, any number of database
failures, lost connections and restarts. The assumptions are the types of the
constants and that `None` is none of the values it stands beside (`CallersAssumption`,
`JobsAssumption`, `MaxFaultsAssumption`, `IntAssumption`, `RequestsAssumption`,
`NoneAssumption`, `MaxCrashesAssumption`, `SizesAssumption`, `ClientsAssumption`, and the
three of `ServiceApplication` that say the same of its parts). TLC evaluates them on
the runs. Nothing else is assumed; fairness is not used.

| Module | Theorems |
|---|---|
| `StorageWorkerProofs` | `TypeCorrect`, `OnePlace`, `NobodyStranded`, `NoWakeupLost`, and `Refinement`: the worker implements `OperationStorage` |
| `RequestHandlerProofs` | `TypeCorrect`, `RightAnswers`, `Acknowledged`, `Covered`, `ResultStored`, and `RowsPermanent`, an action property |
| `TcpJsonServerProofs` | `TypeCorrect`, `InOrder`, `RefusedRightly`, `OneAtATime`, `KeepsAccepting`, `NoAnswerDropped` |
| `ServiceApplicationProofs` | `UsesStorage`, `UsesServer`, `TypeCorrect`, `StorageOutlives`, `LogConfigured`, `NoThreadLeft`, `OnlyOnSignal` |

Together they state every safety property of the passing runs `storage_worker`,
`shared_operations`, `every_operation`, `tcp_server` and `service`. `PROJECT.json` says
which theorem states which property. Each rests on an inductive invariant `IInv`, with
one lemma per conjunct or per action that every step keeps it.

**Storage worker.** `IInv` is the types, `Lifecycle`, `Idle`, `EveryCallHasOnePlace` and
`NoLostWakeup`. `NoStrandedCaller` is not inductive by itself: a job may be pushed in
a state where the thread is about to leave unless the lifecycles of owner and thread
are tied (`Lifecycle`: calls are accepted only while the thread is in its loop) and the
thread outside its loop has no work (`Idle`). The refinement needs the invariant at two
steps: a call is accepted only while `main = "running"`, and the cache is loaded only
while no call is unanswered. `StorageServiceProofs` has the lemmas on keys and on
`find` and `save` that this proof and the next share.

**Request handler.** That an answer is right cannot be seen from the step that gives
it: the record it is read from may have been filed by another thread, for another
spelling of the operation, in an earlier life of the process. So `IInv` says where
records come from (`RecordsAreFiled`: every record of cache and table is what `handle`
files for some request, with the outcome of its calculation or, after a failure of the
database, `ERROR_STORAGE`), and what each thread's storage call is about
(`CallsAreAbout`). `RequestHandlerAnswers` proves that equal keys mean equal answers
(`SameKeySameAnswer`): two requests with the same key have the same exact result, because only commutative
operations exchange their operands (`Make`), and a key's symbol tells the operation; the
one exception is a factorial of nothing, whose key is that of 0. From it follows that a
cached answer is right for whoever finds it. `ResultStored` needs in addition that
without failures no error other than the calculation's own is filed, which is what the
`lost_result` run violates after one failure.

**Server.** `OneOperationPerSession` is not inductive: that a session is in one place
does not say what it may do next. `SessionInv` adds, for the operation in progress, the
due handler and the running one, how many lines have then been taken and answered;
`LinesInv` orders the four counters of a client and `LoopInv` says which operations may
be due or running at all. `TcpJsonServerInvariant` states them and proves types and
`LoopInv`; `TcpJsonServerSteps` has the lemmas on how a step moves an operation from
`pending` to `ready` to a thread, for any set of operations (so that sessions and the
accept loop share them), the owner's steps and those of clients and kernel;
`TcpJsonServerProofs` has the handlers and the theorems. A step concerns one session: for
the others it is enough that it puts nothing into their place and takes nothing out
(`Undisturbed`).

**Service.** `UsesStorage` and `UsesServer` (`Spec => Storage!Spec`, `Spec => Server!Spec`)
show that inside `run()` each part is used only as its own specification allows: every
step of the service is a step of the part or leaves it alone. The theorems of
`StorageWorkerProofs` and `TcpJsonServerProofs` are then taken over by instantiating
those modules with the variables of the service; what is needed of them is `PartsInv` (a
part has threads only between `start()` and the join, and the storage takes calls until
it is being stopped). `IInv` has what `run()` has started and stopped at each of its
places (`RunInv`), what the signal thread may be doing (`SignalInv`: only a signal from
outside lets it call back, as the one `stop()` sends finds `running_` clear), and that a
storage call belongs to a request in progress (`CallsInv`). `StorageOutlives` combines
the three: a handler runs only while the server is not over, and until then `RunInv` has
the storage running. `LogConfigured` needs that no thread is left when the log is shut
down, and so all of it.

Leaves that the first-order prover Zenon finds name it. The translation to SMT gets
slower with every obligation of a module, and the longer modules would run into its time
limit. For the same reason the two instances stand at the end of
`ServiceApplicationProofs`: every obligation below them carries their contents.

Only model-checked:

- `CallReturns`, `StopReturns`, `EveryRequestIsAnswered`, `RequestsAreAnswered`,
  `SignalEndsService`, `FailedStartEndsService`: liveness under fairness, which the prover
  does not handle.
- `HitIsSameOperation`, `EquivalentOperationHits`, `LoadedIsSaved`, `SavedIsFound`,
  `FieldsAreAsConfigured`, `ConnectionIsAsConfigured`: they are about texts read and built
  character by character, and would need induction over them.
- What `Power` and `Factorial` compute: `RightAnswers` shows that the handler answers the
  value of these recursive functions or an overflow, not that they are a power and a
  factorial.

## 5. Not modelled

- Parsing and serialising JSON, and the arithmetic library: other repositories.
- The in-memory storage: a map under a mutex, used by the tests only.
- The command line of `main`, the wording of messages and logs, spdlog's sinks.
- The containers, and of the systemd unit all but the restart.
- An overlap of two calls on the acceptor while the server stops (the posted close and
  a `do_accept`): undefined in the library; both orders are modelled.
- A second `start()` of a server. After a failed one it would return at once, since
  `running_` stays set; after `stop()` the io_context stays stopped. Nothing calls it.
- Growth of a session's buffer: the limit is applied to a line that has come whole.
- Numbers at the ends of a 32-bit int as text, which TLC's own integers cannot negate.
