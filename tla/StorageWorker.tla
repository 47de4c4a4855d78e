---------------------------- MODULE StorageWorker ---------------------------
(***************************************************************************)
(* Server::StorageWorker: any number of threads hand jobs to one storage   *)
(* thread through a queue under mutex_ and wait for a future each; the     *)
(* main thread starts and stops the storage thread.  A critical section of *)
(* mutex_ is one step.  condition_ is modelled with its wait set: push and *)
(* notify_one are two steps, and a wait may end spuriously.                *)
(***************************************************************************)
EXTENDS StorageService

CONSTANTS Callers,   \* threads that call find() and save()
          Jobs       \* the calls they make

VARIABLES jobs,         \* jobs_: the callers whose job is queued, oldest first
          stopping,     \* stopping_
          worker,       \* where thread_main is
          current,      \* the caller whose job the storage thread has taken
          initPromise,  \* init_promise of the running start()
          main,         \* where the thread that owns the worker is
          job,          \* the find() or save() a caller is in
          future,       \* what its promise was given
          notifying     \* callers between push_back and notify_one

queueVars == <<jobs, stopping, worker, current, initPromise, main, notifying>>
vars == <<serviceVars, queueVars, job, future>>

Job == [kind : {"find"}, lookup : Lookup] \cup [kind : {"save"}, record : OperationRecord]

ASSUME CallersAssumption == None \notin Callers
ASSUME JobsAssumption == Jobs \subseteq Job /\ None \notin Jobs /\ None \notin Result

TypeOK ==
  /\ ServiceTypeOK
  /\ jobs \in Seq(Callers)
  /\ stopping \in BOOLEAN
  /\ worker \in {"none", "init", "loop", "waiting", "running", "exited"}
  /\ current \in Callers \cup {None}
  /\ initPromise \in {"unset", "value", "exception"}
  /\ main \in {"created", "starting", "running", "failed", "stopping", "joining", "stopped"}
  /\ job \in [Callers -> Jobs \cup {None}]
  /\ future \in [Callers -> Result \cup {None}]
  /\ notifying \subseteq Callers

Init ==
  /\ ServiceInit
  /\ jobs = <<>> /\ stopping = FALSE
  /\ worker = "none" /\ current = None /\ initPromise = "unset"
  /\ main = "created"
  /\ job = [c \in Callers |-> None]
  /\ future = [c \in Callers |-> None]
  /\ notifying = {}

\* condition_.notify_one() or notify_all(): only the storage thread waits.
Notify == worker' = IF worker = "waiting" THEN "loop" ELSE worker

-----------------------------------------------------------------------------
(* The owning thread: start() and stop().                                  *)

\* start() up to init_future.get(): reset stopping_, create the thread.
Start ==
  /\ main \in {"created", "stopped"}
  /\ main' = "starting"
  /\ stopping' = FALSE
  /\ initPromise' = "unset"
  /\ worker' = "init"
  /\ UNCHANGED <<serviceVars, jobs, current, notifying, job, future>>

\* start() throws: std::thread cannot create the thread, and worker_ stays as
\* it was, not joinable.
StartFails ==
  /\ main \in {"created", "stopped"}
  /\ main' = "failed"
  /\ stopping' = FALSE
  /\ UNCHANGED <<serviceVars, jobs, worker, current, initPromise, notifying, job, future>>

\* init_future.get() returns, or rethrows what the storage thread threw.
StartReturns ==
  /\ main = "starting" /\ initPromise # "unset"
  /\ main' = IF initPromise = "value" THEN "running" ELSE "failed"
  /\ UNCHANGED <<serviceVars, jobs, stopping, worker, current, initPromise, notifying, job, future>>

\* stop(), called by the owner or, after a failed start(), by the destructor.
Stop ==
  /\ main \in {"running", "failed"}
  /\ main' = "stopping"
  /\ stopping' = TRUE
  /\ UNCHANGED <<serviceVars, jobs, worker, current, initPromise, notifying, job, future>>

\* Mutant: stop() notifies nobody.
StopNotify_Forgotten ==
  /\ main = "stopping"
  /\ main' = "joining"
  /\ UNCHANGED <<serviceVars, jobs, stopping, worker, current, initPromise, notifying, job, future>>

\* condition_.notify_all()
StopNotify ==
  /\ main = "stopping"
  /\ main' = "joining"
  /\ Notify
  /\ UNCHANGED <<serviceVars, jobs, stopping, current, initPromise, notifying, job, future>>

\* join, if there is a thread to join.
StopJoin ==
  /\ main = "joining" /\ worker \in {"none", "exited"}
  /\ main' = "stopped"
  /\ UNCHANGED <<serviceVars, jobs, stopping, worker, current, initPromise, notifying, job, future>>

-----------------------------------------------------------------------------
(* The calling threads: find() and save().                                 *)

\* Calls are made only once start() has returned: ServiceApplication::run
\* starts the network threads after it.
MayCall == main \in {"running", "stopping", "joining", "stopped"}

\* Mutant: enqueue() does not look at stopping_.
Enqueue_NoStopCheck(c, j) ==
  /\ MayCall
  /\ job[c] = None
  /\ job' = [job EXCEPT ![c] = j]
  /\ jobs' = Append(jobs, c)
  /\ notifying' = notifying \cup {c}
  /\ UNCHANGED <<serviceVars, stopping, worker, current, initPromise, main, future>>

\* enqueue() under the lock.  When stopping_ is set it throws and nothing
\* changes, so that case is no step.
Enqueue(c, j) ==
  /\ MayCall
  /\ job[c] = None
  /\ ~stopping
  /\ job' = [job EXCEPT ![c] = j]
  /\ jobs' = Append(jobs, c)
  /\ notifying' = notifying \cup {c}
  /\ UNCHANGED <<serviceVars, stopping, worker, current, initPromise, main, future>>

\* Mutant: enqueue() notifies nobody.
NotifyOne_Forgotten(c) ==
  /\ c \in notifying
  /\ notifying' = notifying \ {c}
  /\ UNCHANGED <<serviceVars, jobs, stopping, worker, current, initPromise, main, job, future>>

\* condition_.notify_one(), after the lock was released.
NotifyOne(c) ==
  /\ c \in notifying
  /\ notifying' = notifying \ {c}
  /\ Notify
  /\ UNCHANGED <<serviceVars, jobs, stopping, current, initPromise, main, job, future>>

\* future.get() returns or throws.
Return(c) ==
  /\ c \notin notifying
  /\ future[c] # None
  /\ job' = [job EXCEPT ![c] = None]
  /\ future' = [future EXCEPT ![c] = None]
  /\ UNCHANGED <<serviceVars, queueVars>>

-----------------------------------------------------------------------------
(* The storage thread: thread_main().                                      *)

WorkerInit ==
  /\ worker = "init"
  /\ Initialize
  /\ initPromise' = "value"
  /\ worker' = "loop"
  /\ UNCHANGED <<jobs, stopping, current, main, notifying, job, future>>

\* Connecting, creating the table or loading the rows throws: the outer catch.
WorkerInitFails ==
  /\ worker = "init"
  /\ initPromise' = "exception"
  /\ worker' = "exited"
  /\ UNCHANGED <<serviceVars, jobs, stopping, current, main, notifying, job, future>>

\* The predicate is false: the lock is released and the thread waits.
WorkerWait ==
  /\ worker = "loop" /\ jobs = <<>> /\ ~stopping
  /\ worker' = "waiting"
  /\ UNCHANGED <<serviceVars, jobs, stopping, current, initPromise, main, notifying, job, future>>

SpuriousWakeup ==
  /\ worker = "waiting"
  /\ worker' = "loop"
  /\ UNCHANGED <<serviceVars, jobs, stopping, current, initPromise, main, notifying, job, future>>

\* Mutant: the thread leaves as soon as stopping_ is set.
WorkerExit_NoDrain ==
  /\ worker = "loop" /\ stopping
  /\ worker' = "exited"
  /\ UNCHANGED <<serviceVars, jobs, stopping, current, initPromise, main, notifying, job, future>>

WorkerExit ==
  /\ worker = "loop" /\ jobs = <<>> /\ stopping
  /\ worker' = "exited"
  /\ UNCHANGED <<serviceVars, jobs, stopping, current, initPromise, main, notifying, job, future>>

\* Mutant: the job is copied from the front and stays in the queue.
TakeJob_NoPop ==
  /\ worker = "loop" /\ jobs # <<>>
  /\ current' = Head(jobs)
  /\ worker' = "running"
  /\ UNCHANGED <<serviceVars, jobs, stopping, initPromise, main, notifying, job, future>>

TakeJob ==
  /\ worker = "loop" /\ jobs # <<>>
  /\ current' = Head(jobs)
  /\ jobs' = Tail(jobs)
  /\ worker' = "running"
  /\ UNCHANGED <<serviceVars, stopping, initPromise, main, notifying, job, future>>

\* promise->set_value() and promise->set_exception()
SetValue(c, result) == future' = [future EXCEPT ![c] = result]
SetException(c, error) == future' = [future EXCEPT ![c] = Thrown(error)]

\* job(storage_service): the lambda of find() or save() fulfils its promise,
\* with the value or with the exception.
RunJob ==
  /\ worker = "running"
  /\ \/ /\ job[current].kind = "find"
        /\ SetValue(current, Find(job[current].lookup))
        /\ UNCHANGED serviceVars
     \/ /\ job[current].kind = "save"
        /\ InsertSucceeds(job[current].record)
        /\ SetValue(current, Returned(None))
     \/ /\ job[current].kind = "save"
        /\ SaveThrows(job[current].record)
        /\ SetException(current, "ERROR_STORAGE")
  /\ worker' = "loop"
  /\ current' = None
  /\ UNCHANGED <<jobs, stopping, initPromise, main, notifying, job>>

-----------------------------------------------------------------------------
Main == Start \/ StartFails \/ StartReturns \/ Stop \/ StopNotify \/ StopJoin

Caller(c) == (\E j \in Jobs : Enqueue(c, j)) \/ NotifyOne(c) \/ Return(c)

Worker ==
  \/ WorkerInit \/ WorkerInitFails
  \/ WorkerWait \/ SpuriousWakeup \/ WorkerExit
  \/ TakeJob \/ RunJob

Next == Main \/ (\E c \in Callers : Caller(c)) \/ Worker

\* Threads that can run do run; nobody has to start, stop or call, and no
\* wakeup is spurious by obligation.
Fairness ==
  /\ WF_vars(StartReturns \/ StopNotify \/ StopJoin)
  /\ \A c \in Callers : WF_vars(NotifyOne(c) \/ Return(c))
  /\ WF_vars(WorkerInit \/ WorkerInitFails \/ WorkerWait \/ WorkerExit \/ TakeJob \/ RunJob)

Spec == Init /\ [][Next]_vars
FairSpec == Spec /\ Fairness

-----------------------------------------------------------------------------
Unanswered(c) == job[c] # None /\ future[c] = None

Queued(c) == \E i \in 1 .. Len(jobs) : jobs[i] = c

\* No job is lost and none runs twice: a call without an outcome is queued, or
\* is the one being run, and is so once; no other call is.
EveryCallHasOnePlace ==
  /\ \A c \in Callers : Unanswered(c) <=> Queued(c) \/ current = c
  /\ \A i, j \in 1 .. Len(jobs) : jobs[i] = jobs[j] => i = j
  /\ \A i \in 1 .. Len(jobs) : jobs[i] # current

\* Once the storage thread has left, no caller is waiting for a job that will
\* never run: enqueue() and stop() exclude each other and the queue is drained
\* before the thread leaves (stop, enqueue, thread_main).
NoStrandedCaller == worker = "exited" => \A c \in Callers : ~Unanswered(c)

\* The storage thread sleeps beside work, or beside a stop, only while the
\* notification of it is still to come.
NoLostWakeup ==
  worker = "waiting" =>
    /\ jobs # <<>> => notifying # {} \/ main = "stopping"
    /\ stopping => main = "stopping"

\* Every find() and save() that was accepted returns, also across stop().
CallReturns == \A c \in Callers : (job[c] # None) ~> (job[c] = None)

\* stop() comes to its end: the join never waits for ever.
StopReturns == (main = "stopping") ~> (main = "stopped")

\* The worker implements the interface: accepted calls take effect once each,
\* in one step, and none is lost when the storage is closed.
Interface == INSTANCE OperationStorage WITH open <- main = "running"
ImplementsInterface ==
  Interface!StorageInit /\ [][Interface!StorageNext(Jobs)]_<<serviceVars, Interface!callVars>>
=============================================================================
