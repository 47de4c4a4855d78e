------------------------- MODULE ServiceApplication -------------------------
(***************************************************************************)
(* ServiceApplication::run: the main thread starts the logger, the signal  *)
(* thread, the storage thread and the network threads, waits for a signal  *)
(* and stops them in its order; an exception while starting unwinds what   *)
(* was started.  The parts are their own modules.  A request that the      *)
(* network threads handle makes up to MaxCalls calls on the storage.       *)
(***************************************************************************)
EXTENDS Integers, Sequences, FiniteSets

CONSTANTS None, Threads, Clients, Sizes, MaxMessageSize, MaxLines, MaxLosses,
          Jobs, MaxFaults,
          MaxCalls    \* bound on the storage calls of one request

VARIABLES main,      \* where the main thread is in run()
          exitCode,  \* what main() will return
          shutdown,  \* stopping, the flag of run()
          raised,    \* a signal was sent
          calls,     \* storage calls of the request a network thread handles
          logger,
          signalRunning, signalThread, signalOwner, blocked, signals,
          cache, history, connected, faults, jobs, stopping, worker, current,
          initPromise, storageOwner, job, future, notifying,
          running, acceptor, guard, stopped, serverOwner, pending, ready, thread,
          client, sent, arrived, taken, received, losses

Log == INSTANCE Logger
Signals == INSTANCE SignalHandler
             WITH running <- signalRunning, thread <- signalThread, owner <- signalOwner
Storage == INSTANCE StorageWorker WITH Callers <- Threads, main <- storageOwner
Server == INSTANCE TcpJsonServer WITH owner <- serverOwner

\* What the parts assume, and that None is no log file.
ASSUME ServerAssumption ==
  /\ Sizes \subseteq Nat /\ MaxMessageSize \in Nat /\ MaxLines \in Nat
  /\ None \notin Clients /\ MaxLosses \in Nat
ASSUME StorageAssumption ==
  /\ MaxFaults \in Nat /\ None \notin Threads
  /\ Jobs \subseteq Storage!Job /\ None \notin Jobs /\ None \notin Storage!Result
ASSUME ServiceAssumption == MaxCalls \in Nat /\ None \notin {"default", "configured"}

runVars == <<main, exitCode, shutdown>>
signalVars == <<signalRunning, signalThread, signalOwner, blocked, signals>>
storageVars == <<cache, history, connected, faults, jobs, stopping, worker, current,
                 initPromise, storageOwner, job, future, notifying>>
serverVars == <<running, acceptor, guard, stopped, serverOwner, pending, ready, thread,
                client, sent, arrived, taken, received, losses>>
vars == <<runVars, raised, calls, logger, signalVars, storageVars, serverVars>>

Handling(t) == thread[t].op = "handle"

TypeOK ==
  /\ main \in {"begin", "starting", "waiting", "sleeping", "stopping", "returning",
               "exited", "killed"}
  /\ exitCode \in {0, 1} /\ shutdown \in BOOLEAN /\ raised \in BOOLEAN
  /\ calls \in [Threads -> 0 .. MaxCalls]
  /\ \A t \in Threads : job[t] # None => Handling(t)
  /\ Log!TypeOK /\ Signals!TypeOK /\ Storage!TypeOK /\ Server!TypeOK

Init ==
  /\ main = "begin" /\ exitCode = 0 /\ shutdown = FALSE /\ raised = FALSE
  /\ calls = [t \in Threads |-> 0]
  /\ Log!Init /\ Signals!Init /\ Storage!Init /\ Server!Init

-----------------------------------------------------------------------------
(* The main thread.  Throws leaves run() by an exception.                  *)

Proceed == UNCHANGED runVars
Throws == main' = "stopping" /\ exitCode' = 1 /\ UNCHANGED shutdown

\* Logger::init throws when the file cannot be opened.
LoggerInit ==
  /\ main = "begin"
  /\ \/ main' = "starting" /\ Log!Create("configured") /\ UNCHANGED exitCode
     \/ main' = "exited" /\ exitCode' = 1 /\ UNCHANGED logger
  /\ UNCHANGED <<shutdown, raised, calls, signalVars, storageVars, serverVars>>

SignalsStart ==
  /\ main = "starting"
  /\ (Signals!Start /\ Proceed) \/ (Signals!StartFails /\ Throws)
  /\ UNCHANGED <<raised, calls, logger, storageVars, serverVars>>

StorageStart ==
  /\ main = "starting" /\ signalOwner = "running" /\ storageOwner = "created"
  /\ (Storage!Start /\ Proceed) \/ (Storage!StartFails /\ Throws)
  /\ UNCHANGED <<raised, calls, logger, signalVars, serverVars>>

StorageStarted ==
  /\ Storage!StartReturns
  /\ IF storageOwner' = "failed" THEN Throws ELSE Proceed
  /\ UNCHANGED <<raised, calls, logger, signalVars, serverVars>>

ServerStart ==
  /\ main = "starting" /\ storageOwner = "running"
  /\ \/ Server!Start /\ main' = "waiting" /\ Log!Log /\ UNCHANGED <<exitCode, shutdown>>
     \/ Server!StartFails /\ Throws /\ UNCHANGED logger
  /\ UNCHANGED <<raised, calls, signalVars, storageVars>>

\* Mutant: condition.wait(lock) without the predicate.
Wait_NoPredicate ==
  /\ main = "waiting"
  /\ main' = "sleeping"
  /\ UNCHANGED <<exitCode, shutdown, raised, calls, logger, signalVars, storageVars, serverVars>>

\* condition.wait(lock, stopping)
Wait ==
  /\ main = "waiting"
  /\ main' = IF shutdown THEN "stopping" ELSE "sleeping"
  /\ UNCHANGED <<exitCode, shutdown, raised, calls, logger, signalVars, storageVars, serverVars>>

\* Mutant: the flag is not looked at after a wakeup.
SpuriousWakeup_NoRecheck ==
  /\ main = "sleeping" /\ main' = "stopping"
  /\ UNCHANGED <<exitCode, shutdown, raised, calls, logger, signalVars, storageVars, serverVars>>

SpuriousWakeup ==
  /\ main = "sleeping" /\ main' = "waiting"
  /\ UNCHANGED <<exitCode, shutdown, raised, calls, logger, signalVars, storageVars, serverVars>>

\* server.stop(); while unwinding the server is destroyed at once, else when
\* run() returns.
ServerStop ==
  /\ main = "stopping"
  /\ \/ (Server!Stop \/ Server!PostClose \/ Server!ReleaseGuard \/ Server!StopContext) /\ UNCHANGED logger
     \/ Server!Join /\ Log!Log
  /\ UNCHANGED <<runVars, raised, calls, signalVars, storageVars>>

ServerDestroy ==
  /\ main = "returning" \/ (main = "stopping" /\ exitCode = 1)
  /\ Server!Destroy
  /\ UNCHANGED <<runVars, raised, calls, logger, signalVars, storageVars>>

ServerIsOver == serverOwner \in {"created", "destroyed"} \/ (serverOwner = "stopped" /\ exitCode = 0)

\* Mutant: the storage is stopped before the server.
StorageStop_First ==
  /\ main = "stopping"
  /\ Storage!Stop \/ Storage!StopNotify \/ Storage!StopJoin
  /\ UNCHANGED <<runVars, raised, calls, logger, signalVars, serverVars>>

\* storage->stop()
StorageStop ==
  /\ main = "stopping" /\ ServerIsOver
  /\ Storage!Stop \/ Storage!StopNotify \/ Storage!StopJoin
  /\ UNCHANGED <<runVars, raised, calls, logger, signalVars, serverVars>>

StorageIsOver == storageOwner \in {"created", "stopped"}

\* signal_handler.stop()
SignalsStop ==
  /\ main = "stopping" /\ ServerIsOver /\ StorageIsOver
  /\ Signals!OwnerStops
  /\ UNCHANGED <<runVars, raised, calls, logger, storageVars, serverVars>>

\* Mutant: the log is closed before the signal thread has ended.
LoggerShutdown_Early ==
  /\ main = "stopping" /\ exitCode = 0 /\ ServerIsOver
  /\ logger # None
  /\ Log!Shutdown
  /\ UNCHANGED <<runVars, raised, calls, signalVars, storageVars, serverVars>>

\* The last message and Logger::shutdown; an exception leaves the log open.
LoggerShutdown ==
  /\ main = "stopping" /\ exitCode = 0 /\ signalOwner = "stopped"
  /\ main' = "returning"
  /\ Log!Shutdown
  /\ UNCHANGED <<exitCode, shutdown, raised, calls, signalVars, storageVars, serverVars>>

Return ==
  /\ \/ main = "returning" /\ serverOwner = "destroyed"
     \/ main = "stopping" /\ exitCode = 1 /\ signalOwner = "stopped"
  /\ main' = "exited"
  /\ UNCHANGED <<exitCode, shutdown, raised, calls, logger, signalVars, storageVars, serverVars>>

-----------------------------------------------------------------------------
(* The other threads, and the world.                                       *)

\* A signal ends a process that does not block it yet.
Raise ==
  /\ main \notin {"exited", "killed"}
  /\ raised' = TRUE
  /\ \/ Signals!Raise /\ UNCHANGED main
     \/ ~blocked /\ main' = "killed" /\ UNCHANGED signalVars
  /\ UNCHANGED <<exitCode, shutdown, calls, logger, storageVars, serverVars>>

SignalThread ==
  /\ \/ Signals!Thread /\ UNCHANGED <<main, shutdown, logger>>
     \/ Signals!Callback /\ Log!Log /\ shutdown' = TRUE /\ UNCHANGED main
     \/ /\ Signals!CallbackNotify
        /\ main' = IF main = "sleeping" THEN "waiting" ELSE main
        /\ UNCHANGED <<shutdown, logger>>
  /\ UNCHANGED <<exitCode, raised, calls, storageVars, serverVars>>

StorageThread ==
  /\ Storage!Worker /\ Log!Log
  /\ UNCHANGED <<runVars, raised, calls, signalVars, serverVars>>

\* handle() on a network thread: calls on the storage, then the answer.
HandleCalls(t) ==
  /\ Handling(t) /\ calls[t] < MaxCalls
  /\ \E j \in Jobs : Storage!Enqueue(t, j)
  /\ calls' = [calls EXCEPT ![t] = @ + 1]
  /\ UNCHANGED <<runVars, raised, logger, signalVars, serverVars>>

HandleWaits(t) ==
  /\ Storage!NotifyOne(t) \/ Storage!Return(t)
  /\ UNCHANGED <<runVars, raised, calls, logger, signalVars, serverVars>>

\* Mutant: the answer does not wait for the storage.
HandleReturns_Early(t) ==
  /\ Server!Handled(t) /\ Log!Log
  /\ calls' = [calls EXCEPT ![t] = 0]
  /\ UNCHANGED <<runVars, raised, signalVars, storageVars>>

HandleReturns(t) ==
  /\ job[t] = None
  /\ Server!Handled(t) /\ Log!Log
  /\ calls' = [calls EXCEPT ![t] = 0]
  /\ UNCHANGED <<runVars, raised, signalVars, storageVars>>

NetworkThread(t) ==
  /\ Server!Runs(t) /\ Log!Log
  /\ UNCHANGED <<runVars, raised, calls, signalVars, storageVars>>

World(c) ==
  /\ Server!AcceptFails \/ Server!Client(c)
  /\ UNCHANGED <<runVars, raised, calls, logger, signalVars, storageVars>>

Kernel(c) ==
  /\ Server!Completes(c)
  /\ UNCHANGED <<runVars, raised, calls, logger, signalVars, storageVars>>

-----------------------------------------------------------------------------
Main ==
  \/ LoggerInit \/ SignalsStart \/ StorageStart \/ StorageStarted \/ ServerStart \/ Wait
  \/ ServerStop \/ ServerDestroy \/ StorageStop \/ SignalsStop \/ LoggerShutdown \/ Return

Handle(t) == HandleCalls(t) \/ HandleWaits(t) \/ HandleReturns(t)

Next ==
  \/ Main \/ SpuriousWakeup \/ Raise \/ SignalThread \/ StorageThread
  \/ \E c \in Clients : World(c) \/ Kernel(c)
  \/ \E t \in Threads : Handle(t) \/ NetworkThread(t)

\* Every thread that can run does; nobody has to send anything, and no wakeup is
\* spurious by obligation.
Fairness ==
  /\ WF_vars(Main)
  /\ WF_vars(SignalThread) /\ WF_vars(worker # "waiting" /\ StorageThread)
  /\ \A t \in Threads : WF_vars(Handle(t) \/ NetworkThread(t))
  /\ \A c \in Clients : WF_vars(Kernel(c))

Spec == Init /\ [][Next]_vars
FairSpec == Spec /\ Fairness

-----------------------------------------------------------------------------
\* While a request is handled the storage takes calls: run() stops the server,
\* and with it the last handler, before the storage, also when start() failed.
StorageOutlivesRequests ==
  \A t \in Threads : Handling(t) => storageOwner = "running" /\ ~stopping

\* Every message goes to the configured file: none is written before
\* Logger::init or after Logger::shutdown, when logger() would truncate and
\* open the default one, without a lock.
LogsToConfiguredFile == logger # "default"

\* When run() is over no thread is left that could touch its locals: not the
\* signal thread with its callback, nor the storage or a network thread.
NoThreadOutlivesRun ==
  main = "exited" =>
    /\ signalThread \in {"none", "exited"} /\ worker \in {"none", "exited"}
    /\ \A t \in Threads : thread[t].op \in {"none", "exited"}

\* The service ends with success only when a signal asked for it.
EndsOnlyOnSignal == main = "exited" /\ exitCode = 0 => raised

\* A request sent to the service that runs is answered, through the network
\* threads, the storage thread and back, unless a signal comes.
RequestsAreAnswered ==
  \A c \in Clients : \A n \in 1 .. MaxLines :
    (main \in {"waiting", "sleeping"} /\ Len(sent[c]) >= n)
      ~> (Len(received[c]) >= n \/ client[c] \in {"gone", "refused"} \/ raised)

\* A signal ends the service, whenever it comes: while it starts, while it
\* waits, or while requests are in progress.
SignalEndsService == raised ~> (main \in {"exited", "killed"})

\* A failed start ends the service as well.
FailedStartEndsService == (exitCode = 1) ~> (main \in {"exited", "killed"})
=============================================================================
