---------------------- MODULE ServiceApplicationProofs ----------------------
(***************************************************************************)
(* The service made of its parts: run() uses the storage worker and the    *)
(* server as their specifications allow, so that what is proved of each of *)
(* them holds inside the service; and it starts and stops them in an order *)
(* that keeps the storage for every request, the log file for every        *)
(* message, and leaves no thread behind.                                   *)
(***************************************************************************)
EXTENDS ServiceApplication, TLAPS

-----------------------------------------------------------------------------
(* The inductive invariant.  The properties speak of threads; what decides *)
(* them is how far run() has come with each part, so the invariant relates *)
(* the place of the main thread to the three owners.                       *)

RunTypes ==
  /\ main \in {"begin", "starting", "waiting", "sleeping", "stopping", "returning",
               "exited", "killed"}
  /\ exitCode \in {0, 1} /\ shutdown \in BOOLEAN /\ raised \in BOOLEAN
  /\ calls \in [Threads -> 0 .. MaxCalls]
  /\ Log!TypeOK /\ Signals!TypeOK

\* The signal thread is there only between start() and the join, and only a
\* signal makes it call back: the one stop() sends finds running_ clear.
SignalInv ==
  /\ signalOwner \in {"created", "failed"} => signalThread = "none"
  /\ signalOwner = "stopped" => signalThread \in {"none", "exited"}
  /\ signalOwner = "running" \/ signalThread # "none" => blocked
  /\ "thread" \in signals => signalOwner \notin {"created", "running", "failed"} /\ ~signalRunning
  /\ signalOwner \in {"killing", "joining", "stopped"} => ~signalRunning
  /\ "process" \in signals => raised
  /\ signalThread = "woken" /\ signalRunning => raised
  /\ signalThread \in {"clearing", "callback", "notify"} => raised
  /\ shutdown => raised

\* What has been started, and what has been stopped, at each place of run().
RunInv ==
  /\ main = "begin" =>
       /\ logger = None /\ exitCode = 0
       /\ signalOwner = "created" /\ storageOwner = "created" /\ serverOwner = "created"
  /\ main = "starting" =>
       /\ logger = "configured" /\ exitCode = 0 /\ serverOwner = "created"
       /\ signalOwner \in {"created", "running"}
       /\ storageOwner \in {"created", "starting", "running"}
       /\ storageOwner # "created" => signalOwner = "running"
  /\ main \in {"waiting", "sleeping"} =>
       /\ logger = "configured" /\ exitCode = 0
       /\ signalOwner = "running" /\ storageOwner = "running" /\ serverOwner = "running"
  /\ main = "stopping" =>
       /\ logger = "configured" /\ signalOwner # "created" /\ storageOwner # "starting"
       /\ ~ServerIsOver => storageOwner = "running"
       /\ ~ServerIsOver \/ ~StorageIsOver => signalOwner = "running"
       /\ exitCode = 0 => shutdown /\ serverOwner \notin {"created", "failed", "destroyed"}
  /\ main = "returning" =>
       /\ exitCode = 0 /\ shutdown /\ logger # "default"
       /\ serverOwner \in {"stopped", "destroyed"}
       /\ StorageIsOver /\ signalOwner = "stopped"
  /\ main = "exited" =>
       /\ logger # "default" /\ (exitCode = 0 => shutdown)
       /\ serverOwner \in {"created", "destroyed"} /\ StorageIsOver
       /\ signalOwner \in {"created", "stopped"}
  /\ main = "killed" =>
       /\ logger # "default" /\ signalThread = "none"
       /\ storageOwner = "created" /\ serverOwner = "created"
  /\ storageOwner # "created" \/ serverOwner # "created" => blocked

\* A call on the storage belongs to a request that is being handled.
CallsInv == \A t \in Threads : job[t] # None => Handling(t)

IInv == RunTypes /\ SignalInv /\ RunInv /\ CallsInv

\* What is needed of the storage: its types, that it has a thread only between
\* start() and the join, and that it takes calls until it is being stopped.
StoragePart ==
  /\ Storage!TypeOK
  /\ storageOwner \in {"created", "starting", "running", "failed", "stopping", "joining", "stopped"}
  /\ storageOwner = "created" => worker = "none"
  /\ storageOwner \in {"failed", "stopped"} => worker \in {"none", "exited"}
  /\ storageOwner = "running" => ~stopping

\* What is needed of the server: its types, and that it has threads only between
\* start() and the join.
ServerPart ==
  /\ Server!TypeOK
  /\ serverOwner \in {"created", "running", "failed", "stopping", "posted", "released", "joining",
                      "stopped", "destroyed"}
  /\ serverOwner = "created" => \A t \in Threads : thread[t].op = "none"
  /\ serverOwner \in {"stopped", "destroyed"} => \A t \in Threads : thread[t].op \in {"none", "exited"}

PartsInv == StoragePart /\ ServerPart

-----------------------------------------------------------------------------
(* Every step keeps the invariant.                                         *)

\* A thread that is there finds the log open: Logger::log creates nothing.
LEMMA LogIsOpen ==
  ASSUME IInv, PartsInv, Log!Log,
         \/ main \in {"starting", "waiting", "sleeping", "stopping"}
         \/ signalThread \notin {"none", "exited"}
         \/ worker \notin {"none", "exited"}
         \/ \E t \in Threads : thread[t].op \notin {"none", "exited"}
  PROVE  logger' = logger
<1>1. logger = "configured"
  BY DEF IInv, RunTypes, Signals!TypeOK, SignalInv, RunInv, StoragePart, ServerPart, PartsInv, StorageIsOver
<1> QED BY <1>1, ServiceAssumption DEF Log!Log, Log!Create

\* Where a network thread is when it runs a handler, or answers a request.
LEMMA NetworkPlaces ==
  ASSUME NEW t \in Threads
  PROVE  /\ HandleReturns(t) => thread[t].op = "handle"
         /\ NetworkThread(t) => thread[t].op = "idle" \/ thread[t].op = "accept"
  BY Zenon DEF HandleReturns, NetworkThread, Server!Handled, Server!Runs, Server!TakeAccept,
     Server!OnAccept, Server!OnRead, Server!OnWrite, Server!OnClose, Server!Exit, Server!Takes

\* The storage thread, the network threads, the clients and the kernel change
\* nothing that run() has done.
LEMMA OtherThreads ==
  ASSUME IInv, PartsInv,
         \/ StorageThread
         \/ \E c \in Clients : World(c) \/ Kernel(c)
         \/ \E t \in Threads : Handle(t) \/ NetworkThread(t)
  PROVE  UNCHANGED <<runVars, raised, logger, signalVars, storageOwner, serverOwner>>
<1>1. CASE StorageThread
  <2>1. worker \notin {"none", "exited"} /\ UNCHANGED storageOwner
    BY <1>1 DEF StorageThread, Storage!Worker, Storage!WorkerInit, Storage!WorkerInitFails,
       Storage!WorkerWait, Storage!SpuriousWakeup, Storage!WorkerExit, Storage!TakeJob, Storage!RunJob
  <2>2. logger' = logger
    BY <1>1, <2>1, LogIsOpen, Zenon DEF StorageThread
  <2> QED BY <1>1, <2>1, <2>2, Zenon DEF StorageThread, serverVars
<1>2. ASSUME NEW c \in Clients, World(c) \/ Kernel(c)
      PROVE  UNCHANGED <<runVars, raised, logger, signalVars, storageOwner, serverOwner>>
  <2>1. UNCHANGED serverOwner
    BY <1>2, Zenon DEF World, Kernel, Server!AcceptFails, Server!Client, Server!Connect, Server!Send,
       Server!Finish, Server!Lose, Server!Completes, Server!AcceptCompletes, Server!ReadCompletes,
       Server!ReadFails, Server!WriteCompletes, Server!Complete, Server!ownerVars
  <2> QED BY <1>2, <2>1, Zenon DEF World, Kernel, storageVars
<1>3. ASSUME NEW t \in Threads, HandleCalls(t) \/ HandleWaits(t)
      PROVE  UNCHANGED <<runVars, raised, logger, signalVars, storageOwner, serverOwner>>
  <2>1. UNCHANGED storageOwner
    BY <1>3, Zenon DEF HandleCalls, HandleWaits, Storage!Enqueue, Storage!NotifyOne, Storage!Return,
       Storage!queueVars
  <2> QED BY <1>3, <2>1, Zenon DEF HandleCalls, HandleWaits, serverVars
<1>4. ASSUME NEW t \in Threads, HandleReturns(t) \/ NetworkThread(t)
      PROVE  UNCHANGED <<runVars, raised, logger, signalVars, storageOwner, serverOwner>>
  <2>1. thread[t].op \notin {"none", "exited"}
    BY <1>4, NetworkPlaces
  <2>2. UNCHANGED serverOwner
    BY <1>4, Zenon DEF HandleReturns, NetworkThread, Server!Handled, Server!Runs, Server!TakeAccept,
       Server!OnAccept, Server!OnRead, Server!OnWrite, Server!OnClose, Server!Exit, Server!ownerVars
  <2>3. logger' = logger
    BY <1>4, <2>1, LogIsOpen, Zenon DEF HandleReturns, NetworkThread
  <2> QED BY <1>4, <2>2, <2>3, Zenon DEF HandleReturns, NetworkThread, storageVars
<1> QED BY <1>1, <1>2, <1>3, <1>4, Zenon DEF Handle

\* The types of what run() itself and the signal handler keep.
LEMMA TypesStep == ASSUME IInv, PartsInv, Next PROVE RunTypes'
<1>1. RunTypes
  BY Zenon DEF IInv
<1>2. main' \in {"begin", "starting", "waiting", "sleeping", "stopping", "returning", "exited", "killed"}
  BY <1>1, OtherThreads, Zenon
  DEF RunTypes, Next, Main, LoggerInit, SignalsStart, StorageStart, StorageStarted, ServerStart, Wait,
      ServerStop, ServerDestroy, StorageStop, SignalsStop, LoggerShutdown, Return, SpuriousWakeup, Raise,
      SignalThread, Proceed, Throws, runVars
<1>3. exitCode' \in {0, 1} /\ shutdown' \in BOOLEAN /\ raised' \in BOOLEAN
  BY <1>1, OtherThreads, Zenon
  DEF RunTypes, Next, Main, LoggerInit, SignalsStart, StorageStart, StorageStarted, ServerStart, Wait,
      ServerStop, ServerDestroy, StorageStop, SignalsStop, LoggerShutdown, Return, SpuriousWakeup, Raise,
      SignalThread, Proceed, Throws, runVars
<1>4. calls' \in [Threads -> 0 .. MaxCalls]
  <2>1. ASSUME NEW t \in Threads, HandleCalls(t) \/ HandleReturns(t)
        PROVE  calls' \in [Threads -> 0 .. MaxCalls]
    BY <1>1, <2>1, ServiceAssumption DEF RunTypes, HandleCalls, HandleReturns
  <2>2. CASE UNCHANGED calls
    BY <1>1, <2>2, Zenon DEF RunTypes
  <2> QED BY <2>1, <2>2, Zenon
      DEF Next, Main, LoggerInit, SignalsStart, StorageStart, StorageStarted, ServerStart, Wait,
          ServerStop, ServerDestroy, StorageStop, SignalsStop, LoggerShutdown, Return, SpuriousWakeup, Raise,
          SignalThread, StorageThread, World, Kernel, Handle, HandleWaits, NetworkThread
<1>5. Log!TypeOK'
  <2>1. logger' \in {logger, None, "default", "configured"}
    BY OtherThreads, Zenon
    DEF Next, Main, LoggerInit, SignalsStart, StorageStart, StorageStarted, ServerStart, Wait,
        ServerStop, ServerDestroy, StorageStop, SignalsStop, LoggerShutdown, Return, SpuriousWakeup, Raise,
        SignalThread, Log!Create, Log!Log, Log!Shutdown
  <2> QED BY <1>1, <2>1, Zenon DEF RunTypes, Log!TypeOK
<1>6. Signals!TypeOK'
  <2>1. CASE Signals!Start \/ Signals!StartFails \/ Signals!OwnerStops
    BY <1>1, <2>1, Zenon
    DEF RunTypes, Signals!TypeOK, Signals!Start, Signals!StartFails, Signals!OwnerStops, Signals!Stop,
        Signals!Kill, Signals!Join
  <2>2. CASE Signals!Thread \/ Signals!Callback \/ Signals!CallbackNotify \/ Signals!Raise
    BY <1>1, <2>2, Zenon
    DEF RunTypes, Signals!TypeOK, Signals!Thread, Signals!Loop, Signals!SigWait, Signals!Woken,
        Signals!Clear, Signals!Callback, Signals!CallbackNotify, Signals!Raise
  <2>3. CASE UNCHANGED signalVars
    BY <1>1, <2>3, Zenon DEF RunTypes, Signals!TypeOK, signalVars
  <2> QED BY <2>1, <2>2, <2>3, OtherThreads, Zenon
      DEF Next, Main, LoggerInit, SignalsStart, StorageStart, StorageStarted, ServerStart, Wait,
          ServerStop, ServerDestroy, StorageStop, SignalsStop, LoggerShutdown, Return, SpuriousWakeup, Raise,
          SignalThread
<1> QED BY <1>2, <1>3, <1>4, <1>5, <1>6, Zenon DEF RunTypes

\* SignalHandler: the main thread in start() and stop(), the signal thread and
\* whoever sends a signal keep SignalInv.
LEMMA SignalStep == ASSUME IInv, PartsInv, Next PROVE SignalInv'
<1>1. RunTypes /\ SignalInv /\ RunInv
  BY Zenon DEF IInv
<1>2. CASE SignalsStart \/ SignalsStop
  BY <1>1, <1>2
  DEF SignalInv, RunTypes, Signals!TypeOK, SignalsStart, SignalsStop, Signals!Start, Signals!StartFails,
      Signals!OwnerStops, Signals!Stop, Signals!Kill, Signals!Join, Proceed, Throws, runVars
<1>3. CASE SignalThread
  BY <1>1, <1>3
  DEF SignalInv, RunTypes, Signals!TypeOK, SignalThread, Signals!Thread, Signals!Loop, Signals!SigWait,
      Signals!Woken, Signals!Clear, Signals!Callback, Signals!CallbackNotify
<1>4. CASE Raise
  BY <1>1, <1>4 DEF SignalInv, Raise, Signals!Raise, signalVars
<1>5. CASE UNCHANGED <<signalVars, shutdown, raised>>
  BY <1>1, <1>5, Zenon DEF SignalInv, signalVars
<1> QED BY <1>2, <1>3, <1>4, <1>5, OtherThreads, Zenon
    DEF Next, Main, LoggerInit, StorageStart, StorageStarted, ServerStart, Wait, ServerStop, ServerDestroy,
        StorageStop, LoggerShutdown, Return, SpuriousWakeup, Proceed, Throws, runVars

\* ServiceApplication::run: each start, each stop, an exception on the way and a
\* signal that is not blocked yet keep RunInv.
LEMMA RunStep == ASSUME IInv, PartsInv, Next PROVE RunInv'
<1>1. RunTypes /\ SignalInv /\ RunInv
  BY Zenon DEF IInv
<1>2. CASE LoggerInit
  BY <1>1, <1>2, ServiceAssumption
  DEF RunInv, LoggerInit, Log!Create, signalVars, storageVars, serverVars, ServerIsOver, StorageIsOver
<1>3. CASE SignalsStart
  BY <1>1, <1>3
  DEF RunInv, SignalInv, SignalsStart, Signals!Start, Signals!StartFails, Proceed, Throws, runVars,
      storageVars, serverVars, ServerIsOver, StorageIsOver
<1>4. CASE StorageStart
  BY <1>1, <1>4
  DEF RunInv, SignalInv, StorageStart, Storage!Start, Storage!StartFails, Proceed, Throws, runVars, signalVars,
      serverVars, ServerIsOver, StorageIsOver
<1>5. CASE StorageStarted
  <2>1. /\ storageOwner = "starting" /\ storageOwner' \in {"running", "failed"}
        /\ IF storageOwner' = "failed" THEN main' = "stopping" /\ exitCode' = 1
                                      ELSE UNCHANGED <<main, exitCode, shutdown>>
    BY <1>5 DEF StorageStarted, Storage!StartReturns, Proceed, Throws, runVars
  <2>2. main = "starting"
    BY <1>1, <2>1 DEF RunTypes, RunInv, StorageIsOver
  <2> QED BY <1>1, <1>5, <2>1, <2>2
      DEF RunInv, StorageStarted, signalVars, serverVars, ServerIsOver, StorageIsOver
<1>6. CASE ServerStart
  <2>1. logger' = logger
    BY <1>6, LogIsOpen, Zenon DEF ServerStart
  <2>2. (serverOwner' = "running" /\ main' = "waiting" /\ UNCHANGED <<exitCode, shutdown>>)
        \/ (serverOwner' = "failed" /\ main' = "stopping" /\ exitCode' = 1)
    BY <1>6, Zenon DEF ServerStart, Server!Start, Server!StartFails, Throws
  <2> QED BY <1>1, <1>6, <2>1, <2>2
      DEF RunInv, ServerStart, signalVars, storageVars, ServerIsOver, StorageIsOver
<1>7. CASE Wait \/ SpuriousWakeup
  BY <1>1, <1>7
  DEF RunInv, Wait, SpuriousWakeup, signalVars, storageVars, serverVars, ServerIsOver, StorageIsOver
<1>8. CASE ServerStop
  <2>1. logger' = logger
    BY <1>8, LogIsOpen, Zenon DEF ServerStop
  <2>2. /\ serverOwner \in {"running", "failed", "stopping", "posted", "released", "joining"}
        /\ serverOwner' \in {"stopping", "posted", "released", "joining", "stopped"}
    BY <1>8, Zenon DEF ServerStop, Server!Stop, Server!PostClose, Server!ReleaseGuard, Server!StopContext,
       Server!Join
  <2> QED BY <1>1, <1>8, <2>1, <2>2
      DEF RunInv, ServerStop, runVars, signalVars, storageVars, ServerIsOver, StorageIsOver
<1>9. CASE ServerDestroy
  <2>1. serverOwner = "stopped" /\ serverOwner' = "destroyed"
    BY <1>9, Zenon DEF ServerDestroy, Server!Destroy
  <2> QED BY <1>1, <1>9, <2>1
      DEF RunInv, ServerDestroy, runVars, signalVars, storageVars, ServerIsOver, StorageIsOver
<1>10. CASE StorageStop
  <2>1. /\ storageOwner \in {"running", "failed", "stopping", "joining"}
        /\ storageOwner' \in {"stopping", "joining", "stopped"}
    BY <1>10, Zenon DEF StorageStop, Storage!Stop, Storage!StopNotify, Storage!StopJoin
  <2> QED BY <1>1, <1>10, <2>1
      DEF RunInv, StorageStop, runVars, signalVars, serverVars, ServerIsOver, StorageIsOver
<1>11. CASE SignalsStop
  BY <1>1, <1>11
  DEF RunInv, SignalsStop, Signals!OwnerStops, Signals!Stop, Signals!Kill, Signals!Join, runVars, storageVars,
      serverVars, ServerIsOver, StorageIsOver
<1>12. CASE LoggerShutdown
  BY <1>1, <1>12, ServiceAssumption
  DEF RunInv, LoggerShutdown, Log!Shutdown, signalVars, storageVars, serverVars, ServerIsOver, StorageIsOver
<1>13. CASE Return
  BY <1>1, <1>13
  DEF RunInv, RunTypes, Return, signalVars, storageVars, serverVars, ServerIsOver, StorageIsOver
<1>14. CASE Raise
  <2>1. /\ UNCHANGED <<exitCode, shutdown, logger, storageOwner, serverOwner, signalOwner, signalThread, blocked>>
        /\ main' = main \/ (~blocked /\ main' = "killed" /\ main \notin {"exited", "killed"})
    BY <1>14, Zenon DEF Raise, Signals!Raise, signalVars, storageVars, serverVars
  <2> QED BY <1>1, <2>1, ServiceAssumption DEF RunInv, RunTypes, SignalInv, ServerIsOver, StorageIsOver
<1>15. CASE SignalThread
  <2>1. logger' = logger
    BY <1>15, LogIsOpen DEF SignalThread, Signals!Callback
  <2>2. /\ UNCHANGED <<exitCode, storageOwner, serverOwner, signalOwner, blocked>>
        /\ shutdown => shutdown'
        /\ main' = main \/ (main = "sleeping" /\ main' = "waiting")
        /\ signalThread # "none"
    BY <1>15 DEF SignalThread, Signals!Thread, Signals!Loop, Signals!SigWait, Signals!Woken, Signals!Clear,
       Signals!Callback, Signals!CallbackNotify, storageVars, serverVars
  <2> QED BY <1>1, <2>1, <2>2 DEF RunInv, ServerIsOver, StorageIsOver
<1>16. CASE UNCHANGED <<runVars, raised, logger, signalVars, storageOwner, serverOwner>>
  BY <1>1, <1>16, Zenon DEF RunInv, runVars, signalVars, ServerIsOver, StorageIsOver
<1> QED BY <1>2, <1>3, <1>4, <1>5, <1>6, <1>7, <1>8, <1>9, <1>10, <1>11, <1>12, <1>13, <1>14, <1>15, <1>16,
           OtherThreads, Zenon DEF Next, Main

\* A request makes its calls on the storage one after the other, and its answer
\* is written when the last has returned.
LEMMA CallsStep == ASSUME IInv, PartsInv, Next PROVE CallsInv'
<1> SUFFICES ASSUME NEW u \in Threads, job'[u] # None PROVE thread'[u].op = "handle"
  BY Zenon DEF CallsInv, Handling
<1>1. job[u] # None => thread[u].op = "handle"
  BY Zenon DEF IInv, CallsInv, Handling
<1>2. job \in [Threads -> Jobs \cup {None}] /\ thread \in [Threads -> Server!Operations]
  BY Zenon DEF PartsInv, StoragePart, ServerPart, Storage!TypeOK, Server!TypeOK
<1>3. CASE UNCHANGED <<job, thread>>
  BY <1>1, <1>3, Zenon
<1>4. CASE ServerStart
  <2>1. thread[u].op = "none" /\ UNCHANGED job
    BY <1>4, Zenon DEF ServerStart, Server!Start, Server!StartFails, StoragePart, ServerPart, PartsInv, storageVars
  <2> QED BY <1>1, <2>1
<1>5. ASSUME NEW t \in Threads, HandleCalls(t) PROVE thread'[u].op = "handle"
  <2>1. thread[t].op = "handle" /\ UNCHANGED thread /\ (u # t => job'[u] = job[u])
    BY <1>2, <1>5, Zenon DEF HandleCalls, Handling, Storage!Enqueue, serverVars
  <2> QED BY <1>1, <2>1, Zenon
<1>6. ASSUME NEW t \in Threads, HandleWaits(t) PROVE thread'[u].op = "handle"
  <2>1. UNCHANGED thread /\ job' \in {job, [job EXCEPT ![t] = None]}
    BY <1>6, Zenon DEF HandleWaits, Storage!NotifyOne, Storage!Return, serverVars
  <2>2. job[u] # None
    BY <1>2, <2>1, Zenon
  <2> QED BY <1>1, <2>1, <2>2, Zenon
<1>7. ASSUME NEW t \in Threads, HandleReturns(t) \/ NetworkThread(t) PROVE thread'[u].op = "handle"
  <2>1. UNCHANGED job /\ job[u] # None
    BY <1>7, Zenon DEF HandleReturns, NetworkThread, storageVars
  <2>2. t # u
    BY <1>1, <1>7, <2>1, NetworkPlaces DEF HandleReturns
  <2>3. UNCHANGED thread \/ \E h : thread' = [thread EXCEPT ![t] = h]
    BY <1>7, Zenon
    DEF HandleReturns, NetworkThread, Server!Handled, Server!Runs, Server!TakeAccept, Server!OnAccept,
        Server!OnRead, Server!OnWrite, Server!OnClose, Server!Exit, Server!clientVars
  <2> QED BY <1>1, <1>2, <2>1, <2>2, <2>3, Zenon
<1>8. CASE StorageThread
  BY <1>3, <1>8, Zenon
  DEF StorageThread, Storage!Worker, Storage!WorkerInit, Storage!WorkerInitFails, Storage!WorkerWait,
      Storage!SpuriousWakeup, Storage!WorkerExit, Storage!TakeJob, Storage!RunJob, serverVars
<1>9. ASSUME NEW c \in Clients, World(c) \/ Kernel(c) PROVE UNCHANGED <<job, thread>>
  BY <1>9, Zenon
  DEF World, Kernel, Server!AcceptFails, Server!Client, Server!Connect, Server!Send, Server!Finish,
      Server!Lose, Server!Completes, Server!AcceptCompletes, Server!ReadCompletes, Server!ReadFails,
      Server!WriteCompletes, Server!Complete, Server!loopVars, storageVars
<1>10. CASE ServerStop \/ ServerDestroy
  BY <1>3, <1>10, Zenon
  DEF ServerStop, ServerDestroy, Server!Stop, Server!PostClose, Server!ReleaseGuard, Server!StopContext,
      Server!Join, Server!Destroy, Server!loopVars, storageVars
<1>11. CASE StorageStart \/ StorageStarted \/ StorageStop
  BY <1>3, <1>11, Zenon
  DEF StorageStart, StorageStarted, StorageStop, Storage!Start, Storage!StartFails, Storage!StartReturns,
      Storage!Stop, Storage!StopNotify, Storage!StopJoin, serverVars
<1>12. CASE LoggerInit \/ SignalsStart \/ Wait \/ SignalsStop \/ LoggerShutdown \/ Return \/ SpuriousWakeup
            \/ Raise \/ SignalThread
  BY <1>3, <1>12, Zenon
  DEF LoggerInit, SignalsStart, Wait, SignalsStop, LoggerShutdown, Return, SpuriousWakeup, Raise,
      SignalThread, storageVars, serverVars
<1> QED BY <1>3, <1>4, <1>5, <1>6, <1>7, <1>8, <1>9, <1>10, <1>11, <1>12, Zenon DEF Next, Main, Handle

\* The state run() begins in satisfies the invariant.
LEMMA InitIInv == Init => IInv
<1> SUFFICES ASSUME Init PROVE IInv
  BY Zenon
<1>1. RunTypes
  <2>1. calls \in [Threads -> 0 .. MaxCalls]
    BY ServiceAssumption DEF Init
  <2> QED BY <2>1, Zenon DEF Init, RunTypes, Log!Init, Log!TypeOK, Signals!Init, Signals!TypeOK
<1>2. SignalInv
  BY DEF Init, SignalInv, Signals!Init
<1>3. RunInv
  BY DEF Init, RunInv, Log!Init, Signals!Init, Storage!Init, Server!Init
<1>4. CallsInv
  BY Zenon DEF Init, CallsInv, Storage!Init
<1> QED BY <1>1, <1>2, <1>3, <1>4, Zenon DEF IInv

\* Every step of the service keeps it, given what is proved of the parts.
LEMMA NextIInv == IInv /\ PartsInv /\ [Next]_vars => IInv'
<1> SUFFICES ASSUME IInv, PartsInv, [Next]_vars PROVE IInv'
  BY Zenon
<1>1. CASE Next
  BY <1>1, TypesStep, SignalStep, RunStep, CallsStep, Zenon DEF IInv
<1>2. CASE UNCHANGED vars
  <2>1. UNCHANGED <<runVars, raised, calls, logger, signalVars, storageVars, serverVars>>
    BY <1>2, Zenon DEF vars
  <2>2. RunTypes'
    <3>1. (Log!TypeOK /\ Signals!TypeOK)'
      BY <2>1, Zenon DEF IInv, RunTypes, Log!TypeOK, Signals!TypeOK, signalVars
    <3>2. /\ main' = main /\ exitCode' = exitCode /\ shutdown' = shutdown
          /\ raised' = raised /\ calls' = calls
      BY <2>1, Zenon DEF runVars
    <3> QED BY <3>1, <3>2, Zenon DEF IInv, RunTypes
  <2>3. SignalInv'
    BY <2>1, Zenon DEF IInv, SignalInv, runVars, signalVars
  <2>4. RunInv'
    BY <2>1, Zenon
    DEF IInv, RunInv, ServerIsOver, StorageIsOver, runVars, signalVars, storageVars, serverVars
  <2>5. CallsInv'
    BY <2>1, Zenon DEF IInv, CallsInv, Handling, storageVars, serverVars
  <2> QED BY <2>2, <2>3, <2>4, <2>5, Zenon DEF IInv
<1> QED BY <1>1, <1>2, Zenon

\* At every place of run() the invariant gives what run() promises.
LEMMA Promised ==
  ASSUME IInv, PartsInv
  PROVE  TypeOK /\ StorageOutlivesRequests /\ LogsToConfiguredFile /\ NoThreadOutlivesRun /\ EndsOnlyOnSignal
<1>1. TypeOK
  BY Zenon DEF IInv, RunTypes, CallsInv, PartsInv, StoragePart, ServerPart, TypeOK
<1>2. StorageOutlivesRequests
  <2> SUFFICES ASSUME NEW t \in Threads, Handling(t) PROVE storageOwner = "running" /\ ~stopping
    BY Zenon DEF StorageOutlivesRequests
  <2>1. serverOwner \notin {"created", "stopped", "destroyed"}
    BY DEF PartsInv, ServerPart, Handling
  <2> QED BY <2>1 DEF IInv, RunTypes, RunInv, PartsInv, StoragePart, ServerIsOver
<1>3. LogsToConfiguredFile
  BY ServiceAssumption DEF IInv, RunTypes, RunInv, LogsToConfiguredFile
<1>4. NoThreadOutlivesRun
  BY DEF IInv, SignalInv, RunInv, PartsInv, StoragePart, ServerPart, StorageIsOver, NoThreadOutlivesRun
<1>5. EndsOnlyOnSignal
  BY DEF IInv, SignalInv, RunInv, EndsOnlyOnSignal
<1> QED BY <1>1, <1>2, <1>3, <1>4, <1>5, Zenon

-----------------------------------------------------------------------------
(* run() uses the parts as they are specified.                             *)

\* Of the storage worker run() makes start(), stop() and, from the network
\* threads, find() and save(), and lets its thread run: nothing else.
LEMMA StorageStep == [Next]_vars => [Storage!Next]_(Storage!vars)
<1> SUFFICES ASSUME [Next]_vars PROVE Storage!Next \/ UNCHANGED Storage!vars
  BY Zenon
<1>1. UNCHANGED storageVars => UNCHANGED Storage!vars
  BY Zenon DEF storageVars, Storage!vars, Storage!serviceVars, Storage!queueVars
<1>2. CASE StorageStart \/ StorageStarted \/ StorageStop
  BY <1>2, Zenon DEF StorageStart, StorageStarted, StorageStop, Storage!Next, Storage!Main
<1>3. CASE StorageThread
  BY <1>3, Zenon DEF StorageThread, Storage!Next
<1>4. ASSUME NEW t \in Threads, HandleCalls(t) \/ HandleWaits(t) PROVE Storage!Next
  BY <1>4, Zenon DEF HandleCalls, HandleWaits, Storage!Next, Storage!Caller
<1>5. ASSUME NEW t \in Threads, HandleReturns(t) \/ NetworkThread(t) PROVE UNCHANGED storageVars
  BY <1>5, Zenon DEF HandleReturns, NetworkThread
<1>6. ASSUME NEW c \in Clients, World(c) \/ Kernel(c) PROVE UNCHANGED storageVars
  BY <1>6, Zenon DEF World, Kernel
<1>7. CASE LoggerInit \/ SignalsStart \/ ServerStart \/ Wait \/ ServerStop \/ ServerDestroy \/ SignalsStop
           \/ LoggerShutdown \/ Return \/ SpuriousWakeup \/ Raise \/ SignalThread
  BY <1>1, <1>7, Zenon DEF LoggerInit, SignalsStart, ServerStart, Wait, ServerStop, ServerDestroy,
     SignalsStop, LoggerShutdown, Return, SpuriousWakeup, Raise, SignalThread
<1>8. CASE UNCHANGED vars
  BY <1>1, <1>8, Zenon DEF vars
<1> QED BY <1>1, <1>2, <1>3, <1>4, <1>5, <1>6, <1>7, <1>8, Zenon DEF Next, Main, Handle

\* Of the server it makes start() and stop(); the rest are the steps of the
\* network threads, the clients and the operating system.
LEMMA ServerStep == [Next]_vars => [Server!Next]_(Server!vars)
<1> SUFFICES ASSUME [Next]_vars PROVE Server!Next \/ UNCHANGED Server!vars
  BY Zenon
<1>1. UNCHANGED serverVars => UNCHANGED Server!vars
  BY Zenon DEF serverVars, Server!vars, Server!ownerVars, Server!loopVars, Server!clientVars
<1>2. CASE ServerStart \/ ServerStop \/ ServerDestroy
  BY <1>2, Zenon DEF ServerStart, ServerStop, ServerDestroy, Server!Next, Server!OwnerStops
<1>3. ASSUME NEW t \in Threads, HandleReturns(t) \/ NetworkThread(t) PROVE Server!Next
  BY <1>3, Zenon DEF HandleReturns, NetworkThread, Server!Next
<1>4. ASSUME NEW t \in Threads, HandleCalls(t) \/ HandleWaits(t) PROVE UNCHANGED serverVars
  BY <1>4, Zenon DEF HandleCalls, HandleWaits
<1>5. ASSUME NEW c \in Clients, World(c) \/ Kernel(c) PROVE Server!Next
  BY <1>5, Zenon DEF World, Kernel, Server!Next
<1>6. CASE LoggerInit \/ SignalsStart \/ StorageStart \/ StorageStarted \/ Wait \/ StorageStop \/ SignalsStop
           \/ LoggerShutdown \/ Return \/ SpuriousWakeup \/ Raise \/ SignalThread \/ StorageThread
  BY <1>1, <1>6, Zenon DEF LoggerInit, SignalsStart, StorageStart, StorageStarted, Wait, StorageStop,
     SignalsStop, LoggerShutdown, Return, SpuriousWakeup, Raise, SignalThread, StorageThread
<1>7. CASE UNCHANGED vars
  BY <1>1, <1>7, Zenon DEF vars
<1> QED BY <1>1, <1>2, <1>3, <1>4, <1>5, <1>6, <1>7, Zenon DEF Next, Main, Handle

\* ServiceApplication::run uses the storage worker as StorageWorker allows: seen
\* from the worker, the service is one of the programs that may use it.
THEOREM UsesStorage == Spec => Storage!Spec
<1>1. Init => Storage!Init
  BY Zenon DEF Init
<1> QED BY <1>1, StorageStep, PTL DEF Spec, Storage!Spec

\* It uses the server as TcpJsonServer allows, with a request handler that calls
\* the storage between the request and its answer.
THEOREM UsesServer == Spec => Server!Spec
<1>1. Init => Server!Init
  BY Zenon DEF Init
<1> QED BY <1>1, ServerStep, PTL DEF Spec, Server!Spec

\* StorageWorkerProofs about the storage worker of the service.
StorageProofs == INSTANCE StorageWorkerProofs WITH Callers <- Threads, main <- storageOwner

\* The storage worker inside the service is the one StorageWorkerProofs is about:
\* the same constants and variables, under the names they have in run().
LEMMA SameStorage ==
  /\ Storage!Init => StorageProofs!Init
  /\ Storage!Next \/ UNCHANGED Storage!vars => StorageProofs!Next \/ UNCHANGED StorageProofs!vars
<1>1. Storage!Init => StorageProofs!Init
  BY Zenon DEF Storage!Init, StorageProofs!Init, Storage!ServiceInit, StorageProofs!ServiceInit,
     Storage!Empty, StorageProofs!Empty
<1>2. Storage!Main => StorageProofs!Main
  BY Zenon DEF Storage!Main, StorageProofs!Main, Storage!Start, StorageProofs!Start,
     Storage!StartFails, StorageProofs!StartFails, Storage!StartReturns, StorageProofs!StartReturns, Storage!Stop, StorageProofs!Stop,
     Storage!StopNotify, StorageProofs!StopNotify, Storage!StopJoin,
     StorageProofs!StopJoin, Storage!Notify, StorageProofs!Notify, Storage!serviceVars,
     StorageProofs!serviceVars
<1>3. ASSUME NEW t, Storage!Caller(t) PROVE StorageProofs!Caller(t)
  BY <1>3, Zenon DEF Storage!Caller, StorageProofs!Caller, Storage!Enqueue, StorageProofs!Enqueue,
     Storage!NotifyOne, StorageProofs!NotifyOne, Storage!Return, StorageProofs!Return,
     Storage!Notify, StorageProofs!Notify, Storage!MayCall, StorageProofs!MayCall,
     Storage!serviceVars, StorageProofs!serviceVars, Storage!queueVars,
     StorageProofs!queueVars
<1>4. ASSUME NEW l PROVE Storage!Find(l) = StorageProofs!Find(l)
  <2>1. Storage!MakeError(l) = StorageProofs!MakeError(l)
    BY Zenon DEF Storage!MakeError, StorageProofs!MakeError, Storage!IsFactorial,
       StorageProofs!IsFactorial, Storage!Symbols, StorageProofs!Symbols
  <2>2. Storage!Make(l) = StorageProofs!Make(l)
    BY Zenon DEF Storage!Make, StorageProofs!Make, Storage!IsFactorial, StorageProofs!IsFactorial,
       Storage!Swapped, StorageProofs!Swapped, Storage!IsCommutative,
       StorageProofs!IsCommutative, Storage!SymbolFor, StorageProofs!SymbolFor,
       Storage!Symbols, StorageProofs!Symbols
  <2> QED BY <2>1, <2>2, Zenon DEF Storage!Find, StorageProofs!Find, Storage!Thrown, StorageProofs!Thrown,
             Storage!Returned, StorageProofs!Returned
<1>5. ASSUME NEW record
      PROVE  /\ Storage!InsertSucceeds(record) => StorageProofs!InsertSucceeds(record)
             /\ Storage!SaveThrows(record) => StorageProofs!SaveThrows(record)
  BY Zenon DEF Storage!InsertSucceeds, StorageProofs!InsertSucceeds, Storage!SaveThrows,
     StorageProofs!SaveThrows, Storage!InsertRejected, StorageProofs!InsertRejected,
     Storage!ConnectionBreaks, StorageProofs!ConnectionBreaks, Storage!NotConnected,
     StorageProofs!NotConnected, Storage!Save, StorageProofs!Save, Storage!InsertOrAssign,
     StorageProofs!InsertOrAssign, Storage!InsertOrIgnore, StorageProofs!InsertOrIgnore
<1>6. Storage!RunJob => StorageProofs!RunJob
  BY <1>4, <1>5, Zenon DEF Storage!RunJob, StorageProofs!RunJob, Storage!SetValue, StorageProofs!SetValue,
     Storage!SetException, StorageProofs!SetException, Storage!Returned,
     StorageProofs!Returned, Storage!Thrown, StorageProofs!Thrown, Storage!serviceVars,
     StorageProofs!serviceVars
<1>7. Storage!Worker => StorageProofs!Worker
  BY <1>6, Zenon DEF Storage!Worker, StorageProofs!Worker, Storage!WorkerInit, StorageProofs!WorkerInit,
     Storage!Initialize, StorageProofs!Initialize, Storage!WorkerInitFails,
     StorageProofs!WorkerInitFails, Storage!WorkerWait, StorageProofs!WorkerWait,
     Storage!SpuriousWakeup, StorageProofs!SpuriousWakeup, Storage!WorkerExit,
     StorageProofs!WorkerExit, Storage!TakeJob, StorageProofs!TakeJob, Storage!serviceVars,
     StorageProofs!serviceVars
<1>8. UNCHANGED Storage!vars => UNCHANGED StorageProofs!vars
  BY Zenon DEF Storage!vars, StorageProofs!vars, Storage!serviceVars, StorageProofs!serviceVars,
     Storage!queueVars, StorageProofs!queueVars
<1> QED BY <1>1, <1>2, <1>3, <1>7, <1>8, Zenon DEF Storage!Next, StorageProofs!Next

\* So what is proved of the storage worker holds in the service.
LEMMA StorageInvariant == Spec => []StoragePart
<1>1. None \notin Threads /\ MaxFaults \in Nat
  BY StorageAssumption, Zenon
<1>2. Jobs \subseteq StorageProofs!Job /\ None \notin Jobs /\ None \notin StorageProofs!Result
  BY StorageAssumption, Zenon DEF Storage!Job, StorageProofs!Job, Storage!Lookup, StorageProofs!Lookup,
     Storage!OperationRecord, StorageProofs!OperationRecord, Storage!Result, StorageProofs!Result,
     Storage!ErrorCodes, StorageProofs!ErrorCodes, Storage!OperationName, StorageProofs!OperationName,
     Storage!Symbols, StorageProofs!Symbols, Storage!Key, StorageProofs!Key
<1>3. StorageProofs!Spec => []StorageProofs!IInv
  BY <1>1, <1>2, StorageProofs!Invariance, Zenon
<1>4. [Storage!Next]_(Storage!vars) => [StorageProofs!Next]_(StorageProofs!vars)
  BY SameStorage, Zenon
<1>5. Storage!Spec => StorageProofs!Spec
  BY <1>4, SameStorage, PTL DEF Storage!Spec, StorageProofs!Spec
<1>6. StorageProofs!IInv => StoragePart
  <2> SUFFICES ASSUME StorageProofs!IInv PROVE StoragePart
    BY Zenon
  <2>1. StorageProofs!TypeOK /\ StorageProofs!Lifecycle
    BY Zenon DEF StorageProofs!IInv
  <2>2. Storage!TypeOK
    BY <2>1, Zenon
    DEF StorageProofs!TypeOK, Storage!TypeOK, StorageProofs!ServiceTypeOK, Storage!ServiceTypeOK,
        StorageProofs!Table, Storage!Table, StorageProofs!Key, Storage!Key, StorageProofs!Symbols,
        Storage!Symbols, StorageProofs!Result, Storage!Result, StorageProofs!ErrorCodes,
        Storage!ErrorCodes, StorageProofs!OperationRecord, Storage!OperationRecord,
        StorageProofs!OperationName, Storage!OperationName
  <2> QED BY <2>1, <2>2, Zenon DEF StorageProofs!TypeOK, StorageProofs!Lifecycle, StoragePart
<1> QED BY <1>3, <1>5, <1>6, UsesStorage, PTL

\* TcpJsonServerProofs about the server of the service.
ServerProofs == INSTANCE TcpJsonServerProofs WITH owner <- serverOwner

\* The server inside the service is the one TcpJsonServerProofs is about.
LEMMA SameServer ==
  /\ Server!Init => ServerProofs!Init
  /\ Server!Next \/ UNCHANGED Server!vars => ServerProofs!Next \/ UNCHANGED ServerProofs!vars
<1>1. Server!Init => ServerProofs!Init
  BY Zenon DEF Server!Init, ServerProofs!Init, Server!At, ServerProofs!At, Server!Operation,
     ServerProofs!Operation
<1>2. Server!Start \/ Server!StartFails \/ Server!Stop \/ Server!OwnerStops =>
        ServerProofs!Start \/ ServerProofs!StartFails \/ ServerProofs!Stop \/ ServerProofs!OwnerStops
  BY Zenon DEF Server!Start, ServerProofs!Start, Server!StartFails, ServerProofs!StartFails,
     Server!Stop, ServerProofs!Stop, Server!OwnerStops, ServerProofs!OwnerStops,
     Server!PostClose, ServerProofs!PostClose, Server!ReleaseGuard,
     ServerProofs!ReleaseGuard, Server!StopContext, ServerProofs!StopContext, Server!Join,
     ServerProofs!Join, Server!Destroy, ServerProofs!Destroy, Server!HungUp,
     ServerProofs!HungUp, Server!DoAccept, ServerProofs!DoAccept, Server!At,
     ServerProofs!At, Server!Operation, ServerProofs!Operation, Server!loopVars,
     ServerProofs!loopVars, Server!clientVars, ServerProofs!clientVars
<1>3. ASSUME NEW c, Server!Client(c) PROVE ServerProofs!Client(c)
  BY <1>3, Zenon DEF Server!Client, ServerProofs!Client, Server!Connect, ServerProofs!Connect, Server!Send,
     ServerProofs!Send, Server!Finish, ServerProofs!Finish, Server!Lose, ServerProofs!Lose,
     Server!ownerVars, ServerProofs!ownerVars, Server!loopVars, ServerProofs!loopVars
<1>4. ASSUME NEW o, NEW h, Server!Complete(o, h) PROVE ServerProofs!Complete(o, h)
  BY <1>4, Zenon DEF Server!Complete, ServerProofs!Complete, Server!ownerVars, ServerProofs!ownerVars
<1>5. ASSUME NEW c, Server!Completes(c) PROVE ServerProofs!Completes(c)
  BY <1>4, <1>5, Zenon DEF Server!Completes, ServerProofs!Completes, Server!AcceptCompletes,
     ServerProofs!AcceptCompletes, Server!ReadCompletes, ServerProofs!ReadCompletes,
     Server!ReadFails, ServerProofs!ReadFails, Server!WriteCompletes,
     ServerProofs!WriteCompletes, Server!DoAccept, ServerProofs!DoAccept, Server!DoRead,
     ServerProofs!DoRead, Server!DoWrite, ServerProofs!DoWrite, Server!Failed,
     ServerProofs!Failed, Server!Operation, ServerProofs!Operation
<1>6. Server!AcceptFails => ServerProofs!AcceptFails
  BY <1>4, Zenon DEF Server!AcceptFails, ServerProofs!AcceptFails, Server!DoAccept, ServerProofs!DoAccept,
     Server!Failed, ServerProofs!Failed, Server!Operation, ServerProofs!Operation
<1>7. ASSUME NEW t, Server!Handled(t) PROVE ServerProofs!Handled(t)
  BY <1>7, Zenon DEF Server!Handled, ServerProofs!Handled, Server!DoWrite, ServerProofs!DoWrite, Server!At,
     ServerProofs!At, Server!Operation, ServerProofs!Operation, Server!ownerVars,
     ServerProofs!ownerVars, Server!clientVars, ServerProofs!clientVars
<1>8. ASSUME NEW t, Server!Runs(t) PROVE ServerProofs!Runs(t)
  BY <1>8, Zenon DEF Server!Runs, ServerProofs!Runs, Server!Takes, ServerProofs!Takes, Server!TakeAccept,
     ServerProofs!TakeAccept, Server!OnAccept, ServerProofs!OnAccept, Server!OnRead,
     ServerProofs!OnRead, Server!Close, ServerProofs!Close, Server!OnWrite, ServerProofs!OnWrite, Server!OnClose,
     ServerProofs!OnClose, Server!Exit, ServerProofs!Exit, Server!TooLarge,
     ServerProofs!TooLarge, Server!HungUp, ServerProofs!HungUp, Server!DoAccept,
     ServerProofs!DoAccept, Server!DoRead, ServerProofs!DoRead, Server!Failed,
     ServerProofs!Failed, Server!At, ServerProofs!At, Server!Operation,
     ServerProofs!Operation, Server!Places, ServerProofs!Places, Server!ownerVars,
     ServerProofs!ownerVars, Server!clientVars, ServerProofs!clientVars
<1>9. UNCHANGED Server!vars => UNCHANGED ServerProofs!vars
  BY Zenon DEF Server!vars, ServerProofs!vars, Server!ownerVars, ServerProofs!ownerVars,
     Server!loopVars, ServerProofs!loopVars, Server!clientVars, ServerProofs!clientVars
<1> QED BY <1>1, <1>2, <1>3, <1>5, <1>6, <1>7, <1>8, <1>9, Zenon DEF Server!Next, ServerProofs!Next

\* And what is proved of the server.
LEMMA ServerInvariant == Spec => []ServerPart
<1>1. ServerProofs!Spec => []ServerProofs!IInv
  BY ServerAssumption, ServerProofs!Invariance, Zenon
<1>2. [Server!Next]_(Server!vars) => [ServerProofs!Next]_(ServerProofs!vars)
  BY SameServer, Zenon
<1>3. Server!Spec => ServerProofs!Spec
  BY <1>2, SameServer, PTL DEF Server!Spec, ServerProofs!Spec
<1>4. ServerProofs!IInv => ServerPart
  <2> SUFFICES ASSUME ServerProofs!IInv PROVE ServerPart
    BY Zenon
  <2>1. ServerProofs!TypeOK /\ ServerProofs!OwnerInv
    BY Zenon DEF ServerProofs!IInv
  <2>2. ServerProofs!At("none").op = "none"
    BY Zenon DEF ServerProofs!At, ServerProofs!Operation
  <2>3. Server!TypeOK
    BY <2>1, Zenon
    DEF ServerProofs!TypeOK, Server!TypeOK, ServerProofs!Operations, Server!Operations,
        ServerProofs!OperationsOf, Server!OperationsOf, ServerProofs!Kinds, Server!Kinds,
        ServerProofs!Places, Server!Places
  <2> QED BY <2>1, <2>2, <2>3, Zenon DEF ServerProofs!TypeOK, ServerProofs!OwnerInv, ServerPart
<1> QED BY <1>1, <1>3, <1>4, UsesServer, PTL

\* In every reachable state of the service the invariant holds, and what it needs
\* of the parts.
LEMMA Invariance == Spec => [](IInv /\ PartsInv)
<1>1. StoragePart /\ ServerPart => PartsInv
  BY Zenon DEF PartsInv
<1> QED BY <1>1, InitIInv, NextIInv, StorageInvariant, ServerInvariant, PTL DEF Spec

-----------------------------------------------------------------------------
(* What the service promises.                                              *)

\* run() and all that it starts keep their state in its types, and a call on the
\* storage is made only for a request that is being handled.
THEOREM TypeCorrect == Spec => []TypeOK
  BY Invariance, Promised, PTL

\* run() stops the server, and with it the last request handler, before the
\* storage: no handler calls a storage that refuses or is gone.
THEOREM StorageOutlives == Spec => []StorageOutlivesRequests
  BY Invariance, Promised, PTL

\* No message is written before Logger::init or after Logger::shutdown, by any
\* thread: logger() never opens the default file.
THEOREM LogConfigured == Spec => []LogsToConfiguredFile
  BY Invariance, Promised, PTL

\* When run() has returned or thrown, the threads it started have been joined.
THEOREM NoThreadLeft == Spec => []NoThreadOutlivesRun
  BY Invariance, Promised, PTL

\* run() returns success only after SIGINT or SIGTERM has come: the signal that
\* SignalHandler::stop sends to its own thread does not count.
THEOREM OnlyOnSignal == Spec => []EndsOnlyOnSignal
  BY Invariance, Promised, PTL
=============================================================================
