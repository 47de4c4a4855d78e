------------------------ MODULE StorageWorkerProofs -------------------------
(***************************************************************************)
(* For every set of callers and calls: the storage worker is type correct, *)
(* never strands a caller, never loses a wakeup, and implements the        *)
(* interface OperationStorage.                                             *)
(***************************************************************************)
EXTENDS StorageWorker, StorageServiceProofs

-----------------------------------------------------------------------------
(* The inductive invariant.  EveryCallHasOnePlace and NoLostWakeup need to *)
(* know where the two lifecycles, of the owner and of the storage thread,  *)
(* can be at the same time: a job is accepted only while the thread is in  *)
(* its loop, and the thread leaves its loop only once none is accepted.    *)

InLoop == worker \in {"loop", "waiting", "running"}

Lifecycle ==
  /\ stopping <=> main \in {"stopping", "joining", "stopped"}
  /\ main = "created" => worker = "none"
  /\ main = "starting" =>
       /\ initPromise = "unset" => worker = "init"
       /\ initPromise = "value" => InLoop
       /\ initPromise = "exception" => worker = "exited"
  /\ main = "running" => InLoop
  /\ main \in {"failed", "stopped"} => worker \in {"none", "exited"}
  /\ worker = "init" => main = "starting" /\ initPromise = "unset"

Idle ==
  /\ worker = "running" <=> current # None
  /\ ~InLoop => jobs = <<>>
  /\ \A c \in Callers : job[c] = None => future[c] = None

IInv == TypeOK /\ Lifecycle /\ Idle /\ EveryCallHasOnePlace /\ NoLostWakeup

\* No caller has called and the storage thread does not exist (the constructor).
LEMMA InitIInv == Init => IInv
<1> SUFFICES ASSUME Init PROVE IInv
  BY Zenon
<1>1. Table(Empty)
  BY Zenon DEF Table, Empty
<1>2. TypeOK
  <2>1. 0 \in 0 .. MaxFaults
    BY MaxFaultsAssumption
  <2>2. ServiceTypeOK
    BY <1>1, <2>1, Zenon DEF Init, ServiceInit, ServiceTypeOK
  <2>3. jobs \in Seq(Callers)
    BY DEF Init
  <2>4. job \in [Callers -> Jobs \cup {None}] /\ future \in [Callers -> Result \cup {None}]
    BY Zenon DEF Init
  <2>5. current \in Callers \cup {None} /\ notifying \subseteq Callers
    BY Zenon DEF Init
  <2> QED BY <2>2, <2>3, <2>4, <2>5, Zenon DEF Init, TypeOK
<1>3. Lifecycle /\ Idle /\ NoLostWakeup
  BY Zenon DEF Init, Lifecycle, Idle, InLoop, NoLostWakeup
<1>4. EveryCallHasOnePlace
  BY CallersAssumption DEF Init, EveryCallHasOnePlace, Unanswered, Queued
<1> QED BY <1>2, <1>3, <1>4, Zenon DEF IInv

\* The job the storage thread has taken is a call of some caller without an
\* outcome yet.
LEMMA CurrentJob ==
  ASSUME IInv, worker = "running"
  PROVE  /\ current \in Callers /\ Unanswered(current)
         /\ job[current] \in Job
         /\ job[current].kind = "save" => job[current].record \in OperationRecord
<1>1. current \in Callers
  BY Zenon DEF IInv, Idle, TypeOK
<1>2. Unanswered(current)
  BY <1>1, Zenon DEF IInv, EveryCallHasOnePlace
<1>3. job[current] \in Job
  BY <1>1, <1>2, JobsAssumption, Zenon DEF IInv, TypeOK, Unanswered
<1>4. job[current].kind = "save" => job[current].record \in OperationRecord
  BY <1>3, Zenon DEF Job
<1> QED BY <1>1, <1>2, <1>3, <1>4, Zenon

\* Every step keeps the types.
LEMMA TypeStep == IInv /\ [Next]_vars => TypeOK'
<1> SUFFICES ASSUME IInv, [Next]_vars PROVE TypeOK'
  BY Zenon
<1> USE DEF IInv, TypeOK
<1>1. CASE Main
  <2>1. UNCHANGED <<serviceVars, jobs, current, notifying, job, future>>
    BY <1>1, Zenon DEF Main, Start, StartFails, StartReturns, Stop, StopNotify, StopJoin
  <2>2. ServiceTypeOK'
    BY <2>1, Zenon DEF ServiceTypeOK, Table, serviceVars
  <2>3. /\ stopping' \in BOOLEAN
        /\ worker' \in {"none", "init", "loop", "waiting", "running", "exited"}
        /\ initPromise' \in {"unset", "value", "exception"}
        /\ main' \in {"created", "starting", "running", "failed", "stopping", "joining", "stopped"}
    BY <1>1, Zenon DEF Main, Start, StartFails, StartReturns, Stop, StopNotify, Notify, StopJoin
  <2> QED BY <2>1, <2>2, <2>3, Zenon
<1>2. CASE \E c \in Callers : Caller(c)
  <2> PICK c \in Callers : Caller(c)
    BY <1>2, Zenon
  <2>1. UNCHANGED <<serviceVars, stopping, current, initPromise, main>>
    BY Zenon DEF Caller, Enqueue, NotifyOne, Return, queueVars
  <2>2. ServiceTypeOK'
    BY <2>1, Zenon DEF ServiceTypeOK, Table, serviceVars
  <2>3. CASE \E j \in Jobs : Enqueue(c, j)
    BY <2>1, <2>2, <2>3 DEF Enqueue
  <2>4. CASE NotifyOne(c)
    BY <2>1, <2>2, <2>4, Zenon DEF NotifyOne, Notify
  <2>5. CASE Return(c)
    BY <2>1, <2>2, <2>5 DEF Return, queueVars
  <2> QED BY <2>3, <2>4, <2>5, Zenon DEF Caller
<1>3. CASE WorkerInit
  <2>1. ServiceTypeOK'
    BY <1>3, Zenon DEF WorkerInit, Initialize, ServiceTypeOK, Table
  <2> QED BY <1>3, <2>1, Zenon DEF WorkerInit
<1>4. CASE WorkerInitFails \/ WorkerWait \/ SpuriousWakeup \/ WorkerExit
  <2>1. ServiceTypeOK'
    BY <1>4, Zenon DEF WorkerInitFails, WorkerWait, SpuriousWakeup, WorkerExit, ServiceTypeOK, Table, serviceVars
  <2> QED BY <1>4, <2>1 DEF WorkerInitFails, WorkerWait, SpuriousWakeup, WorkerExit
<1>5. CASE TakeJob
  <2>1. ServiceTypeOK'
    BY <1>5, Zenon DEF TakeJob, ServiceTypeOK, Table, serviceVars
  <2>2. jobs # <<>> /\ Head(jobs) \in Callers /\ Tail(jobs) \in Seq(Callers)
    BY <1>5 DEF TakeJob
  <2> QED BY <1>5, <2>1, <2>2, Zenon DEF TakeJob
<1>6. CASE RunJob
  <2>1. worker = "running"
    BY <1>6, Zenon DEF RunJob
  <2>2. ServiceTypeOK'
    <3>1. CASE UNCHANGED serviceVars
      BY <3>1, Zenon DEF ServiceTypeOK, Table, serviceVars
    <3>2. CASE /\ job[current].kind = "save"
               /\ InsertSucceeds(job[current].record) \/ SaveThrows(job[current].record)
      BY <2>1, <3>2, CurrentJob, SaveType, Zenon
    <3> QED BY <1>6, <3>1, <3>2, Zenon DEF RunJob
  <2>3. \E r \in Result : future' = [future EXCEPT ![current] = r]
    <3>1. Find(job[current].lookup) \in Result
      BY FindType, Zenon DEF ServiceTypeOK
    <3>2. Returned(None) \in Result /\ Thrown("ERROR_STORAGE") \in Result
      BY Zenon DEF Result, Returned, Thrown, ErrorCodes
    <3> QED BY <1>6, <3>1, <3>2, Zenon DEF RunJob, SetValue, SetException
  <2>4. future' \in [Callers -> Result \cup {None}]
    BY <2>1, <2>3, CurrentJob, Zenon
  <2> QED BY <1>6, <2>2, <2>4, Zenon DEF RunJob
<1>7. CASE UNCHANGED vars
  <2>1. ServiceTypeOK'
    BY <1>7, Zenon DEF vars, ServiceTypeOK, Table, serviceVars
  <2> QED BY <1>7, <2>1 DEF vars, queueVars
<1> QED BY <1>1, <1>2, <1>3, <1>4, <1>5, <1>6, <1>7, Zenon DEF Next, Worker

\* Every step keeps the two lifecycles together.
LEMMA LifecycleStep == IInv /\ [Next]_vars => Lifecycle'
<1> SUFFICES ASSUME IInv, [Next]_vars PROVE Lifecycle'
  BY Zenon
<1> USE DEF IInv, TypeOK, Lifecycle, InLoop
<1>1. CASE Main
  BY <1>1 DEF Main, Start, StartFails, StartReturns, Stop, StopNotify, Notify, StopJoin
<1>2. CASE \E c \in Callers : Caller(c)
  BY <1>2 DEF Caller, Enqueue, NotifyOne, Notify, Return, queueVars
<1>3. CASE Worker
  BY <1>3 DEF Worker, WorkerInit, WorkerInitFails, WorkerWait, SpuriousWakeup, WorkerExit, TakeJob, RunJob
<1>4. CASE UNCHANGED vars
  BY <1>4, Zenon DEF vars, queueVars
<1> QED BY <1>1, <1>2, <1>3, <1>4, Zenon DEF Next

\* A storage thread out of its loop has no work, and a caller outside a call
\* has no outcome waiting.
LEMMA IdleStep == IInv /\ [Next]_vars => Idle'
<1> SUFFICES ASSUME IInv, [Next]_vars PROVE Idle'
  BY Zenon
<1> USE DEF IInv, TypeOK, Idle, InLoop
<1>1. CASE Main
  BY <1>1, Zenon DEF Main, Start, StartFails, StartReturns, Stop, StopNotify, Notify, StopJoin, Lifecycle
<1>2. CASE \E c \in Callers : Caller(c)
  <2> PICK c \in Callers : Caller(c)
    BY <1>2, Zenon
  <2>1. CASE \E j \in Jobs : Enqueue(c, j)
    <3>1. main = "running"
      BY <2>1, Zenon DEF Enqueue, MayCall, Lifecycle
    <3> QED BY <2>1, <3>1, JobsAssumption, Zenon DEF Enqueue, Lifecycle
  <2>2. CASE NotifyOne(c)
    BY <2>2, Zenon DEF NotifyOne, Notify
  <2>3. CASE Return(c)
    BY <2>3, Zenon DEF Return, queueVars
  <2> QED BY <2>1, <2>2, <2>3, Zenon DEF Caller
<1>3. CASE WorkerInit \/ WorkerInitFails \/ WorkerWait \/ SpuriousWakeup \/ WorkerExit
  BY <1>3, Zenon DEF WorkerInit, WorkerInitFails, WorkerWait, SpuriousWakeup, WorkerExit
<1>4. CASE TakeJob
  <2>1. Head(jobs) \in Callers
    BY <1>4 DEF TakeJob
  <2> QED BY <1>4, <2>1, CallersAssumption, Zenon DEF TakeJob
<1>5. CASE RunJob
  <2>1. current \in Callers /\ job[current] # None
    BY <1>5, CurrentJob, Zenon DEF RunJob, Unanswered
  <2>2. \A c \in Callers : c # current => future'[c] = future[c]
    BY <1>5, Zenon DEF RunJob, SetValue, SetException
  <2> QED BY <1>5, <2>1, <2>2, Zenon DEF RunJob
<1>6. CASE UNCHANGED vars
  BY <1>6, Zenon DEF vars, queueVars
<1> QED BY <1>1, <1>2, <1>3, <1>4, <1>5, <1>6, Zenon DEF Next, Worker

\* Every step keeps each call without an outcome in exactly one place.
LEMMA PlaceStep == IInv /\ [Next]_vars => EveryCallHasOnePlace'
<1> SUFFICES ASSUME IInv, [Next]_vars PROVE EveryCallHasOnePlace'
  BY Zenon
<1> USE DEF IInv, TypeOK
<1>1. CASE UNCHANGED <<jobs, current, job, future>>
  BY <1>1, Zenon DEF EveryCallHasOnePlace, Unanswered, Queued
<1>2. ASSUME NEW c \in Callers, NEW j \in Jobs, Enqueue(c, j) PROVE EveryCallHasOnePlace'
  <2>1. ~Unanswered(c) /\ job'[c] # None /\ future'[c] = None
    BY <1>2, JobsAssumption, Zenon DEF Enqueue, Unanswered, Idle
  <2>2. /\ Len(jobs') = Len(jobs) + 1
        /\ \A i \in 1 .. Len(jobs) : jobs'[i] = jobs[i]
        /\ jobs'[Len(jobs) + 1] = c
    BY <1>2 DEF Enqueue
  <2>3. current # c /\ \A i \in 1 .. Len(jobs) : jobs[i] # c
    BY <2>1, Zenon DEF EveryCallHasOnePlace, Queued
  <2>4. \A d \in Callers : Queued(d)' <=> Queued(d) \/ d = c
    BY <2>2 DEF Queued
  <2>5. \A d \in Callers : Unanswered(d)' <=> Unanswered(d) \/ d = c
    BY <1>2, <2>1, Zenon DEF Enqueue, Unanswered
  <2>6. UNCHANGED current
    BY <1>2, Zenon DEF Enqueue
  <2> QED BY <2>2, <2>3, <2>4, <2>5, <2>6 DEF EveryCallHasOnePlace
<1>3. ASSUME NEW c \in Callers, Return(c) PROVE EveryCallHasOnePlace'
  <2>1. \A d \in Callers : Unanswered(d)' <=> Unanswered(d)
    BY <1>3, Zenon DEF Return, Unanswered
  <2> QED BY <1>3, <2>1, Zenon DEF EveryCallHasOnePlace, Queued, Return, queueVars
<1>4. CASE TakeJob
  <2>1. current = None /\ jobs # <<>>
    BY <1>4, Zenon DEF TakeJob, Idle
  <2>2. /\ Len(jobs') = Len(jobs) - 1
        /\ \A i \in 1 .. Len(jobs') : jobs'[i] = jobs[i + 1]
        /\ current' = jobs[1] /\ Len(jobs) >= 1
    BY <1>4, <2>1 DEF TakeJob
  <2>3. \A d \in Callers : Queued(d) <=> Queued(d)' \/ current' = d
    <3> SUFFICES ASSUME NEW d \in Callers PROVE Queued(d) <=> Queued(d)' \/ current' = d
      BY Zenon
    <3>1. ASSUME NEW i \in 1 .. Len(jobs), jobs[i] = d, i # 1 PROVE Queued(d)'
      <4>1. i - 1 \in 1 .. Len(jobs') /\ jobs'[i - 1] = jobs[i]
        BY <3>1, <2>2
      <4> QED BY <3>1, <4>1, Zenon DEF Queued
    <3>2. ASSUME NEW i \in 1 .. Len(jobs'), jobs'[i] = d PROVE Queued(d)
      <4>1. i + 1 \in 1 .. Len(jobs) /\ jobs[i + 1] = d
        BY <3>2, <2>2
      <4> QED BY <4>1, Zenon DEF Queued
    <3> QED BY <3>1, <3>2, <2>2 DEF Queued
  <2>4. \A d \in Callers : Unanswered(d)' <=> Unanswered(d)
    BY <1>4, Zenon DEF TakeJob, Unanswered
  <2>5. \A i, k \in 1 .. Len(jobs') : jobs'[i] = jobs'[k] => i = k
    BY <2>2 DEF EveryCallHasOnePlace
  <2>6. \A i \in 1 .. Len(jobs') : jobs'[i] # current'
    BY <2>2 DEF EveryCallHasOnePlace
  <2>7. \A d \in Callers : current # d
    BY <2>1, CallersAssumption, Zenon
  <2> QED BY <2>3, <2>4, <2>5, <2>6, <2>7, Zenon DEF EveryCallHasOnePlace
<1>5. CASE RunJob
  <2>1. current \in Callers /\ Unanswered(current)
    BY <1>5, CurrentJob, Zenon DEF RunJob
  <2>2. \E r \in Result : future' = [future EXCEPT ![current] = r]
    <3>1. Find(job[current].lookup) \in Result
      BY FindType, Zenon DEF ServiceTypeOK
    <3>2. Returned(None) \in Result /\ Thrown("ERROR_STORAGE") \in Result
      BY Zenon DEF Result, Returned, Thrown, ErrorCodes
    <3> QED BY <1>5, <3>1, <3>2, Zenon DEF RunJob, SetValue, SetException
  <2>3. \A d \in Callers : Unanswered(d)' <=> Unanswered(d) /\ d # current
    BY <1>5, <2>1, <2>2, JobsAssumption, Zenon DEF RunJob, Unanswered
  <2>4. UNCHANGED jobs /\ current' = None
    BY <1>5, Zenon DEF RunJob
  <2>5. \A i \in 1 .. Len(jobs) : jobs[i] \in Callers
    OBVIOUS
  <2> QED BY <2>1, <2>3, <2>4, <2>5, CallersAssumption DEF EveryCallHasOnePlace, Queued
<1>6. CASE Main
  BY <1>1, <1>6, Zenon DEF Main, Start, StartFails, StartReturns, Stop, StopNotify, StopJoin
<1>7. ASSUME NEW c \in Callers, NotifyOne(c) PROVE EveryCallHasOnePlace'
  BY <1>1, <1>7, Zenon DEF NotifyOne
<1>8. CASE WorkerInit \/ WorkerInitFails \/ WorkerWait \/ SpuriousWakeup \/ WorkerExit
  BY <1>1, <1>8, Zenon DEF WorkerInit, WorkerInitFails, WorkerWait, SpuriousWakeup, WorkerExit
<1>9. CASE UNCHANGED vars
  BY <1>1, <1>9, Zenon DEF vars, queueVars
<1> QED BY <1>2, <1>3, <1>4, <1>5, <1>6, <1>7, <1>8, <1>9, Zenon DEF Next, Caller, Worker

\* Every step that gives a sleeping storage thread work, or a reason to leave,
\* leaves the notification of it pending.
LEMMA WakeupStep == IInv /\ [Next]_vars => NoLostWakeup'
<1> SUFFICES ASSUME IInv, [Next]_vars PROVE NoLostWakeup'
  BY Zenon
<1> USE DEF IInv, TypeOK, NoLostWakeup
<1>1. CASE Main
  BY <1>1, Zenon DEF Main, Start, StartFails, StartReturns, Stop, StopNotify, Notify, StopJoin, Lifecycle
<1>2. CASE \E c \in Callers : Caller(c)
  BY <1>2, Zenon DEF Caller, Enqueue, NotifyOne, Notify, Return, queueVars
<1>3. CASE Worker
  BY <1>3, Zenon DEF Worker, WorkerInit, WorkerInitFails, WorkerWait, SpuriousWakeup, WorkerExit, TakeJob, RunJob
<1>4. CASE UNCHANGED vars
  BY <1>4, Zenon DEF vars, queueVars
<1> QED BY <1>1, <1>2, <1>3, <1>4, Zenon DEF Next

\* The invariant is inductive.
LEMMA NextIInv == IInv /\ [Next]_vars => IInv'
BY TypeStep, LifecycleStep, IdleStep, PlaceStep, WakeupStep, Zenon DEF IInv

\* Hence it holds in every state of every behaviour.
LEMMA Invariance == Spec => []IInv
BY InitIInv, NextIInv, PTL DEF Spec

-----------------------------------------------------------------------------
(* The theorems.                                                           *)

\* The storage worker and the storage behind it keep their types; in
\* particular every cached and stored record has a result exactly when its
\* status is a success, which handle() relies on when it dereferences it.
THEOREM TypeCorrect == Spec => []TypeOK
<1>1. IInv => TypeOK
  BY Zenon DEF IInv
<1> QED BY <1>1, Invariance, PTL

\* No job is lost and none is run twice (enqueue, thread_main).
THEOREM OnePlace == Spec => []EveryCallHasOnePlace
<1>1. IInv => EveryCallHasOnePlace
  BY Zenon DEF IInv
<1> QED BY <1>1, Invariance, PTL

\* The storage thread never leaves a caller behind (stop, thread_main).
THEOREM NobodyStranded == Spec => []NoStrandedCaller
<1>1. IInv => NoStrandedCaller
  <2> SUFFICES ASSUME IInv, worker = "exited", NEW c \in Callers PROVE ~Unanswered(c)
    BY Zenon DEF NoStrandedCaller
  <2>1. jobs = <<>> /\ current = None
    BY Zenon DEF IInv, Idle, InLoop
  <2> QED BY <2>1, CallersAssumption DEF IInv, EveryCallHasOnePlace, Queued
<1> QED BY <1>1, Invariance, PTL

\* notify after unlock loses no wakeup (enqueue, stop, thread_main).
THEOREM NoWakeupLost == Spec => []NoLostWakeup
<1>1. IInv => NoLostWakeup
  BY Zenon DEF IInv
<1> QED BY <1>1, Invariance, PTL

-----------------------------------------------------------------------------
(* The refinement: every step of the threads is a step of the interface or *)
(* leaves its variables unchanged.                                         *)

\* The worker as constructed is the interface as constructed.
LEMMA InitRefines == Init => Interface!StorageInit
BY Zenon DEF Init, ServiceInit, Empty, Interface!StorageInit, Interface!ServiceInit,
       Interface!Empty, Interface!CallInit

\* The instance of find() is find() itself.
LEMMA SameFind == ASSUME NEW l PROVE Interface!Find(l) = Find(l)
<1>1. Interface!MakeError(l) = MakeError(l)
  BY Zenon DEF MakeError, Interface!MakeError, IsFactorial, Interface!IsFactorial, Symbols, Interface!Symbols
<1>2. Interface!Make(l) = Make(l)
  BY Zenon DEF Make, Interface!Make, IsFactorial, Interface!IsFactorial, Swapped, Interface!Swapped,
     IsCommutative, Interface!IsCommutative, SymbolFor, Interface!SymbolFor, Symbols, Interface!Symbols
<1> QED BY <1>1, <1>2, Zenon DEF Find, Interface!Find, Thrown, Interface!Thrown, Returned, Interface!Returned

\* The lambda of find() or save() is the step at which the call takes effect.
LEMMA RunJobRefines == IInv /\ RunJob => Interface!Perform(current)
<1> SUFFICES ASSUME IInv, RunJob PROVE Interface!Perform(current)
  BY Zenon
<1>1. Interface!Unanswered(current)
  BY CurrentJob, Zenon DEF RunJob, Unanswered, Interface!Unanswered
<1>2. UNCHANGED <<job, main>>
  BY Zenon DEF RunJob
<1>3. CASE job[current].kind = "find" /\ SetValue(current, Find(job[current].lookup)) /\ UNCHANGED serviceVars
  BY <1>1, <1>2, <1>3, SameFind, Zenon DEF Interface!Perform, SetValue, serviceVars, Interface!serviceVars
<1>4. CASE job[current].kind = "save" /\ InsertSucceeds(job[current].record) /\ SetValue(current, Returned(None))
  BY <1>1, <1>2, <1>4, Zenon DEF Interface!Perform, SetValue, InsertSucceeds, Interface!InsertSucceeds, Save,
     Interface!Save, InsertOrAssign, Interface!InsertOrAssign, InsertOrIgnore, Interface!InsertOrIgnore,
     Returned, Interface!Returned
<1>5. CASE job[current].kind = "save" /\ SaveThrows(job[current].record) /\ SetException(current, "ERROR_STORAGE")
  BY <1>1, <1>2, <1>5, Zenon DEF Interface!Perform, SetException, SaveThrows, Interface!SaveThrows, Save,
     Interface!Save, InsertOrAssign, Interface!InsertOrAssign, InsertOrIgnore, Interface!InsertOrIgnore,
     InsertRejected, Interface!InsertRejected, ConnectionBreaks, Interface!ConnectionBreaks,
     NotConnected, Interface!NotConnected, Thrown, Interface!Thrown
<1> QED BY <1>3, <1>4, <1>5, Zenon DEF RunJob

\* Every step of a thread is a step of the interface: enqueue, the promise's value and
\* future.get() are its call, effect and return; all other steps change nothing it shows.
LEMMA NextRefines ==
  IInv /\ [Next]_vars => [Interface!StorageNext(Jobs)]_<<serviceVars, Interface!callVars>>
<1> SUFFICES ASSUME IInv, [Next]_vars
             PROVE  Interface!StorageNext(Jobs) \/ UNCHANGED <<serviceVars, Interface!callVars>>
  BY Zenon
<1> USE DEF serviceVars, Interface!serviceVars, Interface!callVars
<1>1. CASE UNCHANGED <<serviceVars, job, future>> /\ ((main = "running") <=> (main' = "running"))
  BY <1>1, Zenon
<1>2. CASE Main
  <2>1. CASE StartReturns /\ initPromise = "value"
    BY <2>1, Zenon DEF StartReturns, Interface!StorageNext, Interface!Open
  <2>2. CASE Stop /\ main = "running"
    BY <2>2, Zenon DEF Stop, Interface!StorageNext, Interface!Close
  <2> QED BY <1>1, <1>2, <2>1, <2>2, Zenon DEF Main, Start, StartFails, StartReturns, Stop, StopNotify, StopJoin
<1>3. ASSUME NEW c \in Callers, NEW j \in Jobs, Enqueue(c, j)
      PROVE  Interface!StorageNext(Jobs)
  <2>1. main = "running" /\ future[c] = None
    BY <1>3, Zenon DEF Enqueue, MayCall, IInv, Lifecycle, Idle
  <2>2. future' = [future EXCEPT ![c] = None]
    BY <1>3, <2>1, Zenon DEF Enqueue, IInv, TypeOK
  <2> QED BY Zenon, <1>3, <2>1, <2>2
          DEF Enqueue, Interface!StorageNext, Interface!Submit, Interface!Unanswered
<1>4. ASSUME NEW c \in Callers, NotifyOne(c)
      PROVE  UNCHANGED <<serviceVars, Interface!callVars>>
  BY <1>4, Zenon DEF NotifyOne
<1>5. ASSUME NEW c \in Callers, Return(c) PROVE Interface!StorageNext(Jobs)
  BY <1>5, Zenon DEF Return, queueVars, Interface!StorageNext, Interface!Return
<1>6. CASE WorkerInit
  <2>1. main = "starting" /\ jobs = <<>> /\ current = None
    BY <1>6, Zenon DEF WorkerInit, IInv, Lifecycle, Idle, InLoop
  <2>2. \A c \in Callers : ~Interface!Unanswered(c)
    BY <2>1, CallersAssumption DEF IInv, EveryCallHasOnePlace, Queued, Unanswered, Interface!Unanswered
  <2> QED BY <1>6, <2>1, <2>2, Zenon DEF WorkerInit, Initialize, Interface!StorageNext, Interface!Load,
             Interface!Initialize
<1>7. CASE WorkerInitFails \/ WorkerWait \/ SpuriousWakeup \/ WorkerExit \/ TakeJob
  BY <1>1, <1>7, Zenon DEF WorkerInitFails, WorkerWait, SpuriousWakeup, WorkerExit, TakeJob
<1>8. CASE RunJob
  BY <1>8, RunJobRefines, CurrentJob, Zenon DEF RunJob, Interface!StorageNext
<1>9. CASE UNCHANGED vars
  BY <1>1, <1>9, Zenon DEF vars, queueVars
<1> QED BY <1>2, <1>3, <1>4, <1>5, <1>6, <1>7, <1>8, <1>9, Zenon DEF Next, Caller, Worker

\* The threads, the queue and the promises of StorageWorker implement the
\* interface the request handler relies on: every accepted find() and save()
\* takes effect once, in one step, and its outcome is the one returned.
THEOREM Refinement == Spec => ImplementsInterface
BY InitRefines, NextRefines, Invariance, PTL DEF Spec, ImplementsInterface
=============================================================================
