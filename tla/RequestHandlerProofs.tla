------------------------ MODULE RequestHandlerProofs ------------------------
(***************************************************************************)
(* For every set of threads, every set of requests, every width of int and *)
(* any number of database failures and restarts: the handler answers       *)
(* right, stores what it acknowledges, and never changes a row.            *)
(***************************************************************************)
EXTENDS RequestHandlerAnswers

-----------------------------------------------------------------------------
(* The invariant is inductive.                                             *)

\* Nothing is stored or handled before the first start.
LEMMA InitIInv == Init => IInv
<1> SUFFICES ASSUME Init PROVE IInv
  BY Zenon
<1> USE DEF Init, StorageInit, ServiceInit, CallInit, ThreadInit
<1>1. TypeOK
  <2>1. Table(Empty)
    BY Zenon DEF Table, Empty
  <2>2. 0 \in 0 .. MaxFaults /\ 0 \in 0 .. MaxCrashes
    BY MaxFaultsAssumption, MaxCrashesAssumption
  <2>3. ServiceTypeOK
    BY <2>1, <2>2, Zenon DEF ServiceTypeOK
  <2> QED BY <2>2, <2>3, Zenon DEF TypeOK, ErrorCodes
<1>2. RecordsAreFiled
  BY Zenon DEF RecordsAreFiled, Empty
<1>3. CallsAreAbout /\ Lives /\ CacheCoversHistory
  BY Zenon DEF CallsAreAbout, CallIsAbout, Lives, CacheCoversHistory
<1>4. AnswersAreRight /\ AcknowledgedIsStored /\ AnswersAreToRequests
  BY Zenon DEF AnswersAreRight, AcknowledgedIsStored, AnswersAreToRequests
<1> QED BY <1>1, <1>2, <1>3, <1>4, Zenon DEF IInv

\* Every step keeps the types.
LEMMA TypeStep == IInv /\ [Next]_vars => TypeOK'
<1> SUFFICES ASSUME IInv, [Next]_vars PROVE TypeOK'
  BY Zenon
<1> USE DEF TypeOK
<1>0. TypeOK
  BY Zenon DEF IInv
<1>1. ASSUME NEW t \in Callers, NEW q \in Requests \cup {Malformed}, HandleRequest(t, q)
      PROVE  TypeOK'
  <2>1. ServiceTypeOK'
    BY <1>0, <1>1, HandleStep, Zenon DEF serviceVars, ServiceTypeOK, Table
  <2>2. q \in Requests /\ Accepted(q) => FindJob(LookupOf(q)) \in Job
    BY LookupType, Zenon DEF FindJob, Job
  <2> QED BY <1>0, <1>1, <2>1, <2>2, HandleStep DEF Respond
<1>2. ASSUME NEW t \in Callers, Proceed(t)
      PROVE  TypeOK'
  <2>1. ServiceTypeOK' /\ request' \in [Callers -> Requests \cup {Malformed, None}]
        /\ up' \in BOOLEAN /\ crashes' \in 0 .. MaxCrashes
    BY <1>0, <1>2, ProceedStep, Zenon DEF serviceVars, ServiceTypeOK, Table
  <2>2. CASE \E r \in Response : Answers(t, r)
    BY <1>0, <2>1, <2>2 DEF Answers, Respond, Leaves
  <2>3. ASSUME NEW e \in ErrorCodes, NEW at \in {"save", "saveError"}, Stores(t, e, at)
        PROVE  TypeOK'
    <3>1. SaveJob(MakeRecord(request[t], e)) \in Job
      BY <2>3, MakeRecordType, Zenon DEF Stores, SaveJob, Job
    <3> QED BY <1>0, <2>1, <2>3, <3>1 DEF Stores
  <2> QED BY <1>2, <2>2, <2>3, ProceedStep, Zenon DEF Moves, ErrorCodes
<1>3. ASSUME NEW t \in Callers, StorageStep(t)
      PROVE  TypeOK'
  <2>1. ServiceTypeOK'
    <3>1. CASE UNCHANGED serviceVars
      BY <1>0, <3>1, Zenon DEF serviceVars, ServiceTypeOK, Table
    <3>2. ASSUME NEW record \in OperationRecord, InsertSucceeds(record) \/ SaveThrows(record)
          PROVE  ServiceTypeOK'
      BY <1>0, <3>2, SaveType, Zenon
    <3> QED BY <1>3, <3>1, <3>2, StorageStepOf, MakeRecordType, Zenon
  <2>2. \E r \in Result : future' = [future EXCEPT ![t] = r]
    <3>1. Find(LookupOf(request[t])) \in Result
      BY <1>0, FindType, Zenon DEF ServiceTypeOK
    <3>2. Returned(None) \in Result /\ Thrown("ERROR_STORAGE") \in Result
      BY Zenon DEF Result, Returned, Thrown, ErrorCodes
    <3> QED BY <1>3, <3>1, <3>2, StorageStepOf, Zenon
  <2>3. UNCHANGED <<request, pc, error, response, up, crashes, job, open>>
    BY <1>3, StorageStepOf, Zenon DEF threadVars
  <2> QED BY <1>0, <2>1, <2>2, <2>3
<1>4. CASE StopStorage
  BY <1>0, <1>4, Zenon DEF StopStorage, Close, serviceVars, threadVars, ServiceTypeOK, Table
<1>5. CASE Crash
  <2>1. ServiceTypeOK'
    BY <1>0, <1>5, Zenon DEF Crash, ServiceTypeOK, Table, Empty
  <2>2. crashes' \in 0 .. MaxCrashes
    BY <1>0, <1>5, MaxCrashesAssumption DEF Crash
  <2> QED BY <1>5, <2>1, <2>2, Zenon DEF Crash, ErrorCodes
<1>6. CASE StartUp
  <2>1. ServiceTypeOK'
    BY <1>0, <1>6, Zenon DEF StartUp, Initialize, ServiceTypeOK, Table
  <2> QED BY <1>0, <1>6, <2>1, Zenon DEF StartUp, Open, threadVars
<1>7. CASE UNCHANGED vars
  BY <1>0, <1>7, Zenon DEF vars, serviceVars, callVars, threadVars, ServiceTypeOK, Table
<1> QED BY <1>1, <1>2, <1>3, <1>4, <1>5, <1>6, <1>7, Zenon DEF Next

\* The failures of the database are counted and never forgotten.
LEMMA FaultsGrow == IInv /\ [Next]_vars => faults \in Nat /\ faults' \in Nat /\ faults <= faults'
<1> SUFFICES ASSUME IInv, [Next]_vars PROVE faults \in Nat /\ faults' \in Nat /\ faults <= faults'
  BY Zenon
<1>1. faults \in Nat
  BY MaxFaultsAssumption DEF IInv, TypeOK, ServiceTypeOK
<1>2. faults' = faults \/ faults' = faults + 1
  <2>1. ASSUME NEW t \in Callers, StorageStep(t) PROVE faults' = faults \/ faults' = faults + 1
    BY <2>1, Zenon DEF StorageStep, Perform, serviceVars, InsertSucceeds, SaveThrows, InsertRejected,
                ConnectionBreaks, NotConnected
  <2> QED BY <2>1, HandleStep, ProceedStep, Zenon
          DEF Next, StopStorage, Crash, StartUp, Initialize, vars, serviceVars
<1> QED BY <1>1, <1>2

\* What is filed stays filed.
LEMMA FilesGrows ==
  ASSUME IInv, [Next]_vars, NEW q, NEW e, Files(q, e)
  PROVE  Files(q, e)'
BY FaultsGrow DEF Files

\* A key that has a row in the table keeps one: no step of the handler or the storage deletes a row.
LEMMA FiledGrows ==
  ASSUME IInv, [Next]_vars, NEW record, Filed(record)
  PROVE  Filed(record)'
BY FilesGrows, Zenon DEF Filed

\* The cache and the table change by one record together, or the cache alone is
\* emptied or loaded.
LEMMA TablesStep ==
  ASSUME IInv, [Next]_vars
  PROVE  \/ /\ history' = history
            /\ (cache' = cache /\ (up' => up)) \/ (cache' = Empty /\ ~up') \/ cache' = history
         \/ \E q \in Requests, e \in ErrorCodes :
              LET record == MakeRecord(q, e)
              IN  /\ Files(q, e) /\ up /\ up'
                  /\ cache' = InsertOrAssign(cache, record)
                  /\ history' = history \/ history' = InsertOrIgnore(history, record)
<1>1. ASSUME NEW t \in Callers, StorageStep(t), ~UNCHANGED serviceVars
      PROVE  \E q \in Requests, e \in ErrorCodes :
              LET record == MakeRecord(q, e)
              IN  /\ Files(q, e) /\ up /\ up'
                  /\ cache' = InsertOrAssign(cache, record)
                  /\ history' = history \/ history' = InsertOrIgnore(history, record)
  <2>1. PICK e \in ErrorCodes :
          /\ Files(request[t], e) /\ up /\ up'
          /\ InsertSucceeds(MakeRecord(request[t], e)) \/ SaveThrows(MakeRecord(request[t], e))
    BY <1>1, StorageStepOf
  <2>2. request[t] \in Requests
    BY <2>1, Zenon DEF Files
  <2>3. /\ cache' = InsertOrAssign(cache, MakeRecord(request[t], e))
        /\ history' = history \/ history' = InsertOrIgnore(history, MakeRecord(request[t], e))
    BY <2>1, Zenon DEF InsertSucceeds, SaveThrows, InsertRejected, ConnectionBreaks, NotConnected, Save
  <2> QED BY <2>1, <2>2, <2>3, Zenon
<1>2. ASSUME NEW t \in Callers, StorageStep(t), UNCHANGED serviceVars
      PROVE  history' = history /\ cache' = cache /\ up' = up
  BY <1>2, StorageStepOf, Zenon DEF serviceVars
<1>3. ASSUME NEW t \in Callers, Proceed(t)
      PROVE  history' = history /\ cache' = cache /\ up' = up
  BY <1>3, ProceedStep, Zenon DEF serviceVars
<1>4. ASSUME NEW t \in Callers, NEW q \in Requests \cup {Malformed}, HandleRequest(t, q)
      PROVE  history' = history /\ cache' = cache /\ up' = up
  BY <1>4, HandleStep, Zenon DEF serviceVars
<1>5. CASE StopStorage \/ UNCHANGED vars
  BY <1>5, Zenon DEF StopStorage, serviceVars, vars
<1>6. CASE Crash
  BY <1>6, Zenon DEF Crash
<1>7. CASE StartUp
  BY <1>7, Zenon DEF StartUp, Initialize
<1> QED BY <1>1, <1>2, <1>3, <1>4, <1>5, <1>6, <1>7, Zenon DEF Next

\* Every record in the cache and in the table keeps its origin.
LEMMA FiledStep == IInv /\ [Next]_vars => RecordsAreFiled'
<1> SUFFICES ASSUME IInv, [Next]_vars PROVE RecordsAreFiled'
  BY Zenon
<1>1. /\ \A k \in DOMAIN cache : Filed(cache[k])
      /\ \A k \in DOMAIN history : Filed(history[k])
  BY Zenon DEF IInv, RecordsAreFiled
<1>2. \A k \in DOMAIN cache' : Filed(cache'[k])
  <2>1. CASE \E q \in Requests, e \in ErrorCodes :
               Files(q, e) /\ cache' = InsertOrAssign(cache, MakeRecord(q, e))
    BY <1>1, <2>1 DEF InsertOrAssign, Filed
  <2>2. CASE cache' \in {cache, Empty, history}
    BY <1>1, <2>2, Zenon DEF Empty
  <2> QED BY <2>1, <2>2, TablesStep, Zenon
<1>3. \A k \in DOMAIN history' : Filed(history'[k])
  <2>1. CASE \E q \in Requests, e \in ErrorCodes :
               Files(q, e) /\ history' = InsertOrIgnore(history, MakeRecord(q, e))
    BY <1>1, <2>1 DEF InsertOrIgnore, InsertOrAssign, Filed
  <2>2. CASE history' = history
    BY <1>1, <2>2, Zenon
  <2> QED BY <2>1, <2>2, TablesStep, Zenon
<1>4. \A record : Filed(record) => Filed(record)'
  BY FiledGrows, Zenon
<1> QED BY <1>2, <1>3, <1>4 DEF RecordsAreFiled, Filed, Files

\* While the process runs, the cache covers the table.
LEMMA CoversStep == IInv /\ [Next]_vars => CacheCoversHistory'
<1> SUFFICES ASSUME IInv, [Next]_vars PROVE CacheCoversHistory'
  BY Zenon
<1>1. up => DOMAIN history \subseteq DOMAIN cache
  BY Zenon DEF IInv, CacheCoversHistory
<1>2. CASE \E q \in Requests, e \in ErrorCodes :
             LET record == MakeRecord(q, e)
             IN  /\ up /\ cache' = InsertOrAssign(cache, record)
                 /\ history' = history \/ history' = InsertOrIgnore(history, record)
  BY <1>1, <1>2 DEF CacheCoversHistory, InsertOrAssign, InsertOrIgnore
<1>3. CASE /\ history' = history
           /\ (cache' = cache /\ (up' => up)) \/ ~up' \/ cache' = history
  BY <1>1, <1>3, Zenon DEF CacheCoversHistory
<1> QED BY <1>2, <1>3, TablesStep, Zenon

\* Rows stay, as they are.
LEMMA RowsStay ==
  ASSUME IInv, [Next]_vars
  PROVE  \A k \in DOMAIN history : k \in DOMAIN history' /\ history'[k] = history[k]
BY TablesStep, Zenon DEF InsertOrIgnore, InsertOrAssign

\* A process that is down has no threads, and a lost connection is a fault.
LEMMA LivesStep == IInv /\ [Next]_vars => Lives'
<1> SUFFICES ASSUME IInv, [Next]_vars PROVE Lives'
  BY Zenon
<1>0. TypeOK /\ Lives
  BY Zenon DEF IInv
<1>1. ASSUME NEW t \in Callers, NEW q \in Requests \cup {Malformed}, HandleRequest(t, q)
      PROVE  Lives'
  BY <1>0, <1>1, HandleStep DEF Lives, serviceVars
<1>2. ASSUME NEW t \in Callers, Proceed(t)
      PROVE  Lives'
  BY <1>0, <1>2, ProceedStep, Zenon DEF Lives, serviceVars
<1>3. ASSUME NEW t \in Callers, StorageStep(t)
      PROVE  Lives'
  <2>1. (connected' = connected /\ faults' = faults) \/ faults' > 0
    BY <1>3, StorageStepOf, Zenon DEF serviceVars, InsertSucceeds
  <2> QED BY <1>0, <1>3, <2>1, StorageStepOf, Zenon DEF Lives
<1>4. CASE StopStorage \/ Crash \/ StartUp
  BY <1>0, <1>4, Zenon DEF Lives, StopStorage, Close, Crash, StartUp, Initialize, Open, serviceVars, threadVars
<1>5. CASE UNCHANGED vars
  BY <1>0, <1>5, Zenon DEF Lives, vars, serviceVars, callVars, threadVars
<1> QED BY <1>1, <1>2, <1>3, <1>4, <1>5, Zenon DEF Next

\* A step that leaves a thread alone leaves true what its call is about.
LEMMA Undisturbed ==
  ASSUME IInv, [Next]_vars, NEW c \in Callers,
         pc'[c] = pc[c], job'[c] = job[c], future'[c] = future[c],
         request'[c] = request[c], error'[c] = error[c]
  PROVE  CallIsAbout(c)'
<1>0. CallIsAbout(c)
  BY Zenon DEF IInv, CallsAreAbout
<1>1. CASE pc[c] = "find"
  <2>1. Filed(future[c].record) => Filed(future[c].record)'
    BY FiledGrows, Zenon
  <2> QED BY <1>0, <1>1, <2>1, Zenon DEF CallIsAbout, Finding, Filed, Files
<1>2. CASE pc[c] = "save"
  <2>1. Files(request[c], "ERROR_NONE") => Files(request[c], "ERROR_NONE")'
    BY FilesGrows, Zenon
  <2>2. faults > 0 => faults' > 0
    BY FaultsGrow
  <2>3. DOMAIN history \subseteq DOMAIN history'
    BY RowsStay, Zenon
  <2> QED BY <1>0, <1>2, <2>1, <2>2, <2>3, Zenon DEF CallIsAbout, Saving, Files
<1>3. CASE pc[c] = "saveError"
  <2>1. Files(request[c], error[c]) => Files(request[c], error[c])'
    BY FilesGrows, Zenon
  <2> QED BY <1>0, <1>3, <2>1, Zenon DEF CallIsAbout, SavingError, Files
<1>4. CASE pc[c] \notin {"find", "save", "saveError"}
  BY <1>0, <1>4, Zenon DEF CallIsAbout
<1> QED BY <1>1, <1>2, <1>3, <1>4, Zenon

\* What a storage call of a thread is about stays true until it returns.
LEMMA CallsStep == IInv /\ [Next]_vars => CallsAreAbout'
<1> SUFFICES ASSUME IInv, [Next]_vars, NEW c \in Callers PROVE CallIsAbout(c)'
  BY Zenon DEF CallsAreAbout
<1>0. TypeOK
  BY Zenon DEF IInv
<1> USE DEF TypeOK
<1>1. ASSUME NEW t \in Callers, NEW q \in Requests \cup {Malformed}, HandleRequest(t, q)
      PROVE  CallIsAbout(c)'
  <2>1. CASE c # t
    BY <1>0, <1>1, <2>1, HandleStep, Undisturbed DEF Respond
  <2>2. CASE c = t /\ pc'[c] = "find"
    <3>1. /\ job'[c] = FindJob(LookupOf(q)) /\ future'[c] = None /\ request'[c] = q
          /\ q \in Requests /\ Accepted(q)
      BY <1>0, <1>1, <2>2, HandleStep DEF Respond
    <3> QED BY <2>2, <3>1, Zenon DEF CallIsAbout, Finding
  <2>3. CASE c = t /\ pc'[c] # "find"
    <3>1. pc'[c] = "idle" /\ job'[c] = job[c] /\ future'[c] = future[c] /\ pc[c] = "idle"
      <4>1. pc[t] = "idle"
        BY <1>1, Zenon DEF HandleRequest
      <4> QED BY <1>0, <1>1, <2>3, <4>1, HandleStep DEF Respond
    <3> QED BY <3>1, Zenon DEF IInv, CallsAreAbout, CallIsAbout
  <2> QED BY <2>1, <2>2, <2>3, Zenon
<1>2. ASSUME NEW t \in Callers, Proceed(t)
      PROVE  CallIsAbout(c)'
  <2>0. Moves(t) /\ request' = request
    BY <1>2, ProceedStep, Zenon
  <2>1. CASE c # t
    BY <1>0, <2>0, <2>1, Undisturbed DEF Moves, Answers, Respond, Leaves, Stores
  <2>2. CASE c = t /\ \E r \in Response : Answers(t, r)
    BY <1>0, <2>2, Zenon DEF Answers, Respond, Leaves, CallIsAbout
  <2>3. CASE c = t /\ Stores(t, "ERROR_NONE", "save")
    <3>1. /\ pc'[c] = "save" /\ future'[c] = None
          /\ job'[c] = SaveJob(MakeRecord(request[c], "ERROR_NONE"))
      BY <1>0, <2>3, Zenon DEF Stores
    <3>2. Files(request[c], "ERROR_NONE")'
      BY <2>0, <2>3, FilesGrows, Zenon DEF Stores, Files
    <3> QED BY <2>0, <3>1, <3>2, Zenon DEF CallIsAbout, Saving
  <2>4. ASSUME c = t, NEW e \in ErrorCodes, Stores(t, e, "saveError")
        PROVE  CallIsAbout(c)'
    <3>1. /\ pc'[c] = "saveError" /\ error'[c] = e /\ e # "ERROR_NONE"
          /\ job'[c] = SaveJob(MakeRecord(request[c], e))
      BY <1>0, <2>4, Zenon DEF Stores
    <3>2. Files(request[c], e)'
      BY <2>0, <2>4, FilesGrows, Zenon DEF Stores, Files
    <3> QED BY <2>0, <3>1, <3>2, Zenon DEF CallIsAbout, SavingError, Files
  <2> QED BY <2>0, <2>1, <2>2, <2>3, <2>4, Zenon DEF Moves
<1>3. ASSUME NEW t \in Callers, StorageStep(t)
      PROVE  CallIsAbout(c)'
  <2>0. UNCHANGED <<pc, request, error, job>>
    BY <1>3, StorageStepOf, Zenon DEF threadVars
  <2>1. CASE c # t
    BY <1>0, <1>3, <2>0, <2>1, StorageStepOf, Undisturbed
  <2>2. CASE c = t /\ pc[t] = "find"
    <3> DEFINE l == LookupOf(request[c])
    <3>1. future'[c] = Find(l) /\ UNCHANGED serviceVars
      BY <1>0, <1>3, <2>2, StorageStepOf, Zenon
    <3>2. request[c] \in Requests /\ Accepted(request[c]) /\ job[c] = FindJob(l)
      BY <2>2, Zenon DEF IInv, CallsAreAbout, CallIsAbout, Finding
    <3>3. CASE MakeError(l) # "ERROR_NONE"
      BY <2>0, <2>2, <3>1, <3>2, <3>3, Zenon DEF Find, CallIsAbout, Finding
    <3>4. CASE MakeError(l) = "ERROR_NONE" /\ Make(l) \notin DOMAIN cache
      BY <2>0, <2>2, <3>1, <3>2, <3>4, Zenon DEF Find, CallIsAbout, Finding
    <3>5. CASE MakeError(l) = "ERROR_NONE" /\ Make(l) \in DOMAIN cache
      <4>1. future'[c] = Returned(cache[Make(l)])
        BY <3>1, <3>5, Zenon DEF Find
      <4>2. cache[Make(l)].cache_key = Make(l) /\ cache[Make(l)] \in OperationRecord
        BY <1>0, <3>5, Zenon DEF ServiceTypeOK, Table
      <4>3. Filed(cache[Make(l)])'
        <5>1. Filed(cache[Make(l)])
          BY <3>5, Zenon DEF IInv, RecordsAreFiled
        <5> QED BY <2>0, <3>1, <5>1, Zenon DEF Filed, Files, serviceVars
      <4> QED BY <2>0, <2>2, <3>1, <3>2, <3>5, <4>1, <4>2, <4>3
              DEF CallIsAbout, Finding, Returned, serviceVars, Filed, Files
    <3> QED BY <3>3, <3>4, <3>5, Zenon
  <2>3. CASE c = t /\ pc[t] = "save"
    <3> DEFINE r == MakeRecord(request[c], "ERROR_NONE")
    <3>1. /\ Files(request[c], "ERROR_NONE")
          /\ \/ InsertSucceeds(r) /\ future'[c] = Returned(None)
             \/ faults' > 0 /\ future'[c] = Thrown("ERROR_STORAGE")
      BY <1>0, <1>3, <2>3, StorageStepOf
    <3>2. InsertSucceeds(r) => Make(LookupOf(request[c])) \in DOMAIN history'
      BY Zenon DEF InsertSucceeds, InsertOrIgnore, InsertOrAssign, MakeRecord
    <3>3. Files(request[c], "ERROR_NONE")'
      BY <2>0, <3>1, FilesGrows, Zenon DEF Files
    <3>4. job[c] = SaveJob(r)
      BY <2>3, Zenon DEF IInv, CallsAreAbout, CallIsAbout, Saving
    <3> QED BY <2>0, <2>3, <3>1, <3>2, <3>3, <3>4, Zenon DEF CallIsAbout, Saving
  <2>4. CASE c = t /\ pc[t] = "saveError"
    <3>1. SavingError(c)
      BY <2>4, Zenon DEF IInv, CallsAreAbout, CallIsAbout
    <3>2. Files(request[c], error[c])'
      BY <2>0, <3>1, FilesGrows, Zenon DEF SavingError, Files
    <3> QED BY <2>0, <2>4, <3>1, <3>2, Zenon DEF CallIsAbout, SavingError
  <2> QED BY <1>3, <2>1, <2>2, <2>3, <2>4, StorageStepOf, Zenon
<1>4. CASE StopStorage
  BY <1>4, Undisturbed, Zenon DEF StopStorage, Close, threadVars
<1>5. CASE Crash
  BY <1>5, Zenon DEF Crash, CallIsAbout
<1>6. CASE StartUp
  BY <1>6, Undisturbed, Zenon DEF StartUp, Open, threadVars
<1>7. CASE UNCHANGED vars
  BY <1>7, Undisturbed, Zenon DEF vars, callVars, threadVars
<1> QED BY <1>1, <1>2, <1>3, <1>4, <1>5, <1>6, <1>7, Zenon DEF Next

\* An answer that stands after a step stood before it, or is the right answer
\* that a thread of handle() has just given to the request it took.
LEMMA AnswersGiven ==
  ASSUME IInv, [Next]_vars, NEW c \in Callers, response'[c] # None
  PROVE  /\ open' => open
         /\ \/ request'[c] = request[c] /\ response'[c] = response[c]
            \/ /\ request'[c] \in Requests \cup {Malformed}
               /\ RightAnswer(request'[c], response'[c])
               /\ response'[c].source = "CALCULATED" =>
                    Make(LookupOf(request'[c])) \in DOMAIN history
<1> DEFINE Stood == request'[c] = request[c] /\ response'[c] = response[c]
           Given == /\ request'[c] \in Requests \cup {Malformed}
                    /\ RightAnswer(request'[c], response'[c])
                    /\ response'[c].source = "CALCULATED" =>
                         Make(LookupOf(request'[c])) \in DOMAIN history
<1> SUFFICES (open' => open) /\ (Stood \/ Given)
  BY Zenon
<1>1. /\ request \in [Callers -> Requests \cup {Malformed, None}]
      /\ response \in [Callers -> Response \cup {None}]
  BY Zenon DEF IInv, TypeOK
<1>2. ASSUME NEW t \in Callers, NEW q \in Requests \cup {Malformed}, HandleRequest(t, q)
      PROVE  (open' => open) /\ (Stood \/ Given)
  BY <1>1, <1>2, HandleStep DEF Respond
<1>3. ASSUME NEW t \in Callers, Proceed(t)
      PROVE  (open' => open) /\ (Stood \/ Given)
  <2>1. Moves(t) /\ request' = request /\ open' = open
    BY <1>3, ProceedStep, Zenon DEF Moves, Answers, Leaves, Stores
  <2>2. request[t] \in Requests
    BY <1>3, ProceedStep, Zenon
    DEF IInv, TypeOK, CallsAreAbout, CallIsAbout, Finding, Saving, SavingError, Files
  <2> QED BY <1>1, <2>1, <2>2, Zenon DEF Moves, Answers, Respond, Stores
<1>4. ASSUME NEW t \in Callers, StorageStep(t)
      PROVE  (open' => open) /\ Stood
  BY <1>4, StorageStepOf, Zenon DEF threadVars
<1>5. CASE StopStorage
  BY <1>5, Zenon DEF StopStorage, Close, threadVars
<1>6. CASE Crash \/ StartUp
  BY <1>6, Zenon DEF Crash, StartUp, threadVars, IInv, Lives
<1>7. CASE UNCHANGED vars
  BY <1>7, Zenon DEF vars, callVars, threadVars
<1> QED BY <1>2, <1>3, <1>4, <1>5, <1>6, <1>7, Zenon DEF Next

\* An answer given stays right, and every new one is.
LEMMA RightStep == IInv /\ [Next]_vars => AnswersAreRight'
<1> SUFFICES ASSUME IInv, [Next]_vars, NEW c \in Callers, response'[c] # None
             PROVE  RightAnswer(request[c], response[c])'
  BY Zenon DEF AnswersAreRight
<1>1. ASSUME NEW q, NEW r, RightAnswer(q, r), open' => open, q = request'[c], r = response'[c]
      PROVE  RightAnswer(request[c], response[c])'
  BY <1>1, FaultsGrow DEF RightAnswer
<1>2. RightAnswer(request'[c], response'[c]) /\ (open' => open)
  BY AnswersGiven, Zenon DEF IInv, AnswersAreRight
<1> QED BY <1>1, <1>2, Zenon

\* What has been acknowledged stays in the table.
LEMMA AcknowledgedStep == IInv /\ [Next]_vars => AcknowledgedIsStored'
<1> SUFFICES ASSUME IInv, [Next]_vars, NEW c \in Callers,
                    response'[c] # None, response'[c].source = "CALCULATED"
             PROVE  Make(LookupOf(request'[c])) \in DOMAIN history'
  BY Zenon DEF AcknowledgedIsStored
<1>1. Make(LookupOf(request'[c])) \in DOMAIN history
  BY AnswersGiven, Zenon DEF IInv, AcknowledgedIsStored
<1> QED BY <1>1, RowsStay, Zenon

\* A thread answers the request it took.
LEMMA ToRequestsStep == IInv /\ [Next]_vars => AnswersAreToRequests'
<1> SUFFICES ASSUME IInv, [Next]_vars, NEW c \in Callers, response'[c] # None
             PROVE  request'[c] \in Requests \cup {Malformed}
  BY Zenon DEF AnswersAreToRequests
<1> QED BY AnswersGiven, Zenon DEF IInv, AnswersAreToRequests

\* Every step keeps the invariant.
LEMMA NextIInv == IInv /\ [Next]_vars => IInv'
BY TypeStep, FiledStep, CallsStep, LivesStep, CoversStep, RightStep, AcknowledgedStep,
   ToRequestsStep, Zenon DEF IInv

\* The inductive invariant holds always: requests, storage steps, crashes and restarts.
LEMMA Invariance == Spec => []IInv
BY InitIInv, NextIInv, PTL DEF Spec

\* Without a failure of the database, the row of an acknowledged result is a
\* hit for its request, and so holds the result.
LEMMA RowHoldsResult == IInv => StoredAsAnswered
<1> SUFFICES ASSUME IInv, faults = 0, NEW c \in Callers, response[c] # None,
                    response[c].source = "CALCULATED"
             PROVE  history[Make(LookupOf(request[c]))].result = response[c].result
  BY Zenon DEF StoredAsAnswered, AcknowledgedResultIsStored
<1> DEFINE q == request[c]
           r == response[c]
           record == history[Make(LookupOf(q))]
<1>1. r = Success(r.result, "CALCULATED")
  BY NoneAssumption, Zenon DEF IInv, TypeOK, Response, Success
<1>2. Expected(q) = Success(r.result, None)
  <2>1. RightAnswer(q, r)
    BY Zenon DEF IInv, AnswersAreRight
  <2>2. [r EXCEPT !.source = None] = Success(r.result, None) /\ r.status = "OK"
    BY <1>1 DEF Success
  <2> QED BY <2>1, <2>2, Zenon DEF RightAnswer
<1>3. Expected(q).status = "OK"
  BY <1>2 DEF Success
<1>4. Accepted(q)
  <2>1. Rejection(q) = "OK"
    BY <1>3, Zenon DEF Expected, Failure
  <2>2. q \in Requests \cup {Malformed}
    BY Zenon DEF IInv, AnswersAreToRequests
  <2> QED BY <2>1, <2>2, RequestsAssumption, Zenon DEF Accepted, Rejection
<1>5. Complete(q)
  BY <1>3, <1>4, Zenon DEF Expected, Complete, Failure, Accepted
<1>6. MakeError(LookupOf(q)) = "ERROR_NONE"
  BY <1>4, <1>5, KeyOf, Zenon DEF Complete, Arity
<1>7. Filed(record) /\ record.cache_key = Make(LookupOf(q)) /\ record \in OperationRecord
  <2>1. Make(LookupOf(q)) \in DOMAIN history
    BY Zenon DEF IInv, AcknowledgedIsStored
  <2> QED BY <2>1, Zenon DEF IInv, RecordsAreFiled, TypeOK, ServiceTypeOK, Table
<1> HIDE DEF record, r
<1>8. [FromCache(record) EXCEPT !.source = None] = Expected(q)
  <2>1. ~FactorialOfNothing(q)
    BY <1>5 DEF FactorialOfNothing, Complete, Arity
  <2> DEFINE answer == [FromCache(record) EXCEPT !.source = None]
  <2>2. \/ answer = Expected(q)
        \/ answer.status = "STORAGE_ERROR" /\ faults > 0
        \/ FactorialOfNothing(q) /\ answer = Expected([q EXCEPT !.operands = <<0>>])
    BY <1>4, <1>6, <1>7, HitIsRight, Zenon
  <2>3. ~(faults > 0)
    OBVIOUS
  <2> HIDE DEF answer
  <2>4. answer = Expected(q)
    BY <2>1, <2>2, <2>3, Zenon
  <2> QED BY <2>4, Zenon DEF answer
<1>9. record.status = "ERROR_NONE"
  BY <1>3, <1>7, <1>8 DEF FromCache, Failure, MapInternalError, OperationRecord, ErrorCodes
<1> QED BY <1>2, <1>8, <1>9 DEF FromCache, Success, record, r

-----------------------------------------------------------------------------
(* The theorems.                                                           *)

\* Types, for any threads, requests and width of int; in particular no cached
\* success lacks the result that handle() dereferences.
THEOREM TypeCorrect == Spec => []TypeOK
<1>1. IInv => TypeOK
  BY Zenon DEF IInv
<1> QED BY <1>1, Invariance, PTL

\* Every answer is the mathematically right one, whoever filled the cache and
\* however often the database failed and the process died (handle()).
THEOREM RightAnswers == Spec => []AnswersAreRight
<1>1. IInv => AnswersAreRight
  BY Zenon DEF IInv
<1> QED BY <1>1, Invariance, PTL

\* A result answered as calculated is in the table (the save in handle()).
THEOREM Acknowledged == Spec => []AcknowledgedIsStored
<1>1. IInv => AcknowledgedIsStored
  BY Zenon DEF IInv
<1> QED BY <1>1, Invariance, PTL

\* The cache of a running service covers the table (StorageService::save).
THEOREM Covered == Spec => []CacheCoversHistory
<1>1. IInv => CacheCoversHistory
  BY Zenon DEF IInv
<1> QED BY <1>1, Invariance, PTL

\* Rows never change (ON CONFLICT DO NOTHING), by no thread and no restart.
THEOREM RowsPermanent == Spec => RowsNeverChange
<1>1. IInv /\ [Next]_vars
        => [\A k \in DOMAIN history : k \in DOMAIN history' /\ history'[k] = history[k]]_vars
  BY RowsStay, Zenon
<1> QED BY <1>1, Invariance, PTL DEF Spec, RowsNeverChange

\* While the database has not failed, the table holds the acknowledged result
\* itself (PostgresRepository::save).
THEOREM ResultStored == Spec => []StoredAsAnswered
BY Invariance, RowHoldsResult, PTL
=============================================================================
