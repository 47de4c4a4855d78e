--------------------------- MODULE RequestHandler ---------------------------
(***************************************************************************)
(* Server::RequestHandler::handle, run by any number of network threads    *)
(* over one IOperationStorage.  A thread runs from one storage call to the *)
(* next in one step: in between it touches nothing shared.  The process    *)
(* may die at any moment; what survives is the table.  Response messages,  *)
(* request ids and timings are left out.                                   *)
(***************************************************************************)
EXTENDS OperationStorage, CalculatorCore

CONSTANTS Requests,    \* well-formed requests
          Malformed,   \* stands for every line parse_request rejects
          MaxCrashes   \* bound on the deaths of the process

VARIABLES pc,        \* the storage call a thread is in
          request,   \* what it is handling, or handled last
          error,     \* the exception whose record it is saving
          response,  \* what it answered last
          up,        \* the process runs
          crashes    \* how often it died

threadVars == <<pc, request, error, response>>
vars == <<serviceVars, callVars, threadVars, up, crashes>>

ProtocolOperations == {"ADDITION", "SUBTRACTION", "MULTIPLICATION", "DIVISION",
                       "EXPONENTIATION", "FACTORIAL"}

\* The operands are int64 and may exceed an int.
Request == [operation : ProtocolOperations \cup {"UNKNOWN"}, operands : Seq(Int)]

ASSUME RequestsAssumption == Requests \subseteq Request /\ Malformed \notin Request
ASSUME NoneAssumption ==
  /\ None \notin Int /\ None \notin Job /\ None \notin Result
  /\ None \notin {"CACHE", "CALCULATED"}
ASSUME MaxCrashesAssumption == MaxCrashes \in Nat

-----------------------------------------------------------------------------
(* The conversions of the handler.                                         *)

ToInternalOperation ==
  [ADDITION |-> "OPERATION_ADDITION", SUBTRACTION |-> "OPERATION_SUBTRACTION",
   MULTIPLICATION |-> "OPERATION_MULTIPLICATION", DIVISION |-> "OPERATION_DIVISION",
   EXPONENTIATION |-> "OPERATION_EXPONENTIATION", FACTORIAL |-> "OPERATION_FACTORIAL"]

\* Mutant: a slip in the switch gives exponentiation the name of multiplication.
OperationToStorageName_Slip ==
  [ADDITION |-> "add", SUBTRACTION |-> "sub", MULTIPLICATION |-> "mul",
   DIVISION |-> "div", EXPONENTIATION |-> "mul", FACTORIAL |-> "fact"]

OperationToStorageName ==
  [ADDITION |-> "add", SUBTRACTION |-> "sub", MULTIPLICATION |-> "mul",
   DIVISION |-> "div", EXPONENTIATION |-> "pow", FACTORIAL |-> "fact"]

FitsInt(value) == value \in CInt

\* The ProtocolError parse_request or to_calculator_data throws, or OK.
Rejection(q) ==
  IF q = Malformed THEN "INVALID_JSON"
  ELSE IF q.operation \notin ProtocolOperations THEN "INVALID_OPERATION"
  ELSE IF \E i \in 1 .. Len(q.operands) : i <= 2 /\ ~FitsInt(q.operands[i])
       THEN "OPERAND_OUT_OF_RANGE" ELSE "OK"

\* to_calculator_data: a number that is not given is 0.
DataOf(q) ==
  [operation         |-> ToInternalOperation[q.operation],
   first_number      |-> IF Len(q.operands) > 0 THEN q.operands[1] ELSE 0,
   has_first_number  |-> Len(q.operands) > 0,
   second_number     |-> IF Len(q.operands) > 1 THEN q.operands[2] ELSE 0,
   has_second_number |-> Len(q.operands) > 1]

SecondNumberForStorage(data) ==
  IF data.operation = "OPERATION_FACTORIAL" \/ ~data.has_second_number
  THEN None ELSE data.second_number

LookupOf(q) ==
  [first_number  |-> DataOf(q).first_number,
   second_number |-> SecondNumberForStorage(DataOf(q)),
   operation     |-> OperationToStorageName[q.operation]]

IsStorable(data) ==
  /\ data.operation # "OPERATION_NONE" /\ data.has_first_number
  /\ data.operation = "OPERATION_FACTORIAL" \/ data.has_second_number

\* Mutant: the result is filled in from the first number.
MakeRecord_WrongField(q, status) ==
  [first_number  |-> LookupOf(q).first_number,
   second_number |-> LookupOf(q).second_number,
   operation     |-> LookupOf(q).operation,
   result        |-> IF status = "ERROR_NONE" THEN LookupOf(q).first_number ELSE None,
   status        |-> status,
   cache_key     |-> Make(LookupOf(q))]

\* make_operation_record: a result only for a success.
MakeRecord(q, status) ==
  [first_number  |-> LookupOf(q).first_number,
   second_number |-> LookupOf(q).second_number,
   operation     |-> LookupOf(q).operation,
   result        |-> IF status = "ERROR_NONE" THEN Calculate(DataOf(q)).result ELSE None,
   status        |-> status,
   cache_key     |-> Make(LookupOf(q))]

MapInternalError ==
  [ERROR_NONE |-> "OK",
   ERROR_MISSING_FIRST_NUMBER |-> "OPERANDS_COUNT_MISMATCH",
   ERROR_MISSING_SECOND_NUMBER |-> "OPERANDS_COUNT_MISMATCH",
   ERROR_INVALID_NUMBER |-> "INVALID_OPERANDS",
   ERROR_MISSING_OPERATION |-> "INVALID_OPERATION",
   ERROR_INVALID_OPERATION |-> "INVALID_OPERATION",
   ERROR_DIVISION_BY_ZERO |-> "DIVISION_BY_ZERO",
   ERROR_NEGATIVE_FACTORIAL |-> "FACTORIAL_OF_NEGATIVE_NUMBER",
   ERROR_OVERFLOW |-> "NUMERIC_OVERFLOW",
   ERROR_STORAGE |-> "STORAGE_ERROR",
   ERROR_INVALID_JSON |-> "INVALID_JSON",
   ERROR_NEGATIVE_POWER |-> "INVALID_OPERANDS",
   ERROR_UNKNOWN_OPTION |-> "CALCULATION_ERROR"]

Statuses == {"INVALID_JSON", "OPERAND_OUT_OF_RANGE", "INTERNAL_ERROR"}
              \cup {MapInternalError[e] : e \in DOMAIN MapInternalError}

\* A success has a result and a source, a failure has no result.
Response ==
  [status : {"OK"}, result : Int, source : {"CACHE", "CALCULATED"}]
    \cup [status : Statuses \ {"OK"}, result : {None}, source : {"CACHE", None}]
Success(result, source) == [status |-> "OK", result |-> result, source |-> source]
Failure(status, source) == [status |-> status, result |-> None, source |-> source]

\* Mutant: the status of the record is not looked at.
FromCache_NoStatusCheck(record) == Success(record.result, "CACHE")

FromCache(record) ==
  IF record.status = "ERROR_NONE" THEN Success(record.result, "CACHE")
  ELSE Failure(MapInternalError[record.status], "CACHE")

-----------------------------------------------------------------------------
TypeOK ==
  /\ ServiceTypeOK
  /\ job \in [Callers -> Job \cup {None}]
  /\ future \in [Callers -> Result \cup {None}]
  /\ open \in BOOLEAN
  /\ pc \in [Callers -> {"idle", "find", "save", "saveError"}]
  /\ request \in [Callers -> Requests \cup {Malformed, None}]
  /\ error \in [Callers -> ErrorCodes]
  /\ response \in [Callers -> Response \cup {None}]
  /\ up \in BOOLEAN
  /\ crashes \in 0 .. MaxCrashes

ThreadInit ==
  /\ pc = [t \in Callers |-> "idle"]
  /\ request = [t \in Callers |-> None]
  /\ error = [t \in Callers |-> "ERROR_NONE"]
  /\ response = [t \in Callers |-> None]

\* The storage has not been started yet.
Init == StorageInit /\ ThreadInit /\ up = FALSE /\ crashes = 0

\* The thread leaves handle() with a response.
Respond(t, r) ==
  /\ pc' = [pc EXCEPT ![t] = "idle"]
  /\ response' = [response EXCEPT ![t] = r]

\* The thread calls the storage, or goes on with the answer a refused call
\* leads to: enqueue() throws std::runtime_error once the storage is closed.
CallStorage(t, j, at, refused) ==
  \/ /\ Submit(t, j)
     /\ pc' = [pc EXCEPT ![t] = at]
     /\ response' = [response EXCEPT ![t] = None]
  \/ /\ ~open
     /\ Respond(t, refused)
     /\ job' = [job EXCEPT ![t] = None]
     /\ future' = [future EXCEPT ![t] = None]
     /\ UNCHANGED open

\* handle() up to storage_->find().
HandleRequest(t, q) ==
  /\ up /\ pc[t] = "idle"
  /\ request' = [request EXCEPT ![t] = q]
  /\ \/ /\ Rejection(q) # "OK"
        /\ Respond(t, Failure(Rejection(q), None))
        /\ UNCHANGED callVars
     \/ /\ Rejection(q) = "OK"
        /\ CallStorage(t, FindJob(LookupOf(q)), "find", Failure("INTERNAL_ERROR", None))
  /\ UNCHANGED <<serviceVars, error, up, crashes>>

\* The storage call a thread is in has an outcome.
Completed(t, at) == pc[t] = at /\ future[t] # None

\* handle() ends after a storage call.
RespondAfterCall(t, r) ==
  /\ Respond(t, r)
  /\ Return(t)
  /\ error' = [error EXCEPT ![t] = "ERROR_NONE"]
  /\ UNCHANGED <<serviceVars, request, up, crashes>>

\* OperationKey::make threw inside find(): the outer catch.
FindThrew(t) ==
  /\ Completed(t, "find") /\ future[t].error # "ERROR_NONE"
  /\ RespondAfterCall(t, Failure(MapInternalError[future[t].error], None))

\* A record is found and is the answer: arguments are not checked.
CacheHit(t) ==
  /\ Completed(t, "find") /\ future[t].record # None
  /\ RespondAfterCall(t, FromCache(future[t].record))

CacheMiss(t) == Completed(t, "find") /\ future[t] = Returned(None)

\* check_arguments() throws outside the inner try: nothing is saved.
CheckFailed(t) ==
  LET e == CheckArguments(DataOf(request[t]))
  IN  /\ CacheMiss(t) /\ e # "ERROR_NONE"
      /\ RespondAfterCall(t, Failure(MapInternalError[e], None))

\* The calculation succeeds and is saved; an exception of enqueue() is no
\* CalculatorException and ends in the catch of std::exception.
Calculated(t) ==
  LET data == DataOf(request[t])
  IN  /\ CacheMiss(t) /\ CheckArguments(data) = "ERROR_NONE"
      /\ Calculate(data).error = "ERROR_NONE"
      /\ CallStorage(t, SaveJob(MakeRecord(request[t], "ERROR_NONE")), "save",
                     Failure("INTERNAL_ERROR", None))
      /\ UNCHANGED <<serviceVars, request, error, up, crashes>>

\* catch (const CalculatorException&): a record with the code of the exception
\* is saved under the key of the operation, then the exception goes on.  What
\* this save throws is only logged.
SaveError(t, e) ==
  /\ IF IsStorable(DataOf(request[t]))
     THEN CallStorage(t, SaveJob(MakeRecord(request[t], e)), "saveError",
                      Failure(MapInternalError[e], None))
     ELSE Respond(t, Failure(MapInternalError[e], None)) /\ Return(t)
  /\ error' = [error EXCEPT ![t] = e]
  /\ UNCHANGED <<serviceVars, request, up, crashes>>

CalculationFailed(t) ==
  LET data == DataOf(request[t])
  IN  /\ CacheMiss(t) /\ CheckArguments(data) = "ERROR_NONE"
      /\ Calculate(data).error # "ERROR_NONE"
      /\ SaveError(t, Calculate(data).error)

Saved(t) ==
  /\ Completed(t, "save") /\ future[t].error = "ERROR_NONE"
  /\ RespondAfterCall(t, Success(Calculate(DataOf(request[t])).result, "CALCULATED"))

\* Mutant: a failed save is only logged.
SaveFailed_Ignored(t) ==
  /\ Completed(t, "save") /\ future[t].error # "ERROR_NONE"
  /\ RespondAfterCall(t, Success(Calculate(DataOf(request[t])).result, "CALCULATED"))

\* The save itself threw a CalculatorException: the same catch takes it.
SaveFailed(t) ==
  /\ Completed(t, "save") /\ future[t].error # "ERROR_NONE"
  /\ SaveError(t, future[t].error)

\* Mutant: the handler goes on only when this save succeeded.
ErrorSaved_WaitsForSuccess(t) ==
  /\ Completed(t, "saveError") /\ future[t].error = "ERROR_NONE"
  /\ RespondAfterCall(t, Failure(MapInternalError[error[t]], None))

ErrorSaved(t) ==
  /\ Completed(t, "saveError")
  /\ RespondAfterCall(t, Failure(MapInternalError[error[t]], None))

Proceed(t) ==
  \/ FindThrew(t) \/ CacheHit(t) \/ CheckFailed(t)
  \/ Calculated(t) \/ CalculationFailed(t)
  \/ Saved(t) \/ SaveFailed(t) \/ ErrorSaved(t)

-----------------------------------------------------------------------------
\* The storage thread runs the call of t.
StorageStep(t) == Perform(t) /\ UNCHANGED <<threadVars, up, crashes>>

\* The storage is stopped while requests are still being handled.
StopStorage == up /\ Close /\ UNCHANGED <<serviceVars, threadVars, up, crashes>>

\* The process dies, or ends: only the table is left.
Crash ==
  /\ up /\ crashes < MaxCrashes
  /\ up' = FALSE /\ crashes' = crashes + 1
  /\ cache' = Empty /\ connected' = FALSE
  /\ job' = [t \in Callers |-> None] /\ future' = [t \in Callers |-> None] /\ open' = FALSE
  /\ pc' = [t \in Callers |-> "idle"] /\ request' = [t \in Callers |-> None]
  /\ error' = [t \in Callers |-> "ERROR_NONE"] /\ response' = [t \in Callers |-> None]
  /\ UNCHANGED <<history, faults>>

\* The service starts, for the first time or again (systemd Restart=on-failure).
StartUp ==
  /\ ~up /\ up' = TRUE
  /\ Initialize /\ Open
  /\ UNCHANGED <<threadVars, crashes>>

Next ==
  \/ \E t \in Callers, q \in Requests \cup {Malformed} : HandleRequest(t, q)
  \/ \E t \in Callers : Proceed(t) \/ StorageStep(t)
  \/ StopStorage \/ Crash \/ StartUp

\* Network threads and the storage thread run; the database answers.
Fairness == \A t \in Callers : WF_vars(Proceed(t)) /\ WF_vars(StorageStep(t))

Spec == Init /\ [][Next]_vars
FairSpec == Spec /\ Fairness

-----------------------------------------------------------------------------
(* What a calculator answers: the mathematical result, with no cache and   *)
(* no storage.                                                             *)

Arity(operation) == IF operation = "FACTORIAL" THEN 1 ELSE 2

Exact(operation, a, b) ==
  CASE operation = "ADDITION" -> a + b
    [] operation = "SUBTRACTION" -> a - b
    [] operation = "MULTIPLICATION" -> a * b
    [] operation = "DIVISION" -> Quotient(a, b)
    [] operation = "EXPONENTIATION" -> Power(a, b)
    [] operation = "FACTORIAL" -> Factorial(a)

Expected(q) ==
  LET a == q.operands[1]
      b == IF q.operation = "FACTORIAL" THEN 0 ELSE q.operands[2]
  IN  IF Rejection(q) # "OK" THEN Failure(Rejection(q), None)
      ELSE IF Len(q.operands) < Arity(q.operation) THEN Failure("OPERANDS_COUNT_MISMATCH", None)
      ELSE IF q.operation = "FACTORIAL" /\ a < 0 THEN Failure("FACTORIAL_OF_NEGATIVE_NUMBER", None)
      ELSE IF q.operation = "EXPONENTIATION" /\ b < 0 THEN Failure("INVALID_OPERANDS", None)
      ELSE IF q.operation = "DIVISION" /\ b = 0 THEN Failure("DIVISION_BY_ZERO", None)
      ELSE IF FitsInt(Exact(q.operation, a, b)) THEN Success(Exact(q.operation, a, b), None)
      ELSE Failure("NUMERIC_OVERFLOW", None)

\* A factorial without its operand: the one request whose answer depends on
\* what is cached (see MissingOperandIsRejected).
FactorialOfNothing(q) == q # Malformed /\ q.operation = "FACTORIAL" /\ q.operands = <<>>

\* The answer r to q is the mathematically right one, except that a failure of
\* the database may turn it into STORAGE_ERROR and the closing of the storage
\* into INTERNAL_ERROR, and that a cached 0! answers a factorial of nothing.
RightAnswer(q, r) ==
  \/ [r EXCEPT !.source = None] = Expected(q)
  \/ r.status = "STORAGE_ERROR" /\ faults > 0
  \/ r.status = "INTERNAL_ERROR" /\ ~open
  \/ /\ FactorialOfNothing(q) /\ r.source = "CACHE"
     /\ [r EXCEPT !.source = None] = Expected([q EXCEPT !.operands = <<0>>])

\* Every answer is right, whatever the cache, the table, the other threads and
\* earlier lives of the process have been through (RequestHandler::handle).
AnswersAreRight == \A t \in Callers : response[t] # None => RightAnswer(request[t], response[t])

\* A result that was calculated and answered is in the table, so that it
\* survives the process (the save at the end of the inner try).
AcknowledgedIsStored ==
  \A t \in Callers :
    response[t] # None =>
      (response[t].source = "CALCULATED" => Make(LookupOf(request[t])) \in DOMAIN history)

\* While the service runs, what the table holds the cache holds: no operation
\* that was stored is calculated again, even when the commit of its row was
\* reported as a failure (StorageService::save puts in the cache first).
CacheCoversHistory == up => DOMAIN history \subseteq DOMAIN cache

\* A row is never changed or removed, by no thread and by no restart.
RowsNeverChange ==
  [][\A k \in DOMAIN history : k \in DOMAIN history' /\ history'[k] = history[k]]_vars

\* A thread that is handling a request answers it, unless the process dies.
EveryRequestIsAnswered == \A t \in Callers : (pc[t] # "idle") ~> (pc[t] = "idle")

\* What the service answers from the cache as a "cached calculation error" is an
\* error of the calculation (handle, first branch).
CachedErrorsAreCalculationErrors ==
  \A t \in Callers :
    response[t] # None =>
      (response[t].source = "CACHE" /\ response[t].status # "OK"
         => response[t].status = Expected(request[t]).status)

\* An answered result is what the table holds for its operation from then on:
\* "Operation saved to PostgreSQL with key" (PostgresRepository::save).
AcknowledgedResultIsStored ==
  \A t \in Callers :
    response[t] # None =>
      (response[t].source = "CALCULATED" =>
         history[Make(LookupOf(request[t]))].result = response[t].result)

\* As long as the database has not failed, that is so: no thread's save, and no
\* other spelling of the operation, has put another result there first.
StoredAsAnswered == faults = 0 => AcknowledgedResultIsStored

\* A request without its first operand is never answered with a result:
\* "First number is missing." (Checker::check_arguments).
MissingOperandIsRejected ==
  \A t \in Callers :
    request[t] \in Requests /\ response[t] # None =>
      (request[t].operands = <<>> => response[t].status # "OK")
=============================================================================
