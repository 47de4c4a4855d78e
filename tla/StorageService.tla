--------------------------- MODULE StorageService ---------------------------
(***************************************************************************)
(* Storage::StorageService with the two repositories it owns: the cache,   *)
(* and the operation_history table behind one PostgreSQL connection.  Its  *)
(* operations run one at a time (on the storage thread), so each is one    *)
(* step.  The database fails: a statement is rejected, or the connection   *)
(* breaks, before or after the row was committed.  A broken connection is  *)
(* never reopened, and ensure_connected then throws on every save.         *)
(***************************************************************************)
EXTENDS OperationKey

CONSTANT MaxFaults    \* bound on the failures of the database

ASSUME MaxFaultsAssumption == MaxFaults \in Nat

VARIABLES cache,      \* CacheRepository::cache_: key -> record
          history,    \* the table operation_history: cache_key (UNIQUE) -> row
          connected,  \* PQstatus(connection_) = CONNECTION_OK
          faults      \* how often the database has failed a save

serviceVars == <<cache, history, connected, faults>>

\* The codes an exception that reaches the handler, or a record, may carry.
\* (Types::ErrorCode without the ones only a command line can produce.)
ErrorCodes ==
  {"ERROR_NONE", "ERROR_MISSING_OPERATION", "ERROR_MISSING_FIRST_NUMBER",
   "ERROR_MISSING_SECOND_NUMBER", "ERROR_INVALID_OPERATION", "ERROR_DIVISION_BY_ZERO",
   "ERROR_NEGATIVE_FACTORIAL", "ERROR_NEGATIVE_POWER", "ERROR_OVERFLOW", "ERROR_STORAGE"}

\* A record has a result exactly when its status is ERROR_NONE: handle()
\* dereferences the result of a cached success without a test.
OperationRecord ==
  {r \in [first_number : Int, second_number : Int \cup {None}, operation : OperationName,
          result : Int \cup {None}, status : ErrorCodes, cache_key : Key] :
     r.status = "ERROR_NONE" <=> r.result # None}

\* What a call on the storage returns: an exception's code, or a value.
Result == [error : ErrorCodes, record : OperationRecord \cup {None}]
Returned(record) == [error |-> "ERROR_NONE", record |-> record]
Thrown(error) == [error |-> error, record |-> None]

Empty == [k \in {} |-> None]

\* A map from keys to the records filed under them.
Table(map) ==
  /\ map \in [DOMAIN map -> OperationRecord]
  /\ \A k \in DOMAIN map : map[k].cache_key = k

ServiceTypeOK ==
  /\ Table(cache) /\ Table(history)
  /\ connected \in BOOLEAN
  /\ faults \in 0 .. MaxFaults

ServiceInit == cache = Empty /\ history = Empty /\ connected = FALSE /\ faults = 0

-----------------------------------------------------------------------------
\* Mutant: the record is filed under its operands as they came.
InsertOrAssign_Unordered(map, record) ==
  LET key == [record.cache_key EXCEPT !.left = record.first_number, !.right = record.second_number]
  IN  [k \in DOMAIN map \cup {key} |-> IF k = key THEN record ELSE map[k]]

\* std::unordered_map::insert_or_assign (CacheRepository::put)
InsertOrAssign(map, record) ==
  [k \in DOMAIN map \cup {record.cache_key} |->
     IF k = record.cache_key THEN record ELSE map[k]]

\* Mutant: ON CONFLICT DO UPDATE.
InsertOrIgnore_Update(table, record) == InsertOrAssign(table, record)

\* INSERT ... ON CONFLICT (cache_key) DO NOTHING
InsertOrIgnore(table, record) ==
  IF record.cache_key \in DOMAIN table THEN table ELSE InsertOrAssign(table, record)

\* initialize(): connect, create the table, load every row, put it in the cache.
Initialize ==
  /\ connected' = TRUE
  /\ cache' = history
  /\ UNCHANGED <<history, faults>>

\* find(): the cache alone answers; make() may throw.
Find(l) ==
  IF MakeError(l) # "ERROR_NONE" THEN Thrown(MakeError(l))
  ELSE IF Make(l) \in DOMAIN cache THEN Returned(cache[Make(l)]) ELSE Returned(None)

\* save(): first the cache, then the database, whose outcomes follow.
Save(record) == cache' = InsertOrAssign(cache, record)

InsertSucceeds(record) ==
  /\ connected
  /\ Save(record)
  /\ history' = InsertOrIgnore(history, record)
  /\ UNCHANGED <<connected, faults>>

\* PQexecParams answers with an error and the connection stays up.
InsertRejected(record) ==
  /\ connected /\ faults < MaxFaults
  /\ Save(record)
  /\ faults' = faults + 1
  /\ UNCHANGED <<history, connected>>

\* Mutant: save() goes to the database first and to the cache after it.
ConnectionBreaks_DatabaseFirst(record) ==
  /\ connected /\ faults < MaxFaults
  /\ history' \in {history, InsertOrIgnore(history, record)}
  /\ connected' = FALSE
  /\ faults' = faults + 1
  /\ UNCHANGED cache

\* The connection breaks during PQexecParams: the row may have been committed.
ConnectionBreaks(record) ==
  /\ connected /\ faults < MaxFaults
  /\ Save(record)
  /\ history' \in {history, InsertOrIgnore(history, record)}
  /\ connected' = FALSE
  /\ faults' = faults + 1

\* ensure_connected() throws before anything is sent.
NotConnected(record) ==
  /\ ~connected
  /\ Save(record)
  /\ UNCHANGED <<history, connected, faults>>

SaveThrows(record) ==
  InsertRejected(record) \/ ConnectionBreaks(record) \/ NotConnected(record)
=============================================================================
