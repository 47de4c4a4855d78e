------------------------ MODULE StorageServiceProofs ------------------------
(***************************************************************************)
(* What the operations of the storage return and leave: the lemmas that    *)
(* the proofs about its users share.                                       *)
(***************************************************************************)
EXTENDS StorageService, TLAPS

\* symbol_for, operation by operation.
LEMMA SymbolOf ==
  ASSUME NEW p \in Symbols
  PROVE  SymbolFor(p[1]) = p[2]
<1> DEFINE s == CHOOSE r \in Symbols : r[1] = p[1]
<1>1. s \in Symbols /\ s[1] = p[1]
  BY Zenon
<1> HIDE DEF s
<1>2. s[2] = p[2]
  BY <1>1 DEF Symbols
<1> QED BY <1>2, Zenon DEF SymbolFor, s

\* Filing a record keeps a table a table (CacheRepository::put).
LEMMA InsertOrAssignTable ==
  ASSUME NEW map, Table(map), NEW record \in OperationRecord
  PROVE  Table(InsertOrAssign(map, record))
BY Zenon DEF Table, InsertOrAssign

\* So does INSERT ... ON CONFLICT DO NOTHING (PostgresRepository::save).
LEMMA InsertOrIgnoreTable ==
  ASSUME NEW map, Table(map), NEW record \in OperationRecord
  PROVE  Table(InsertOrIgnore(map, record))
BY InsertOrAssignTable, Zenon DEF InsertOrIgnore

\* make() throws one of the codes of Types::ErrorCode, or nothing.
LEMMA MakeErrorType == ASSUME NEW l PROVE MakeError(l) \in ErrorCodes
BY Zenon DEF MakeError, ErrorCodes

\* find() gives a result: a record of the cache, nothing, or an exception.
LEMMA FindType == ASSUME NEW l, Table(cache) PROVE Find(l) \in Result
BY MakeErrorType, Zenon DEF Find, Result, Returned, Thrown, Table, ErrorCodes

\* Every outcome of a save keeps the types of the storage.
LEMMA SaveType ==
  ASSUME ServiceTypeOK, NEW record \in OperationRecord,
         InsertSucceeds(record) \/ SaveThrows(record)
  PROVE  ServiceTypeOK'
<1>1. Table(cache')
  BY InsertOrAssignTable, Zenon
  DEF ServiceTypeOK, InsertSucceeds, SaveThrows, InsertRejected, ConnectionBreaks, NotConnected, Save
<1>2. Table(history')
  BY InsertOrIgnoreTable, Zenon
  DEF ServiceTypeOK, InsertSucceeds, SaveThrows, InsertRejected, ConnectionBreaks, NotConnected
<1>3. connected' \in BOOLEAN
  BY Zenon DEF ServiceTypeOK, InsertSucceeds, SaveThrows, InsertRejected, ConnectionBreaks, NotConnected
<1>4. faults' \in 0 .. MaxFaults
  <2>1. faults' = faults \/ (faults < MaxFaults /\ faults' = faults + 1)
    BY Zenon DEF InsertSucceeds, SaveThrows, InsertRejected, ConnectionBreaks, NotConnected
  <2> QED BY <2>1, MaxFaultsAssumption DEF ServiceTypeOK
<1> QED BY <1>1, <1>2, <1>3, <1>4, Zenon DEF ServiceTypeOK, Table
=============================================================================
