------------------------- MODULE PostgresRepository -------------------------
(***************************************************************************)
(* Storage::PostgresRepository: records go to the table operation_history  *)
(* and come back as text, an absent number as NULL.  Failures of the       *)
(* database are StorageService's; here every statement succeeds.           *)
(***************************************************************************)
EXTENDS OperationKey, SequencesExt

CONSTANTS Records,   \* records that are saved
          MaxSaves   \* bound on the saves

VARIABLES exists,    \* the table has been created
          table,     \* its rows by id: the texts of the columns, None for NULL
          saved,     \* the records given to save(), in their order
          loaded     \* what load_history() last returned

Init == exists = FALSE /\ table = <<>> /\ saved = <<>> /\ loaded = None

\* Mutant: every start creates the table anew.
InitSchema_Recreates ==
  /\ exists' = TRUE /\ table' = <<>>
  /\ UNCHANGED <<saved, loaded>>

\* CREATE TABLE IF NOT EXISTS, on every start of the service.
InitSchema ==
  /\ exists' = TRUE
  /\ UNCHANGED <<table, saved, loaded>>

ToOptionalString(number) == IF number = None THEN None ELSE Decimal(number)

\* The parameters $1 to $6.
Params(record) ==
  <<Decimal(record.first_number), ToOptionalString(record.second_number), record.operation,
    ToOptionalString(record.result), Decimal(record.status), Text(record.cache_key)>>

\* INSERT ... ON CONFLICT (cache_key) DO NOTHING
Save(record) ==
  /\ exists /\ Len(saved) < MaxSaves
  /\ saved' = Append(saved, record)
  /\ table' = IF \E i \in DOMAIN table : table[i][6] = Params(record)[6] THEN table
              ELSE Append(table, Params(record))
  /\ UNCHANGED <<exists, loaded>>

\* std::stoi
Stoi(text) ==
  LET digits == IF Head(text) = "-" THEN Tail(text) ELSE text
      number == FoldLeft(LAMBDA n, ch : 10 * n + SelectInSeq(Digit, LAMBDA d : d = ch) - 1, 0, digits)
  IN  IF Head(text) = "-" THEN -number ELSE number

\* Mutant: a NULL, whose text is empty, counts as zero.
ParseOptionalInt_Zero(text) == IF text = None THEN 0 ELSE Stoi(text)

ParseOptionalInt(text) == IF text = None THEN None ELSE Stoi(text)

\* The record made of a row of the result; its key stays text.
FromRow(row) ==
  [first_number |-> Stoi(row[1]), second_number |-> ParseOptionalInt(row[2]), operation |-> row[3],
   result |-> ParseOptionalInt(row[4]), status |-> Stoi(row[5]), cache_key |-> row[6]]

\* SELECT ... ORDER BY id ASC, row by row.
LoadHistory ==
  /\ exists
  /\ loaded' = [i \in 1 .. Len(table) |-> FromRow(table[i])]
  /\ UNCHANGED <<exists, table, saved>>

-----------------------------------------------------------------------------
\* The saves that put a row into the table: the first of their key.
Kept(records) ==
  {i \in DOMAIN records : \A j \in 1 .. i - 1 : records[j].cache_key # records[i].cache_key}

\* What a start loads are all the records ever saved, each key's first, equal in
\* every field and in the order of the saves: signs, absent operands and absent
\* results survive the text, and no start empties the table.  It is about
\* load_history() as initialize() calls it, before this process saves anything.
LoadedIsSaved ==
  loaded # None =>
    LET kept == SetToSortSeq(Kept(saved), <)
    IN  loaded = [i \in 1 .. Len(kept) |->
                    [saved[kept[i]] EXCEPT !.cache_key = Text(saved[kept[i]].cache_key)]]
=============================================================================
