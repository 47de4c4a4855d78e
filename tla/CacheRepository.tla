-------------------------- MODULE CacheRepository ---------------------------
(***************************************************************************)
(* Storage::CacheRepository as the code has it: a map from the TEXT of a   *)
(* key to the record stored under it.  What is checked is that the text    *)
(* says which operation it stands for: a hit is never another operation's  *)
(* record, and an equivalent operation never misses.  Its steps are taken  *)
(* in Repositories, together with the table's.                             *)
(***************************************************************************)
EXTENDS OperationKey, FiniteSets, SequencesExt

CONSTANTS Numbers,     \* the operands that occur
          Operations,  \* the operation names that occur
          MaxEntries   \* bound on the size of the cache

VARIABLES cache,   \* cache_: text of a key -> record
          lookup   \* the last find: its arguments and its result

cacheVars == <<cache, lookup>>

\* Arguments for which OperationKey::make returns a key; a factorial comes
\* without its second operand (RequestHandler::second_number_for_storage).
Lookups ==
  {l \in [first_number : Numbers, second_number : Numbers \cup {None}, operation : Operations] :
     MakeError(l) = "ERROR_NONE" /\ (IsFactorial(l.operation) => l.second_number = None)}

\* The text make() returns for each of them.
KeyText == [l \in Lookups |-> Text(Make(l))]

\* A record carries the operands it was made from and its key; result and
\* status play no part here.
RecordOf(l) == [args |-> l, cache_key |-> KeyText[l]]

InsertOrAssign(map, r) ==
  [k \in DOMAIN map \cup {r.cache_key} |-> IF k = r.cache_key THEN r ELSE map[k]]

Init == cache = <<>> /\ lookup = None

Put(l) ==
  /\ Cardinality(DOMAIN cache \cup {RecordOf(l).cache_key}) <= MaxEntries
  /\ cache' = InsertOrAssign(cache, RecordOf(l))
  /\ lookup' = None

\* Mutant: the loop over the records begins with the second.
WarmUp_SkipsFirst(records) ==
  /\ cache = <<>>
  /\ cache' = FoldLeft(InsertOrAssign, <<>>, SubSeq(records, 2, Len(records)))
  /\ lookup' = None

\* The history is loaded into a fresh cache, row after row.
WarmUp(records) ==
  /\ cache = <<>>
  /\ cache' = FoldLeft(InsertOrAssign, <<>>, records)
  /\ lookup' = None

\* find() goes through find_by_key() with the text of the key.
Find(l) ==
  LET k == KeyText[l]
  IN  /\ lookup' = [args |-> l, found |-> IF k \in DOMAIN cache THEN cache[k].args ELSE None]
      /\ UNCHANGED cache

-----------------------------------------------------------------------------
\* Two calls mean the same calculation: the same operation under any of its
\* names, on the same operands, in either order where the order is immaterial;
\* a factorial has only its first operand.
SameOperation(a, b) ==
  /\ SymbolFor(a.operation) = SymbolFor(b.operation)
  /\ \/ a.first_number = b.first_number
        /\ (a.second_number = b.second_number \/ SymbolFor(a.operation) = "fact")
     \/ /\ SymbolFor(a.operation) \in {"+", "*"}
        /\ a.first_number = b.second_number
        /\ a.second_number = b.first_number

\* The record a find returns was put for the same operation: texts such as
\* "11--1", "1-11" and "-1-11" never stand for two operations
\* (CacheRepository::find, OperationKey::make).
HitIsSameOperation ==
  lookup # None => (lookup.found # None => SameOperation(lookup.args, lookup.found))

\* A find misses only when no equivalent operation is in the cache: "3+2"
\* finds what "2+3" stored, whichever name of the operation is used.
EquivalentOperationHits ==
  lookup # None =>
    (lookup.found = None =>
       \A k \in DOMAIN cache : ~SameOperation(lookup.args, cache[k].args))
=============================================================================
