---------------------------- MODULE Repositories ----------------------------
(***************************************************************************)
(* StorageService over its two repositories as the code has them, on       *)
(* texts: the cache of this process, and the rows that outlive it.  The    *)
(* module StorageService has the failures, on keys that are not texts.     *)
(***************************************************************************)
EXTENDS CacheRepository

CONSTANT Outcome   \* result and status of the operations, when they are saved

VARIABLES exists, table, saved, loaded,
          phase    \* how far initialize() has come in this process

RecordToSave(l) == l @@ Outcome[l] @@ [cache_key |-> Make(l)]

Rows == INSTANCE PostgresRepository
          WITH Records <- {RecordToSave(l) : l \in Lookups}, MaxSaves <- MaxEntries

rowVars == <<exists, table, saved, loaded>>
vars == <<cacheVars, rowVars, phase>>

ServiceInit == Init /\ Rows!Init /\ phase = "down"

\* initialize(), in its three steps; the process may die between them.
InitSchema ==
  /\ phase = "down" /\ phase' = "schema"
  /\ Rows!InitSchema /\ UNCHANGED cacheVars

LoadHistory ==
  /\ phase = "schema" /\ phase' = "loaded"
  /\ Rows!LoadHistory /\ UNCHANGED cacheVars

ArgsOf(r) == [first_number |-> r.first_number, second_number |-> r.second_number, operation |-> r.operation]

WarmUpCache ==
  /\ phase = "loaded" /\ phase' = "up"
  /\ WarmUp([i \in DOMAIN loaded |-> [args |-> ArgsOf(loaded[i]), cache_key |-> loaded[i].cache_key]])
  /\ loaded' = None /\ UNCHANGED <<exists, table, saved>>

\* save(): the cache, then the table.
SaveRecord(l) ==
  /\ phase = "up" /\ Put(l) /\ Rows!Save(RecordToSave(l))
  /\ UNCHANGED phase

\* find(); it leaves nothing behind but lookup, so a find that follows another
\* would see the same repositories and is left out.
FindRecord(l) ==
  /\ phase = "up" /\ lookup = None /\ Find(l)
  /\ UNCHANGED <<rowVars, phase>>

\* The process ends and another one begins with an empty cache.
Restart ==
  /\ phase # "down" /\ phase' = "down"
  /\ cache' = <<>> /\ lookup' = None /\ loaded' = None
  /\ UNCHANGED <<exists, table, saved>>

Next ==
  \/ InitSchema \/ LoadHistory \/ WarmUpCache \/ Restart
  \/ \E l \in Lookups : SaveRecord(l) \/ FindRecord(l)

Spec == ServiceInit /\ [][Next]_vars

-----------------------------------------------------------------------------
\* What load_history returns are all the records saved by the processes before,
\* the first of each key, equal in every field and in the order of the saves.
LoadedIsSaved == Rows!LoadedIsSaved

\* What was ever saved is found, in the process that saved it and after any
\* number of restarts, under every spelling of the operation.
SavedIsFound ==
  lookup # None /\ lookup.found = None =>
    \A i \in DOMAIN saved : ~SameOperation(lookup.args, ArgsOf(saved[i]))
=============================================================================
