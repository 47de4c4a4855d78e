-------------------------- MODULE MCStorageWorker ---------------------------
(* Calls on one operation, 2 + 1: its lookup, a save of its result, and a   *)
(* lookup whose key cannot be made.                                         *)
EXTENDS StorageWorker
L == [first_number |-> 2, second_number |-> 1, operation |-> "add"]
R == [first_number |-> 2, second_number |-> 1, operation |-> "add",
      result |-> 3, status |-> "ERROR_NONE", cache_key |-> Make(L)]
MCJobs == {[kind |-> "find", lookup |-> L],
           [kind |-> "find", lookup |-> [L EXCEPT !.second_number = None]],
           [kind |-> "save", record |-> R]}
=============================================================================
