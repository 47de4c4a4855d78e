------------------------ MODULE MCServiceApplication ------------------------
(* The storage calls are lookups of one operation.                          *)
EXTENDS ServiceApplication
MCJobs == {[kind |-> "find", lookup |-> [first_number |-> 2, second_number |-> 1, operation |-> "add"]]}
=============================================================================
