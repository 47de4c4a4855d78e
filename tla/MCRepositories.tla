--------------------------- MODULE MCRepositories ---------------------------
(* One- and two-digit operands of both signs, a commutative operation under *)
(* both its names, and operations that do not commute; factorials failed.   *)
EXTENDS Repositories
MCNumbers == {-1, 1, 11}
MCOperations == {"add", "+", "sub", "mul", "pow", "fact"}
MCOutcome == [l \in Lookups |-> IF IsFactorial(l.operation) THEN [result |-> None, status |-> 8]
                                ELSE [result |-> -10, status |-> 0]]
=============================================================================
