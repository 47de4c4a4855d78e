-------------------------- MODULE MCRequestHandler --------------------------
(* Requests over ints -4 .. 3.                                              *)
EXTENDS RequestHandler, FiniteSets, TLC

Min4 == -4

Q(operation, operands) == [operation |-> operation, operands |-> operands]

\* Few keys, for interleavings: one sum under two spellings, and an error.
SharedRequests ==
  {Q("ADDITION", <<1, 2>>), Q("ADDITION", <<2, 1>>), Q("DIVISION", <<1, 0>>)}

\* Fewer still, for liveness.
TwoRequests == {Q("ADDITION", <<1, 2>>), Q("DIVISION", <<1, 0>>)}

\* A factorial with and without its operand.
FactorialRequests == {Q("FACTORIAL", <<0>>), Q("FACTORIAL", <<>>)}

\* Every operation on boundary operands, too few, too many and too large ones.
Values == {-4, -1, 0, 2}
AllRequests ==
  {Q(op, s) : op \in ProtocolOperations \cup {"UNKNOWN"},
              s \in {<<>>} \cup {<<a>> : a \in Values} \cup {<<a, b>> : a, b \in Values}}
    \cup {Q("ADDITION", <<1, 2, 3>>), Q("ADDITION", <<4, 0>>), Q("ADDITION", <<0, -5>>),
          Q("FACTORIAL", <<3>>), Q("FACTORIAL", <<1, 4>>)}

\* For the run over AllRequests: each operation is followed through to its
\* answer from every cache of at most one entry.
AtMostOneEntryBefore ==
  \/ Cardinality(DOMAIN cache) <= 1
  \/ Cardinality(DOMAIN cache) = 2 /\ \E t \in Callers : pc[t] # "idle"

Symmetry == Permutations(Callers)
=============================================================================
