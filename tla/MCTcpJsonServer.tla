--------------------------- MODULE MCTcpJsonServer --------------------------
(* Lines at the limit of 2 and one above it; two clients together send at  *)
(* most MaxTotal of them.                                                  *)
EXTENDS TcpJsonServer, TLC

CONSTANT MaxTotal

Symmetry == Permutations(Threads) \cup Permutations(Clients)
FewLines == \A c, d \in Clients : c # d => Len(sent[c]) + Len(sent[d]) <= MaxTotal
=============================================================================
