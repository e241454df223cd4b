---------------------------- MODULE MCPortfolio ----------------------------
(* Portfolio with one or two requests on one or two symbols.               *)
EXTENDS Portfolio, TLC

RequestSymmetry == Permutations(Requests)
=============================================================================
