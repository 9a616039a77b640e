--------------------------- MODULE MCMarkReadPool ---------------------------
(***************************************************************************)
(* MarkReadPool on small instances: one connection per goroutine and one   *)
(* for the pool, so that a dial is never short of an identity.             *)
(***************************************************************************)
EXTENDS MarkReadPool, TLC

Symmetry == Permutations(Goroutines) \cup Permutations(Conns)
=============================================================================
