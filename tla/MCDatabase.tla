------------------------------ MODULE MCDatabase ------------------------------
(* DatabaseWorkerPool for TLC: a transaction of two statements, an empty one *)
(* and a lone statement.                                                     *)
EXTENDS DatabaseWorkerPool, TLC

CONSTANTS save, other, empty, single

MCSize ==
  [t \in Values |-> CASE t = empty -> 0 [] t = single -> 1 [] OTHER -> 2]

MCSymmetry == Permutations(Consumers)
=============================================================================
