------------------------------ MODULE MCServices ------------------------------
(***************************************************************************)
(* Small instances of the Services. Two units of work and three nested     *)
(* blocks, so that a block without a savepoint can lie between two that    *)
(* have one; the other bounds are explained in the README.                 *)
(***************************************************************************)
EXTENDS Services, TLC

Symmetry == Permutations(Requests) \cup Permutations(Checkers)
=============================================================================
