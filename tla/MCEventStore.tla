---------------------------- MODULE MCEventStore ----------------------------
(***************************************************************************)
(* EventStore for TLC: two threads, three events of which one goes to      *)
(* another backend, a buffer of two and a rekey page of one.               *)
(***************************************************************************)
EXTENDS EventStore, TLC

CONSTANTS x, y

MCMerges == {<<x, y>>}
ThreadSymmetry == Permutations(Threads)
=============================================================================
