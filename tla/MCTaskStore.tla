----------------------------- MODULE MCTaskStore -----------------------------
(***************************************************************************)
(* TaskStore for TLC: the sets are model values named in the .cfg files.   *)
(* Callers are interchangeable, and so are workers.                        *)
(***************************************************************************)
EXTENDS TaskStore, TLC

ThreadSymmetry == Permutations(Workers) \cup Permutations(Callers)

(* The safety run puts every task under the key, and follows calls only    *)
(* where the sweep may meddle with their task: handlers of tasks without a *)
(* deadline make none.                                                     *)
Narrowed ==
    /\ named \subseteq Deadlines
    /\ \A t \in Tasks : state[t] # "none" => key[t] # NoKey
=============================================================================
