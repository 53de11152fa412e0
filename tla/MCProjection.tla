---------------------------- MODULE MCProjection ----------------------------
(***************************************************************************)
(* Projection for TLC. The changes of one row have positions that grow, as *)
(* with a sequence_field; those of the other fall in one millisecond, so   *)
(* that their events, placed by timestamp, have the same position.         *)
(***************************************************************************)
EXTENDS Projection, TLC

HastyRow == CHOOSE k \in Key : TRUE

MCPosition ==
    [k \in Key |-> [r \in Revisions |-> IF k = HastyRow THEN 1 ELSE r]]
=============================================================================
