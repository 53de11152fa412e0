----------------------------- MODULE MCConsumer -----------------------------
(***************************************************************************)
(* Consumer for TLC: two workers and two messages, the first of which      *)
(* cannot be decoded, so that a commit past a message that was not         *)
(* acknowledged is reached.                                                *)
(***************************************************************************)
EXTENDS Consumer, TLC
=============================================================================
