------------------------------ MODULE MCOutbox ------------------------------
(***************************************************************************)
(* Small instances of Outbox for TLC: two events, so that a batch mixes    *)
(* rows of different fates and a first chance races a relay on each; one   *)
(* or two relays; one crash, of either kind, anywhere; rows of either age, *)
(* or of the same.                                                         *)
(***************************************************************************)
EXTENDS Outbox, TLC

(* Only the order of the times counts: some event has the first of them.   *)
Ranked == \E e \in Events : created[e] = 1

=============================================================================
