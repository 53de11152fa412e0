------------------------------- MODULE Erasure --------------------------------
(***************************************************************************)
(* The erasure of one person from one service that mirrors identities:     *)
(* gdpr/owners.py and identity.py, inside the fan-out of comm/actions.py.  *)
(* The orchestrator sends gdpr.erasure.requested and, beside it, the older *)
(* user.deleted; each is delivered at least once, in a worker of its own,  *)
(* to every answerer of the section. An answer erases the row and emits    *)
(* the receipt in one transaction; a claim, made once per fan-out, keeps a *)
(* second answerer of the same delivery from sending a second receipt.     *)
(*                                                                         *)
(* Both signals carry one correlation id, hence one receipt id. The row's  *)
(* person comes back by no action here: see ShadowUser for the gate that   *)
(* keeps tokens and events of a closed account out.                        *)
(***************************************************************************)
EXTENDS Naturals, FiniteSets

CONSTANTS
    Signals,         \* events that ask for the erasure
    Answerers        \* handlers of the section, in one process

VARIABLES
    row,             \* the mirror's row
    fan,             \* the fan-out of each signal
    receipted        \* a receipt has been committed

vars == <<row, fan, receipted>>

Idle == [at |-> "idle", todo |-> {}, claimed |-> FALSE, failed |-> FALSE, refused |-> FALSE,
         wrote |-> FALSE, emitted |-> FALSE, earned |-> 0]

TypeOK ==
    /\ row \in {"absent", "person", "erased"}
    /\ fan \in [Signals -> [at : {"idle", "next", "saving", "receipting",
                                  "committing", "acknowledged"},
                            todo : SUBSET Answerers,
                            claimed : BOOLEAN, failed : BOOLEAN, refused : BOOLEAN,
                            wrote : BOOLEAN, emitted : BOOLEAN,
                            earned : 0 .. Cardinality(Answerers)]]
    /\ receipted \in BOOLEAN

Init ==
    /\ row \in {"absent", "person"}
    /\ fan = [s \in Signals |-> Idle]
    /\ receipted = FALSE

Answering == {"saving", "receipting", "committing"}

-----------------------------------------------------------------------------
(* deliver_to_subscribers() *)

(* Mutant: the claims are the process's, not the delivery's. *)
DeliverClaimed(s) ==
    /\ fan[s].at \in {"idle", "acknowledged"}
    /\ fan' = [fan EXCEPT ![s] = [Idle EXCEPT !.at = "next", !.todo = Answerers,
                                              !.claimed = fan[s].claimed]]
    /\ UNCHANGED <<row, receipted>>

(* The signal comes, for the first time or again: the scope starts empty. *)
Deliver(s) ==
    /\ fan[s].at \in {"idle", "acknowledged"}
    /\ fan' = [fan EXCEPT ![s] = [Idle EXCEPT !.at = "next", !.todo = Answerers]]
    /\ UNCHANGED <<row, receipted>>

(* Every handler has run: a failure asks for redelivery. *)
EndFanOut(s) ==
    /\ fan[s].at = "next" /\ fan[s].todo = {}
    /\ fan' = [fan EXCEPT ![s].at = IF fan[s].failed THEN "idle" ELSE "acknowledged"]
    /\ UNCHANGED <<row, receipted>>

-----------------------------------------------------------------------------
(* handle_erasure_requested() and handle_user_deleted(), for an account *)

(* The transaction opens, and erase_subject() reads the row: with nobody   *)
(* in it there is nothing to do, which is confirmed like work.             *)
Begin(s) ==
    /\ fan[s].at = "next"
    /\ \E a \in fan[s].todo :
          fan' = [fan EXCEPT ![s].todo = @ \ {a},
                             ![s].at = IF row = "person" THEN "saving" ELSE "receipting"]
    /\ UNCHANGED <<row, receipted>>

(* anonymize_identity() saves the row it read, when its lock is free. *)
Save(s) ==
    /\ fan[s].at = "saving"
    /\ \A o \in Signals : ~fan[o].wrote
    /\ fan' = [fan EXCEPT ![s].at = "receipting", ![s].wrote = TRUE]
    /\ UNCHANGED <<row, receipted>>

(* _emit_receipt(): claimed, and written to the outbox in the transaction; *)
(* a receipt claimed before is refused, and the erasure stands.            *)
EmitReceipt(s) ==
    /\ fan[s].at = "receipting"
    /\ fan' = [fan EXCEPT ![s].at = "committing", ![s].claimed = TRUE,
                          ![s].emitted = ~fan[s].claimed]
    /\ UNCHANGED <<row, receipted>>

Commit(s) ==
    /\ fan[s].at = "committing"
    /\ row' = IF fan[s].wrote THEN "erased" ELSE row
    /\ receipted' = (receipted \/ fan[s].emitted)
    /\ fan' = [fan EXCEPT ![s].at = "next", ![s].wrote = FALSE, ![s].emitted = FALSE,
                          ![s].earned = IF fan[s].emitted THEN @ + 1 ELSE @]

(* Mutant: the receipt is sent, whatever becomes of the transaction. *)
UndoneButSent(s) ==
    /\ fan[s].at \in Answering
    /\ receipted' = (receipted \/ fan[s].emitted)
    /\ \E cause \in {"failed", "refused"} :
          fan' = [fan EXCEPT ![s].at = "next", ![s].wrote = FALSE, ![s].emitted = FALSE,
                             ![s][cause] = TRUE]
    /\ UNCHANGED row

(* An exception undoes the transaction, not the claim. It is collected for *)
(* a redelivery; or it is one that reads as an unusable key - the emit may *)
(* raise it as well - and is logged and dropped.                           *)
Undone(s) ==
    /\ fan[s].at \in Answering
    /\ \E cause \in {"failed", "refused"} :
          fan' = [fan EXCEPT ![s].at = "next", ![s].wrote = FALSE, ![s].emitted = FALSE,
                             ![s][cause] = TRUE]
    /\ UNCHANGED <<row, receipted>>

(* The worker dies; what it had not committed is gone. *)
Crash(s) ==
    /\ fan[s].at \in Answering \cup {"next"}
    /\ fan' = [fan EXCEPT ![s] = Idle]
    /\ UNCHANGED <<row, receipted>>

-----------------------------------------------------------------------------
(* reparent_on_merge(): the losing account's row stops naming anybody. *)
ReparentOnMerge ==
    /\ row = "person"
    /\ \A s \in Signals : ~fan[s].wrote
    /\ row' = "erased"
    /\ UNCHANGED <<fan, receipted>>

Next ==
    \/ \E s \in Signals :
          \/ Deliver(s) \/ EndFanOut(s) \/ Begin(s) \/ Save(s) \/ EmitReceipt(s)
          \/ Commit(s) \/ Undone(s) \/ Crash(s)
    \/ ReparentOnMerge

Spec == Init /\ [][Next]_vars

-----------------------------------------------------------------------------
(* "An owner can never report an erasure a rollback undid" (owners.py:313): *)
(* once a receipt is out the row names nobody, whichever signal's answer,   *)
(* and with whatever copy of the row, earned it.                            *)
ReceiptEarned == receipted => row # "person"

(* "At most one receipt leaves one fan-out", and "a REDELIVERY receipts    *)
(* again" (owners.py:250): a delivery sends no two receipts, and one that  *)
(* was acknowledged without an answer refused has sent its own.            *)
AnsweredOnce ==
    \A s \in Signals :
        /\ fan[s].earned <= 1
        /\ fan[s].at = "acknowledged" /\ ~fan[s].refused => fan[s].earned = 1
===============================================================================
