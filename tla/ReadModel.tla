----------------------------- MODULE ReadModel ------------------------------
(***************************************************************************)
(* What a projection promises its readers, and nothing of how: of every    *)
(* source row the reader sees some revision the owner committed, and a     *)
(* revision once seen is never replaced by an older one, nor does the row  *)
(* go away. Revision 0 stands for "no such row".                           *)
(***************************************************************************)
EXTENDS Naturals

CONSTANT Key                        \* identities of the owner's rows

VARIABLES source,                   \* the owner's revision of each row
          copy                      \* the revision readers see

vars == <<source, copy>>

Init ==
    /\ source = [k \in Key |-> 0]
    /\ copy = [k \in Key |-> 0]

(* The owner commits the next revision of a row. *)
Change(k) ==
    /\ source' = [source EXCEPT ![k] = @ + 1]
    /\ UNCHANGED copy

(* Readers see newer revisions of some rows. *)
Refresh ==
    /\ copy' \in [Key -> Nat]
    /\ \A k \in Key : copy[k] <= copy'[k] /\ copy'[k] <= source[k]
    /\ UNCHANGED source

Next == Refresh \/ \E k \in Key : Change(k)

Safety == Init /\ [][Next]_vars
=============================================================================
