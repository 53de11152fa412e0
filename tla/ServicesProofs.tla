--------------------------- MODULE ServicesProofs ---------------------------
(***************************************************************************)
(* Theorems about the other components of Services: the gateway, erasures, *)
(* durable replies and revision sync, for any calls, threads, signals,     *)
(* attempts, writers and rows; and the types of all twelve.                *)
(***************************************************************************)
EXTENDS ClockedProofs, EmitTransactionProofs, WellFoundedInduction

-----------------------------------------------------------------------------
(* The behaviours of one component in the composition: it moves as its     *)
(* own Next says, or stands still.                                         *)

LEMMA RunsGateway == ServicesSpec => Gateway!Spec
<1>1. ServicesInit => Gateway!Init
  BY DEF ServicesInit
<1>2. [ServicesNext]_Services_vars => [Gateway!Next]_Gateway!vars
  BY DEF ServicesNext, Services_vars, Gateway_vars, Gateway!vars
<1> QED
  BY <1>1, <1>2, PTL DEF ServicesSpec, Gateway!Spec

LEMMA RunsDurableReply == ServicesSpec => DurableReply!Spec
<1>1. ServicesInit => DurableReply!Init
  BY DEF ServicesInit
<1>2. [ServicesNext]_Services_vars => [DurableReply!Next]_DurableReply!vars
  BY DEF ServicesNext, Services_vars, Reply_vars, DurableReply!vars
<1> QED
  BY <1>1, <1>2, PTL DEF ServicesSpec, DurableReply!Spec

LEMMA RunsErasure == ServicesSpec => Erasure!Spec
<1>1. ServicesInit => Erasure!Init
  BY DEF ServicesInit
<1>2. [ServicesNext]_Services_vars => [Erasure!Next]_Erasure!vars
  BY DEF ServicesNext, Services_vars, Erasure_vars, Erasure!vars
<1> QED
  BY <1>1, <1>2, PTL DEF ServicesSpec, Erasure!Spec

LEMMA RunsRevisionSync == ServicesSpec => RevisionSync!Spec
<1>1. ServicesInit => RevisionSync!Init
  BY DEF ServicesInit
<1>2. [ServicesNext]_Services_vars => [RevisionSync!Next]_RevisionSync!vars
  BY DEF ServicesNext, Services_vars, Sync_vars, RevisionSync!vars
<1> QED
  BY <1>1, <1>2, PTL DEF ServicesSpec, RevisionSync!Spec

LEMMA RunsEmitTransaction == ServicesSpec => Spec
<1>1. ServicesInit => Init
  BY DEF ServicesInit
<1>2. [ServicesNext]_Services_vars => [Next]_vars
  BY DEF ServicesNext, Services_vars, vars
<1> QED
  BY <1>1, <1>2, PTL DEF ServicesSpec, Spec

-----------------------------------------------------------------------------
(* The gateway *)

GatewayShapes ==
    /\ status \in [Calls -> Gateway!Statuses]
    /\ thread \in [Threads -> [at : Gateway!Places, of : Calls \cup {NoCall},
                               line : Gateway!Decisions, ok : BOOLEAN, claimed : BOOLEAN]]
    /\ runs \in [Calls -> Nat]
    /\ \A t \in Threads : thread[t].at # "idle" => thread[t].of \in Calls

(* A thread that won a row works on a resolved call, alone, and has not    *)
(* run the handler before; a call without a row has at most one thread.    *)
GatewayClaims ==
    /\ \A t \in Threads :
          /\ thread[t].at \in {"running", "failing"} => thread[t].claimed
          /\ thread[t].claimed => thread[t].at \in {"checking", "running", "telling", "failing"}
          /\ thread[t].claimed => status[thread[t].of] \in {"executed", "failed"}
          /\ thread[t].claimed /\ thread[t].at \in {"checking", "running"} =>
                 runs[thread[t].of] = 0 /\ status[thread[t].of] = "executed"
          /\ thread[t].at \in {"checking", "parking"} /\ ~thread[t].claimed =>
                 /\ status[thread[t].of] = "none"
                 /\ \A u \in Threads \ {t} :
                        thread[u].at # "idle" => thread[u].of # thread[t].of
    /\ \A t, u \in Threads :
          t # u /\ thread[t].claimed /\ thread[u].claimed => thread[t].of # thread[u].of

GatewayInv == GatewayShapes /\ GatewayClaims /\ Gateway!RunsOnce

(* What a thread is about to say is so. *)
GatewayLines ==
    \A t \in Threads :
        /\ thread[t].at = "telling" =>
              /\ thread[t].line = "rejected" => status[thread[t].of] = "rejected"
              /\ thread[t].line = "executed" => runs[thread[t].of] = 1 /\ thread[t].claimed
              /\ thread[t].claimed => thread[t].line \in {"executed", "denied"}
        /\ ~thread[t].ok => thread[t].at \in {"telling", "failing"} /\ thread[t].line = "executed"

(* A line is on the stream, or somebody is about to put it there. *)
Said(c, line) ==
    \/ <<c, line>> \in log
    \/ \E t \in Threads : thread[t].of = c /\ thread[t].at = "telling" /\ thread[t].line = line

(* An execution's line is on the stream, or whoever claimed the row has yet *)
(* to put it there.                                                        *)
Held(c) ==
    \/ <<c, "executed">> \in log
    \/ \E t \in Threads : thread[t].of = c /\ thread[t].claimed

Final(c) == log \cap {<<c, "denied">>, <<c, "executed">>} # {}

(* What no fault has hit is told, or is being worked on. *)
GatewayOwed ==
    \A c \in Calls : c \notin disturbed =>
        /\ status[c] # "none" => Said(c, "pending")
        /\ status[c] = "rejected" => Said(c, "rejected")
        /\ status[c] = "expired" => Said(c, "expired")
        /\ status[c] = "executed" => Held(c)
        /\ status[c] = "failed" => Final(c)
        /\ \A t \in Threads : thread[t].of = c /\ thread[t].at = "failing" => Final(c)

GatewayLogInv ==
    /\ \A c \in Calls : <<c, "rejected">> \in log => status[c] = "rejected"
    /\ \A c \in Calls : <<c, "executed">> \in log => runs[c] = 1
    /\ GatewayLines
    /\ GatewayOwed
-----------------------------------------------------------------------------
LEMMA GatewayInvInit == Gateway!Init => GatewayInv
<1> SUFFICES ASSUME Gateway!Init PROVE GatewayInv
  OBVIOUS
<1>1. GatewayShapes
  BY DEF Gateway!Init, GatewayShapes, Gateway!Idle, Gateway!Statuses, Gateway!Places,
     Gateway!Decisions
<1>2. GatewayClaims
  BY DEF Gateway!Init, GatewayClaims, Gateway!Idle
<1>3. Gateway!RunsOnce
  <2>1. \A c \in Calls : runs[c] = 0
    BY DEF Gateway!Init
  <2>2. 0 <= 1 /\ 0 # 1
    OBVIOUS
  <2> QED
    BY <2>1, <2>2, Zenon DEF Gateway!RunsOnce
<1> QED
  BY <1>1, <1>2, <1>3 DEF GatewayInv

(* A thread that stops working keeps no one else from anything. *)
LEMMA GatewayLeavesStep ==
    ASSUME GatewayInv, NEW t \in Threads, Gateway!Leaves(t), UNCHANGED <<status, runs>>
    PROVE  GatewayInv'
<1> USE DEF GatewayInv
<1>1. /\ \A u \in Threads \ {t} : thread'[u] = thread[u]
      /\ thread'[t].at = "idle" /\ ~thread'[t].claimed
  BY DEF Gateway!Leaves, GatewayShapes, Gateway!Idle
<1>2. GatewayShapes'
  <2>1. thread' \in [Threads -> [at : Gateway!Places, of : Calls \cup {NoCall},
                                line : Gateway!Decisions, ok : BOOLEAN, claimed : BOOLEAN]]
    BY DEF Gateway!Leaves, GatewayShapes, Gateway!Idle, Gateway!Places, Gateway!Decisions
  <2> QED
    BY <1>1, <2>1 DEF GatewayShapes
<1>3. GatewayClaims'
  BY <1>1 DEF GatewayClaims
<1>4. Gateway!RunsOnce'
  BY DEF Gateway!RunsOnce
<1> QED
  BY <1>2, <1>3, <1>4

(* Nor does one that goes on telling, or failing. *)
LEMMA GatewayToldStep ==
    ASSUME GatewayInv, NEW t \in Threads, NEW raises \in BOOLEAN, Gateway!Told(t, raises),
           thread[t].at = "telling", UNCHANGED <<status, runs>>
    PROVE  GatewayInv'
<1>1. CASE Gateway!Leaves(t)
  BY <1>1, GatewayLeavesStep
<1>2. CASE thread[t].claimed /\ Gateway!Goes(t, "failing")
  <2> USE DEF GatewayInv
  <2>1. /\ \A u \in Threads \ {t} : thread'[u] = thread[u]
        /\ thread'[t].at = "failing" /\ thread'[t].claimed
        /\ thread'[t].of = thread[t].of /\ thread[t].of \in Calls
    BY <1>2 DEF Gateway!Goes, GatewayShapes
  <2>2. GatewayShapes'
    <3>1. thread' \in [Threads -> [at : Gateway!Places, of : Calls \cup {NoCall},
                                  line : Gateway!Decisions, ok : BOOLEAN, claimed : BOOLEAN]]
      BY <1>2 DEF Gateway!Goes, GatewayShapes, Gateway!Places
    <3> QED
      BY <2>1, <3>1 DEF GatewayShapes
  <2>3. GatewayClaims'
    BY <1>2, <2>1 DEF GatewayClaims
  <2>4. Gateway!RunsOnce'
    BY DEF Gateway!RunsOnce
  <2> QED
    BY <2>2, <2>3, <2>4
<1> QED
  BY <1>1, <1>2 DEF Gateway!Told

(* A thread about to tell a line, and a row resolved, are well formed.     *)
LEMMA GatewayTellsShapes ==
    ASSUME GatewayShapes, NEW t \in Threads, thread[t].at # "idle",
           NEW line \in Gateway!Decisions, Gateway!Tells(t, line),
           status' \in [Calls -> Gateway!Statuses], UNCHANGED runs
    PROVE  GatewayShapes'
<1> DEFINE R    == [at : Gateway!Places, of : Calls \cup {NoCall}, line : Gateway!Decisions,
                    ok : BOOLEAN, claimed : BOOLEAN]
           done == [thread[t] EXCEPT !.at = "telling", !.line = line]
<1>1. thread \in [Threads -> R] /\ thread[t] \in R
  BY DEF GatewayShapes
<1>2. done \in R /\ done.of = thread[t].of
  BY <1>1, Zenon DEF Gateway!Places
<1>3. thread' = [thread EXCEPT ![t] = done]
  BY DEF Gateway!Tells
<1> HIDE DEF R, done
<1>4. thread' \in [Threads -> R]
  BY <1>1, <1>2, <1>3
<1>5. \A u \in Threads : thread'[u].at # "idle" => thread'[u].of \in Calls
  BY <1>1, <1>2, <1>3 DEF GatewayShapes
<1> QED
  BY <1>4, <1>5 DEF GatewayShapes, R

(* Nor does one that has only its line to tell, and won no row.            *)
LEMMA GatewayLineStep ==
    ASSUME GatewayInv, NEW t \in Threads, thread[t].at # "idle",
           \A u \in Threads \ {t} : thread'[u] = thread[u],
           thread'[t].at = "telling", ~thread'[t].claimed, thread'[t].of = thread[t].of,
           \A c \in Calls : c # thread[t].of => status'[c] = status[c],
           status[thread[t].of] \in {"executed", "failed"} =>
               status'[thread[t].of] = status[thread[t].of],
           UNCHANGED runs
    PROVE  GatewayClaims'
<1> USE DEF GatewayInv
<1>1. \A u \in Threads : thread[u].at # "idle" => thread[u].of \in Calls
  BY DEF GatewayShapes
<1>2. ASSUME NEW u \in Threads \ {t}, thread[u].claimed
      PROVE  status'[thread[u].of] = status[thread[u].of]
  BY <1>1, <1>2 DEF GatewayClaims
<1>3. ASSUME NEW u \in Threads \ {t}, thread[u].at \in {"checking", "parking"},
             ~thread[u].claimed
      PROVE  /\ status'[thread[u].of] = "none"
             /\ \A v \in Threads \ {u} : thread'[v].at # "idle" => thread'[v].of # thread[u].of
  <2>1. /\ status[thread[u].of] = "none" /\ thread[u].of \in Calls
        /\ \A v \in Threads \ {u} : thread[v].at # "idle" => thread[v].of # thread[u].of
    BY <1>1, <1>3 DEF GatewayClaims
  <2> QED
    BY <2>1
<1>4. \A u \in Threads : thread'[u].claimed => u # t /\ thread'[u] = thread[u]
  OBVIOUS
<1>5. \A u \in Threads : thread'[u].at # "telling" => u # t /\ thread'[u] = thread[u]
  OBVIOUS
<1> QED
  BY <1>2, <1>3, <1>4, <1>5 DEF GatewayClaims

LEMMA GatewayAskStep ==
    ASSUME GatewayInv, NEW t \in Threads, NEW c \in Calls, Gateway!Ask(t, c)
    PROVE  GatewayInv'
<1> USE DEF GatewayInv, Gateway!Goes, Gateway!Tells, Gateway!Leaves, Gateway!Resolve,
        Gateway!Told, Gateway!Fault, Gateway!Idle
<1>1. GatewayShapes'
  BY DEF Gateway!Ask, GatewayShapes, Gateway!Statuses, Gateway!Places, Gateway!Decisions
<1>2. GatewayClaims'
  BY DEF Gateway!Ask, GatewayShapes, GatewayClaims, Gateway!RunsOnce, Gateway!Statuses
<1>3. Gateway!RunsOnce'
  BY DEF Gateway!Ask, GatewayShapes, GatewayClaims, Gateway!RunsOnce
<1> QED
  BY <1>1, <1>2, <1>3

LEMMA GatewayReadRowStep ==
    ASSUME GatewayInv, NEW t \in Threads, NEW c \in Calls, Gateway!ReadRow(t, c)
    PROVE  GatewayInv'
<1> USE DEF GatewayInv
<1>1. /\ \A u \in Threads \ {t} : thread'[u] = thread[u]
      /\ thread'[t].at \in {"telling", "expiring", "rejecting", "claiming"}
      /\ ~thread'[t].claimed
      /\ thread'[t].of = c
  BY DEF Gateway!ReadRow, GatewayShapes, Gateway!Idle
<1>2. GatewayShapes'
  <2>1. PICK place \in {"telling", "expiring", "rejecting", "claiming"} :
            thread' = [thread EXCEPT ![t] =
                [Gateway!Idle EXCEPT !.at = place, !.of = c, !.line = "resolved"]]
    BY DEF Gateway!ReadRow
  <2>2. [Gateway!Idle EXCEPT !.at = place, !.of = c, !.line = "resolved"] \in
            [at : Gateway!Places, of : Calls \cup {NoCall}, line : Gateway!Decisions,
             ok : BOOLEAN, claimed : BOOLEAN]
    BY DEF Gateway!Idle, Gateway!Places, Gateway!Decisions
  <2>3. thread' \in [Threads -> [at : Gateway!Places, of : Calls \cup {NoCall},
                                line : Gateway!Decisions, ok : BOOLEAN, claimed : BOOLEAN]]
    BY <2>1, <2>2 DEF GatewayShapes
  <2> QED
    BY <1>1, <2>3 DEF Gateway!ReadRow, GatewayShapes
<1>3. GatewayClaims'
  BY <1>1 DEF Gateway!ReadRow, GatewayClaims
<1>4. Gateway!RunsOnce'
  BY DEF Gateway!ReadRow, Gateway!RunsOnce
<1> QED
  BY <1>2, <1>3, <1>4

LEMMA GatewayCheckStep ==
    ASSUME GatewayInv, NEW t \in Threads, Gateway!Check(t)
    PROVE  GatewayInv'
<1> USE DEF GatewayInv, Gateway!Goes, Gateway!Tells, Gateway!Leaves, Gateway!Resolve,
        Gateway!Told, Gateway!Fault, Gateway!Idle
<1>1. GatewayShapes'
  BY DEF Gateway!Check, GatewayShapes, Gateway!Statuses, Gateway!Places, Gateway!Decisions
<1>2. GatewayClaims'
  BY DEF Gateway!Check, GatewayShapes, GatewayClaims, Gateway!RunsOnce, Gateway!Statuses
<1>3. Gateway!RunsOnce'
  BY DEF Gateway!Check, GatewayShapes, GatewayClaims, Gateway!RunsOnce
<1> QED
  BY <1>1, <1>2, <1>3

LEMMA GatewayParkStep ==
    ASSUME GatewayInv, NEW t \in Threads, Gateway!Park(t)
    PROVE  GatewayInv'
<1> USE DEF GatewayInv, Gateway!Resolve
<1>1. /\ \A u \in Threads \ {t} : thread'[u] = thread[u]
      /\ thread'[t].at = "telling"
      /\ thread'[t].claimed = thread[t].claimed
      /\ thread'[t].of = thread[t].of /\ thread[t].of \in Calls
  BY DEF Gateway!Park, Gateway!Tells, GatewayShapes
<1>5. ~thread[t].claimed
  BY DEF Gateway!Park, GatewayClaims
<1>6. /\ status[thread[t].of] = "none"
      /\ \A u \in Threads \ {t} : thread[u].at # "idle" => thread[u].of # thread[t].of
  BY <1>5 DEF Gateway!Park, GatewayClaims
<1>7. /\ status'[thread[t].of] = "pending"
      /\ \A c \in Calls \ {thread[t].of} : status'[c] = status[c]
  BY <1>1 DEF Gateway!Park, GatewayShapes
<1>2. GatewayShapes'
  <2>1. status' \in [Calls -> Gateway!Statuses]
    BY DEF Gateway!Park, GatewayShapes, Gateway!Statuses
  <2> QED
    BY <2>1, GatewayTellsShapes DEF Gateway!Park, Gateway!Decisions
<1>3. GatewayClaims'
  BY <1>1, <1>5, <1>6, <1>7, GatewayLineStep DEF Gateway!Park
<1>4. Gateway!RunsOnce'
  <2>1. runs[thread[t].of] = 0
    BY <1>1, <1>6 DEF Gateway!RunsOnce, GatewayShapes
  <2> QED
    BY <1>7, <2>1 DEF Gateway!Park, Gateway!RunsOnce
<1> QED
  BY <1>2, <1>3, <1>4

LEMMA GatewayRunStep ==
    ASSUME GatewayInv, NEW t \in Threads, Gateway!Run(t)
    PROVE  GatewayInv'
<1> USE DEF GatewayInv
<1>1. /\ \A u \in Threads \ {t} : thread'[u] = thread[u]
      /\ thread'[t].at = "telling" /\ thread'[t].claimed /\ thread[t].claimed
      /\ thread'[t].of = thread[t].of /\ thread[t].of \in Calls
  BY DEF Gateway!Run, GatewayShapes, GatewayClaims
<1>2. runs[thread[t].of] = 0 /\ status[thread[t].of] = "executed"
  BY <1>1 DEF Gateway!Run, GatewayClaims
<1>3. /\ runs'[thread[t].of] = 1
      /\ \A c \in Calls \ {thread[t].of} : runs'[c] = runs[c]
      /\ status' = status
  BY <1>1, <1>2 DEF Gateway!Run, GatewayShapes
<1>4. GatewayShapes'
  <2>1. PICK ok \in BOOLEAN :
            thread' = [thread EXCEPT ![t].at = "telling", ![t].line = "executed", ![t].ok = ok]
    BY DEF Gateway!Run
  <2>2. thread' \in [Threads -> [at : Gateway!Places, of : Calls \cup {NoCall},
                                line : Gateway!Decisions, ok : BOOLEAN, claimed : BOOLEAN]]
    <3> DEFINE done == [thread[t] EXCEPT !.at = "telling", !.line = "executed", !.ok = ok]
    <3>1. thread[t] \in [at : Gateway!Places, of : Calls \cup {NoCall}, line : Gateway!Decisions,
                         ok : BOOLEAN, claimed : BOOLEAN]
      BY DEF GatewayShapes
    <3>2. done \in [at : Gateway!Places, of : Calls \cup {NoCall}, line : Gateway!Decisions,
                    ok : BOOLEAN, claimed : BOOLEAN]
      BY <3>1, Zenon DEF Gateway!Places, Gateway!Decisions
    <3>3. thread' = [thread EXCEPT ![t] = done]
      BY <2>1
    <3> HIDE DEF done
    <3> QED
      BY <3>2, <3>3 DEF GatewayShapes
  <2>3. runs' \in [Calls -> Nat]
    BY DEF Gateway!Run, GatewayShapes
  <2> QED
    BY <1>1, <1>3, <2>2, <2>3 DEF GatewayShapes
<1>5. GatewayClaims'
  BY <1>1, <1>3 DEF GatewayClaims, GatewayShapes
<1>6. Gateway!RunsOnce'
  BY <1>2, <1>3 DEF Gateway!RunsOnce
<1> QED
  BY <1>4, <1>5, <1>6

LEMMA GatewayExpireStep ==
    ASSUME GatewayInv, NEW t \in Threads, Gateway!Expire(t)
    PROVE  GatewayInv'
<1> USE DEF GatewayInv, Gateway!Resolve
<1>1. GatewayShapes'
  <2>1. status' \in [Calls -> Gateway!Statuses]
    BY DEF Gateway!Expire, GatewayShapes, Gateway!Statuses
  <2> QED
    BY <2>1, GatewayTellsShapes DEF Gateway!Expire, Gateway!Decisions
<1>2. /\ \A u \in Threads \ {t} : thread'[u] = thread[u]
      /\ thread'[t].at = "telling" /\ thread'[t].of = thread[t].of
      /\ thread'[t].claimed = thread[t].claimed /\ thread[t].of \in Calls
  BY DEF Gateway!Expire, Gateway!Tells, GatewayShapes
<1>3. ~thread[t].claimed
  BY DEF Gateway!Expire, GatewayClaims
<1>4. /\ \A c \in Calls : c # thread[t].of => status'[c] = status[c]
      /\ status[thread[t].of] # "pending" => status'[thread[t].of] = status[thread[t].of]
      /\ status'[thread[t].of] \in {"expired", status[thread[t].of]}
  BY <1>2 DEF Gateway!Expire, GatewayShapes
<1>5. GatewayClaims'
  BY <1>2, <1>3, <1>4, GatewayLineStep DEF Gateway!Expire
<1>6. Gateway!RunsOnce'
  BY <1>2, <1>4 DEF Gateway!Expire, Gateway!RunsOnce
<1> QED
  BY <1>1, <1>5, <1>6

LEMMA GatewayRejectStep ==
    ASSUME GatewayInv, NEW t \in Threads, Gateway!Reject(t)
    PROVE  GatewayInv'
<1>1. CASE status[thread[t].of] = "pending"
  <2> USE <1>1 DEF GatewayInv, Gateway!Resolve
  <2>1. GatewayShapes'
    <3>1. status' \in [Calls -> Gateway!Statuses]
      BY DEF Gateway!Reject, GatewayShapes, Gateway!Statuses
    <3> QED
      BY <3>1, GatewayTellsShapes DEF Gateway!Reject, Gateway!Decisions
  <2>2. /\ \A u \in Threads \ {t} : thread'[u] = thread[u]
        /\ thread'[t].at = "telling" /\ thread'[t].of = thread[t].of
        /\ thread'[t].claimed = thread[t].claimed /\ thread[t].of \in Calls
    BY DEF Gateway!Reject, Gateway!Tells, GatewayShapes
  <2>3. ~thread[t].claimed
    BY DEF Gateway!Reject, GatewayClaims
  <2>4. \A c \in Calls : c # thread[t].of => status'[c] = status[c]
    BY <2>2 DEF Gateway!Reject, GatewayShapes
  <2>5. GatewayClaims'
    BY <2>2, <2>3, <2>4, GatewayLineStep DEF Gateway!Reject
  <2>6. Gateway!RunsOnce'
    BY DEF Gateway!Reject, GatewayShapes, Gateway!RunsOnce
  <2> QED
    BY <2>1, <2>5, <2>6
<1>2. CASE status[thread[t].of] # "pending"
  BY <1>2, GatewayLeavesStep DEF Gateway!Reject
<1> QED
  BY <1>1, <1>2

LEMMA GatewayClaimStep ==
    ASSUME GatewayInv, NEW t \in Threads, Gateway!Claim(t)
    PROVE  GatewayInv'
<1>1. CASE status[thread[t].of] = "pending"
  <2> USE <1>1 DEF GatewayInv, Gateway!Resolve
  <2>1. /\ \A u \in Threads \ {t} : thread'[u] = thread[u]
        /\ thread'[t].at = "checking" /\ thread'[t].claimed
        /\ thread'[t].of = thread[t].of /\ thread[t].of \in Calls
    BY DEF Gateway!Claim, GatewayShapes
  <2>2. GatewayShapes'
    BY DEF Gateway!Claim, GatewayShapes, Gateway!Statuses, Gateway!Places
  <2>3. runs[thread[t].of] = 0
    BY <2>1 DEF Gateway!RunsOnce, GatewayShapes
  <2>4. \A u \in Threads : thread[u].claimed => thread[u].of # thread[t].of
    BY DEF GatewayClaims
  <2>5. GatewayClaims'
    <3>1. status'[thread[t].of] = "executed"
          /\ \A c \in Calls \ {thread[t].of} : status'[c] = status[c]
      BY <2>1 DEF Gateway!Claim, GatewayShapes
    <3> QED
      BY <2>1, <2>3, <2>4, <3>1 DEF Gateway!Claim, GatewayClaims, GatewayShapes
  <2>6. Gateway!RunsOnce'
    BY DEF Gateway!Claim, GatewayShapes, Gateway!RunsOnce
  <2> QED
    BY <2>2, <2>5, <2>6
<1>2. CASE status[thread[t].of] # "pending"
  BY <1>2, GatewayLeavesStep DEF Gateway!Claim
<1> QED
  BY <1>1, <1>2

LEMMA GatewayFailStep ==
    ASSUME GatewayInv, NEW t \in Threads, Gateway!Fail(t)
    PROVE  GatewayInv'
<1> USE DEF GatewayInv, Gateway!Resolve
<1>1. /\ \A u \in Threads \ {t} : thread'[u] = thread[u]
      /\ thread'[t].at = "idle" /\ ~thread'[t].claimed
      /\ thread[t].of \in Calls /\ thread[t].claimed
  BY DEF Gateway!Fail, Gateway!Leaves, GatewayShapes, GatewayClaims, Gateway!Idle
<1>2. /\ status'[thread[t].of] = "failed"
      /\ \A c \in Calls \ {thread[t].of} : status'[c] = status[c]
  BY <1>1 DEF Gateway!Fail, GatewayShapes
<1>3. GatewayShapes'
  BY DEF Gateway!Fail, Gateway!Leaves, GatewayShapes, Gateway!Idle, Gateway!Statuses,
     Gateway!Places, Gateway!Decisions
<1>4. GatewayClaims'
  BY <1>1, <1>2 DEF Gateway!Fail, GatewayClaims, GatewayShapes
<1>5. Gateway!RunsOnce'
  BY <1>1, <1>2 DEF Gateway!Fail, Gateway!RunsOnce
<1> QED
  BY <1>3, <1>4, <1>5

LEMMA GatewayTellStep ==
    ASSUME GatewayInv, NEW t \in Threads, Gateway!Tell(t)
    PROVE  GatewayInv'
<1>1. (thread[t].line = "denied" \/ ~thread[t].ok) \in BOOLEAN
  OBVIOUS
<1> QED
  BY <1>1, GatewayToldStep DEF Gateway!Tell

LEMMA GatewaySinkFailsStep ==
    ASSUME GatewayInv, NEW t \in Threads, Gateway!SinkFails(t)
    PROVE  GatewayInv'
BY GatewayToldStep DEF Gateway!SinkFails

LEMMA GatewayCrashStep ==
    ASSUME GatewayInv, NEW t \in Threads, Gateway!Crash(t)
    PROVE  GatewayInv'
BY GatewayLeavesStep DEF Gateway!Crash

-----------------------------------------------------------------------------
(* The inductive invariant: whoever won a row (gateway/service.py:245) works *)
(* on a resolved call, alone, and has not run its handler before.           *)
THEOREM GatewayInvariant == Gateway!Spec => []GatewayInv
<1>1. GatewayInv /\ [Gateway!Next]_Gateway!vars => GatewayInv'
  <2> SUFFICES ASSUME GatewayInv, [Gateway!Next]_Gateway!vars PROVE GatewayInv'
    OBVIOUS
  <2>1. CASE UNCHANGED Gateway!vars
    BY <2>1 DEF Gateway!vars, GatewayInv, GatewayShapes, GatewayClaims, Gateway!RunsOnce
  <2>2. CASE \E t \in Threads :
                \/ \E c \in Calls : Gateway!Ask(t, c) \/ Gateway!ReadRow(t, c)
                \/ Gateway!Check(t) \/ Gateway!Park(t) \/ Gateway!Run(t)
                \/ Gateway!Expire(t) \/ Gateway!Reject(t) \/ Gateway!Claim(t) \/ Gateway!Fail(t)
                \/ Gateway!Tell(t) \/ Gateway!SinkFails(t) \/ Gateway!Crash(t)
    BY <2>2, GatewayAskStep, GatewayReadRowStep, GatewayCheckStep, GatewayParkStep,
       GatewayRunStep, GatewayExpireStep, GatewayRejectStep,
       GatewayClaimStep, GatewayFailStep, GatewayTellStep, GatewaySinkFailsStep, GatewayCrashStep
  <2>3. CASE \E c \in Calls : Gateway!ExpiryPasses(c)
    BY <2>3 DEF Gateway!ExpiryPasses, GatewayInv, GatewayShapes, GatewayClaims, Gateway!RunsOnce
  <2>4. CASE Gateway!NextWindow
    BY <2>4 DEF Gateway!NextWindow, GatewayInv, GatewayShapes, GatewayClaims, Gateway!RunsOnce
  <2> QED
    BY <2>1, <2>2, <2>3, <2>4 DEF Gateway!Next
<1> QED
  BY <1>1, GatewayInvInit, PTL DEF Gateway!Spec

(* The handler of a parked call runs at most once, for its one approval    *)
(* and never for a rejected or expired row: "Claim atomically so two       *)
(* approvals cannot double-execute" (gateway/service.py:244).              *)
THEOREM ServicesRunsOnce == ServicesSpec => []RunsOnce
<1>1. GatewayInv => RunsOnce
  BY DEF GatewayInv, RunsOnce
<1> QED
  BY <1>1, GatewayInvariant, RunsGateway, PTL
-----------------------------------------------------------------------------
(* The audit stream *)

LEMMA GatewayAskLog ==
    ASSUME GatewayInv, GatewayLogInv, NEW t \in Threads, NEW c \in Calls, Gateway!Ask(t, c)
    PROVE  GatewayLogInv'
<1> USE DEF GatewayInv, GatewayLogInv
<1>1. /\ \A u \in Threads \ {t} : thread'[u] = thread[u]
      /\ thread'[t].at = "checking" /\ thread'[t].of = c /\ ~thread'[t].claimed
      /\ thread'[t].ok
      /\ thread[t].at = "idle" /\ ~thread[t].claimed
      /\ UNCHANGED <<status, runs, log, disturbed>>
  BY DEF Gateway!Ask, GatewayShapes, GatewayClaims, Gateway!Idle
<1>2. /\ \A d \in Calls : <<d, "rejected">> \in log' => status'[d] = "rejected"
      /\ \A d \in Calls : <<d, "executed">> \in log' => runs'[d] = 1
  BY <1>1 DEF GatewayShapes, Gateway!RunsOnce, GatewayLines
<1>3. GatewayLines'
  BY <1>1 DEF GatewayLines, GatewayShapes
<1>4. GatewayOwed'
  <2>1. \A d \in Calls : \A line \in Gateway!Decisions : Said(d, line) => Said(d, line)'
    BY <1>1 DEF Said
  <2>2. \A d \in Calls : Held(d) => Held(d)'
    BY <1>1 DEF Held
  <2>3. \A d \in Calls : Final(d) => Final(d)'
    BY <1>1 DEF Final
  <2> QED
    BY <1>1, <2>1, <2>2, <2>3 DEF GatewayOwed, Gateway!Decisions, GatewayShapes
<1> QED
  BY <1>2, <1>3, <1>4

LEMMA GatewayReadRowLog ==
    ASSUME GatewayInv, GatewayLogInv, NEW t \in Threads, NEW c \in Calls, Gateway!ReadRow(t, c)
    PROVE  GatewayLogInv'
<1> USE DEF GatewayInv, GatewayLogInv
<1>1. /\ \A u \in Threads \ {t} : thread'[u] = thread[u]
      /\ thread'[t].at # "failing" /\ thread'[t].of = c /\ ~thread'[t].claimed
      /\ thread'[t].ok /\ thread'[t].line = "resolved"
      /\ thread[t].at = "idle" /\ ~thread[t].claimed
      /\ UNCHANGED <<status, runs, log, disturbed>>
  BY DEF Gateway!ReadRow, GatewayShapes, GatewayClaims, Gateway!Idle
<1>2. /\ \A d \in Calls : <<d, "rejected">> \in log' => status'[d] = "rejected"
      /\ \A d \in Calls : <<d, "executed">> \in log' => runs'[d] = 1
  BY <1>1 DEF GatewayShapes, Gateway!RunsOnce, GatewayLines
<1>3. GatewayLines'
  BY <1>1 DEF GatewayLines, GatewayShapes
<1>4. GatewayOwed'
  <2>1. \A d \in Calls : \A line \in Gateway!Decisions : Said(d, line) => Said(d, line)'
    BY <1>1 DEF Said
  <2>2. \A d \in Calls : Held(d) => Held(d)'
    BY <1>1 DEF Held
  <2>3. \A d \in Calls : Final(d) => Final(d)'
    BY <1>1 DEF Final
  <2> QED
    BY <1>1, <2>1, <2>2, <2>3 DEF GatewayOwed, Gateway!Decisions, GatewayShapes
<1> QED
  BY <1>2, <1>3, <1>4

LEMMA GatewayCheckLog ==
    ASSUME GatewayInv, GatewayLogInv, NEW t \in Threads, Gateway!Check(t)
    PROVE  GatewayLogInv'
<1> USE DEF GatewayInv, GatewayLogInv
<1>1. /\ \A u \in Threads \ {t} : thread'[u] = thread[u]
      /\ thread[t].at = "checking" /\ thread'[t].at \in {"running", "parking", "telling"}
      /\ thread'[t].of = thread[t].of /\ thread[t].of \in Calls
      /\ thread[t].claimed <=> thread'[t].claimed
      /\ thread'[t].at = "telling" => thread'[t].line = "denied"
      /\ thread'[t].ok /\ thread[t].ok
      /\ UNCHANGED <<status, runs, log, disturbed>>
  BY DEF Gateway!Check, GatewayShapes, GatewayClaims, Gateway!Goes, Gateway!Tells, GatewayLines
<1>2. /\ \A d \in Calls : <<d, "rejected">> \in log' => status'[d] = "rejected"
      /\ \A d \in Calls : <<d, "executed">> \in log' => runs'[d] = 1
  BY <1>1 DEF GatewayShapes, Gateway!RunsOnce, GatewayLines
<1>3. GatewayLines'
  BY <1>1 DEF GatewayLines, GatewayShapes
<1>4. GatewayOwed'
  <2>1. \A d \in Calls : \A line \in Gateway!Decisions : Said(d, line) => Said(d, line)'
    BY <1>1 DEF Said
  <2>2. \A d \in Calls : Held(d) => Held(d)'
    BY <1>1 DEF Held
  <2>3. \A d \in Calls : Final(d) => Final(d)'
    BY <1>1 DEF Final
  <2> QED
    BY <1>1, <2>1, <2>2, <2>3 DEF GatewayOwed, Gateway!Decisions, GatewayShapes
<1> QED
  BY <1>2, <1>3, <1>4

LEMMA GatewayParkLog ==
    ASSUME GatewayInv, GatewayLogInv, NEW t \in Threads, Gateway!Park(t)
    PROVE  GatewayLogInv'
<1> USE DEF GatewayInv, GatewayLogInv
<1>1. /\ \A u \in Threads \ {t} : thread'[u] = thread[u]
      /\ thread[t].at = "parking" /\ thread'[t].at = "telling" /\ thread'[t].line = "pending"
      /\ thread'[t].of = thread[t].of /\ thread[t].of \in Calls
      /\ ~thread[t].claimed /\ ~thread'[t].claimed
      /\ thread'[t].ok /\ thread[t].ok
      /\ status[thread[t].of] = "none" /\ status'[thread[t].of] = "pending"
      /\ \A d \in Calls \ {thread[t].of} : status'[d] = status[d]
      /\ UNCHANGED <<runs, log, disturbed>>
  BY DEF Gateway!Park, GatewayShapes, GatewayClaims, Gateway!Goes, Gateway!Tells,
     GatewayLines, Gateway!Resolve
<1>2. /\ \A d \in Calls : <<d, "rejected">> \in log' => status'[d] = "rejected"
      /\ \A d \in Calls : <<d, "executed">> \in log' => runs'[d] = 1
  BY <1>1 DEF GatewayShapes, Gateway!RunsOnce, GatewayLines
<1>3. GatewayLines'
  BY <1>1 DEF GatewayLines, GatewayShapes
<1>4. GatewayOwed'
  <2>1. \A d \in Calls : \A line \in Gateway!Decisions : Said(d, line) => Said(d, line)'
    BY <1>1 DEF Said
  <2>2. \A d \in Calls : Held(d) => Held(d)'
    BY <1>1 DEF Held
  <2>3. \A d \in Calls : Final(d) => Final(d)'
    BY <1>1 DEF Final
  <2>4. Said(thread[t].of, "pending")'
    BY <1>1 DEF Said
  <2> QED
    BY <1>1, <2>1, <2>2, <2>3, <2>4 DEF GatewayOwed, Gateway!Decisions, GatewayShapes
<1> QED
  BY <1>2, <1>3, <1>4

LEMMA GatewayRunLog ==
    ASSUME GatewayInv, GatewayLogInv, NEW t \in Threads, Gateway!Run(t)
    PROVE  GatewayLogInv'
<1> USE DEF GatewayInv, GatewayLogInv
<1>1. /\ \A u \in Threads \ {t} : thread'[u] = thread[u]
      /\ thread[t].at = "running" /\ thread'[t].at = "telling" /\ thread'[t].line = "executed"
      /\ thread'[t].of = thread[t].of /\ thread[t].of \in Calls
      /\ thread[t].claimed /\ thread'[t].claimed
      /\ runs'[thread[t].of] = 1 /\ runs[thread[t].of] = 0
      /\ \A d \in Calls \ {thread[t].of} : runs'[d] = runs[d]
      /\ UNCHANGED <<status, log, disturbed>>
  BY DEF Gateway!Run, GatewayShapes, GatewayClaims, GatewayLines
<1>2. /\ \A d \in Calls : <<d, "rejected">> \in log' => status'[d] = "rejected"
      /\ \A d \in Calls : <<d, "executed">> \in log' => runs'[d] = 1
  BY <1>1 DEF GatewayShapes, Gateway!RunsOnce, GatewayLines
<1>3. GatewayLines'
  BY <1>1 DEF GatewayLines, GatewayShapes
<1>4. GatewayOwed'
  <2>1. \A d \in Calls : \A line \in Gateway!Decisions : Said(d, line) => Said(d, line)'
    BY <1>1 DEF Said
  <2>2. \A d \in Calls : Held(d) => Held(d)'
    BY <1>1 DEF Held
  <2>3. \A d \in Calls : Final(d) => Final(d)'
    BY <1>1 DEF Final
  <2> QED
    BY <1>1, <2>1, <2>2, <2>3 DEF GatewayOwed, Gateway!Decisions, GatewayShapes
<1> QED
  BY <1>2, <1>3, <1>4

LEMMA GatewayExpireLog ==
    ASSUME GatewayInv, GatewayLogInv, NEW t \in Threads, Gateway!Expire(t)
    PROVE  GatewayLogInv'
<1> USE DEF GatewayInv, GatewayLogInv
<1>1. /\ \A u \in Threads \ {t} : thread'[u] = thread[u]
      /\ thread[t].at = "expiring" /\ thread'[t].at = "telling" /\ thread'[t].line = "expired"
      /\ thread'[t].of = thread[t].of /\ thread[t].of \in Calls
      /\ ~thread[t].claimed /\ ~thread'[t].claimed
      /\ thread'[t].ok /\ thread[t].ok
      /\ \/ status'[thread[t].of] = status[thread[t].of]
         \/ status[thread[t].of] = "pending" /\ status'[thread[t].of] = "expired"
      /\ \A d \in Calls \ {thread[t].of} : status'[d] = status[d]
      /\ UNCHANGED <<runs, log, disturbed>>
  BY DEF Gateway!Expire, GatewayShapes, GatewayClaims, Gateway!Goes, Gateway!Tells,
     GatewayLines, Gateway!Resolve
<1>2. /\ \A d \in Calls : <<d, "rejected">> \in log' => status'[d] = "rejected"
      /\ \A d \in Calls : <<d, "executed">> \in log' => runs'[d] = 1
  BY <1>1 DEF GatewayShapes, Gateway!RunsOnce, GatewayLines
<1>3. GatewayLines'
  BY <1>1 DEF GatewayLines, GatewayShapes
<1>4. GatewayOwed'
  <2>1. \A d \in Calls : \A line \in Gateway!Decisions : Said(d, line) => Said(d, line)'
    BY <1>1 DEF Said
  <2>2. \A d \in Calls : Held(d) => Held(d)'
    BY <1>1 DEF Held
  <2>3. \A d \in Calls : Final(d) => Final(d)'
    BY <1>1 DEF Final
  <2>4. Said(thread[t].of, "expired")'
    BY <1>1 DEF Said
  <2> QED
    BY <1>1, <2>1, <2>2, <2>3, <2>4 DEF GatewayOwed, Gateway!Decisions, GatewayShapes
<1> QED
  BY <1>2, <1>3, <1>4

(* A thread leaves that owes no line, or whose call a fault has hit. *)
LEMMA GatewayLeavesLog ==
    ASSUME GatewayInv, GatewayLogInv, NEW t \in Threads, Gateway!Leaves(t),
           UNCHANGED <<status, runs, log>>,
           disturbed \subseteq disturbed',
           \/ thread[t].of \in disturbed'
           \/ ~thread[t].claimed /\ thread[t].at # "telling"
    PROVE  GatewayLogInv'
<1> USE DEF GatewayInv, GatewayLogInv
<1>1. /\ \A u \in Threads \ {t} : thread'[u] = thread[u]
      /\ thread'[t].at = "idle" /\ ~thread'[t].claimed /\ thread'[t].ok
  BY DEF Gateway!Leaves, GatewayShapes, Gateway!Idle
<1>2. GatewayLines'
  BY <1>1 DEF GatewayLines, GatewayShapes
<1>3. GatewayOwed'
  <2>1. ASSUME NEW c \in Calls, c \notin disturbed', thread[t].of # c
        PROVE  /\ \A line \in Gateway!Decisions : Said(c, line) => Said(c, line)'
               /\ Held(c) => Held(c)'
    BY <1>1, <2>1 DEF Said, Held
  <2>2. ASSUME NEW c \in Calls, ~thread[t].claimed, thread[t].at # "telling"
        PROVE  /\ \A line \in Gateway!Decisions : Said(c, line) => Said(c, line)'
               /\ Held(c) => Held(c)'
    BY <1>1, <2>2 DEF Said, Held
  <2>3. ASSUME NEW c \in Calls, c \notin disturbed'
        PROVE  /\ \A line \in Gateway!Decisions : Said(c, line) => Said(c, line)'
               /\ Held(c) => Held(c)'
    BY <2>1, <2>2, <2>3
  <2>4. \A c \in Calls : Final(c) => Final(c)'
    BY DEF Final
  <2> QED
    BY <1>1, <2>3, <2>4 DEF GatewayOwed, Gateway!Decisions, GatewayShapes
<1> QED
  BY <1>2, <1>3 DEF GatewayShapes

LEMMA GatewayRejectLog ==
    ASSUME GatewayInv, GatewayLogInv, NEW t \in Threads, Gateway!Reject(t)
    PROVE  GatewayLogInv'
<1>1. CASE status[thread[t].of] = "pending"
  <2> USE <1>1 DEF GatewayInv, GatewayLogInv
  <2>1. /\ \A u \in Threads \ {t} : thread'[u] = thread[u]
        /\ thread[t].at = "rejecting" /\ thread'[t].at = "telling" /\ thread'[t].line = "rejected"
        /\ thread'[t].of = thread[t].of /\ thread[t].of \in Calls
        /\ ~thread[t].claimed /\ ~thread'[t].claimed
        /\ thread'[t].ok /\ thread[t].ok
        /\ status'[thread[t].of] = "rejected"
        /\ \A d \in Calls \ {thread[t].of} : status'[d] = status[d]
        /\ UNCHANGED <<runs, log, disturbed>>
    BY DEF Gateway!Reject, GatewayShapes, GatewayClaims, Gateway!Tells, GatewayLines,
       Gateway!Resolve
  <2>2. /\ \A d \in Calls : <<d, "rejected">> \in log' => status'[d] = "rejected"
        /\ \A d \in Calls : <<d, "executed">> \in log' => runs'[d] = 1
    BY <2>1 DEF GatewayShapes, GatewayLines
  <2>3. GatewayLines'
    BY <2>1 DEF GatewayLines, GatewayShapes
  <2>4. GatewayOwed'
    <3>1. \A d \in Calls : \A line \in Gateway!Decisions : Said(d, line) => Said(d, line)'
      BY <2>1 DEF Said
    <3>2. \A d \in Calls : Held(d) => Held(d)'
      BY <2>1 DEF Held
    <3>3. \A d \in Calls : Final(d) => Final(d)'
      BY <2>1 DEF Final
    <3>4. Said(thread[t].of, "rejected")'
      BY <2>1 DEF Said
    <3> QED
      BY <2>1, <3>1, <3>2, <3>3, <3>4 DEF GatewayOwed, Gateway!Decisions, GatewayShapes
  <2> QED
    BY <2>2, <2>3, <2>4
<1>2. CASE status[thread[t].of] # "pending"
  <2>1. ~thread[t].claimed
    BY DEF Gateway!Reject, GatewayInv, GatewayClaims
  <2> QED
    BY <1>2, <2>1, GatewayLeavesLog DEF Gateway!Reject
<1> QED
  BY <1>1, <1>2

LEMMA GatewayClaimLog ==
    ASSUME GatewayInv, GatewayLogInv, NEW t \in Threads, Gateway!Claim(t)
    PROVE  GatewayLogInv'
<1>1. CASE status[thread[t].of] = "pending"
  <2> USE <1>1 DEF GatewayInv, GatewayLogInv
  <2>1. /\ \A u \in Threads \ {t} : thread'[u] = thread[u]
        /\ thread[t].at = "claiming" /\ thread'[t].at = "checking"
        /\ thread'[t].of = thread[t].of /\ thread[t].of \in Calls
        /\ ~thread[t].claimed /\ thread'[t].claimed
        /\ thread'[t].ok /\ thread[t].ok
        /\ status'[thread[t].of] = "executed"
        /\ \A d \in Calls \ {thread[t].of} : status'[d] = status[d]
        /\ UNCHANGED <<runs, log, disturbed>>
    BY DEF Gateway!Claim, GatewayShapes, GatewayClaims, GatewayLines, Gateway!Resolve
  <2>2. /\ \A d \in Calls : <<d, "rejected">> \in log' => status'[d] = "rejected"
        /\ \A d \in Calls : <<d, "executed">> \in log' => runs'[d] = 1
    BY <2>1 DEF GatewayShapes, GatewayLines
  <2>3. GatewayLines'
    BY <2>1 DEF GatewayLines, GatewayShapes
  <2>4. GatewayOwed'
    <3>1. \A d \in Calls : \A line \in Gateway!Decisions : Said(d, line) => Said(d, line)'
      BY <2>1 DEF Said
    <3>2. \A d \in Calls : Held(d) => Held(d)'
      BY <2>1 DEF Held
    <3>3. \A d \in Calls : Final(d) => Final(d)'
      BY <2>1 DEF Final
    <3>4. Held(thread[t].of)'
      BY <2>1 DEF Held
    <3> QED
      BY <2>1, <3>1, <3>2, <3>3, <3>4 DEF GatewayOwed, Gateway!Decisions, GatewayShapes
  <2> QED
    BY <2>2, <2>3, <2>4
<1>2. CASE status[thread[t].of] # "pending"
  <2>1. ~thread[t].claimed
    BY DEF Gateway!Claim, GatewayInv, GatewayClaims
  <2> QED
    BY <1>2, <2>1, GatewayLeavesLog DEF Gateway!Claim
<1> QED
  BY <1>1, <1>2

LEMMA GatewayFailLog ==
    ASSUME GatewayInv, GatewayLogInv, NEW t \in Threads, Gateway!Fail(t)
    PROVE  GatewayLogInv'
<1> USE DEF GatewayInv, GatewayLogInv
<1>1. /\ \A u \in Threads \ {t} : thread'[u] = thread[u]
      /\ thread[t].at = "failing" /\ thread[t].of \in Calls /\ thread[t].claimed
      /\ thread'[t].at = "idle" /\ ~thread'[t].claimed /\ thread'[t].ok
      /\ UNCHANGED <<runs, log, disturbed>>
  BY DEF Gateway!Fail, Gateway!Leaves, GatewayShapes, GatewayClaims, Gateway!Idle
<1>2. /\ status[thread[t].of] \in {"executed", "failed"}
      /\ status'[thread[t].of] = "failed"
      /\ \A c \in Calls \ {thread[t].of} : status'[c] = status[c]
  BY <1>1 DEF Gateway!Fail, Gateway!Resolve, GatewayShapes, GatewayClaims
<1>3. /\ \A d \in Calls : <<d, "rejected">> \in log' => status'[d] = "rejected"
      /\ \A d \in Calls : <<d, "executed">> \in log' => runs'[d] = 1
  BY <1>1, <1>2 DEF GatewayShapes
<1>4. GatewayLines'
  BY <1>1, <1>2 DEF GatewayLines, GatewayShapes
<1>5. GatewayOwed'
  <2>1. \A d \in Calls : \A line \in Gateway!Decisions : Said(d, line) => Said(d, line)'
    BY <1>1 DEF Said
  <2>2. \A d \in Calls \ {thread[t].of} : Held(d) => Held(d)'
    BY <1>1 DEF Held
  <2>3. \A d \in Calls : Final(d) => Final(d)'
    BY <1>1 DEF Final
  <2>4. thread[t].of \notin disturbed => Final(thread[t].of)
    BY <1>1 DEF GatewayOwed
  <2> QED
    BY <1>1, <1>2, <2>1, <2>2, <2>3, <2>4 DEF GatewayOwed, Gateway!Decisions, GatewayShapes
<1> QED
  BY <1>3, <1>4, <1>5

LEMMA GatewayTellLog ==
    ASSUME GatewayInv, GatewayLogInv, NEW t \in Threads, Gateway!Tell(t)
    PROVE  GatewayLogInv'
<1> USE DEF GatewayInv, GatewayLogInv
<1> DEFINE raises == thread[t].line = "denied" \/ ~thread[t].ok
<1>1. /\ \A u \in Threads \ {t} : thread'[u] = thread[u]
      /\ thread[t].at = "telling" /\ thread[t].of \in Calls
      /\ UNCHANGED <<status, runs, disturbed>>
      /\ log' = log \cup {<<thread[t].of, thread[t].line>>}
  BY DEF Gateway!Tell, Gateway!Told, Gateway!Goes, Gateway!Leaves, GatewayShapes
<1>2. \/ /\ thread'[t].at = "idle" /\ ~thread'[t].claimed /\ thread'[t].ok
         /\ ~(thread[t].claimed /\ raises)
      \/ /\ thread'[t].at = "failing" /\ thread'[t].claimed /\ thread'[t].of = thread[t].of
         /\ thread'[t].ok = thread[t].ok /\ thread'[t].line = thread[t].line
         /\ thread[t].claimed
  BY DEF Gateway!Tell, Gateway!Told, Gateway!Goes, Gateway!Leaves, GatewayShapes, Gateway!Idle
<1>3. /\ \A d \in Calls : <<d, "rejected">> \in log' => status'[d] = "rejected"
      /\ \A d \in Calls : <<d, "executed">> \in log' => runs'[d] = 1
  BY <1>1 DEF GatewayLines
<1>4. GatewayLines'
  BY <1>1, <1>2 DEF GatewayLines, GatewayShapes
<1>5. GatewayOwed'
  <2>1. \A d \in Calls : \A line \in Gateway!Decisions : Said(d, line) => Said(d, line)'
    BY <1>1 DEF Said
  <2>2. \A d \in Calls : Held(d) => Held(d)'
    BY <1>1, <1>2 DEF Held, GatewayLines
  <2>3. \A d \in Calls : Final(d) => Final(d)'
    BY <1>1 DEF Final
  <2>4. thread'[t].at = "failing" => Final(thread[t].of)'
    BY <1>1, <1>2 DEF Final, GatewayLines
  <2> QED
    BY <1>1, <1>2, <2>1, <2>2, <2>3, <2>4 DEF GatewayOwed, Gateway!Decisions, GatewayShapes
<1> QED
  BY <1>3, <1>4, <1>5

LEMMA GatewaySinkFailsLog ==
    ASSUME GatewayInv, GatewayLogInv, NEW t \in Threads, Gateway!SinkFails(t)
    PROVE  GatewayLogInv'
<1>0. thread[t].of \in disturbed' /\ disturbed \subseteq disturbed'
  BY DEF Gateway!SinkFails, Gateway!Fault
<1>1. CASE Gateway!Leaves(t)
  BY <1>0, <1>1, GatewayLeavesLog DEF Gateway!SinkFails
<1>2. CASE thread[t].claimed /\ Gateway!Goes(t, "failing")
  <2> USE DEF GatewayInv, GatewayLogInv
  <2>1. /\ \A u \in Threads \ {t} : thread'[u] = thread[u]
        /\ thread'[t].at = "failing" /\ thread'[t].claimed /\ thread'[t].of = thread[t].of
        /\ thread'[t].line = thread[t].line /\ (~thread'[t].ok => ~thread[t].ok)
        /\ UNCHANGED <<status, runs, log>>
    BY <1>2 DEF Gateway!SinkFails, Gateway!Goes, GatewayShapes
  <2>2. GatewayLines'
    BY <2>1 DEF GatewayLines, GatewayShapes
  <2>3. GatewayOwed'
    <3>1. ASSUME NEW c \in Calls, c \notin disturbed'
          PROVE  /\ \A line \in Gateway!Decisions : Said(c, line) => Said(c, line)'
                 /\ Held(c) => Held(c)'
      BY <1>0, <2>1, <3>1 DEF Said, Held
    <3>2. \A c \in Calls : Final(c) => Final(c)'
      BY <2>1 DEF Final
    <3> QED
      BY <1>0, <2>1, <3>1, <3>2 DEF GatewayOwed, Gateway!Decisions, GatewayShapes
  <2> QED
    BY <2>1, <2>2, <2>3
<1> QED
  BY <1>1, <1>2 DEF Gateway!SinkFails, Gateway!Told

LEMMA GatewayCrashLog ==
    ASSUME GatewayInv, GatewayLogInv, NEW t \in Threads, Gateway!Crash(t)
    PROVE  GatewayLogInv'
BY GatewayLeavesLog DEF Gateway!Crash, Gateway!Fault

LEMMA GatewayLogInit == Gateway!Init => GatewayLogInv
BY DEF Gateway!Init, GatewayLogInv, GatewayLines, GatewayOwed, Gateway!Idle

(* Nothing a step leaves alone can spoil the stream. *)
LEMMA GatewayLogUnchanged ==
    ASSUME GatewayLogInv, UNCHANGED <<status, thread, runs, log, disturbed>>
    PROVE  GatewayLogInv'
BY DEF GatewayLogInv, GatewayLines, GatewayOwed, Said, Held, Final

(* The audit stream agrees with the rows, and what no fault has hit is on  *)
(* it once nobody works on the call any more (gateway/service.py, every    *)
(* "Audit on every path").                                                 *)
THEOREM ServicesLogAgrees == ServicesSpec => []LogAgrees
<1>1. GatewayInv /\ GatewayLogInv /\ [Gateway!Next]_Gateway!vars => GatewayLogInv'
  <2> SUFFICES ASSUME GatewayInv, GatewayLogInv, [Gateway!Next]_Gateway!vars PROVE GatewayLogInv'
    OBVIOUS
  <2>1. CASE UNCHANGED Gateway!vars
    BY <2>1, GatewayLogUnchanged DEF Gateway!vars
  <2>2. CASE \E t \in Threads :
                \/ \E c \in Calls : Gateway!Ask(t, c) \/ Gateway!ReadRow(t, c)
                \/ Gateway!Check(t) \/ Gateway!Park(t) \/ Gateway!Run(t)
                \/ Gateway!Expire(t) \/ Gateway!Reject(t) \/ Gateway!Claim(t) \/ Gateway!Fail(t)
                \/ Gateway!Tell(t) \/ Gateway!SinkFails(t) \/ Gateway!Crash(t)
    BY <2>2, GatewayAskLog, GatewayReadRowLog, GatewayCheckLog, GatewayParkLog,
       GatewayRunLog, GatewayExpireLog, GatewayRejectLog,
       GatewayClaimLog, GatewayFailLog, GatewayTellLog, GatewaySinkFailsLog, GatewayCrashLog
  <2>3. CASE \E c \in Calls : Gateway!ExpiryPasses(c)
    BY <2>3, GatewayLogUnchanged DEF Gateway!ExpiryPasses
  <2>4. CASE Gateway!NextWindow
    BY <2>4, GatewayLogUnchanged DEF Gateway!NextWindow
  <2> QED
    BY <2>1, <2>2, <2>3, <2>4 DEF Gateway!Next
<1>2. GatewayInv /\ GatewayLogInv => LogAgrees
  <2>1. ASSUME GatewayLogInv, NEW c \in Calls, Gateway!Unattended(c)
        PROVE  /\ status[c] # "none" => <<c, "pending">> \in log
               /\ status[c] = "executed" => <<c, "executed">> \in log
               /\ status[c] = "rejected" => <<c, "rejected">> \in log
               /\ status[c] = "expired" => <<c, "expired">> \in log
               /\ status[c] = "failed" => Final(c)
    BY <2>1 DEF GatewayLogInv, GatewayOwed, Said, Held, Gateway!Unattended
  <2> QED
    BY <2>1 DEF LogAgrees, Gateway!LogAgrees, GatewayLogInv, Final
<1> QED
  BY <1>1, <1>2, GatewayLogInit, GatewayInvariant, RunsGateway, PTL DEF Gateway!Spec

-----------------------------------------------------------------------------
(* Erasures *)

FanOut == [at : {"idle", "next", "saving", "receipting", "committing", "acknowledged"},
           todo : SUBSET Answerers,
           claimed : BOOLEAN, failed : BOOLEAN, refused : BOOLEAN,
           wrote : BOOLEAN, emitted : BOOLEAN, earned : {0, 1}]

(* An answer that has not written read a row that names nobody; a receipt  *)
(* waits for its commit.                                                   *)
ErasureRowInv ==
    /\ receipted => mirror # "person"
    /\ \A s \in Signals :
          /\ fan[s].wrote => fan[s].at \in {"receipting", "committing"}
          /\ fan[s].at \in {"receipting", "committing"} /\ ~fan[s].wrote => mirror # "person"
          /\ fan[s].emitted => fan[s].at = "committing"

(* A claim is a receipt sent, one on its way, or an answer that failed;    *)
(* and a fan-out that called somebody has a claim, or an answer that       *)
(* failed.                                                                 *)
ErasureClaimInv ==
    \A s \in Signals :
        /\ fan[s].earned = 1 => fan[s].claimed
        /\ fan[s].emitted => fan[s].claimed /\ fan[s].earned = 0
        /\ fan[s].claimed =>
              fan[s].earned = 1 \/ fan[s].emitted \/ fan[s].failed \/ fan[s].refused
        /\ fan[s].at = "committing" => fan[s].claimed
        /\ fan[s].at = "next" =>
              fan[s].claimed \/ fan[s].failed \/ fan[s].refused \/ fan[s].todo = Answerers
        /\ fan[s].at = "acknowledged" =>
              ~fan[s].failed /\ (fan[s].claimed \/ fan[s].refused)

ErasureInv == fan \in [Signals -> FanOut] /\ ErasureRowInv /\ ErasureClaimInv
-----------------------------------------------------------------------------
LEMMA ErasureInvInit == Erasure!Init => ErasureInv
BY DEF Erasure!Init, ErasureInv, ErasureRowInv, ErasureClaimInv, Erasure!Idle, FanOut

LEMMA ErasureDeliverStep ==
    ASSUME ErasureInv, NEW s \in Signals, Erasure!Deliver(s)
    PROVE  ErasureInv'
<1> USE DEF ErasureInv
<1>1. /\ \A o \in Signals \ {s} : fan'[o] = fan[o]
      /\ fan'[s].at = "next" /\ fan'[s].todo = Answerers
      /\ ~fan'[s].claimed /\ ~fan'[s].failed /\ ~fan'[s].refused
      /\ ~fan'[s].wrote /\ ~fan'[s].emitted /\ fan'[s].earned = 0
      /\ UNCHANGED <<mirror, receipted>>
  BY DEF Erasure!Deliver, Erasure!Idle, FanOut
<1>2. fan' \in [Signals -> FanOut]
  BY DEF Erasure!Deliver, FanOut, Erasure!Idle, ErasureRowInv, ErasureClaimInv, Erasure!Answering
<1>3. ErasureRowInv'
  BY <1>1 DEF ErasureRowInv
<1>4. ErasureClaimInv'
  BY <1>1 DEF ErasureClaimInv
<1> QED
  BY <1>2, <1>3, <1>4

LEMMA ErasureEndFanOutStep ==
    ASSUME ErasureInv, NEW s \in Signals, Erasure!EndFanOut(s)
    PROVE  ErasureInv'
<1>0. Answerers # {}
  BY ServicesAssumption
<1> USE DEF ErasureInv
<1>1. /\ \A o \in Signals \ {s} : fan'[o] = fan[o]
      /\ fan[s].at = "next" /\ fan[s].todo # Answerers
      /\ \/ fan[s].failed /\ fan'[s].at = "idle"
         \/ ~fan[s].failed /\ fan'[s].at = "acknowledged"
      /\ (fan'[s].claimed <=> fan[s].claimed)
      /\ (fan'[s].failed <=> fan[s].failed) /\ (fan'[s].refused <=> fan[s].refused)
      /\ (fan'[s].wrote <=> fan[s].wrote) /\ (fan'[s].emitted <=> fan[s].emitted)
      /\ fan'[s].earned = fan[s].earned
      /\ UNCHANGED <<mirror, receipted>>
  BY <1>0 DEF Erasure!EndFanOut, Erasure!Idle, FanOut
<1>2. fan' \in [Signals -> FanOut]
  BY DEF Erasure!EndFanOut, FanOut, Erasure!Idle, ErasureRowInv, ErasureClaimInv,
     Erasure!Answering
<1>3. ErasureRowInv'
  BY <1>1 DEF ErasureRowInv
<1>4. ErasureClaimInv'
  BY <1>1 DEF ErasureClaimInv
<1> QED
  BY <1>2, <1>3, <1>4

LEMMA ErasureBeginStep ==
    ASSUME ErasureInv, NEW s \in Signals, Erasure!Begin(s)
    PROVE  ErasureInv'
<1> USE DEF ErasureInv
<1>1. /\ \A o \in Signals \ {s} : fan'[o] = fan[o]
      /\ fan[s].at = "next"
      /\ \/ mirror = "person" /\ fan'[s].at = "saving"
         \/ mirror # "person" /\ fan'[s].at = "receipting"
      /\ (fan'[s].claimed <=> fan[s].claimed)
      /\ (fan'[s].failed <=> fan[s].failed) /\ (fan'[s].refused <=> fan[s].refused)
      /\ (fan'[s].wrote <=> fan[s].wrote) /\ (fan'[s].emitted <=> fan[s].emitted)
      /\ fan'[s].earned = fan[s].earned
      /\ UNCHANGED <<mirror, receipted>>
  BY DEF Erasure!Begin, Erasure!Idle, FanOut
<1>2. fan' \in [Signals -> FanOut]
  BY DEF Erasure!Begin, FanOut, Erasure!Idle, ErasureRowInv, ErasureClaimInv, Erasure!Answering
<1>3. ErasureRowInv'
  BY <1>1 DEF ErasureRowInv
<1>4. ErasureClaimInv'
  BY <1>1 DEF ErasureClaimInv
<1> QED
  BY <1>2, <1>3, <1>4

LEMMA ErasureSaveStep ==
    ASSUME ErasureInv, NEW s \in Signals, Erasure!Save(s)
    PROVE  ErasureInv'
<1> USE DEF ErasureInv
<1>1. /\ \A o \in Signals \ {s} : fan'[o] = fan[o]
      /\ fan[s].at = "saving" /\ fan'[s].at = "receipting"
      /\ (fan'[s].claimed <=> fan[s].claimed)
      /\ (fan'[s].failed <=> fan[s].failed) /\ (fan'[s].refused <=> fan[s].refused)
      /\ fan'[s].wrote /\ (fan'[s].emitted <=> fan[s].emitted) /\ fan'[s].earned = fan[s].earned
      /\ UNCHANGED <<mirror, receipted>>
  BY DEF Erasure!Save, Erasure!Idle, FanOut
<1>2. fan' \in [Signals -> FanOut]
  BY DEF Erasure!Save, FanOut, Erasure!Idle, ErasureRowInv, ErasureClaimInv, Erasure!Answering
<1>3. ErasureRowInv'
  BY <1>1 DEF ErasureRowInv
<1>4. ErasureClaimInv'
  BY <1>1 DEF ErasureClaimInv
<1> QED
  BY <1>2, <1>3, <1>4

LEMMA ErasureEmitReceiptStep ==
    ASSUME ErasureInv, NEW s \in Signals, Erasure!EmitReceipt(s)
    PROVE  ErasureInv'
<1> USE DEF ErasureInv
<1>1. /\ \A o \in Signals \ {s} : fan'[o] = fan[o]
      /\ fan[s].at = "receipting" /\ fan'[s].at = "committing"
      /\ fan'[s].claimed /\ (fan'[s].emitted <=> ~fan[s].claimed)
      /\ (fan'[s].failed <=> fan[s].failed) /\ (fan'[s].refused <=> fan[s].refused)
      /\ (fan'[s].wrote <=> fan[s].wrote)
      /\ fan'[s].earned = fan[s].earned
      /\ UNCHANGED <<mirror, receipted>>
  BY DEF Erasure!EmitReceipt, Erasure!Idle, FanOut
<1>2. fan' \in [Signals -> FanOut]
  <2> DEFINE done == [fan[s] EXCEPT !.at = "committing", !.claimed = TRUE,
                                    !.emitted = ~fan[s].claimed]
  <2>1. fan[s] \in FanOut
    OBVIOUS
  <2>2. done \in FanOut
    BY <2>1, Zenon DEF FanOut
  <2>3. fan' = [fan EXCEPT ![s] = done]
    BY DEF Erasure!EmitReceipt
  <2> HIDE DEF done
  <2> QED
    BY <2>2, <2>3
<1>3. ErasureRowInv'
  BY <1>1, Zenon DEF ErasureRowInv
<1>4. ErasureClaimInv'
  <2>1. fan[s].earned \in {0, 1}
    BY DEF FanOut
  <2>2. fan'[s].emitted => fan'[s].earned = 0
    BY <1>1, <2>1 DEF ErasureClaimInv
  <2>3. fan'[s].earned = 1 \/ fan'[s].emitted \/ fan'[s].failed \/ fan'[s].refused
    <3>1. CASE fan[s].claimed
      <4>1. ~fan[s].emitted
        BY <1>1 DEF ErasureRowInv
      <4> QED
        BY <1>1, <3>1, <4>1, Zenon DEF ErasureClaimInv
    <3>2. CASE ~fan[s].claimed
      BY <1>1, <3>2
    <3> QED
      BY <3>1, <3>2
  <2> QED
    BY <1>1, <2>2, <2>3, Zenon DEF ErasureClaimInv
<1> QED
  BY <1>2, <1>3, <1>4

LEMMA ErasureCommitStep ==
    ASSUME ErasureInv, NEW s \in Signals, Erasure!Commit(s)
    PROVE  ErasureInv'
<1> USE DEF ErasureInv
<1>1. /\ \A o \in Signals \ {s} : fan'[o] = fan[o]
      /\ fan[s].at = "committing" /\ fan'[s].at = "next"
      /\ (fan'[s].claimed <=> fan[s].claimed)
      /\ (fan'[s].failed <=> fan[s].failed) /\ (fan'[s].refused <=> fan[s].refused)
      /\ ~fan'[s].wrote /\ ~fan'[s].emitted
      /\ fan[s].emitted => fan'[s].earned = 1
      /\ ~fan[s].emitted => fan'[s].earned = fan[s].earned
      /\ mirror' = IF fan[s].wrote THEN "erased" ELSE mirror
      /\ receipted' <=> receipted \/ fan[s].emitted
  BY DEF Erasure!Commit, Erasure!Idle, FanOut, ErasureClaimInv
<1>2. fan' \in [Signals -> FanOut]
  <2> DEFINE e == IF fan[s].emitted THEN fan[s].earned + 1 ELSE fan[s].earned
             done == [fan[s] EXCEPT !.at = "next", !.wrote = FALSE, !.emitted = FALSE,
                                    !.earned = e]
  <2>1. fan[s] \in FanOut
    OBVIOUS
  <2>2. e \in {0, 1}
    <3>1. fan[s].earned \in {0, 1}
      BY <2>1 DEF FanOut
    <3>2. fan[s].emitted => fan[s].earned = 0
      BY DEF ErasureClaimInv
    <3> QED
      BY <3>1, <3>2
  <2>3. fan' = [fan EXCEPT ![s] = done]
    BY DEF Erasure!Commit
  <2> HIDE DEF e
  <2>4. done \in FanOut
    BY <2>1, <2>2, Zenon DEF FanOut
  <2> HIDE DEF done
  <2> QED
    BY <2>3, <2>4
<1>3. ErasureRowInv'
  BY <1>1 DEF ErasureRowInv
<1>4. ErasureClaimInv'
  BY <1>1 DEF ErasureClaimInv
<1> QED
  BY <1>2, <1>3, <1>4

LEMMA ErasureUndoneStep ==
    ASSUME ErasureInv, NEW s \in Signals, Erasure!Undone(s)
    PROVE  ErasureInv'
<1> USE DEF ErasureInv
<1>1. /\ \A o \in Signals \ {s} : fan'[o] = fan[o]
      /\ fan[s].at \in Erasure!Answering /\ fan'[s].at = "next"
      /\ fan'[s].failed \/ fan'[s].refused
      /\ (fan'[s].claimed <=> fan[s].claimed)
      /\ ~fan'[s].wrote /\ ~fan'[s].emitted
      /\ fan'[s].earned = fan[s].earned
      /\ UNCHANGED <<mirror, receipted>>
  <2>1. \/ fan' = [fan EXCEPT ![s].at = "next", ![s].wrote = FALSE, ![s].emitted = FALSE,
                             ![s].failed = TRUE]
        \/ fan' = [fan EXCEPT ![s].at = "next", ![s].wrote = FALSE, ![s].emitted = FALSE,
                             ![s].refused = TRUE]
    BY DEF Erasure!Undone
  <2>2. /\ \A o \in Signals \ {s} : fan'[o] = fan[o]
        /\ fan'[s].at = "next" /\ (fan'[s].failed \/ fan'[s].refused)
        /\ (fan'[s].claimed <=> fan[s].claimed)
        /\ ~fan'[s].wrote /\ ~fan'[s].emitted /\ fan'[s].earned = fan[s].earned
    <3>1. CASE fan' = [fan EXCEPT ![s].at = "next", ![s].wrote = FALSE, ![s].emitted = FALSE,
                                  ![s].failed = TRUE]
      BY <3>1 DEF FanOut
    <3>2. CASE fan' = [fan EXCEPT ![s].at = "next", ![s].wrote = FALSE, ![s].emitted = FALSE,
                                  ![s].refused = TRUE]
      BY <3>2 DEF FanOut
    <3> QED
      BY <2>1, <3>1, <3>2
  <2> QED
    BY <2>2 DEF Erasure!Undone
<1>2. fan' \in [Signals -> FanOut]
  <2>1. \/ fan' = [fan EXCEPT ![s].at = "next", ![s].wrote = FALSE, ![s].emitted = FALSE,
                             ![s].failed = TRUE]
        \/ fan' = [fan EXCEPT ![s].at = "next", ![s].wrote = FALSE, ![s].emitted = FALSE,
                             ![s].refused = TRUE]
    BY DEF Erasure!Undone
  <2> QED
    BY <2>1 DEF FanOut
<1>3. ErasureRowInv'
  BY <1>1 DEF ErasureRowInv
<1>4. ErasureClaimInv'
  BY <1>1 DEF ErasureClaimInv
<1> QED
  BY <1>2, <1>3, <1>4

LEMMA ErasureCrashStep ==
    ASSUME ErasureInv, NEW s \in Signals, Erasure!Crash(s)
    PROVE  ErasureInv'
<1> USE DEF ErasureInv
<1>1. /\ \A o \in Signals \ {s} : fan'[o] = fan[o]
      /\ fan'[s].at = "idle"
      /\ ~fan'[s].claimed /\ ~fan'[s].failed /\ ~fan'[s].refused
      /\ ~fan'[s].wrote /\ ~fan'[s].emitted /\ fan'[s].earned = 0
      /\ UNCHANGED <<mirror, receipted>>
  BY DEF Erasure!Crash, Erasure!Idle, FanOut
<1>2. fan' \in [Signals -> FanOut]
  BY DEF Erasure!Crash, FanOut, Erasure!Idle, ErasureRowInv, ErasureClaimInv, Erasure!Answering
<1>3. ErasureRowInv'
  BY <1>1 DEF ErasureRowInv
<1>4. ErasureClaimInv'
  BY <1>1 DEF ErasureClaimInv
<1> QED
  BY <1>2, <1>3, <1>4

LEMMA ErasureReparentOnMergeStep == ErasureInv /\ Erasure!ReparentOnMerge => ErasureInv'
BY DEF ErasureInv, Erasure!ReparentOnMerge, ErasureRowInv, ErasureClaimInv

(* The inductive invariant of the answers to an erasure: one that does not  *)
(* write read a row that names nobody, and a claim is a receipt sent, one   *)
(* waiting for its commit, or an answer that failed (gdpr/owners.py:250).   *)
THEOREM ErasureInvariant == Erasure!Spec => []ErasureInv
<1>1. ErasureInv /\ [Erasure!Next]_Erasure!vars => ErasureInv'
  <2> SUFFICES ASSUME ErasureInv, [Erasure!Next]_Erasure!vars PROVE ErasureInv'
    OBVIOUS
  <2>1. CASE UNCHANGED Erasure!vars
    BY <2>1 DEF Erasure!vars, ErasureInv, ErasureRowInv, ErasureClaimInv
  <2>2. CASE \E s \in Signals :
                \/ Erasure!Deliver(s) \/ Erasure!EndFanOut(s) \/ Erasure!Begin(s)
                \/ Erasure!Save(s) \/ Erasure!EmitReceipt(s)
                \/ Erasure!Commit(s) \/ Erasure!Undone(s) \/ Erasure!Crash(s)
    BY <2>2, ErasureDeliverStep, ErasureEndFanOutStep, ErasureBeginStep, ErasureSaveStep,
       ErasureEmitReceiptStep, ErasureCommitStep,
       ErasureUndoneStep, ErasureCrashStep
  <2>3. CASE Erasure!ReparentOnMerge
    BY <2>3, ErasureReparentOnMergeStep
  <2> QED
    BY <2>1, <2>2, <2>3 DEF Erasure!Next
<1> QED
  BY <1>1, ErasureInvInit, PTL DEF Erasure!Spec

(* A committed receipt is true: the row it answers for names nobody, for   *)
(* any number of signals and answers at work on it ("An owner can never    *)
(* report an erasure a rollback undid", gdpr/owners.py:313).               *)
THEOREM ServicesReceiptEarned == ServicesSpec => []ReceiptEarned
<1>1. ErasureInv => ReceiptEarned
  BY DEF ErasureInv, ErasureRowInv, ReceiptEarned, Erasure!ReceiptEarned
<1> QED
  BY <1>1, ErasureInvariant, RunsErasure, PTL

(* A fan-out sends one receipt at most, and one exactly when it is         *)
(* acknowledged with no answer refused (gdpr/owners.py:250). A section     *)
(* without any answerer would acknowledge and say nothing.                 *)
THEOREM ServicesAnsweredOnce == ServicesSpec => []AnsweredOnce
<1>1. ErasureInv => AnsweredOnce
  BY DEF ErasureInv, ErasureRowInv, ErasureClaimInv, AnsweredOnce, Erasure!AnsweredOnce, FanOut
<1> QED
  BY <1>1, ErasureInvariant, RunsErasure, PTL

-----------------------------------------------------------------------------
(* Durable replies *)

ReplyFrames == [kind : DurableReply!Kinds, of : 0 .. MaxAttempts]
ReplyCalls  == [at : {"idle", "looking", "asking", "waiting", "late", "holding", "heard",
                      "finished"}, frame : ReplyFrames]
ReplyWork   == [at : {"none", "asked", "executed", "kept", "fitted", "over"},
                frame : ReplyFrames]

(* What is on the shelf is an answer, and whole; what is owed is on it; and *)
(* an attempt that was promised one finds it and can read it.              *)
ReplyInv ==
    /\ attempt \in 0 .. MaxAttempts
    /\ call \in ReplyCalls
    /\ work \in [1 .. MaxAttempts -> ReplyWork]
    /\ shelf \in ReplyFrames
    /\ objects \subseteq 1 .. MaxAttempts
    /\ owed \in BOOLEAN /\ promised \in BOOLEAN
    /\ shelf.kind \in {"none", "small", "large"}
    /\ shelf.kind = "none" => shelf = DurableReply!NoFrame
    /\ owed => shelf.kind # "none"
    /\ \A e \in 1 .. MaxAttempts :
          work[e].at = "executed" => work[e].frame.kind \in {"small", "large", "error"}
    /\ promised =>
          /\ call.at \in {"looking", "holding", "heard", "finished"}
          /\ call.at = "looking" => shelf.kind # "none"
          /\ call.at = "holding" => call.frame.kind \in {"small", "large"}

LEMMA ReplyTypeOK == ReplyInv => DurableReply!TypeOK
BY DEF ReplyInv, DurableReply!TypeOK, ReplyFrames, ReplyCalls, ReplyWork, DurableReply!Frames,
   DurableReply!Attempts

LEMMA ReplyFrame ==
    /\ DurableReply!NoFrame \in ReplyFrames /\ DurableReply!NoFrame.kind = "none"
    /\ \A e \in 1 .. MaxAttempts, k \in DurableReply!Kinds :
          /\ [kind |-> k, of |-> e] \in ReplyFrames /\ [kind |-> k, of |-> e].kind = k
BY ServicesAssumption DEF DurableReply!NoFrame, DurableReply!Kinds, ReplyFrames

LEMMA ReplyInit == DurableReply!Init => ReplyInv
<1> SUFFICES ASSUME DurableReply!Init PROVE ReplyInv
  OBVIOUS
<1>1. owed \in BOOLEAN /\ promised \in BOOLEAN /\ promised = FALSE /\ owed = FALSE
  BY DEF DurableReply!Init
<1>2. call \in ReplyCalls
  BY ReplyFrame DEF DurableReply!Init, ReplyCalls
<1>3. work \in [1 .. MaxAttempts -> ReplyWork] /\ \A e \in 1 .. MaxAttempts : work[e].at = "none"
  BY ReplyFrame DEF DurableReply!Init, ReplyWork, DurableReply!Attempts
<1>4. attempt \in 0 .. MaxAttempts /\ objects = {} /\ shelf = DurableReply!NoFrame
  BY ServicesAssumption DEF DurableReply!Init
<1> QED
  BY <1>1, <1>2, <1>3, <1>4, ReplyFrame DEF ReplyInv

(* How a call moves. *)
LEMMA ReplyMoves ==
    ASSUME ReplyInv
    PROVE  /\ \A p \in {"idle", "heard", "finished"} :
                 DurableReply!Ends(p) => call' \in ReplyCalls /\ call'.at = p
           /\ \A p \in {"looking", "asking", "waiting", "late"} :
                 DurableReply!Goes(p) => call' \in ReplyCalls /\ call'.at = p
           /\ \A f \in ReplyFrames :
                 DurableReply!Holds(f) =>
                     call' \in ReplyCalls /\ call'.at = "holding" /\ call'.frame = f
BY ReplyFrame DEF ReplyInv, ReplyCalls, DurableReply!Ends, DurableReply!Goes, DurableReply!Holds

LEMMA ReplyGives ==
    ASSUME ReplyInv, NEW e \in 1 .. MaxAttempts, NEW f \in ReplyFrames,
           NEW p \in {"executed", "kept", "fitted", "over"}, DurableReply!Gives(e, p, f)
    PROVE  /\ work' \in [1 .. MaxAttempts -> ReplyWork]
           /\ work'[e].at = p /\ work'[e].frame = f
           /\ \A d \in (1 .. MaxAttempts) \ {e} : work'[d] = work[d]
BY DEF ReplyInv, ReplyWork, DurableReply!Gives

(* The calling side, and the store. *)
LEMMA CallerSteps ==
    ASSUME ReplyInv,
           \/ DurableReply!Begin \/ DurableReply!Take \/ DurableReply!FindNothing
           \/ DurableReply!Ask \/ DurableReply!Refused \/ DurableReply!Timeout
           \/ DurableReply!Hear \/ DurableReply!Raise \/ DurableReply!ReadFails
           \/ DurableReply!Break \/ DurableReply!Finish \/ DurableReply!Expire
    PROVE  ReplyInv'
<1>0. /\ call \in ReplyCalls /\ call.frame \in ReplyFrames /\ shelf \in ReplyFrames
      /\ owed \in BOOLEAN /\ promised \in BOOLEAN
  BY DEF ReplyInv, ReplyCalls
<1>1. CASE DurableReply!Begin
  <2>1. call'.at = "looking" /\ call' \in ReplyCalls
    BY <1>1, ReplyMoves DEF DurableReply!Begin
  <2>2. attempt' \in 0 .. MaxAttempts
    <3>1. attempt \in 0 .. MaxAttempts /\ MaxAttempts \in Nat
      BY ServicesAssumption DEF ReplyInv
    <3>2. attempt < MaxAttempts /\ attempt' = attempt + 1
      BY <1>1 DEF DurableReply!Begin
    <3> QED
      BY <3>1, <3>2
  <2> QED
    BY <1>0, <1>1, <2>1, <2>2 DEF ReplyInv, DurableReply!Begin
<1>2. CASE DurableReply!Take
  <2>1. call' \in ReplyCalls /\ call'.at = "holding" /\ call'.frame = shelf
    BY <1>0, <1>2, ReplyMoves DEF DurableReply!Take
  <2>2. shelf.kind \in {"small", "large"} /\ shelf' \in {DurableReply!NoFrame, shelf}
    BY <1>2 DEF ReplyInv, DurableReply!Take
  <2>3. owed' = FALSE /\ owed' \in BOOLEAN
    BY <1>2 DEF DurableReply!Take
  <2> QED
    BY <1>0, <1>2, <2>1, <2>2, <2>3, ReplyFrame DEF ReplyInv, DurableReply!Take
<1>3. CASE DurableReply!FindNothing
  <2>1. call' \in ReplyCalls /\ call'.at \in {"asking", "idle"}
    BY <1>3, ReplyMoves DEF DurableReply!FindNothing
  <2>2. /\ ~promised' /\ promised' \in BOOLEAN
        /\ UNCHANGED <<attempt, work, shelf, objects, owed>>
    <3>1. call.at \in {"looking", "late"} /\ promised' = (promised /\ shelf = DurableReply!NoFrame)
      BY <1>3 DEF DurableReply!FindNothing
    <3>2. promised /\ shelf = DurableReply!NoFrame => FALSE
      BY <3>1, ReplyFrame DEF ReplyInv
    <3> QED
      BY <1>3, <3>1, <3>2 DEF DurableReply!FindNothing
  <2> QED
    BY <2>1, <2>2 DEF ReplyInv
<1>4. CASE DurableReply!Ask
  <2>1. call' \in ReplyCalls /\ call'.at = "waiting" /\ call.at = "asking"
    BY <1>4, ReplyMoves DEF DurableReply!Ask
  <2>2. /\ work' = [work EXCEPT ![attempt].at = "asked"]
        /\ UNCHANGED <<attempt, shelf, objects, owed, promised>>
    BY <1>4 DEF DurableReply!Ask
  <2>3. /\ work' \in [1 .. MaxAttempts -> ReplyWork]
        /\ \A e \in 1 .. MaxAttempts : work'[e].at = "executed" => work'[e] = work[e]
    BY <2>2 DEF ReplyInv, ReplyWork
  <2> QED
    BY <2>1, <2>2, <2>3 DEF ReplyInv
<1>5. CASE DurableReply!Refused
  BY <1>5, ReplyMoves DEF ReplyInv, DurableReply!Refused
<1>6. CASE DurableReply!Timeout
  BY <1>6, ReplyMoves DEF ReplyInv, DurableReply!Timeout
<1>7. CASE DurableReply!Hear
  <2>1. call' \in ReplyCalls /\ call'.at = "heard" /\ objects' \subseteq objects
    BY <1>7, ReplyMoves DEF DurableReply!Hear
  <2> QED
    BY <1>7, <2>1 DEF ReplyInv, DurableReply!Hear
<1>8. CASE DurableReply!Raise
  <2>1. call' \in ReplyCalls /\ call'.at = "idle" /\ ~promised
    BY <1>8, ReplyMoves DEF ReplyInv, DurableReply!Raise, DurableReply!Readable
  <2> QED
    BY <1>8, <2>1 DEF ReplyInv, DurableReply!Raise
<1>9. CASE DurableReply!ReadFails \/ DurableReply!Break
  <2>1. call' \in ReplyCalls /\ UNCHANGED <<attempt, work, shelf, objects, owed>>
    BY <1>9, ReplyMoves DEF DurableReply!ReadFails, DurableReply!Break
  <2>2. promised' = FALSE /\ promised' \in BOOLEAN
    BY <1>9 DEF DurableReply!ReadFails, DurableReply!Break
  <2> QED
    BY <2>1, <2>2 DEF ReplyInv
<1>10. CASE DurableReply!Finish
  <2>1. /\ call' \in ReplyCalls /\ call'.at = "finished"
        /\ UNCHANGED <<attempt, work, objects, promised>>
        /\ shelf' \in {DurableReply!NoFrame, shelf}
    BY <1>10, ReplyMoves DEF DurableReply!Finish
  <2>2. owed' = FALSE /\ owed' \in BOOLEAN
    BY <1>10 DEF DurableReply!Finish
  <2> QED
    BY <2>1, <2>2, ReplyFrame DEF ReplyInv
<1>11. CASE DurableReply!Expire
  <2>1. /\ shelf' = DurableReply!NoFrame /\ objects' = {} /\ UNCHANGED <<attempt, call, work>>
    BY <1>11 DEF DurableReply!Expire
  <2>2. /\ owed' = FALSE /\ owed' \in BOOLEAN /\ promised' = FALSE /\ promised' \in BOOLEAN
    BY <1>11 DEF DurableReply!Expire
  <2> QED
    BY <2>1, <2>2, ReplyFrame DEF ReplyInv
<1> QED
  BY <1>1, <1>2, <1>3, <1>4, <1>5, <1>6, <1>7, <1>8, <1>9, <1>10, <1>11

(* The provider's side, at work for attempt e. *)
LEMMA ProviderSteps ==
    ASSUME ReplyInv, NEW e \in 1 .. MaxAttempts,
           \/ DurableReply!Execute(e) \/ DurableReply!Persist(e) \/ DurableReply!PersistFails(e)
           \/ DurableReply!Fit(e) \/ DurableReply!Publish(e) \/ DurableReply!Lose(e)
    PROVE  ReplyInv'
<1>0. /\ work[e] \in ReplyWork /\ work[e].frame \in ReplyFrames /\ shelf \in ReplyFrames
      /\ owed \in BOOLEAN /\ promised \in BOOLEAN
  BY DEF ReplyInv, ReplyWork
<1>1. CASE DurableReply!Execute(e)
  <2>1. PICK kind \in {"small", "large", "error"} :
           DurableReply!Gives(e, "executed", [kind |-> kind, of |-> e])
    BY <1>1 DEF DurableReply!Execute
  <2>2. [kind |-> kind, of |-> e] \in ReplyFrames /\ [kind |-> kind, of |-> e].kind = kind
    BY ReplyFrame DEF DurableReply!Kinds
  <2>3. UNCHANGED <<attempt, call, shelf, objects, owed, promised>>
    BY <1>1 DEF DurableReply!Execute
  <2> QED
    BY <2>1, <2>2, <2>3, ReplyGives DEF ReplyInv
<1>2. CASE DurableReply!Persist(e)
  <2>1. /\ DurableReply!Gives(e, "kept", work[e].frame) /\ work[e].at = "executed"
        /\ UNCHANGED <<attempt, call, objects, promised>>
    BY <1>2 DEF DurableReply!Persist
  <2>2. CASE work[e].frame.kind = "error"
    BY <1>0, <1>2, <2>1, <2>2, ReplyGives DEF ReplyInv, DurableReply!Persist
  <2>3. CASE work[e].frame.kind # "error"
    <3>1. work[e].frame.kind \in {"small", "large"}
      BY <2>1, <2>3 DEF ReplyInv
    <3>2. shelf' \in {work[e].frame} \cup ({shelf} \ {DurableReply!NoFrame})
      BY <1>2, <2>3 DEF DurableReply!Persist, DurableReply!Kept
    <3>3. shelf' \in ReplyFrames /\ shelf'.kind \in {"small", "large"}
      BY <1>0, <3>1, <3>2 DEF ReplyInv
    <3>4. owed' \in BOOLEAN
      BY <1>2, <2>3 DEF DurableReply!Persist
    <3> QED
      BY <1>0, <2>1, <3>3, <3>4, ReplyGives DEF ReplyInv
  <2> QED
    BY <2>2, <2>3
<1>3. CASE DurableReply!PersistFails(e)
  BY <1>0, <1>3, ReplyGives DEF ReplyInv, DurableReply!PersistFails
<1>4. CASE DurableReply!Fit(e)
  <2>1. objects \subseteq 1 .. MaxAttempts
    BY DEF ReplyInv
  <2>2. /\ UNCHANGED <<attempt, call, shelf, owed, promised>>
        /\ objects' \in {objects, objects \cup {e}}
    BY <1>4 DEF DurableReply!Fit
  <2>3. \A kind \in {"reference", "marker"} : [kind |-> kind, of |-> e] \in ReplyFrames
    BY ReplyFrame DEF DurableReply!Kinds
  <2>4. \E f \in ReplyFrames : DurableReply!Gives(e, "fitted", f)
    BY <1>0, <1>4, <2>3 DEF DurableReply!Fit
  <2>5. objects' \subseteq 1 .. MaxAttempts
    BY <2>1, <2>2
  <2> QED
    BY <2>2, <2>4, <2>5, ReplyGives DEF ReplyInv
<1>5. CASE DurableReply!Publish(e)
  <2>1. /\ DurableReply!Gives(e, "over", DurableReply!NoFrame) /\ call.at = "waiting"
        /\ DurableReply!Holds(work[e].frame)
        /\ UNCHANGED <<attempt, shelf, objects, owed, promised>>
    BY <1>5 DEF DurableReply!Publish
  <2>2. ~promised
    BY <2>1 DEF ReplyInv
  <2> QED
    BY <1>0, <2>1, <2>2, ReplyGives, ReplyMoves, ReplyFrame DEF ReplyInv
<1>6. CASE DurableReply!Lose(e)
  BY <1>0, <1>6, ReplyGives, ReplyFrame DEF ReplyInv, DurableReply!Lose
<1> QED
  BY <1>1, <1>2, <1>3, <1>4, <1>5, <1>6

(* The inductive invariant of a call, the shelf and the provider's work.   *)
THEOREM ReplyInvariant == DurableReply!Spec => []ReplyInv
<1>1. ReplyInv /\ [DurableReply!Next]_DurableReply!vars => ReplyInv'
  <2> SUFFICES ASSUME ReplyInv, [DurableReply!Next]_DurableReply!vars PROVE ReplyInv'
    OBVIOUS
  <2>1. CASE UNCHANGED DurableReply!vars
    BY <2>1 DEF DurableReply!vars, ReplyInv
  <2> QED
    BY <2>1, CallerSteps, ProviderSteps DEF DurableReply!Next, DurableReply!Attempts
<1> QED
  BY <1>1, ReplyInit, PTL DEF DurableReply!Spec

(* "A reply lost on the wire costs a read instead of the paid work"        *)
(* (nats.py:187), for any number of attempts: one that begins when an      *)
(* answer is kept and not taken neither asks the provider nor fails.       *)
THEOREM ServicesOwedIsHeard == ServicesSpec => []OwedIsHeard
<1>1. ReplyInv => OwedIsHeard
  BY DEF ReplyInv, OwedIsHeard, DurableReply!OwedIsHeard
<1> QED
  BY <1>1, ReplyInvariant, RunsDurableReply, PTL

-----------------------------------------------------------------------------
(* Revision sync *)

(* What is not empty and bounded has a maximum, and Max is that. *)
LEMMA LargestBelow ==
    ASSUME NEW N \in Nat, NEW S \in SUBSET (0 .. N), S # {}
    PROVE  \E m \in S : \A n \in S : n <= m
<1> DEFINE T == {N - n : n \in S}
<1>1. T \subseteq Nat /\ T # {}
  <2>1. \A n \in S : N - n \in Nat
    OBVIOUS
  <2> QED
    BY <2>1, Zenon
<1>2. \E x \in T : \A y \in T : ~(<<y, x>> \in OpToRel(<, Nat))
  <2> HIDE DEF T
  <2> QED
    BY <1>1, NatLessThanWellFounded, WFMin
<1>3. PICK x \in T : \A y \in T : ~(y < x)
  BY <1>1, <1>2 DEF OpToRel
<1>4. PICK m \in S : x = N - m
  BY <1>3
<1>5. ASSUME NEW n \in S PROVE n <= m
  <2>1. ~(N - n < N - m)
    BY <1>3, <1>4
  <2>2. n \in Nat /\ m \in Nat
    OBVIOUS
  <2> QED
    BY <2>1, <2>2
<1> QED
  BY <1>5

LEMMA RevisionMax ==
    ASSUME NEW S \in SUBSET (0 .. MaxRevision), S # {}
    PROVE  RevisionSync!Max(S) \in S /\ \A n \in S : n <= RevisionSync!Max(S)
<1>1. \E m \in S : \A n \in S : m >= n
  BY LargestBelow, ServicesAssumption
<1> QED
  BY <1>1 DEF RevisionSync!Max

LEMMA RowsCounted ==
    /\ Cardinality(Rows) \in Nat \ {0}
    /\ \A S \in SUBSET Rows : RevisionSync!Cardinality(S) \in 0 .. Cardinality(Rows)
    /\ RevisionSync!Cardinality(Rows) = Cardinality(Rows)
    /\ RevisionSync!Cardinality({}) = 0 /\ \A w : RevisionSync!Cardinality({w}) = 1
<1>1. \A S : RevisionSync!Cardinality(S) = Cardinality(S)
  BY DEF RevisionSync!Cardinality, Cardinality
<1>2. IsFiniteSet(Rows) /\ Rows # {}
  BY ServicesAssumption
<1>3. \A S \in SUBSET Rows : Cardinality(S) \in Nat /\ Cardinality(S) <= Cardinality(Rows)
  BY <1>2, FS_Subset, FS_CardinalityType
<1>4. Cardinality(Rows) # 0
  BY <1>2, FS_EmptySet
<1>5. Cardinality(Rows) \in Nat
  BY <1>3
<1>6. \A S \in SUBSET Rows : RevisionSync!Cardinality(S) \in 0 .. Cardinality(Rows)
  BY <1>1, <1>3, <1>5
<1>7. RevisionSync!Cardinality({}) = 0 /\ \A w : RevisionSync!Cardinality({w}) = 1
  BY <1>1, FS_EmptySet, FS_Singleton
<1>8. RevisionSync!Cardinality(Rows) = Cardinality(Rows)
  BY <1>1
<1> QED
  BY <1>4, <1>5, <1>6, <1>7, <1>8

SyncClients ==
    [api : {"changes", "pages"}, include_deleted : BOOLEAN,
     at : {"idle", "counting", "reading", "asking", "listing"}, initial : BOOLEAN,
     since : 0 .. MaxRevision, cursor : 0 .. MaxRevision,
     page : 1 .. Cardinality(Rows), count : 0 .. Cardinality(Rows),
     global_max : 0 .. MaxRevision]

SyncWrites == [row : Rows, revision : 0 .. MaxRevision, deleted : BOOLEAN]

(* Numbers still to be committed are above all that is, and one            *)
(* transaction at a time has any; no client knows of more than is          *)
(* committed.                                                              *)
SyncInv ==
    /\ revision \in [Rows -> 0 .. MaxRevision]
    /\ deleted \subseteq Rows
    /\ pending \in [Writers -> SUBSET SyncWrites]
    /\ locked = {} \/ \E w \in Writers : locked = {w}
    /\ have \in [Rows -> 0 .. MaxRevision]
    /\ client \in SyncClients
    /\ client.api = "changes" => client.include_deleted = TRUE /\ client.at = "idle"
    /\ client.since <= client.cursor
    /\ client.at = "listing" => client.cursor <= client.global_max
    /\ \E r \in Rows : client.cursor <= revision[r] /\ client.global_max <= revision[r]
    /\ \A w \in Writers : pending[w] # {} => locked = {w}
    /\ \A w \in Writers : \A p \in pending[w], r \in Rows : revision[r] < p.revision
    /\ client.api = "changes" => RevisionSync!Complete
    /\ \A r \in deleted :
          client.since < revision[r] /\ revision[r] <= client.cursor => have[r] = 0

LEMMA SyncTypeOK == SyncInv => RevisionSync!TypeOK
<1> SUFFICES ASSUME SyncInv PROVE RevisionSync!TypeOK
  OBVIOUS
<1>1. locked \subseteq Writers /\ RevisionSync!Cardinality(locked) <= 1
  <2>1. CASE locked = {}
    BY <2>1, RowsCounted
  <2>2. CASE \E w \in Writers : locked = {w}
    BY <2>2, RowsCounted
  <2> QED
    BY <2>1, <2>2 DEF SyncInv
<1>2. client \in SyncClients /\ client.since <= client.cursor
  BY DEF SyncInv
<1>3. /\ client.api \in {"changes", "pages"} /\ client.include_deleted \in BOOLEAN
      /\ client.at \in {"idle", "counting", "reading", "asking", "listing"}
      /\ client.initial \in BOOLEAN
      /\ {client.since, client.cursor, client.global_max} \subseteq 0 .. MaxRevision
      /\ client.page \in 1 .. Cardinality(Rows) /\ client.count \in 0 .. Cardinality(Rows)
  BY <1>2 DEF SyncClients
<1> QED
  BY <1>1, <1>2, <1>3, RowsCounted
  DEF SyncInv, RevisionSync!TypeOK, RevisionSync!Revisions, RevisionSync!Writes, SyncWrites

LEMMA SyncInit == RevisionSync!Init => SyncInv
<1> SUFFICES ASSUME RevisionSync!Init PROVE SyncInv
  OBVIOUS
<1>1. /\ 0 \in 0 .. MaxRevision /\ 1 \in 1 .. Cardinality(Rows) /\ 0 \in 0 .. Cardinality(Rows)
      /\ \E r \in Rows : TRUE
  BY ServicesAssumption, RowsCounted
<1>2. client \in SyncClients
  BY <1>1 DEF RevisionSync!Init, SyncClients
<1>3. /\ client.at = "idle" /\ client.since = 0 /\ client.cursor = 0 /\ client.global_max = 0
      /\ client.include_deleted \in BOOLEAN
      /\ client.api = "changes" => client.include_deleted
  BY DEF RevisionSync!Init
<1>4. client.api = "changes" => client.include_deleted = TRUE
  BY <1>3, Zenon
<1>5. /\ revision = [r \in Rows |-> 0] /\ deleted = {} /\ locked = {}
      /\ pending = [w \in Writers |-> {}] /\ have = [r \in Rows |-> 0]
  BY DEF RevisionSync!Init
<1>6. /\ revision \in [Rows -> 0 .. MaxRevision] /\ have \in [Rows -> 0 .. MaxRevision]
      /\ \A r \in Rows : revision[r] = 0 /\ have[r] = 0
  BY <1>1, <1>5
<1>7. RevisionSync!Complete
  BY <1>3, <1>6 DEF RevisionSync!Complete
<1> QED
  BY <1>1, <1>2, <1>3, <1>4, <1>5, <1>6, <1>7 DEF SyncInv

(* The maximum of what is committed, and of what a transaction sees. *)
LEMMA CommittedMax ==
    ASSUME SyncInv
    PROVE  /\ RevisionSync!MaxCommitted \in 0 .. MaxRevision
           /\ \A r \in Rows : revision[r] <= RevisionSync!MaxCommitted
           /\ \E r \in Rows : revision[r] = RevisionSync!MaxCommitted
           /\ \A w \in Writers :
                 /\ RevisionSync!MaxSeen(w) \in 0 .. MaxRevision
                 /\ RevisionSync!MaxCommitted <= RevisionSync!MaxSeen(w)
<1>1. {revision[r] : r \in Rows} \in SUBSET (0 .. MaxRevision) /\ {revision[r] : r \in Rows} # {}
  BY ServicesAssumption DEF SyncInv
<1>2. /\ RevisionSync!MaxCommitted \in {revision[r] : r \in Rows}
      /\ \A n \in {revision[r] : r \in Rows} : n <= RevisionSync!MaxCommitted
  BY <1>1, RevisionMax DEF RevisionSync!MaxCommitted
<1>3. /\ RevisionSync!MaxCommitted \in 0 .. MaxRevision
      /\ \A r \in Rows : revision[r] <= RevisionSync!MaxCommitted
      /\ \E r \in Rows : revision[r] = RevisionSync!MaxCommitted
  BY <1>1, <1>2
<1>4. ASSUME NEW w \in Writers
      PROVE  /\ RevisionSync!MaxSeen(w) \in 0 .. MaxRevision
             /\ RevisionSync!MaxCommitted <= RevisionSync!MaxSeen(w)
  <2> DEFINE S == {RevisionSync!MaxCommitted} \cup {p.revision : p \in pending[w]}
  <2>1. S \in SUBSET (0 .. MaxRevision) /\ S # {} /\ RevisionSync!MaxCommitted \in S
    BY <1>3 DEF SyncInv, SyncWrites
  <2>2. RevisionSync!MaxSeen(w) = RevisionSync!Max(S)
    BY DEF RevisionSync!MaxSeen
  <2> HIDE DEF S
  <2> QED
    BY <2>1, <2>2, RevisionMax
<1> QED
  BY <1>3, <1>4

(* A save, under the lock. *)
LEMMA SaveStep ==
    ASSUME SyncInv, NEW w \in Writers, NEW r \in Rows, NEW d \in BOOLEAN, RevisionSync!Save(w, r, d)
    PROVE  SyncInv'
<1> DEFINE n == RevisionSync!MaxSeen(w) + 1
           put == [row |-> r, revision |-> n, deleted |-> d]
<1>1. /\ locked \subseteq {w} /\ RevisionSync!MaxSeen(w) < MaxRevision /\ locked' = {w}
      /\ pending' = [pending EXCEPT ![w] = {p \in pending[w] : p.row # r} \cup {put}]
      /\ UNCHANGED <<revision, deleted, client, have>>
  BY DEF RevisionSync!Save, RevisionSync!Issues, SyncInv
<1>2. n \in 0 .. MaxRevision /\ \A q \in Rows : revision[q] < n
  <2>1. RevisionSync!MaxSeen(w) \in 0 .. MaxRevision /\ MaxRevision \in Nat
    BY CommittedMax, ServicesAssumption
  <2>2. ASSUME NEW q \in Rows PROVE revision[q] < n
    <3>1. /\ revision[q] \in 0 .. MaxRevision /\ revision[q] <= RevisionSync!MaxCommitted
          /\ RevisionSync!MaxCommitted \in 0 .. MaxRevision
          /\ RevisionSync!MaxCommitted <= RevisionSync!MaxSeen(w)
      BY CommittedMax DEF SyncInv
    <3> QED
      BY <2>1, <3>1
  <2> QED
    BY <1>1, <2>1, <2>2
<1>3. put \in SyncWrites /\ put.revision = n
  BY <1>2 DEF SyncWrites
<1> HIDE DEF n, put
<1>4. /\ pending' \in [Writers -> SUBSET SyncWrites]
      /\ \A p \in pending'[w] : p = put \/ p \in pending[w]
      /\ \A v \in Writers \ {w} : pending'[v] = pending[v]
  BY <1>1, <1>3 DEF SyncInv
<1>5. \A v \in Writers \ {w} : pending[v] = {}
  BY <1>1 DEF SyncInv
<1>6. \A v \in Writers : \A p \in pending'[v], q \in Rows : revision[q] < p.revision
  BY <1>2, <1>3, <1>4, <1>5 DEF SyncInv
<1>7. RevisionSync!Complete' <=> RevisionSync!Complete
  BY <1>1 DEF RevisionSync!Complete, RevisionSync!Shown
<1> QED
  BY <1>1, <1>4, <1>5, <1>6, <1>7 DEF SyncInv

(* The transaction ends: either nothing is changed, or the rows it wrote    *)
(* have numbers above all that any client was told of.                     *)
LEMMA EndSteps ==
    ASSUME SyncInv, NEW w \in Writers, RevisionSync!Commit(w) \/ RevisionSync!Rollback(w)
    PROVE  SyncInv'
<1>1. /\ pending[w] # {} /\ pending' = [pending EXCEPT ![w] = {}] /\ locked' = locked \ {w}
      /\ UNCHANGED <<client, have>>
  BY DEF RevisionSync!Commit, RevisionSync!Rollback
<1>2. locked = {w} /\ locked' = {} /\ \A v \in Writers : pending'[v] = {}
  BY <1>1 DEF SyncInv
<1>3. pending' \in [Writers -> SUBSET SyncWrites]
  BY <1>1 DEF SyncInv
<1>4. CASE RevisionSync!Rollback(w)
  <2>1. UNCHANGED <<revision, deleted>>
    BY <1>4 DEF RevisionSync!Rollback
  <2>2. RevisionSync!Complete' <=> RevisionSync!Complete
    BY <1>1, <2>1 DEF RevisionSync!Complete, RevisionSync!Shown
  <2> QED
    BY <1>1, <1>2, <1>3, <2>1, <2>2 DEF SyncInv
<1>5. CASE RevisionSync!Commit(w)
  <2>1. /\ revision' = [r \in Rows |-> RevisionSync!Max({revision[r]}
                            \cup {p.revision : p \in RevisionSync!Written(w, r)})]
        /\ deleted' = {r \in Rows : IF RevisionSync!Written(w, r) = {} THEN r \in deleted
                                    ELSE \E p \in RevisionSync!Written(w, r) : p.deleted}
    BY <1>5 DEF RevisionSync!Commit
  <2>2. ASSUME NEW r \in Rows
        PROVE  /\ revision'[r] \in 0 .. MaxRevision /\ revision[r] <= revision'[r]
               /\ RevisionSync!Written(w, r) = {} => revision'[r] = revision[r]
               /\ RevisionSync!Written(w, r) # {} =>
                      \A q \in Rows : revision[q] < revision'[r]
    <3> DEFINE S == {revision[r]} \cup {p.revision : p \in RevisionSync!Written(w, r)}
    <3>1. S \in SUBSET (0 .. MaxRevision) /\ S # {} /\ revision[r] \in S
      BY DEF SyncInv, SyncWrites, RevisionSync!Written
    <3>2. revision'[r] = RevisionSync!Max(S)
      BY <2>1
    <3>3. RevisionSync!Written(w, r) = {} => S = {revision[r]}
      OBVIOUS
    <3>4. RevisionSync!Written(w, r) # {} => \E m \in S : \A q \in Rows : revision[q] < m
      <4> SUFFICES ASSUME RevisionSync!Written(w, r) # {}
                   PROVE  \E m \in S : \A q \in Rows : revision[q] < m
        OBVIOUS
      <4>1. PICK p \in RevisionSync!Written(w, r) : p \in pending[w]
        BY DEF RevisionSync!Written
      <4>2. p.revision \in S /\ \A q \in Rows : revision[q] < p.revision
        BY <4>1 DEF SyncInv
      <4> QED
        BY <4>2
    <3>5. \A q \in Rows : revision[q] \in 0 .. MaxRevision
      BY DEF SyncInv
    <3> HIDE DEF S
    <3>6. revision'[r] \in S /\ \A m \in S : m <= revision'[r]
      BY <3>1, <3>2, RevisionMax
    <3>7. revision'[r] \in 0 .. MaxRevision /\ revision[r] <= revision'[r]
      BY <3>1, <3>6
    <3>8. RevisionSync!Written(w, r) = {} => revision'[r] = revision[r]
      BY <3>3, <3>6
    <3>9. ASSUME RevisionSync!Written(w, r) # {}, NEW q \in Rows
          PROVE  revision[q] < revision'[r]
      <4>1. PICK m \in S : revision[q] < m
        BY <3>4, <3>9
      <4>2. m <= revision'[r] /\ m \in 0 .. MaxRevision
        BY <3>1, <3>6
      <4> QED
        BY <3>5, <3>7, <4>1, <4>2, ServicesAssumption
    <3> QED
      BY <3>7, <3>8, <3>9
  <2>3. revision' \in [Rows -> 0 .. MaxRevision]
    BY <2>1, <2>2
  <2>4. client.cursor \in 0 .. MaxRevision /\ client.global_max \in 0 .. MaxRevision
    BY DEF SyncInv, SyncClients
  <2>5. \A r \in Rows : RevisionSync!Written(w, r) # {} => client.cursor < revision'[r]
    BY <2>2, <2>4 DEF SyncInv
  <2>6. \A r \in Rows : RevisionSync!Written(w, r) = {} =>
            revision'[r] = revision[r] /\ (r \in deleted' <=> r \in deleted)
    BY <2>1, <2>2
  <2>7. \A r \in Rows : revision'[r] <= client.cursor =>
            revision'[r] = revision[r] /\ (r \in deleted' <=> r \in deleted)
    BY <2>2, <2>4, <2>5, <2>6
  <2>8. \E r \in Rows : client.cursor <= revision'[r] /\ client.global_max <= revision'[r]
    <3>1. PICK r \in Rows : client.cursor <= revision[r] /\ client.global_max <= revision[r]
      BY DEF SyncInv
    <3>2. revision[r] \in 0 .. MaxRevision
      BY DEF SyncInv
    <3> QED
      BY <2>2, <2>4, <3>1, <3>2
  <2>9. client.api = "changes" => RevisionSync!Complete'
    <3> SUFFICES ASSUME client.api = "changes", NEW r \in Rows, revision'[r] \in 1 .. client.cursor
                 PROVE  have[r] = IF r \in deleted' THEN 0 ELSE revision'[r]
      BY <1>1 DEF RevisionSync!Complete, RevisionSync!Shown
    <3>1. revision'[r] = revision[r] /\ (r \in deleted' <=> r \in deleted)
      BY <2>4, <2>7
    <3> QED
      BY <3>1 DEF SyncInv, RevisionSync!Complete, RevisionSync!Shown
  <2>10. \A r \in deleted' :
            client.since < revision'[r] /\ revision'[r] <= client.cursor => have[r] = 0
    <3>1. deleted' \subseteq Rows
      BY <2>1
    <3> QED
      BY <2>7, <3>1 DEF SyncInv
  <2>11. deleted' \subseteq Rows
    BY <2>1
  <2> QED
    BY <1>1, <1>2, <1>3, <2>3, <2>8, <2>9, <2>10, <2>11 DEF SyncInv
<1> QED
  BY <1>4, <1>5

(* A step of the client alone, when it keeps what it knows. *)
LEMMA ClientStands ==
    ASSUME SyncInv, client.api = "pages", UNCHANGED <<revision, deleted, locked, pending>>,
           client' \in SyncClients, client'.api = client.api,
           client'.since <= client'.cursor,
           client'.at = "listing" => client'.cursor <= client'.global_max,
           \E r \in Rows : client'.cursor <= revision[r] /\ client'.global_max <= revision[r],
           have' \in [Rows -> 0 .. MaxRevision],
           \A r \in deleted : client'.since < revision[r] /\ revision[r] <= client'.cursor =>
               have'[r] = 0
    PROVE  SyncInv'
BY DEF SyncInv

LEMMA PageBelow ==
    ASSUME NEW n \in Nat, NEW page \in 1 .. n, NEW count \in 0 .. n, page * PageSize < count
    PROVE  page + 1 \in 1 .. n
<1>1. PageSize \in Nat \ {0}
  BY ServicesAssumption
<1>2. page * PageSize >= page
  BY <1>1
<1> QED
  BY <1>1, <1>2

LEMMA ClientSteps ==
    ASSUME SyncInv,
           \/ RevisionSync!ReadChanges \/ RevisionSync!StartSync \/ RevisionSync!CountRows
           \/ RevisionSync!ReadPage \/ RevisionSync!GlobalMax \/ RevisionSync!Respond
    PROVE  SyncInv'
<1>0. /\ client \in SyncClients /\ client.api \in {"changes", "pages"}
      /\ client.cursor \in 0 .. MaxRevision /\ client.global_max \in 0 .. MaxRevision
      /\ client.since \in 0 .. MaxRevision /\ client.since <= client.cursor
      /\ client.page \in 1 .. Cardinality(Rows) /\ client.count \in 0 .. Cardinality(Rows)
      /\ revision \in [Rows -> 0 .. MaxRevision] /\ deleted \subseteq Rows
      /\ have \in [Rows -> 0 .. MaxRevision]
      /\ 0 \in 0 .. MaxRevision /\ Cardinality(Rows) \in Nat \ {0}
  BY ServicesAssumption, RowsCounted DEF SyncInv, SyncClients
<1>1. \A S \in SUBSET Rows :
          /\ RevisionSync!Copies(S) \in [Rows -> 0 .. MaxRevision]
          /\ \A r \in Rows : RevisionSync!Copies(S)[r] =
                 IF r \in S THEN RevisionSync!Shown(r) ELSE have[r]
          /\ \A r \in S \cap deleted : RevisionSync!Copies(S)[r] = 0
  BY <1>0 DEF RevisionSync!Copies, RevisionSync!Shown
<1>2. RevisionSync!Matching \subseteq Rows
  BY DEF RevisionSync!Matching, RevisionSync!Listed
<1>3. CASE RevisionSync!ReadChanges
  <2> DEFINE S == {revision[r] : r \in RevisionSync!Matching}
             top == RevisionSync!Max(S)
  <2>1. /\ client.api = "changes" /\ RevisionSync!Matching # {}
        /\ have' = RevisionSync!Copies(RevisionSync!Matching)
        /\ client' = [client EXCEPT !.cursor = top]
        /\ UNCHANGED <<revision, deleted, locked, pending>>
    BY <1>3 DEF RevisionSync!ReadChanges
  <2>2. client.include_deleted = TRUE /\ client.at = "idle" /\ RevisionSync!Complete
    BY <2>1 DEF SyncInv
  <2>3. \A r \in Rows : r \in RevisionSync!Matching <=> revision[r] > client.cursor
    BY <2>2 DEF RevisionSync!Matching, RevisionSync!Listed
  <2>4. S \in SUBSET (0 .. MaxRevision) /\ S # {}
    BY <1>0, <1>2, <2>1
  <2>5. top \in S /\ \A n \in S : n <= top
    <3> HIDE DEF S
    <3> QED
      BY <2>4, RevisionMax
  <2>6. top \in 0 .. MaxRevision /\ client.cursor <= top /\ \E r \in Rows : revision[r] = top
    <3>1. PICK r \in RevisionSync!Matching : revision[r] = top
      BY <2>5
    <3>2. r \in Rows /\ revision[r] > client.cursor /\ revision[r] \in 0 .. MaxRevision
      BY <1>0, <1>2, <2>3, <3>1
    <3> HIDE DEF top, S
    <3> QED
      BY <1>0, <3>1, <3>2
  <2> HIDE DEF top, S
  <2>7. /\ client' \in SyncClients /\ client'.cursor = top /\ client'.api = "changes"
        /\ client'.include_deleted = TRUE /\ client'.at = "idle"
        /\ client'.since = client.since /\ client'.global_max = client.global_max
    BY <1>0, <2>1, <2>2, <2>6 DEF SyncClients
  <2>8. \E r \in Rows : top <= revision[r] /\ client.global_max <= revision[r]
    <3>1. PICK r \in Rows : client.global_max <= revision[r] /\ client.cursor <= revision[r]
      BY DEF SyncInv
    <3>2. PICK q \in Rows : revision[q] = top
      BY <2>6
    <3> QED
      BY <1>0, <2>6, <3>1, <3>2
  <2>9. RevisionSync!Complete'
    <3> SUFFICES ASSUME NEW r \in Rows, revision[r] \in 1 .. top
                 PROVE  have'[r] = IF r \in deleted THEN 0 ELSE revision[r]
      BY <2>1, <2>7 DEF RevisionSync!Complete, RevisionSync!Shown
    <3>1. CASE r \in RevisionSync!Matching
      BY <1>1, <1>2, <2>1, <3>1 DEF RevisionSync!Shown
    <3>2. CASE r \notin RevisionSync!Matching
      <4>1. revision[r] \in 1 .. client.cursor
        BY <1>0, <2>3, <3>2
      <4> QED
        BY <1>1, <1>2, <2>1, <2>2, <3>2, <4>1 DEF RevisionSync!Complete, RevisionSync!Shown
    <3> QED
      BY <3>1, <3>2
  <2>10. \A r \in deleted : client.since < revision[r] /\ revision[r] <= top => have'[r] = 0
    <3> SUFFICES ASSUME NEW r \in deleted, client.since < revision[r], revision[r] <= top
                 PROVE  have'[r] = 0
      OBVIOUS
    <3>1. CASE r \in RevisionSync!Matching
      BY <1>1, <1>2, <2>1, <3>1
    <3>2. CASE r \notin RevisionSync!Matching
      <4>1. revision[r] <= client.cursor /\ r \in Rows
        BY <1>0, <2>3, <3>2
      <4> QED
        BY <1>1, <1>2, <2>1, <3>2, <4>1 DEF SyncInv
    <3> QED
      BY <3>1, <3>2
  <2>11. client.since <= top /\ have' \in [Rows -> 0 .. MaxRevision]
    BY <1>0, <1>1, <1>2, <2>1, <2>6
  <2> QED
    BY <2>1, <2>7, <2>8, <2>9, <2>10, <2>11 DEF SyncInv
<1>4. CASE RevisionSync!StartSync
  <2>1. /\ client' \in SyncClients /\ client'.api = client.api /\ client'.at = "counting"
        /\ client'.since = client.since /\ client'.cursor = client.cursor
        /\ client'.global_max = client.global_max
    <3>1. client' = [client EXCEPT !.at = "counting", !.page = 1] /\ 1 \in 1 .. Cardinality(Rows)
      BY <1>0, <1>4 DEF RevisionSync!StartSync
    <3> QED
      BY <1>0, <3>1 DEF SyncClients
  <2> QED
    BY <1>0, <1>4, <2>1, ClientStands DEF SyncInv, RevisionSync!StartSync
<1>5. CASE RevisionSync!CountRows
  <2> DEFINE count == RevisionSync!Cardinality(RevisionSync!Matching)
             place == IF client.page > 1 /\ (client.page - 1) * PageSize >= count
                      THEN "idle" ELSE "reading"
  <2>1. count \in 0 .. Cardinality(Rows) /\ place \in {"idle", "reading"}
    BY <1>2, RowsCounted
  <2>2. /\ client.at = "counting" /\ client' = [client EXCEPT !.count = count, !.at = place]
        /\ UNCHANGED <<revision, deleted, locked, pending, have>>
    BY <1>5 DEF RevisionSync!CountRows
  <2> HIDE DEF count, place
  <2>3. /\ client' \in SyncClients /\ client'.api = client.api /\ client'.at = place
        /\ client'.since = client.since /\ client'.cursor = client.cursor
        /\ client'.global_max = client.global_max
    BY <1>0, <2>1, <2>2 DEF SyncClients
  <2> QED
    BY <1>0, <2>1, <2>2, <2>3, ClientStands DEF SyncInv
<1>6. CASE RevisionSync!ReadPage
  <2> DEFINE S == {r \in RevisionSync!Matching : RevisionSync!OnPage(r)}
  <2>1. /\ client.at = "reading" /\ have' = RevisionSync!Copies(S)
        /\ client' = [client EXCEPT !.at = "asking"]
        /\ UNCHANGED <<revision, deleted, locked, pending>>
    BY <1>6 DEF RevisionSync!ReadPage
  <2>2. S \subseteq Rows
    BY <1>2
  <2> HIDE DEF S
  <2>3. /\ client' \in SyncClients /\ client'.api = client.api /\ client'.at = "asking"
        /\ client'.since = client.since /\ client'.cursor = client.cursor
        /\ client'.global_max = client.global_max
    BY <1>0, <2>1 DEF SyncClients
  <2>4. \A r \in deleted : have'[r] \in {0, have[r]}
    BY <1>0, <1>1, <2>1, <2>2
  <2>5. have' \in [Rows -> 0 .. MaxRevision]
    BY <1>1, <2>1, <2>2
  <2> QED
    BY <1>0, <2>1, <2>3, <2>4, <2>5, ClientStands DEF SyncInv
<1>7. CASE RevisionSync!GlobalMax
  <2>1. /\ client.at = "asking"
        /\ client' = [client EXCEPT !.global_max = RevisionSync!MaxCommitted, !.at = "listing"]
        /\ UNCHANGED <<revision, deleted, locked, pending, have>>
    BY <1>7 DEF RevisionSync!GlobalMax
  <2>2. /\ client' \in SyncClients /\ client'.api = client.api /\ client'.at = "listing"
        /\ client'.since = client.since /\ client'.cursor = client.cursor
        /\ client'.global_max = RevisionSync!MaxCommitted
    BY <1>0, <2>1, CommittedMax DEF SyncClients
  <2>3. \E r \in Rows : revision[r] = RevisionSync!MaxCommitted /\ client.cursor <= revision[r]
    <3>1. PICK r \in Rows : revision[r] = RevisionSync!MaxCommitted
      BY CommittedMax
    <3>2. PICK q \in Rows : client.cursor <= revision[q]
      BY DEF SyncInv
    <3>3. revision[q] <= RevisionSync!MaxCommitted
      BY CommittedMax
    <3> QED
      BY <1>0, <3>1, <3>2, <3>3
  <2>4. \E r \in Rows : client'.cursor <= revision[r] /\ client'.global_max <= revision[r]
    BY <1>0, <2>2, <2>3
  <2> QED
    BY <1>0, <2>1, <2>2, <2>3, <2>4, ClientStands DEF SyncInv
<1>8. CASE RevisionSync!Respond
  <2>1. /\ client.at = "listing"
        /\ have' = [r \in Rows |-> IF r \in RevisionSync!deleted_ids THEN 0 ELSE have[r]]
        /\ UNCHANGED <<revision, deleted, locked, pending>>
    BY <1>8 DEF RevisionSync!Respond
  <2>2. have' \in [Rows -> 0 .. MaxRevision] /\ \A r \in Rows : have'[r] \in {0, have[r]}
    BY <1>0, <2>1
  <2>3. client.cursor <= client.global_max /\ client.api = "pages"
    BY <1>0, <2>1 DEF SyncInv
  <2>4. CASE client.page * PageSize < client.count
    <3>1. client.page + 1 \in 1 .. Cardinality(Rows)
      BY <1>0, <2>4, PageBelow
    <3>2. client' = [client EXCEPT !.at = "counting", !.page = client.page + 1]
      BY <1>0, <1>8, <2>4 DEF RevisionSync!Respond, SyncClients
    <3>3. /\ client' \in SyncClients /\ client'.api = client.api /\ client'.at = "counting"
          /\ client'.since = client.since /\ client'.cursor = client.cursor
          /\ client'.global_max = client.global_max
      BY <1>0, <3>1, <3>2 DEF SyncClients
    <3> QED
      BY <1>0, <2>1, <2>2, <2>3, <3>3, ClientStands DEF SyncInv
  <2>5. CASE ~(client.page * PageSize < client.count)
    <3> DEFINE low == IF client.initial THEN client.global_max ELSE client.cursor
    <3>1. client' = [client EXCEPT !.at = "idle", !.initial = FALSE,
                        !.cursor = client.global_max, !.since = low]
      BY <1>8, <2>5 DEF RevisionSync!Respond
    <3>2. low \in 0 .. MaxRevision /\ low <= client.global_max
      BY <1>0, <2>3
    <3>3. client.initial = TRUE => low = client.global_max
      OBVIOUS
    <3>4. client.initial = FALSE => low = client.cursor
      OBVIOUS
    <3>5. client.initial = TRUE \/ client.initial = FALSE
      BY <1>0 DEF SyncClients
    <3> HIDE DEF low
    <3>6. /\ client' \in SyncClients /\ client'.api = client.api /\ client'.at = "idle"
          /\ client'.since = low /\ client'.cursor = client.global_max
          /\ client'.global_max = client.global_max
      BY <1>0, <3>1, <3>2 DEF SyncClients
    <3>7. ASSUME NEW r \in deleted, low < revision[r], revision[r] <= client.global_max
          PROVE  have'[r] = 0
      <4>1. r \in Rows /\ revision[r] \in 0 .. MaxRevision
        BY <1>0
      <4>2. CASE client.initial = TRUE
        BY <1>0, <3>3, <3>7, <4>1, <4>2
      <4>3. CASE client.initial = FALSE
        <5>1. revision[r] > client.cursor
          BY <1>0, <3>4, <3>7, <4>1, <4>3
        <5>2. r \in RevisionSync!deleted_ids
          BY <4>3, <5>1 DEF RevisionSync!deleted_ids
        <5> QED
          BY <2>1, <4>1, <5>2
      <4> QED
        BY <3>5, <4>2, <4>3
    <3>8. \E r \in Rows : client.global_max <= revision[r]
      BY DEF SyncInv
    <3> QED
      BY <1>0, <2>1, <2>2, <2>3, <3>2, <3>6, <3>7, <3>8, ClientStands
  <2> QED
    BY <2>4, <2>5
<1> QED
  BY <1>3, <1>4, <1>5, <1>6, <1>7, <1>8

(* The inductive invariant of the table, its writers and a client. *)
THEOREM SyncInvariant == RevisionSync!Spec => []SyncInv
<1>1. SyncInv /\ [RevisionSync!Next]_RevisionSync!vars => SyncInv'
  <2> SUFFICES ASSUME SyncInv, [RevisionSync!Next]_RevisionSync!vars PROVE SyncInv'
    OBVIOUS
  <2>1. CASE UNCHANGED RevisionSync!vars
    BY <2>1 DEF RevisionSync!vars, SyncInv, RevisionSync!Complete, RevisionSync!Shown
  <2> QED
    BY <2>1, SaveStep, EndSteps, ClientSteps DEF RevisionSync!Next
<1> QED
  BY <1>1, SyncInit, PTL DEF RevisionSync!Spec

(* "Two concurrent saves can never share a number" (models.py:65), for any *)
(* number of writers, rows and saves to a transaction: who reads the       *)
(* changes in one statement has every row up to its cursor as it is.       *)
THEOREM ServicesReaderComplete == ServicesSpec => []ReaderComplete
<1>1. SyncInv => ReaderComplete
  BY DEF SyncInv, ReaderComplete, RevisionSync!ReaderComplete
<1> QED
  BY <1>1, SyncInvariant, RunsRevisionSync, PTL

(* After a sync with a min_revision the client has no copy of a row        *)
(* deleted up to the global_max it stored (models.py:48), whatever is      *)
(* committed between the four statements, on however many pages.           *)
THEOREM ServicesDeletionsHonoured == ServicesSpec => []DeletionsHonoured
<1>1. SyncInv => DeletionsHonoured
  BY DEF SyncInv, DeletionsHonoured, RevisionSync!DeletionsHonoured
<1> QED
  BY <1>1, SyncInvariant, RunsRevisionSync, PTL

-----------------------------------------------------------------------------
(* Types *)

GatewayTypes ==
    /\ GatewayInv
    /\ overdue \subseteq Calls
    /\ used \in 0 .. Limit + 1
    /\ log \subseteq Calls \X Gateway!Decisions
    /\ disturbed \subseteq Calls
    /\ faults \in 0 .. MaxFaults

LEMMA GatewayTypeOK == GatewayTypes => Gateway!TypeOK
BY DEF GatewayTypes, GatewayInv, GatewayShapes, Gateway!TypeOK

LEMMA GatewayTypesStep ==
    ASSUME GatewayTypes, [Gateway!Next]_Gateway!vars
    PROVE  /\ overdue' \subseteq Calls /\ used' \in 0 .. Limit + 1
           /\ log' \subseteq Calls \X Gateway!Decisions
           /\ disturbed' \subseteq Calls /\ faults' \in 0 .. MaxFaults
<1>0. /\ overdue \subseteq Calls /\ disturbed \subseteq Calls
      /\ log \subseteq Calls \X Gateway!Decisions
      /\ used \in 0 .. Limit + 1 /\ faults \in 0 .. MaxFaults /\ Limit \in Nat /\ MaxFaults \in Nat
      /\ \A t \in Threads :
            /\ thread[t].at # "idle" => thread[t].of \in Calls
            /\ thread[t].line \in Gateway!Decisions
  BY ServicesAssumption DEF GatewayTypes, GatewayInv, GatewayShapes
<1>1. CASE UNCHANGED <<overdue, used, log, disturbed, faults>>
  BY <1>0, <1>1
<1>2. CASE \E t \in Threads : Gateway!Check(t)
  BY <1>0, <1>2 DEF Gateway!Check
<1>3. CASE \E t \in Threads : Gateway!Tell(t)
  <2>1. PICK t \in Threads : Gateway!Tell(t)
    BY <1>3
  <2>2. <<thread[t].of, thread[t].line>> \in Calls \X Gateway!Decisions
    BY <1>0, <2>1 DEF Gateway!Tell
  <2> QED
    BY <1>0, <2>1, <2>2 DEF Gateway!Tell
<1>4. CASE \E t \in Threads : Gateway!SinkFails(t) \/ Gateway!Crash(t)
  <2>1. PICK t \in Threads : Gateway!SinkFails(t) \/ Gateway!Crash(t)
    BY <1>4
  <2>2. /\ thread[t].of \in Calls /\ Gateway!Fault(t) /\ UNCHANGED <<overdue, used, log>>
    BY <1>0, <2>1 DEF Gateway!SinkFails, Gateway!Crash
  <2> QED
    BY <1>0, <2>2 DEF Gateway!Fault
<1>5. CASE \E c \in Calls : Gateway!ExpiryPasses(c)
  BY <1>0, <1>5 DEF Gateway!ExpiryPasses
<1>6. CASE Gateway!NextWindow
  BY <1>0, <1>6 DEF Gateway!NextWindow
<1>7. ASSUME NEW t \in Threads,
             \/ \E c \in Calls : Gateway!Ask(t, c) \/ Gateway!ReadRow(t, c)
             \/ Gateway!Park(t) \/ Gateway!Run(t) \/ Gateway!Expire(t) \/ Gateway!Reject(t)
             \/ Gateway!Claim(t) \/ Gateway!Fail(t)
      PROVE  UNCHANGED <<overdue, used, log, disturbed, faults>>
  <2>1. CASE \E c \in Calls : Gateway!Ask(t, c) \/ Gateway!ReadRow(t, c)
    BY <2>1 DEF Gateway!Ask, Gateway!ReadRow
  <2>2. CASE Gateway!Park(t) \/ Gateway!Run(t) \/ Gateway!Expire(t)
    BY <2>2 DEF Gateway!Park, Gateway!Run, Gateway!Expire
  <2>3. CASE Gateway!Reject(t) \/ Gateway!Claim(t) \/ Gateway!Fail(t)
    BY <2>3 DEF Gateway!Reject, Gateway!Claim, Gateway!Fail
  <2> QED
    BY <1>7, <2>1, <2>2, <2>3
<1>8. UNCHANGED Gateway!vars => UNCHANGED <<overdue, used, log, disturbed, faults>>
  BY DEF Gateway!vars
<1> QED
  BY <1>1, <1>2, <1>3, <1>4, <1>5, <1>6, <1>7, <1>8 DEF Gateway!Next

LEMMA GatewayTyped == Gateway!Spec => []GatewayTypes
<1> DEFINE Rest == /\ overdue \subseteq Calls /\ used \in 0 .. Limit + 1
                   /\ log \subseteq Calls \X Gateway!Decisions
                   /\ disturbed \subseteq Calls /\ faults \in 0 .. MaxFaults
<1>1. Gateway!Init => Rest
  BY ServicesAssumption DEF Gateway!Init
<1>2. GatewayInv /\ Rest /\ [Gateway!Next]_Gateway!vars => Rest'
  BY GatewayTypesStep DEF GatewayTypes
<1>3. GatewayInv /\ Rest => GatewayTypes
  BY DEF GatewayTypes
<1> HIDE DEF Rest
<1> QED
  BY <1>1, <1>2, <1>3, GatewayInvariant, PTL DEF Gateway!Spec

ErasureTypes == mirror \in {"absent", "person", "erased"} /\ receipted \in BOOLEAN

LEMMA ErasureTypeOK == ErasureInv /\ ErasureTypes => Erasure!TypeOK
<1>1. {0, 1} \subseteq 0 .. Erasure!Cardinality(Answerers)
  <2>1. IsFiniteSet(Answerers) /\ Answerers # {}
    BY ServicesAssumption
  <2>2. Cardinality(Answerers) \in Nat /\ Cardinality(Answerers) # 0
    BY <2>1, FS_CardinalityType, FS_EmptySet
  <2>3. Erasure!Cardinality(Answerers) = Cardinality(Answerers)
    BY DEF Erasure!Cardinality, Cardinality
  <2> QED
    BY <2>2, <2>3
<1> QED
  BY <1>1 DEF ErasureInv, ErasureTypes, FanOut, Erasure!TypeOK

LEMMA ErasureTyped == Erasure!Spec => []ErasureTypes
<1>1. Erasure!Init => ErasureTypes
  BY DEF Erasure!Init, ErasureTypes
<1>2. ErasureTypes /\ [Erasure!Next]_Erasure!vars => ErasureTypes'
  <2> SUFFICES ASSUME ErasureTypes, [Erasure!Next]_Erasure!vars PROVE ErasureTypes'
    OBVIOUS
  <2>1. ASSUME NEW s \in Signals,
               \/ Erasure!Deliver(s) \/ Erasure!EndFanOut(s) \/ Erasure!Begin(s)
               \/ Erasure!Save(s) \/ Erasure!EmitReceipt(s) \/ Erasure!Undone(s)
               \/ Erasure!Crash(s)
        PROVE  UNCHANGED <<mirror, receipted>>
    BY <2>1 DEF Erasure!Deliver, Erasure!EndFanOut, Erasure!Begin, Erasure!Save,
       Erasure!EmitReceipt, Erasure!Undone, Erasure!Crash
  <2>2. ASSUME NEW s \in Signals, Erasure!Commit(s) PROVE ErasureTypes'
    <3>1. mirror' \in {"erased", mirror}
      BY <2>2 DEF Erasure!Commit
    <3>2. receipted' \in BOOLEAN
      BY <2>2 DEF Erasure!Commit
    <3> QED
      BY <3>1, <3>2 DEF ErasureTypes
  <2>3. CASE Erasure!ReparentOnMerge
    BY <2>3 DEF ErasureTypes, Erasure!ReparentOnMerge
  <2>4. CASE UNCHANGED <<mirror, receipted>>
    BY <2>4 DEF ErasureTypes
  <2>5. UNCHANGED Erasure!vars => UNCHANGED <<mirror, receipted>>
    BY DEF Erasure!vars
  <2> QED
    BY <2>1, <2>2, <2>3, <2>4, <2>5 DEF Erasure!Next
<1> QED
  BY <1>1, <1>2, PTL DEF Erasure!Spec

(* Every variable of the twelve components keeps its type, for every value *)
(* of the constants the assumption admits; counts and times keep to the    *)
(* bounds the code gives them (attempts below the budget, a page there is, *)
(* a tombstone no longer than tombstone_ttl()).                            *)
THEOREM ServicesTypes == ServicesSpec => []ServicesTypeOK
<1>1. ServicesSpec => []Gateway!TypeOK
  BY GatewayTyped, GatewayTypeOK, RunsGateway, PTL
<1>2. ServicesSpec => []OneTimeCode!TypeOK
  BY CodeTypesInvariant, CodeTypesTypeOK, RunsOneTimeCode, PTL
<1>3. ServicesSpec => []StepUp!TypeOK
  <2>1. StepUpInv => StepUp!TypeOK
    BY DEF StepUpInv
  <2> QED
    BY <2>1, StepUpInvariant, RunsStepUp, PTL
<1>4. ServicesSpec => []PolicyCache!TypeOK
  <2>1. PolicyInv => PolicyCache!TypeOK
    BY DEF PolicyInv
  <2> QED
    BY <2>1, PolicyInvariant, RunsPolicyCache, PTL
<1>5. ServicesSpec => []DurableReply!TypeOK
  BY ReplyInvariant, ReplyTypeOK, RunsDurableReply, PTL
<1>6. ServicesSpec => []ShadowUser!TypeOK
  <2>1. ShadowInv => ShadowUser!TypeOK
    BY DEF ShadowInv
  <2> QED
    BY <2>1, ShadowInvariant, RunsShadowUser, PTL
<1>7. ServicesSpec => []ConsumerLiveness!TypeOK
  <2>1. LoopInv => ConsumerLiveness!TypeOK
    BY DEF LoopInv
  <2> QED
    BY <2>1, LoopInvariant, RunsConsumerLiveness, PTL
<1>8. ServicesSpec => []Erasure!TypeOK
  BY ErasureInvariant, ErasureTyped, ErasureTypeOK, RunsErasure, PTL
<1>9. ServicesSpec => []RevisionSync!TypeOK
  BY SyncInvariant, SyncTypeOK, RunsRevisionSync, PTL
<1>10. ServicesSpec => []WorkspaceDoors!TypeOK
  BY DoorInvariant, DoorTypeOK, RunsWorkspaceDoors, PTL
<1>11. ServicesSpec => []NetIntel!TypeOK
  BY NetInvariant, NetTypeOK, RunsNetIntel, PTL
<1>12. ServicesSpec => []TypeOK
  BY EmitTypes, RunsEmitTransaction, PTL
<1>13. /\ TypeOK /\ RevisionSync!TypeOK /\ WorkspaceDoors!TypeOK /\ NetIntel!TypeOK
       /\ Gateway!TypeOK /\ OneTimeCode!TypeOK /\ StepUp!TypeOK /\ PolicyCache!TypeOK
       /\ DurableReply!TypeOK /\ ShadowUser!TypeOK /\ ConsumerLiveness!TypeOK /\ Erasure!TypeOK
       => ServicesTypeOK
  BY DEF ServicesTypeOK
<1> QED
  BY <1>1, <1>2, <1>3, <1>4, <1>5, <1>6, <1>7, <1>8, <1>9, <1>10, <1>11, <1>12, <1>13, PTL
=============================================================================
