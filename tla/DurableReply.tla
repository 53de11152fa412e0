----------------------------- MODULE DurableReply -----------------------------
(***************************************************************************)
(* One Function call made inside a task, over NATS request-reply, with the *)
(* overflow store both services share (comm/nats.py, comm/overflow.py and  *)
(* serve_functions.py). Each attempt of the task makes the call under the  *)
(* same reply key: it looks on the shelf, asks the provider, and looks     *)
(* again when it heard nothing. The provider keeps a finished answer on    *)
(* the shelf first, fits it to the wire - an answer too large goes into    *)
(* the store, and a reference to it is published - and publishes.          *)
(*                                                                         *)
(* Attempts run one at a time; the provider may still be working for one   *)
(* that gave up. Payloads are left out, the sizes of answers are not.      *)
(***************************************************************************)
EXTENDS Naturals

CONSTANT MaxAttempts      \* bound: attempts of the task

VARIABLES
    attempt,         \* the attempt the task is in
    call,            \* where its call is, and the frame it was given
    work,            \* the provider's work for each attempt, and its frame
    shelf,           \* the frame under the durable key
    objects,         \* attempts whose answer is in the store, for a reference
    owed,            \* an answer was put on the shelf and nobody took it
    promised         \* ... before this attempt began, with no fault since

vars == <<attempt, call, work, shelf, objects, owed, promised>>

Attempts == 1 .. MaxAttempts
Kinds    == {"none", "small", "large", "reference", "marker", "error"}
Frames   == [kind : Kinds, of : 0 .. MaxAttempts]
NoFrame  == [kind |-> "none", of |-> 0]

TypeOK ==
    /\ attempt \in 0 .. MaxAttempts
    /\ call \in [at : {"idle", "looking", "asking", "waiting", "late", "holding",
                       "heard", "finished"}, frame : Frames]
    /\ work \in [Attempts -> [at : {"none", "asked", "executed", "kept", "fitted", "over"},
                              frame : Frames]]
    /\ shelf \in Frames
    /\ objects \subseteq Attempts
    /\ owed \in BOOLEAN
    /\ promised \in BOOLEAN

Init ==
    /\ attempt = 0
    /\ call = [at |-> "idle", frame |-> NoFrame]
    /\ work = [e \in Attempts |-> [at |-> "none", frame |-> NoFrame]]
    /\ shelf = NoFrame
    /\ objects = {}
    /\ owed = FALSE
    /\ promised = FALSE

Goes(place) == call' = [call EXCEPT !.at = place]
Holds(f)    == call' = [at |-> "holding", frame |-> f]
Ends(place) == call' = [at |-> place, frame |-> NoFrame]

-----------------------------------------------------------------------------
(* nats_function_transport() *)

Begin ==
    /\ call.at = "idle"
    /\ attempt < MaxAttempts
    /\ attempt' = attempt + 1
    /\ Goes("looking")
    /\ promised' = owed
    /\ UNCHANGED <<work, shelf, objects, owed>>

(* take_durable_reply(): read, and discard as best one can. Before the     *)
(* request and after one that was not heard.                               *)
Take ==
    /\ call.at \in {"looking", "late"}
    /\ shelf # NoFrame
    /\ Holds(shelf)
    /\ shelf' \in {NoFrame, shelf}
    /\ owed' = FALSE
    /\ UNCHANGED <<attempt, work, objects, promised>>

(* Nothing there, or the store is down, which looks the same. *)
FindNothing ==
    /\ call.at \in {"looking", "late"}
    /\ IF call.at = "looking" THEN Goes("asking") ELSE Ends("idle")
    /\ promised' = (promised /\ shelf = NoFrame)
    /\ UNCHANGED <<attempt, work, shelf, objects, owed>>

Ask ==
    /\ call.at = "asking"
    /\ work' = [work EXCEPT ![attempt].at = "asked"]
    /\ Goes("waiting")
    /\ UNCHANGED <<attempt, shelf, objects, owed, promised>>

(* The request is too large and the store is down, or nobody serves the    *)
(* function: the call raises, and the shelf is not looked at again.        *)
Refused ==
    /\ call.at = "asking"
    /\ Ends("idle")
    /\ UNCHANGED <<attempt, work, shelf, objects, owed, promised>>

Timeout ==
    /\ call.at = "waiting"
    /\ Goes("late")
    /\ UNCHANGED <<attempt, work, shelf, objects, owed, promised>>

(* _decode_reply(): a reference is read from the store and consumed; one   *)
(* that cannot be read, an error or a marker raises, and the task retries. *)
Readable(f) ==
    \/ f.kind \in {"small", "large"}
    \/ f.kind = "reference" /\ f.of \in objects

Hear ==
    /\ call.at = "holding"
    /\ Readable(call.frame)
    /\ objects' \in IF call.frame.kind = "reference"
                    THEN {objects, objects \ {call.frame.of}} ELSE {objects}
    /\ Ends("heard")
    /\ UNCHANGED <<attempt, work, shelf, owed, promised>>

Raise ==
    /\ call.at = "holding"
    /\ ~Readable(call.frame)
    /\ Ends("idle")
    /\ UNCHANGED <<attempt, work, shelf, objects, owed, promised>>

(* A reference is there to be read, but the store is down. *)
ReadFails ==
    /\ call.at = "holding"
    /\ call.frame.kind = "reference"
    /\ Ends("idle")
    /\ promised' = FALSE
    /\ UNCHANGED <<attempt, work, shelf, objects, owed>>

(* The process dies, or the handler raises after the call returned: the    *)
(* task is tried again. An answer in hand is gone.                         *)
Break ==
    /\ call.at \notin {"idle", "finished"}
    /\ Ends("idle")
    /\ promised' = FALSE
    /\ UNCHANGED <<attempt, work, shelf, objects, owed>>

(* The task completes: discard_replies(), best effort. *)
Finish ==
    /\ call.at = "heard"
    /\ Ends("finished")
    /\ shelf' \in {NoFrame, shelf}
    /\ owed' = FALSE
    /\ UNCHANGED <<attempt, work, objects, promised>>

-----------------------------------------------------------------------------
(* serve_functions *)

Gives(e, place, f) == work' = [work EXCEPT ![e] = [at |-> place, frame |-> f]]

(* The function returns an answer, small or too large for one message, or  *)
(* raises; a request that cannot be decoded is answered by an error too.   *)
Execute(e) ==
    /\ work[e].at = "asked"
    /\ \E kind \in {"small", "large", "error"} : Gives(e, "executed", [kind |-> kind, of |-> e])
    /\ UNCHANGED <<attempt, call, shelf, objects, owed, promised>>

(* Mutant: what is kept is what is about to be published. *)
KeptAsSent(f) == IF f.kind = "large" THEN [f EXCEPT !.kind = "reference"] ELSE f

(* The frame that goes on the shelf is whole, whatever its size. *)
Kept(f) == f

(* persist_reply(): an error is not kept. put() may find the key taken, by *)
(* an answer to an earlier attempt, and then lands elsewhere or on top.    *)
Persist(e) ==
    /\ work[e].at = "executed"
    /\ Gives(e, "kept", work[e].frame)
    /\ IF work[e].frame.kind = "error" THEN UNCHANGED <<shelf, owed>>
       ELSE /\ shelf' \in {Kept(work[e].frame)} \cup ({shelf} \ {NoFrame})
            /\ owed' = TRUE
    /\ UNCHANGED <<attempt, call, objects, promised>>

(* The store refuses: the reply is as durable as the publish. *)
PersistFails(e) ==
    /\ work[e].at = "executed"
    /\ Gives(e, "kept", work[e].frame)
    /\ UNCHANGED <<attempt, call, shelf, objects, owed, promised>>

(* fit_reply(): by reference, or a marker when the store refuses. *)
Fit(e) ==
    /\ work[e].at = "kept"
    /\ IF work[e].frame.kind # "large"
       THEN Gives(e, "fitted", work[e].frame) /\ UNCHANGED objects
       ELSE \/ /\ Gives(e, "fitted", [kind |-> "reference", of |-> e])
               /\ objects' = objects \cup {e}
            \/ Gives(e, "fitted", [kind |-> "marker", of |-> e]) /\ UNCHANGED objects
    /\ UNCHANGED <<attempt, call, shelf, owed, promised>>

(* The reply reaches the inbox of the attempt that asked, while it waits. *)
Publish(e) ==
    /\ work[e].at = "fitted"
    /\ attempt = e /\ call.at = "waiting"
    /\ Holds(work[e].frame)
    /\ Gives(e, "over", NoFrame)
    /\ UNCHANGED <<attempt, shelf, objects, owed, promised>>

(* The request or the reply is lost, or the provider dies. *)
Lose(e) ==
    /\ work[e].at \notin {"none", "over"}
    /\ Gives(e, "over", NoFrame)
    /\ UNCHANGED <<attempt, call, shelf, objects, owed, promised>>

(* The bucket's lifecycle rule; it does not tell one object from another. *)
Expire ==
    /\ shelf # NoFrame \/ objects # {}
    /\ shelf' = NoFrame
    /\ objects' = {}
    /\ owed' = FALSE
    /\ promised' = FALSE
    /\ UNCHANGED <<attempt, call, work>>

Next ==
    \/ Begin \/ Take \/ FindNothing \/ Ask \/ Refused \/ Timeout
    \/ Hear \/ Raise \/ ReadFails \/ Break \/ Finish \/ Expire
    \/ \E e \in Attempts :
          Execute(e) \/ Persist(e) \/ PersistFails(e) \/ Fit(e) \/ Publish(e) \/ Lose(e)

Spec == Init /\ [][Next]_vars

-----------------------------------------------------------------------------
(* "A reply lost on the wire costs a read instead of the paid work"        *)
(* (nats.py:187): an attempt that begins when an answer of an earlier one  *)
(* has been kept, and not taken yet, neither asks the provider nor fails,  *)
(* unless the store fails it or it dies. Not only the order of Persist and *)
(* Fit decides this: the shelf outlives a reply that was heard, and holds  *)
(* the answer itself, since a reference can be read once.                  *)
OwedIsHeard == promised => call.at \in {"looking", "holding", "heard", "finished"}
=============================================================================
