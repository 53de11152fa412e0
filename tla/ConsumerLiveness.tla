--------------------------- MODULE ConsumerLiveness ---------------------------
(***************************************************************************)
(* bus/liveness.py in the Kafka consume loop, and bus_consumer_alive, the  *)
(* probe a supervisor runs beside it. The group may take the partitions    *)
(* away at any moment; the loop learns of it from its next poll. A loop    *)
(* without partitions for Window seconds, while the brokers answer, ends   *)
(* its process; a handler at work is never idleness, and the heartbeat     *)
(* file says so to the probe.                                              *)
(*                                                                         *)
(* Instants are modelled by their ages in seconds. check() follows         *)
(* record_poll() in the loop, so that the silence it measures is always 0  *)
(* and the rule is about the assignment.                                   *)
(***************************************************************************)
EXTENDS Naturals

CONSTANTS
    Window,          \* stall_window
    ProbeInterval,   \* _PROBE_INTERVAL
    PollTimeout,     \* longest time between two polls outside a handler
    MaxAge,          \* --max-age of the probe
    HandlerBudget,   \* STAPEL_BUS_HANDLER_BUDGET_SECONDS, 0 when unstated
    MaxRun           \* bound: seconds one message takes

VARIABLES
    loop,            \* "polling", "handling" or "exited"
    member,          \* the group's partitions are this consumer's
    assigned,        \* assignment_size > 0, as of the last poll
    unassigned,      \* age of last_assignment_at
    running,         \* seconds in the handler
    polled,          \* age of the last poll
    probed,          \* age of the last question to the brokers
    fatal,           \* fatal_error
    up,              \* seconds the brokers have answered, 0 when they do not
    beat,            \* the heartbeat file
    apart            \* seconds of polling since partitions were last seen

vars == <<loop, member, assigned, unassigned, running, polled, probed, fatal,
          up, beat, apart>>

Long      == Window + ProbeInterval + 2 * PollTimeout + MaxRun
Older(n)  == IF n < Long THEN n + 1 ELSE n
NoBeat    == [state |-> "none", age |-> 0]

TypeOK ==
    /\ loop \in {"polling", "handling", "exited"}
    /\ member \in BOOLEAN
    /\ assigned \in BOOLEAN
    /\ unassigned \in 0 .. Long
    /\ running \in 0 .. MaxRun
    /\ polled \in 0 .. PollTimeout
    /\ probed \in 0 .. ProbeInterval
    /\ fatal \in BOOLEAN
    /\ up \in 0 .. Long
    /\ beat \in [state : {"none", "poll", "handling"}, age : 0 .. Long]
    /\ apart \in 0 .. Long

(* The brokers have not been asked. *)
Init ==
    /\ loop = "polling"
    /\ member = FALSE
    /\ assigned = FALSE
    /\ unassigned = 0
    /\ running = 0
    /\ polled = 0
    /\ probed = ProbeInterval
    /\ fatal = FALSE
    /\ up \in {0, 1}
    /\ beat = NoBeat
    /\ apart = 0

-----------------------------------------------------------------------------
(* What the world does *)

Join ==
    /\ loop = "polling"
    /\ ~member
    /\ up > 0
    /\ member' = TRUE
    /\ UNCHANGED <<loop, assigned, unassigned, running, polled, probed, fatal, up, beat, apart>>

(* A session timeout, a rebalance, or a handler past max.poll.interval. *)
LoseAssignment ==
    /\ loop # "exited"
    /\ member
    /\ member' = FALSE
    /\ UNCHANGED <<loop, assigned, unassigned, running, polled, probed, fatal, up, beat, apart>>

BrokersTurn ==
    /\ loop # "exited"
    /\ up' = IF up > 0 THEN 0 ELSE 1
    /\ UNCHANGED <<loop, member, assigned, unassigned, running, polled, probed, fatal, beat, apart>>

(* on_broker_error(): a fatal error; the others are only logged. *)
OnBrokerError ==
    /\ loop # "exited"
    /\ fatal' = TRUE
    /\ UNCHANGED <<loop, member, assigned, unassigned, running, polled, probed, up, beat, apart>>

-----------------------------------------------------------------------------
(* The loop *)

(* Mutant: any poll that returns is a sign of life. *)
RecordPollAlways ==
    /\ assigned' = member
    /\ unassigned' = 0
    /\ beat' = [state |-> "poll", age |-> 0]

(* record_poll() and touch_heartbeat(), with the assignment poll() left. *)
RecordPoll ==
    /\ assigned' = member
    /\ unassigned' = IF member THEN 0 ELSE unassigned
    /\ beat' = IF member THEN [state |-> "poll", age |-> 0] ELSE beat

(* stall_reason(): the brokers are asked at most once per ProbeInterval;   *)
(* an answer that is not asked for again was a no, or this process would   *)
(* have ended with it.                                                     *)
StallReason ==
    \/ fatal
    \/ ~member /\ unassigned >= Window /\ probed = ProbeInterval /\ up > 0

(* poll() returned, and check() lets the loop go on or ends the process. *)
Poll ==
    /\ loop = "polling"
    /\ RecordPoll
    /\ polled' = 0
    /\ apart' = IF member THEN 0 ELSE apart
    /\ loop' = IF StallReason THEN "exited" ELSE loop
    /\ probed' = IF ~fatal /\ ~member /\ unassigned >= Window /\ probed = ProbeInterval
                 THEN 0 ELSE probed
    /\ UNCHANGED <<member, running, fatal, up>>

(* ... with a message: record_message(), and handling() is entered. *)
PollMessage ==
    /\ loop = "polling"
    /\ member
    /\ ~fatal
    /\ loop' = "handling"
    /\ assigned' = TRUE
    /\ unassigned' = 0
    /\ beat' = [state |-> "handling", age |-> 0]
    /\ polled' = 0
    /\ apart' = 0
    /\ UNCHANGED <<member, running, probed, fatal, up>>

(* Mutant: the time is credited to the poll only. *)
UncreditedHandled == unassigned

(* The baseline moves by the time the handler took. *)
Handled == unassigned - running

(* handling() is left: the handler returned or raised. *)
LeaveHandler ==
    /\ loop = "handling"
    /\ loop' = "polling"
    /\ unassigned' = Handled
    /\ running' = 0
    /\ beat' = IF assigned THEN [state |-> "poll", age |-> 0] ELSE beat
    /\ UNCHANGED <<member, assigned, polled, probed, fatal, up, apart>>

Tick ==
    /\ loop = "polling" => polled < PollTimeout
    /\ loop = "handling" => running < MaxRun
    /\ loop # "exited"
    /\ unassigned' = Older(unassigned)
    /\ running' = IF loop = "handling" THEN running + 1 ELSE running
    /\ polled' = IF loop = "polling" THEN polled + 1 ELSE polled
    /\ probed' = IF probed < ProbeInterval THEN probed + 1 ELSE probed
    /\ up' = IF up > 0 THEN Older(up) ELSE 0
    /\ beat' = IF beat = NoBeat THEN beat ELSE [beat EXCEPT !.age = Older(@)]
    /\ apart' = IF loop = "polling" THEN Older(apart) ELSE apart
    /\ UNCHANGED <<loop, member, assigned, fatal>>

Next ==
    \/ Join \/ LoseAssignment \/ BrokersTurn \/ OnBrokerError
    \/ Poll \/ PollMessage \/ LeaveHandler \/ Tick

Spec == Init /\ [][Next]_vars

-----------------------------------------------------------------------------
(* bus_consumer_alive *)

HandlerLimit == IF HandlerBudget > 0 THEN HandlerBudget ELSE MaxAge

BusConsumerAlive ==
    \/ beat.state = "poll" /\ beat.age <= MaxAge
    \/ beat.state = "handling" /\ beat.age <= HandlerLimit

(* "Work in progress is not a stall" (liveness.py:51): a process ends      *)
(* itself only on a fatal error, or when it has polled for a whole window  *)
(* since it last saw partitions, and the brokers answer, whatever handlers *)
(* took; and a supervisor spares a handler within its budget.              *)
WorkSpared ==
    /\ loop = "exited" => fatal \/ (apart >= Window /\ up > 0)
    /\ loop = "handling" /\ running <= HandlerLimit => BusConsumerAlive

(* "A consumer with no partitions is not alive" (liveness.py:1): once the  *)
(* window and one interval of answering brokers are over the process has   *)
(* ended itself, and the probe fails as soon as the file may be too old.   *)
StallFound ==
    /\ loop # "exited" =>
          ~(apart >= Window + PollTimeout /\ up > ProbeInterval + PollTimeout)
    /\ apart > MaxAge => ~BusConsumerAlive
===============================================================================
