--------------------------- MODULE TaskStoreProofs ---------------------------
(***************************************************************************)
(* Theorems about TaskStore, for any tasks, callers and workers, any set   *)
(* of tasks with deadlines, any number of attempts.                        *)
(***************************************************************************)
EXTENDS TaskStore, TLAPS

(* A worker has a task while its handler runs, and the number of a claim   *)
(* the row has counted.                                                    *)
WorkInv ==
    /\ \A w \in Workers : job[w] = NoTask <=> phase[w] = "idle"
    /\ \A w \in Workers :
          job[w] # NoTask => tries[w] >= 1 /\ tries[w] <= attempts[job[w]]
    /\ AttemptNumbersUnique

(* Only a row that was run has a backoff; a row that was never inserted    *)
(* was never run.                                                          *)
RowInv ==
    /\ \A t \in Tasks : t \in held => attempts[t] > 0
    /\ \A t \in Tasks : state[t] = "none" => attempts[t] = 0
    /\ FirstRunAnnounced
    /\ OutcomeAnnounced

(* Without a deadline nobody rewrites a row behind the worker's back: its  *)
(* copy is the row.                                                        *)
FreeInv ==
    /\ \A w \in Workers :
          job[w] # NoTask /\ job[w] \notin Deadlines =>
              state[job[w]] = "running" /\ tries[w] = attempts[job[w]]
    /\ \A t \in Tasks \ Deadlines :
          /\ attempts[t] <= MaxTries + Grace
          /\ state[t] \in {"none", "pending"} => attempts[t] < MaxTries + Grace

Inv == TypeOK /\ WorkInv /\ RowInv /\ FreeInv /\ LiveKeyUnique
-----------------------------------------------------------------------------
(* Every step keeps the types. *)
LEMMA TypeStep ==
    ASSUME TypeOK, WorkInv, [Next]_vars
    PROVE  TypeOK'
<1> USE TaskStoreAssumption DEF TypeOK, WorkInv, Live, Terminal, Phases, rowVars, eventVars, workVars, replyVars, sweepVars, vars
<1>1. ASSUME NEW c \in Callers, NEW k \in Keys \cup {NoKey}, StartSelect(c, k) PROVE TypeOK'
  BY <1>1 DEF StartSelect
<1>2. ASSUME NEW c \in Callers, NEW t \in Tasks, StartInsert(c, t) PROVE TypeOK'
  BY <1>2 DEF StartInsert, IndexAllows, LiveWith
<1>3. ASSUME NEW c \in Callers, StartRefused(c) PROVE TypeOK'
  BY <1>3 DEF StartRefused
<1>4. ASSUME NEW t \in Tasks, BackoffExpires(t) PROVE TypeOK'
  BY <1>4 DEF BackoffExpires
<1>5. ASSUME NEW t \in Tasks, DeadlinePasses(t) PROVE TypeOK'
  BY <1>5 DEF DeadlinePasses
<1>6. ASSUME NEW t \in Tasks, Decline(t) PROVE TypeOK'
  BY <1>6 DEF Decline, Claimable
<1>7. ASSUME NEW t \in Tasks, Lose(t) PROVE TypeOK'
  BY <1>7 DEF Lose
<1>8. ASSUME NEW t \in Tasks, Serve(t) PROVE TypeOK'
  BY <1>8 DEF Serve
<1>9. ASSUME NEW w \in Workers, NEW t \in Tasks, Claim(w, t) PROVE TypeOK'
  BY <1>9 DEF Claim, Claimable
<1>10. ASSUME NEW w \in Workers, CallTakesStored(w) PROVE TypeOK'
  BY <1>10 DEF CallTakesStored, NameCall
<1>11. ASSUME NEW w \in Workers, CallAsks(w) PROVE TypeOK'
  BY <1>11 DEF CallAsks, NameCall
<1>12. ASSUME NEW w \in Workers, CallUnanswered(w) PROVE TypeOK'
  BY <1>12 DEF CallUnanswered, NameCall
<1>13. ASSUME NEW w \in Workers, HearReply(w) PROVE TypeOK'
  BY <1>13 DEF HearReply
<1>14. ASSUME NEW w \in Workers, Complete(w) PROVE TypeOK'
  BY <1>14 DEF Complete, Leave
<1>15. ASSUME NEW w \in Workers, Requeue(w) PROVE TypeOK'
  BY <1>15 DEF Requeue, Leave, Stopped, MayRetry, IndexAllows, LiveWith
<1>16. ASSUME NEW w \in Workers, RequeueRefused(w) PROVE TypeOK'
  BY <1>16 DEF RequeueRefused, Leave, Stopped
<1>17. ASSUME NEW w \in Workers, Park(w) PROVE TypeOK'
  BY <1>17 DEF Park, Leave, Stopped
<1>18. ASSUME NEW w \in Workers, WorkerCrash(w) PROVE TypeOK'
  BY <1>18 DEF WorkerCrash, Leave
<1>19. ASSUME SweepReadExpired PROVE TypeOK'
  BY <1>19 DEF SweepReadExpired
<1>20. ASSUME NEW t \in Tasks, SweepRecover(t) PROVE TypeOK'
  BY <1>20 DEF SweepRecover, Recoverable, IndexAllows, LiveWith
<1>21. ASSUME NEW t \in Tasks, SweepRecoverRefused(t) PROVE TypeOK'
  BY <1>21 DEF SweepRecoverRefused
<1>22. ASSUME NEW t \in Tasks, SweepFail(t) PROVE TypeOK'
  BY <1>22 DEF SweepFail
<1>23. ASSUME NEW t \in Tasks, SweepReannounce(t) PROVE TypeOK'
  BY <1>23 DEF SweepReannounce
<1>24. ASSUME SweepReadDue PROVE TypeOK'
  BY <1>24 DEF SweepReadDue, Claimable
<1>25. ASSUME SweepEnd PROVE TypeOK'
  BY <1>25 DEF SweepEnd
<1>26. ASSUME SweepCrash PROVE TypeOK'
  BY <1>26 DEF SweepCrash
<1>27. ASSUME UNCHANGED vars PROVE TypeOK'
  BY <1>27 DEF vars
<1> QED
  BY <1>1, <1>2, <1>3, <1>4, <1>5, <1>6, <1>7, <1>8, <1>9, <1>10, <1>11, <1>12, <1>13, <1>14, <1>15, <1>16, <1>17, <1>18, <1>19, <1>20, <1>21, <1>22, <1>23, <1>24, <1>25, <1>26, <1>27 DEF Next, Start, Time, Work, Sweep

(* Every step that makes a row live asks the index. *)
LEMMA KeyStep ==
    ASSUME TypeOK, WorkInv, LiveKeyUnique, [Next]_vars
    PROVE  LiveKeyUnique'
<1> USE TaskStoreAssumption DEF TypeOK, WorkInv, LiveKeyUnique, Live, Terminal, Phases, rowVars, eventVars, workVars, replyVars, sweepVars, vars
<1>1. ASSUME NEW c \in Callers, NEW k \in Keys \cup {NoKey}, StartSelect(c, k) PROVE LiveKeyUnique'
  BY <1>1 DEF StartSelect
<1>2. ASSUME NEW c \in Callers, NEW t \in Tasks, StartInsert(c, t) PROVE LiveKeyUnique'
  BY <1>2 DEF StartInsert, IndexAllows, LiveWith
<1>3. ASSUME NEW c \in Callers, StartRefused(c) PROVE LiveKeyUnique'
  BY <1>3 DEF StartRefused
<1>4. ASSUME NEW t \in Tasks, BackoffExpires(t) PROVE LiveKeyUnique'
  BY <1>4 DEF BackoffExpires
<1>5. ASSUME NEW t \in Tasks, DeadlinePasses(t) PROVE LiveKeyUnique'
  BY <1>5 DEF DeadlinePasses
<1>6. ASSUME NEW t \in Tasks, Decline(t) PROVE LiveKeyUnique'
  BY <1>6 DEF Decline, Claimable
<1>7. ASSUME NEW t \in Tasks, Lose(t) PROVE LiveKeyUnique'
  BY <1>7 DEF Lose
<1>8. ASSUME NEW t \in Tasks, Serve(t) PROVE LiveKeyUnique'
  BY <1>8 DEF Serve
<1>9. ASSUME NEW w \in Workers, NEW t \in Tasks, Claim(w, t) PROVE LiveKeyUnique'
  BY <1>9 DEF Claim, Claimable
<1>10. ASSUME NEW w \in Workers, CallTakesStored(w) PROVE LiveKeyUnique'
  BY <1>10 DEF CallTakesStored, NameCall
<1>11. ASSUME NEW w \in Workers, CallAsks(w) PROVE LiveKeyUnique'
  BY <1>11 DEF CallAsks, NameCall
<1>12. ASSUME NEW w \in Workers, CallUnanswered(w) PROVE LiveKeyUnique'
  BY <1>12 DEF CallUnanswered, NameCall
<1>13. ASSUME NEW w \in Workers, HearReply(w) PROVE LiveKeyUnique'
  BY <1>13 DEF HearReply
<1>14. ASSUME NEW w \in Workers, Complete(w) PROVE LiveKeyUnique'
  BY <1>14 DEF Complete, Leave
<1>15. ASSUME NEW w \in Workers, Requeue(w) PROVE LiveKeyUnique'
  BY <1>15 DEF Requeue, Leave, Stopped, MayRetry, IndexAllows, LiveWith
<1>16. ASSUME NEW w \in Workers, RequeueRefused(w) PROVE LiveKeyUnique'
  BY <1>16 DEF RequeueRefused, Leave, Stopped
<1>17. ASSUME NEW w \in Workers, Park(w) PROVE LiveKeyUnique'
  BY <1>17 DEF Park, Leave, Stopped
<1>18. ASSUME NEW w \in Workers, WorkerCrash(w) PROVE LiveKeyUnique'
  BY <1>18 DEF WorkerCrash, Leave
<1>19. ASSUME SweepReadExpired PROVE LiveKeyUnique'
  BY <1>19 DEF SweepReadExpired
<1>20. ASSUME NEW t \in Tasks, SweepRecover(t) PROVE LiveKeyUnique'
  BY <1>20 DEF SweepRecover, Recoverable, IndexAllows, LiveWith
<1>21. ASSUME NEW t \in Tasks, SweepRecoverRefused(t) PROVE LiveKeyUnique'
  BY <1>21 DEF SweepRecoverRefused
<1>22. ASSUME NEW t \in Tasks, SweepFail(t) PROVE LiveKeyUnique'
  BY <1>22 DEF SweepFail
<1>23. ASSUME NEW t \in Tasks, SweepReannounce(t) PROVE LiveKeyUnique'
  BY <1>23 DEF SweepReannounce
<1>24. ASSUME SweepReadDue PROVE LiveKeyUnique'
  BY <1>24 DEF SweepReadDue, Claimable
<1>25. ASSUME SweepEnd PROVE LiveKeyUnique'
  BY <1>25 DEF SweepEnd
<1>26. ASSUME SweepCrash PROVE LiveKeyUnique'
  BY <1>26 DEF SweepCrash
<1>27. ASSUME UNCHANGED vars PROVE LiveKeyUnique'
  BY <1>27 DEF vars
<1> QED
  BY <1>1, <1>2, <1>3, <1>4, <1>5, <1>6, <1>7, <1>8, <1>9, <1>10, <1>11, <1>12, <1>13, <1>14, <1>15, <1>16, <1>17, <1>18, <1>19, <1>20, <1>21, <1>22, <1>23, <1>24, <1>25, <1>26, <1>27 DEF Next, Start, Time, Work, Sweep

(* Only a claim gives out a number, the next one. *)
LEMMA WorkStep ==
    ASSUME TypeOK, WorkInv, RowInv, [Next]_vars
    PROVE  WorkInv'
<1> USE TaskStoreAssumption DEF TypeOK, WorkInv, AttemptNumbersUnique, Live, Terminal, Phases, rowVars, eventVars, workVars, replyVars, sweepVars, vars
<1>1. ASSUME NEW c \in Callers, NEW k \in Keys \cup {NoKey}, StartSelect(c, k) PROVE WorkInv'
  BY <1>1 DEF StartSelect
<1>2. ASSUME NEW c \in Callers, NEW t \in Tasks, StartInsert(c, t) PROVE WorkInv'
  BY <1>2 DEF StartInsert, IndexAllows, LiveWith
<1>3. ASSUME NEW c \in Callers, StartRefused(c) PROVE WorkInv'
  BY <1>3 DEF StartRefused
<1>4. ASSUME NEW t \in Tasks, BackoffExpires(t) PROVE WorkInv'
  BY <1>4 DEF BackoffExpires
<1>5. ASSUME NEW t \in Tasks, DeadlinePasses(t) PROVE WorkInv'
  BY <1>5 DEF DeadlinePasses
<1>6. ASSUME NEW t \in Tasks, Decline(t) PROVE WorkInv'
  BY <1>6 DEF Decline, Claimable
<1>7. ASSUME NEW t \in Tasks, Lose(t) PROVE WorkInv'
  BY <1>7 DEF Lose
<1>8. ASSUME NEW t \in Tasks, Serve(t) PROVE WorkInv'
  BY <1>8 DEF Serve
<1>9. ASSUME NEW w \in Workers, NEW t \in Tasks, Claim(w, t) PROVE WorkInv'
  BY <1>9 DEF Claim, Claimable
<1>10. ASSUME NEW w \in Workers, CallTakesStored(w) PROVE WorkInv'
  BY <1>10 DEF CallTakesStored, NameCall
<1>11. ASSUME NEW w \in Workers, CallAsks(w) PROVE WorkInv'
  BY <1>11 DEF CallAsks, NameCall
<1>12. ASSUME NEW w \in Workers, CallUnanswered(w) PROVE WorkInv'
  BY <1>12 DEF CallUnanswered, NameCall
<1>13. ASSUME NEW w \in Workers, HearReply(w) PROVE WorkInv'
  BY <1>13 DEF HearReply
<1>14. ASSUME NEW w \in Workers, Complete(w) PROVE WorkInv'
  BY <1>14 DEF Complete, Leave
<1>15. ASSUME NEW w \in Workers, Requeue(w) PROVE WorkInv'
  BY <1>15 DEF Requeue, Leave, Stopped, MayRetry, IndexAllows, LiveWith
<1>16. ASSUME NEW w \in Workers, RequeueRefused(w) PROVE WorkInv'
  BY <1>16 DEF RequeueRefused, Leave, Stopped
<1>17. ASSUME NEW w \in Workers, Park(w) PROVE WorkInv'
  BY <1>17 DEF Park, Leave, Stopped
<1>18. ASSUME NEW w \in Workers, WorkerCrash(w) PROVE WorkInv'
  BY <1>18 DEF WorkerCrash, Leave
<1>19. ASSUME SweepReadExpired PROVE WorkInv'
  BY <1>19 DEF SweepReadExpired
<1>20. ASSUME NEW t \in Tasks, SweepRecover(t) PROVE WorkInv'
  BY <1>20 DEF SweepRecover, Recoverable, IndexAllows, LiveWith
<1>21. ASSUME NEW t \in Tasks, SweepRecoverRefused(t) PROVE WorkInv'
  BY <1>21 DEF SweepRecoverRefused
<1>22. ASSUME NEW t \in Tasks, SweepFail(t) PROVE WorkInv'
  BY <1>22 DEF SweepFail
<1>23. ASSUME NEW t \in Tasks, SweepReannounce(t) PROVE WorkInv'
  BY <1>23 DEF SweepReannounce
<1>24. ASSUME SweepReadDue PROVE WorkInv'
  BY <1>24 DEF SweepReadDue, Claimable
<1>25. ASSUME SweepEnd PROVE WorkInv'
  BY <1>25 DEF SweepEnd
<1>26. ASSUME SweepCrash PROVE WorkInv'
  BY <1>26 DEF SweepCrash
<1>27. ASSUME UNCHANGED vars PROVE WorkInv'
  BY <1>27 DEF vars
<1> QED
  BY <1>1, <1>2, <1>3, <1>4, <1>5, <1>6, <1>7, <1>8, <1>9, <1>10, <1>11, <1>12, <1>13, <1>14, <1>15, <1>16, <1>17, <1>18, <1>19, <1>20, <1>21, <1>22, <1>23, <1>24, <1>25, <1>26, <1>27 DEF Next, Start, Time, Work, Sweep

(* Every outcome is written with its event, every first attempt with its     *)
(* announcement.                                                             *)
LEMMA RowStep ==
    ASSUME TypeOK, WorkInv, RowInv, [Next]_vars
    PROVE  RowInv'
<1> USE TaskStoreAssumption DEF TypeOK, WorkInv, RowInv, FirstRunAnnounced, OutcomeAnnounced, Live, Terminal, Phases, rowVars, eventVars, workVars, replyVars, sweepVars, vars
<1>1. ASSUME NEW c \in Callers, NEW k \in Keys \cup {NoKey}, StartSelect(c, k) PROVE RowInv'
  BY <1>1 DEF StartSelect
<1>2. ASSUME NEW c \in Callers, NEW t \in Tasks, StartInsert(c, t) PROVE RowInv'
  BY <1>2 DEF StartInsert, IndexAllows, LiveWith
<1>3. ASSUME NEW c \in Callers, StartRefused(c) PROVE RowInv'
  BY <1>3 DEF StartRefused
<1>4. ASSUME NEW t \in Tasks, BackoffExpires(t) PROVE RowInv'
  BY <1>4 DEF BackoffExpires
<1>5. ASSUME NEW t \in Tasks, DeadlinePasses(t) PROVE RowInv'
  BY <1>5 DEF DeadlinePasses
<1>6. ASSUME NEW t \in Tasks, Decline(t) PROVE RowInv'
  BY <1>6 DEF Decline, Claimable
<1>7. ASSUME NEW t \in Tasks, Lose(t) PROVE RowInv'
  BY <1>7 DEF Lose
<1>8. ASSUME NEW t \in Tasks, Serve(t) PROVE RowInv'
  BY <1>8 DEF Serve
<1>9. ASSUME NEW w \in Workers, NEW t \in Tasks, Claim(w, t) PROVE RowInv'
  BY <1>9 DEF Claim, Claimable
<1>10. ASSUME NEW w \in Workers, CallTakesStored(w) PROVE RowInv'
  BY <1>10 DEF CallTakesStored, NameCall
<1>11. ASSUME NEW w \in Workers, CallAsks(w) PROVE RowInv'
  BY <1>11 DEF CallAsks, NameCall
<1>12. ASSUME NEW w \in Workers, CallUnanswered(w) PROVE RowInv'
  BY <1>12 DEF CallUnanswered, NameCall
<1>13. ASSUME NEW w \in Workers, HearReply(w) PROVE RowInv'
  BY <1>13 DEF HearReply
<1>14. ASSUME NEW w \in Workers, Complete(w) PROVE RowInv'
  BY <1>14 DEF Complete, Leave
<1>15. ASSUME NEW w \in Workers, Requeue(w) PROVE RowInv'
  BY <1>15 DEF Requeue, Leave, Stopped, MayRetry, IndexAllows, LiveWith
<1>16. ASSUME NEW w \in Workers, RequeueRefused(w) PROVE RowInv'
  BY <1>16 DEF RequeueRefused, Leave, Stopped
<1>17. ASSUME NEW w \in Workers, Park(w) PROVE RowInv'
  BY <1>17 DEF Park, Leave, Stopped
<1>18. ASSUME NEW w \in Workers, WorkerCrash(w) PROVE RowInv'
  BY <1>18 DEF WorkerCrash, Leave
<1>19. ASSUME SweepReadExpired PROVE RowInv'
  BY <1>19 DEF SweepReadExpired
<1>20. ASSUME NEW t \in Tasks, SweepRecover(t) PROVE RowInv'
  BY <1>20 DEF SweepRecover, Recoverable, IndexAllows, LiveWith
<1>21. ASSUME NEW t \in Tasks, SweepRecoverRefused(t) PROVE RowInv'
  BY <1>21 DEF SweepRecoverRefused
<1>22. ASSUME NEW t \in Tasks, SweepFail(t) PROVE RowInv'
  BY <1>22 DEF SweepFail
<1>23. ASSUME NEW t \in Tasks, SweepReannounce(t) PROVE RowInv'
  BY <1>23 DEF SweepReannounce
<1>24. ASSUME SweepReadDue PROVE RowInv'
  BY <1>24 DEF SweepReadDue, Claimable
<1>25. ASSUME SweepEnd PROVE RowInv'
  BY <1>25 DEF SweepEnd
<1>26. ASSUME SweepCrash PROVE RowInv'
  BY <1>26 DEF SweepCrash
<1>27. ASSUME UNCHANGED vars PROVE RowInv'
  BY <1>27 DEF vars
<1> QED
  BY <1>1, <1>2, <1>3, <1>4, <1>5, <1>6, <1>7, <1>8, <1>9, <1>10, <1>11, <1>12, <1>13, <1>14, <1>15, <1>16, <1>17, <1>18, <1>19, <1>20, <1>21, <1>22, <1>23, <1>24, <1>25, <1>26, <1>27 DEF Next, Start, Time, Work, Sweep

(* Without deadlines the rows and the workers' copies move together. *)
LEMMA FreeStep ==
    ASSUME TypeOK, WorkInv, RowInv, FreeInv, [Next]_vars
    PROVE  FreeInv'
<1> USE TaskStoreAssumption DEF TypeOK, WorkInv, RowInv, FreeInv, AttemptNumbersUnique, Live, Terminal, Phases, rowVars, eventVars, workVars, replyVars, sweepVars, vars
<1>1. ASSUME NEW c \in Callers, NEW k \in Keys \cup {NoKey}, StartSelect(c, k) PROVE FreeInv'
  BY <1>1 DEF StartSelect
<1>2. ASSUME NEW c \in Callers, NEW t \in Tasks, StartInsert(c, t) PROVE FreeInv'
  BY <1>2 DEF StartInsert, IndexAllows, LiveWith
<1>3. ASSUME NEW c \in Callers, StartRefused(c) PROVE FreeInv'
  BY <1>3 DEF StartRefused
<1>4. ASSUME NEW t \in Tasks, BackoffExpires(t) PROVE FreeInv'
  BY <1>4 DEF BackoffExpires
<1>5. ASSUME NEW t \in Tasks, DeadlinePasses(t) PROVE FreeInv'
  BY <1>5 DEF DeadlinePasses
<1>6. ASSUME NEW t \in Tasks, Decline(t) PROVE FreeInv'
  BY <1>6 DEF Decline, Claimable
<1>7. ASSUME NEW t \in Tasks, Lose(t) PROVE FreeInv'
  BY <1>7 DEF Lose
<1>8. ASSUME NEW t \in Tasks, Serve(t) PROVE FreeInv'
  BY <1>8 DEF Serve
<1>9. ASSUME NEW w \in Workers, NEW t \in Tasks, Claim(w, t) PROVE FreeInv'
  BY <1>9 DEF Claim, Claimable
<1>10. ASSUME NEW w \in Workers, CallTakesStored(w) PROVE FreeInv'
  BY <1>10 DEF CallTakesStored, NameCall
<1>11. ASSUME NEW w \in Workers, CallAsks(w) PROVE FreeInv'
  BY <1>11 DEF CallAsks, NameCall
<1>12. ASSUME NEW w \in Workers, CallUnanswered(w) PROVE FreeInv'
  BY <1>12 DEF CallUnanswered, NameCall
<1>13. ASSUME NEW w \in Workers, HearReply(w) PROVE FreeInv'
  BY <1>13 DEF HearReply
<1>14. ASSUME NEW w \in Workers, Complete(w) PROVE FreeInv'
  BY <1>14 DEF Complete, Leave
<1>15. ASSUME NEW w \in Workers, Requeue(w) PROVE FreeInv'
  BY <1>15 DEF Requeue, Leave, Stopped, MayRetry, IndexAllows, LiveWith
<1>16. ASSUME NEW w \in Workers, RequeueRefused(w) PROVE FreeInv'
  BY <1>16 DEF RequeueRefused, Leave, Stopped
<1>17. ASSUME NEW w \in Workers, Park(w) PROVE FreeInv'
  BY <1>17 DEF Park, Leave, Stopped
<1>18. ASSUME NEW w \in Workers, WorkerCrash(w) PROVE FreeInv'
  BY <1>18 DEF WorkerCrash, Leave
<1>19. ASSUME SweepReadExpired PROVE FreeInv'
  BY <1>19 DEF SweepReadExpired
<1>20. ASSUME NEW t \in Tasks, SweepRecover(t) PROVE FreeInv'
  BY <1>20 DEF SweepRecover, Recoverable, IndexAllows, LiveWith
<1>21. ASSUME NEW t \in Tasks, SweepRecoverRefused(t) PROVE FreeInv'
  BY <1>21 DEF SweepRecoverRefused
<1>22. ASSUME NEW t \in Tasks, SweepFail(t) PROVE FreeInv'
  BY <1>22 DEF SweepFail
<1>23. ASSUME NEW t \in Tasks, SweepReannounce(t) PROVE FreeInv'
  BY <1>23 DEF SweepReannounce
<1>24. ASSUME SweepReadDue PROVE FreeInv'
  BY <1>24 DEF SweepReadDue, Claimable
<1>25. ASSUME SweepEnd PROVE FreeInv'
  BY <1>25 DEF SweepEnd
<1>26. ASSUME SweepCrash PROVE FreeInv'
  BY <1>26 DEF SweepCrash
<1>27. ASSUME UNCHANGED vars PROVE FreeInv'
  BY <1>27 DEF vars
<1> QED
  BY <1>1, <1>2, <1>3, <1>4, <1>5, <1>6, <1>7, <1>8, <1>9, <1>10, <1>11, <1>12, <1>13, <1>14, <1>15, <1>16, <1>17, <1>18, <1>19, <1>20, <1>21, <1>22, <1>23, <1>24, <1>25, <1>26, <1>27 DEF Next, Start, Time, Work, Sweep

(* What OutcomeFinal and BackoffHonoured say of one step. *)
FinalStepOK ==
    \A t \in Tasks \ Deadlines : state[t] \in Terminal => state'[t] = state[t]

ClaimStepOK ==
    \A t \in Tasks :
        state[t] = "pending" /\ state'[t] = "running" => t \notin held

(* Only the one worker that runs a task, or a sweep of its deadline, ends it. *)
LEMMA FinalStep ==
    ASSUME TypeOK, WorkInv, RowInv, FreeInv, [Next]_vars
    PROVE  FinalStepOK
<1> USE TaskStoreAssumption DEF TypeOK, WorkInv, FreeInv, FinalStepOK, Live, Terminal, Phases, rowVars, eventVars, workVars, replyVars, sweepVars, vars
<1>1. ASSUME NEW c \in Callers, NEW k \in Keys \cup {NoKey}, StartSelect(c, k) PROVE FinalStepOK
  BY <1>1 DEF StartSelect
<1>2. ASSUME NEW c \in Callers, NEW t \in Tasks, StartInsert(c, t) PROVE FinalStepOK
  BY <1>2 DEF StartInsert, IndexAllows, LiveWith
<1>3. ASSUME NEW c \in Callers, StartRefused(c) PROVE FinalStepOK
  BY <1>3 DEF StartRefused
<1>4. ASSUME NEW t \in Tasks, BackoffExpires(t) PROVE FinalStepOK
  BY <1>4 DEF BackoffExpires
<1>5. ASSUME NEW t \in Tasks, DeadlinePasses(t) PROVE FinalStepOK
  BY <1>5 DEF DeadlinePasses
<1>6. ASSUME NEW t \in Tasks, Decline(t) PROVE FinalStepOK
  BY <1>6 DEF Decline, Claimable
<1>7. ASSUME NEW t \in Tasks, Lose(t) PROVE FinalStepOK
  BY <1>7 DEF Lose
<1>8. ASSUME NEW t \in Tasks, Serve(t) PROVE FinalStepOK
  BY <1>8 DEF Serve
<1>9. ASSUME NEW w \in Workers, NEW t \in Tasks, Claim(w, t) PROVE FinalStepOK
  BY <1>9 DEF Claim, Claimable
<1>10. ASSUME NEW w \in Workers, CallTakesStored(w) PROVE FinalStepOK
  BY <1>10 DEF CallTakesStored, NameCall
<1>11. ASSUME NEW w \in Workers, CallAsks(w) PROVE FinalStepOK
  BY <1>11 DEF CallAsks, NameCall
<1>12. ASSUME NEW w \in Workers, CallUnanswered(w) PROVE FinalStepOK
  BY <1>12 DEF CallUnanswered, NameCall
<1>13. ASSUME NEW w \in Workers, HearReply(w) PROVE FinalStepOK
  BY <1>13 DEF HearReply
<1>14. ASSUME NEW w \in Workers, Complete(w) PROVE FinalStepOK
  BY <1>14 DEF Complete, Leave
<1>15. ASSUME NEW w \in Workers, Requeue(w) PROVE FinalStepOK
  BY <1>15 DEF Requeue, Leave, Stopped, MayRetry, IndexAllows, LiveWith
<1>16. ASSUME NEW w \in Workers, RequeueRefused(w) PROVE FinalStepOK
  BY <1>16 DEF RequeueRefused, Leave, Stopped
<1>17. ASSUME NEW w \in Workers, Park(w) PROVE FinalStepOK
  BY <1>17 DEF Park, Leave, Stopped
<1>18. ASSUME NEW w \in Workers, WorkerCrash(w) PROVE FinalStepOK
  BY <1>18 DEF WorkerCrash, Leave
<1>19. ASSUME SweepReadExpired PROVE FinalStepOK
  BY <1>19 DEF SweepReadExpired
<1>20. ASSUME NEW t \in Tasks, SweepRecover(t) PROVE FinalStepOK
  BY <1>20 DEF SweepRecover, Recoverable, IndexAllows, LiveWith
<1>21. ASSUME NEW t \in Tasks, SweepRecoverRefused(t) PROVE FinalStepOK
  BY <1>21 DEF SweepRecoverRefused
<1>22. ASSUME NEW t \in Tasks, SweepFail(t) PROVE FinalStepOK
  BY <1>22 DEF SweepFail
<1>23. ASSUME NEW t \in Tasks, SweepReannounce(t) PROVE FinalStepOK
  BY <1>23 DEF SweepReannounce
<1>24. ASSUME SweepReadDue PROVE FinalStepOK
  BY <1>24 DEF SweepReadDue, Claimable
<1>25. ASSUME SweepEnd PROVE FinalStepOK
  BY <1>25 DEF SweepEnd
<1>26. ASSUME SweepCrash PROVE FinalStepOK
  BY <1>26 DEF SweepCrash
<1>27. ASSUME UNCHANGED vars PROVE FinalStepOK
  BY <1>27 DEF vars
<1> QED
  BY <1>1, <1>2, <1>3, <1>4, <1>5, <1>6, <1>7, <1>8, <1>9, <1>10, <1>11, <1>12, <1>13, <1>14, <1>15, <1>16, <1>17, <1>18, <1>19, <1>20, <1>21, <1>22, <1>23, <1>24, <1>25, <1>26, <1>27 DEF Next, Start, Time, Work, Sweep

(* Only a claim starts a task, and it looks at the backoff. *)
LEMMA ClaimStep ==
    ASSUME TypeOK, WorkInv, [Next]_vars
    PROVE  ClaimStepOK
<1> USE TaskStoreAssumption DEF TypeOK, WorkInv, ClaimStepOK, Live, Terminal, Phases, rowVars, eventVars, workVars, replyVars, sweepVars, vars
<1>1. ASSUME NEW c \in Callers, NEW k \in Keys \cup {NoKey}, StartSelect(c, k) PROVE ClaimStepOK
  BY <1>1 DEF StartSelect
<1>2. ASSUME NEW c \in Callers, NEW t \in Tasks, StartInsert(c, t) PROVE ClaimStepOK
  BY <1>2 DEF StartInsert, IndexAllows, LiveWith
<1>3. ASSUME NEW c \in Callers, StartRefused(c) PROVE ClaimStepOK
  BY <1>3 DEF StartRefused
<1>4. ASSUME NEW t \in Tasks, BackoffExpires(t) PROVE ClaimStepOK
  BY <1>4 DEF BackoffExpires
<1>5. ASSUME NEW t \in Tasks, DeadlinePasses(t) PROVE ClaimStepOK
  BY <1>5 DEF DeadlinePasses
<1>6. ASSUME NEW t \in Tasks, Decline(t) PROVE ClaimStepOK
  BY <1>6 DEF Decline, Claimable
<1>7. ASSUME NEW t \in Tasks, Lose(t) PROVE ClaimStepOK
  BY <1>7 DEF Lose
<1>8. ASSUME NEW t \in Tasks, Serve(t) PROVE ClaimStepOK
  BY <1>8 DEF Serve
<1>9. ASSUME NEW w \in Workers, NEW t \in Tasks, Claim(w, t) PROVE ClaimStepOK
  BY <1>9 DEF Claim, Claimable
<1>10. ASSUME NEW w \in Workers, CallTakesStored(w) PROVE ClaimStepOK
  BY <1>10 DEF CallTakesStored, NameCall
<1>11. ASSUME NEW w \in Workers, CallAsks(w) PROVE ClaimStepOK
  BY <1>11 DEF CallAsks, NameCall
<1>12. ASSUME NEW w \in Workers, CallUnanswered(w) PROVE ClaimStepOK
  BY <1>12 DEF CallUnanswered, NameCall
<1>13. ASSUME NEW w \in Workers, HearReply(w) PROVE ClaimStepOK
  BY <1>13 DEF HearReply
<1>14. ASSUME NEW w \in Workers, Complete(w) PROVE ClaimStepOK
  BY <1>14 DEF Complete, Leave
<1>15. ASSUME NEW w \in Workers, Requeue(w) PROVE ClaimStepOK
  BY <1>15 DEF Requeue, Leave, Stopped, MayRetry, IndexAllows, LiveWith
<1>16. ASSUME NEW w \in Workers, RequeueRefused(w) PROVE ClaimStepOK
  BY <1>16 DEF RequeueRefused, Leave, Stopped
<1>17. ASSUME NEW w \in Workers, Park(w) PROVE ClaimStepOK
  BY <1>17 DEF Park, Leave, Stopped
<1>18. ASSUME NEW w \in Workers, WorkerCrash(w) PROVE ClaimStepOK
  BY <1>18 DEF WorkerCrash, Leave
<1>19. ASSUME SweepReadExpired PROVE ClaimStepOK
  BY <1>19 DEF SweepReadExpired
<1>20. ASSUME NEW t \in Tasks, SweepRecover(t) PROVE ClaimStepOK
  BY <1>20 DEF SweepRecover, Recoverable, IndexAllows, LiveWith
<1>21. ASSUME NEW t \in Tasks, SweepRecoverRefused(t) PROVE ClaimStepOK
  BY <1>21 DEF SweepRecoverRefused
<1>22. ASSUME NEW t \in Tasks, SweepFail(t) PROVE ClaimStepOK
  BY <1>22 DEF SweepFail
<1>23. ASSUME NEW t \in Tasks, SweepReannounce(t) PROVE ClaimStepOK
  BY <1>23 DEF SweepReannounce
<1>24. ASSUME SweepReadDue PROVE ClaimStepOK
  BY <1>24 DEF SweepReadDue, Claimable
<1>25. ASSUME SweepEnd PROVE ClaimStepOK
  BY <1>25 DEF SweepEnd
<1>26. ASSUME SweepCrash PROVE ClaimStepOK
  BY <1>26 DEF SweepCrash
<1>27. ASSUME UNCHANGED vars PROVE ClaimStepOK
  BY <1>27 DEF vars
<1> QED
  BY <1>1, <1>2, <1>3, <1>4, <1>5, <1>6, <1>7, <1>8, <1>9, <1>10, <1>11, <1>12, <1>13, <1>14, <1>15, <1>16, <1>17, <1>18, <1>19, <1>20, <1>21, <1>22, <1>23, <1>24, <1>25, <1>26, <1>27 DEF Next, Start, Time, Work, Sweep

-----------------------------------------------------------------------------
(* The initial states satisfy the invariant. *)
LEMMA InitInv == Init => Inv
BY TaskStoreAssumption DEF Init, Inv, TypeOK, WorkInv, RowInv, FreeInv, LiveKeyUnique, AttemptNumbersUnique, FirstRunAnnounced, OutcomeAnnounced, Live, Terminal, Phases

(* The invariant of every behaviour. *)
THEOREM TaskStoreSafe == Spec => []Inv
<1>1. Inv /\ [Next]_vars => Inv'
  BY TypeStep, KeyStep, WorkStep, RowStep, FreeStep DEF Inv
<1> QED
  BY InitInv, <1>1, PTL DEF Spec

(* Every variable keeps its type. *)
THEOREM TaskStoreTypes == Spec => []TypeOK
<1>1. Inv => TypeOK
  BY DEF Inv
<1> QED
  BY <1>1, TaskStoreSafe, PTL

(* Two live tasks never share a dedupe key. *)
THEOREM DedupeKeysUnique == Spec => []LiveKeyUnique
<1>1. Inv => LiveKeyUnique
  BY DEF Inv
<1> QED
  BY <1>1, TaskStoreSafe, PTL

(* Two handlers running the same task hold different attempt numbers. *)
THEOREM AttemptNumbersNeverShared == Spec => []AttemptNumbersUnique
<1>1. Inv => AttemptNumbersUnique
  BY DEF Inv, WorkInv
<1> QED
  BY <1>1, TaskStoreSafe, PTL

(* A task nobody has run is announced. *)
THEOREM FirstRunsAnnounced == Spec => []FirstRunAnnounced
<1>1. Inv => FirstRunAnnounced
  BY DEF Inv, RowInv
<1> QED
  BY <1>1, TaskStoreSafe, PTL

(* The outcome a row shows was announced. *)
THEOREM OutcomesAnnounced == Spec => []OutcomeAnnounced
<1>1. Inv => OutcomeAnnounced
  BY DEF Inv, RowInv
<1> QED
  BY <1>1, TaskStoreSafe, PTL

(* A task without a deadline is run by one worker at a time. *)
THEOREM HandlersExclusive == Spec => []OneHandlerPerTask
<1>1. Inv => OneHandlerPerTask
  BY DEF Inv, TypeOK, WorkInv, FreeInv, AttemptNumbersUnique, OneHandlerPerTask
<1> QED
  BY <1>1, TaskStoreSafe, PTL

(* With no deadlines, a dedupe key has at most one handler at work. *)
THEOREM KeysExclusive == Spec => []OneHandlerPerKey
<1>1. Inv => OneHandlerPerKey
  <2> SUFFICES ASSUME Inv, Deadlines = {},
                      NEW v \in Workers, NEW w \in Workers,
                      job[v] # NoTask, job[w] # NoTask,
                      key[job[v]] = key[job[w]], key[job[v]] # NoKey
               PROVE  v = w
    BY DEF OneHandlerPerKey
  <2>1. /\ job[v] \in Tasks /\ state[job[v]] = "running" /\ tries[v] = attempts[job[v]]
        /\ job[w] \in Tasks /\ state[job[w]] = "running" /\ tries[w] = attempts[job[w]]
    BY DEF Inv, TypeOK, FreeInv
  <2>2. job[v] = job[w]
    BY <2>1 DEF Inv, LiveKeyUnique, Live
  <2> QED
    BY <2>1, <2>2 DEF Inv, WorkInv, AttemptNumbersUnique
<1> QED
  BY <1>1, TaskStoreSafe, PTL

(* Without a deadline a task is tried a bounded number of times. *)
THEOREM TriesAreBounded == Spec => []AttemptsBounded
<1>1. Inv => AttemptsBounded
  BY DEF Inv, FreeInv, AttemptsBounded
<1> QED
  BY <1>1, TaskStoreSafe, PTL

(* Without a deadline a finished task stays finished as it is. *)
THEOREM OutcomesFinal == Spec => OutcomeFinal
<1>1. Inv /\ [Next]_vars => [FinalStepOK]_state
  BY FinalStep DEF Inv
<1> QED
  BY <1>1, TaskStoreSafe, PTL DEF Spec, OutcomeFinal, FinalStepOK

(* Nobody claims a row while its backoff runs. *)
THEOREM BackoffsHonoured == Spec => BackoffHonoured
<1>1. Inv /\ [Next]_vars => [ClaimStepOK]_vars
  BY ClaimStep DEF Inv
<1> QED
  BY <1>1, TaskStoreSafe, PTL DEF Spec, BackoffHonoured, ClaimStepOK
=============================================================================
