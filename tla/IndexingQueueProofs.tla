------------------------ MODULE IndexingQueueProofs ------------------------
(***************************************************************************)
(* Proofs about IndexingQueue, for every value of its constants.           *)
(***************************************************************************)
EXTENDS IndexingQueue, FiniteSetTheorems, TLAPS

\* The statements on one row, typed.
LEMMA RowOperators ==
    ASSUME NEW row \in Row, NEW n \in Nat, NEW reason \in Reasons,
           NEW stage \in Stages, NEW class \in Classes
    PROVE  /\ NoRow \in Row /\ Admitted(reason) \in Row
           /\ ExhaustedRow(row) \in Row /\ Charged(row) \in Row
           /\ Interrupted(row) \in Row /\ Refunded(row) \in Row
           /\ Rewritten(row, n, stage, class) \in Row
           /\ Killed(row, n, class) \in Row /\ Requeued(row) \in Row
    BY DEF Row, Statuses, Reasons, Stages, Classes, Columns, NoRow, Admitted,
           ExhaustedRow, Charged, Interrupted, Refunded, Rewritten, Killed, Requeued

LEMMA PlainRows ==
    /\ NoRow \in Row /\ Admitted("foreground") \in Row /\ Admitted("reparse") \in Row
    /\ \A row \in Row : Interrupted(row) \in Row /\ Requeued(row) \in Row
    BY DEF Row, Statuses, Reasons, Stages, Classes, Columns, NoRow, Admitted,
           Interrupted, Requeued

LEMMA ClaimIsOfPaths == BatchRows \subseteq Paths
    BY DEF BatchRows, RunAlone, ClaimedRows, ForegroundRows, ReparseRows, Due, Leading

\* The parts of TypeOK a step of the worker disturbs.
WorkerTypes ==
    /\ jobs \in [Paths -> Row]
    /\ inFlight \in Paths \cup {NoPath}
    /\ write \in Outcome \cup {NoWrite}
    /\ faults \in [Paths -> Nat]

LEMMA SettledIsRow ==
    ASSUME TypeOK, NEW p \in Paths
    PROVE  Settled(p) \in Row
    BY RowOperators DEF TypeOK, Settled, Row, Stages, Reasons, Classes

LEMMA ChargeTypes ==
    ASSUME TypeOK, NEW p \in Paths, Charge(p)
    PROVE  jobs' \in [Paths -> Row] /\ inFlight' \in Paths \cup {NoPath}
    BY RowOperators DEF TypeOK, Charge, Reasons, Stages, Classes

LEMMA FailTypes ==
    ASSUME TypeOK, NEW p \in Paths, FailRead(p)
    PROVE  WorkerTypes'
    BY SettledIsRow DEF TypeOK, FailRead, Settling, WorkerTypes, Outcome, Blame, Row

LEMMA DeferTypes ==
    ASSUME TypeOK, NEW p \in Paths, NEW class \in {"retryable", "operator"},
           DeferRead(p, class)
    PROVE  /\ jobs' \in [Paths -> Row]
           /\ inFlight' \in Paths \cup {NoPath}
           /\ write' \in Outcome \cup {NoWrite}
    BY SettledIsRow DEF TypeOK, DeferRead, Settling, Outcome, Row

LEMMA TerminalTypes ==
    ASSUME TypeOK, NEW p \in Paths, DeadTerminal(p)
    PROVE  /\ jobs' \in [Paths -> Row]
           /\ inFlight' \in Paths \cup {NoPath}
           /\ faults' \in [Paths -> Nat]
    <1>1. Killed(Settled(p), 1, "permanent") \in Row
        BY SettledIsRow, RowOperators DEF Reasons, Stages, Classes
    <1> QED BY <1>1 DEF TypeOK, DeadTerminal, Settling, Blame

LEMMA DropTypes ==
    ASSUME TypeOK, NEW p \in Paths, Drop(p)
    PROVE  jobs' \in [Paths -> Row] /\ inFlight' \in Paths \cup {NoPath}
    BY PlainRows DEF TypeOK, Drop, Settling

LEMMA OutcomeTypes ==
    ASSUME TypeOK, OutcomeWrite
    PROVE  TypeOK'
    <1>1. write \in Outcome
        BY DEF TypeOK, OutcomeWrite
    <1>2. write.path \in Paths /\ write.attempts \in Nat
          /\ write.stage \in Stages /\ write.class \in Classes
        BY <1>1 DEF Outcome, Stages, Classes
    <1>3. jobs[write.path] \in Row
        BY <1>2 DEF TypeOK
    <1>4. /\ Killed(jobs[write.path], write.attempts, write.class) \in Row
          /\ Rewritten(jobs[write.path], write.attempts, write.stage, write.class) \in Row
        BY <1>2, <1>3, RowOperators DEF Reasons
    <1> QED BY <1>4 DEF TypeOK, OutcomeWrite, Outcome, NoWrite, index, environ, history

\* Every variable keeps its type.
THEOREM TypeCorrect == Spec => []TypeOK
<1>1. Init => TypeOK
    <2> SUFFICES ASSUME Init PROVE TypeOK
        OBVIOUS
    <2>1. seen \in [Paths -> Versions]
        BY QueueAssumption DEF Init, Versions
    <2>2. jobs \in [Paths -> Row]
        BY PlainRows DEF Init
    <2>3. chunked \in [Paths -> Versions] /\ disk \in [Paths -> Versions]
        BY <2>1, QueueAssumption DEF Init, Versions
    <2>4. ver \in Versions /\ events \in 0..MaxEvents
        BY QueueAssumption DEF Init, Versions
    <2>5. faults \in [Paths -> Nat] /\ tried \in [Paths -> BOOLEAN]
        BY DEF Init
    <2> QED BY <2>1, <2>2, <2>3, <2>4, <2>5 DEF Init, TypeOK, Places
<1>2. TypeOK /\ [Next]_vars => TypeOK'
    <2> SUFFICES ASSUME TypeOK, [Next]_vars PROVE TypeOK'
        OBVIOUS
    <2> USE QueueAssumption DEF Working, Parsing, Handled, HandOn, Goto, OpenBreaker,
            LoopDone, Isolating, Committing, durable, index, environ, history, worker
    <2>1. CASE Claim
        BY <2>1, ClaimIsOfPaths DEF TypeOK, Claim, Places
    <2>2. CASE OutcomeWrite
        BY <2>2, OutcomeTypes
    <2>3. CASE CollectBatch
        BY <2>3 DEF TypeOK, CollectBatch, Places, PausePlace
    <2>4. CASE BulkSucceeds
        BY <2>4 DEF TypeOK, BulkSucceeds, Places, PausePlace
    <2>5. CASE BulkThrottled
        BY <2>5 DEF TypeOK, BulkThrottled, Places, PausePlace
    <2>6. CASE BulkFails
        BY <2>6 DEF TypeOK, BulkFails, Places, PausePlace
    <2>7. CASE ProbeFails
        BY <2>7 DEF TypeOK, ProbeFails, Places, PausePlace
    <2>8. CASE ProbePasses
        BY <2>8 DEF TypeOK, ProbePasses, Places, PausePlace
    <2>9. CASE ReprobeFails
        BY <2>9 DEF TypeOK, ReprobeFails, Places, PausePlace
    <2>10. CASE IsolationDone
        BY <2>10 DEF TypeOK, IsolationDone, Places, PausePlace
    <2>11. CASE PauseDone
        BY <2>11 DEF TypeOK, PauseDone, Places, PausePlace
    <2>12. CASE Release
        BY <2>12 DEF TypeOK, Release, Places, PausePlace
    <2>13. CASE BatchDone
        BY <2>13 DEF TypeOK, BatchDone, Places, PausePlace
    <2>14. CASE EnterEmbed
        <3>1. jobs' \in [Paths -> Row] /\ inFlight' \in Paths \cup {NoPath}
            BY <2>14, ChargeTypes, PlainRows DEF TypeOK, EnterEmbed
        <3> QED BY <2>14, <3>1 DEF TypeOK, EnterEmbed, Places
    <2>15. ASSUME NEW p \in Paths, ParkTrashed(p) PROVE TypeOK'
        BY <2>15, DropTypes, DeferTypes DEF TypeOK, ParkTrashed, Places, WorkerTypes, Settling, PausePlace, Versions
    <2>16. ASSUME NEW p \in Paths, BeginParse(p) PROVE TypeOK'
        BY <2>16, ChargeTypes DEF TypeOK, BeginParse, Places, WorkerTypes, Settling, PausePlace, Versions
    <2>17. ASSUME NEW p \in Paths, ParseMissing(p) PROVE TypeOK'
        BY <2>17, DropTypes, DeferTypes DEF TypeOK, ParseMissing, Places, WorkerTypes, Settling, PausePlace, Versions
    <2>18. ASSUME NEW p \in Paths, ParseTerminal(p) PROVE TypeOK'
        BY <2>18, TerminalTypes DEF TypeOK, ParseTerminal, Places, WorkerTypes, Settling, PausePlace, Versions
    <2>19. ASSUME NEW p \in Paths, ParseFails(p) PROVE TypeOK'
        BY <2>19, FailTypes DEF TypeOK, ParseFails, Places, WorkerTypes, Settling, PausePlace, Versions
    <2>20. ASSUME NEW p \in Paths, ParseNotPermitted(p) PROVE TypeOK'
        BY <2>20, DeferTypes DEF TypeOK, ParseNotPermitted, Places, WorkerTypes, Settling, PausePlace, Versions
    <2>21. ASSUME NEW p \in Paths, UpsertThread(p) PROVE TypeOK'
        BY <2>21 DEF TypeOK, UpsertThread, Places, WorkerTypes, Settling, PausePlace, Versions
    <2>22. ASSUME NEW p \in Paths, EndParse(p) PROVE TypeOK'
        BY <2>22, SettledIsRow DEF TypeOK, EndParse, Places, WorkerTypes, Settling, PausePlace, Versions
    <2>23. ASSUME NEW p \in Paths, BeginCollect(p) PROVE TypeOK'
        BY <2>23, ChargeTypes DEF TypeOK, BeginCollect, Places, WorkerTypes, Settling, PausePlace, Versions
    <2>24. ASSUME NEW p \in Paths, EndCollect(p) PROVE TypeOK'
        BY <2>24, SettledIsRow DEF TypeOK, EndCollect, Places, WorkerTypes, Settling, PausePlace, Versions
    <2>25. ASSUME NEW p \in Paths, CollectFails(p) PROVE TypeOK'
        BY <2>25, FailTypes DEF TypeOK, CollectFails, Places, WorkerTypes, Settling, PausePlace, Versions
    <2>26. ASSUME NEW p \in Paths, EmbedAlone(p) PROVE TypeOK'
        BY <2>26 DEF TypeOK, EmbedAlone, Places, WorkerTypes, Settling, PausePlace, Versions
    <2>27. ASSUME NEW p \in Paths, EmbedRejected(p) PROVE TypeOK'
        BY <2>27, TerminalTypes DEF TypeOK, EmbedRejected, Places, WorkerTypes, Settling, PausePlace, Versions
    <2>28. ASSUME NEW p \in Paths, EmbedUnavailable(p) PROVE TypeOK'
        BY <2>28 DEF TypeOK, EmbedUnavailable, Places, WorkerTypes, Settling, PausePlace, Versions
    <2>29. ASSUME NEW p \in Paths, EmbedUncertain(p) PROVE TypeOK'
        BY <2>29 DEF TypeOK, EmbedUncertain, Places, WorkerTypes, Settling, PausePlace, Versions
    <2>30. ASSUME NEW p \in Paths, ReprobePasses(p) PROVE TypeOK'
        BY <2>30, FailTypes DEF TypeOK, ReprobePasses, Places, WorkerTypes, Settling, PausePlace, Versions
    <2>31. ASSUME NEW p \in Paths, DeferPaused(p) PROVE TypeOK'
        BY <2>31, DeferTypes DEF TypeOK, DeferPaused, Places, WorkerTypes, Settling, PausePlace, Versions
    <2>32. ASSUME NEW p \in Paths, CommitVectors(p) PROVE TypeOK'
        BY <2>32 DEF TypeOK, CommitVectors, Places, WorkerTypes, Settling, PausePlace, Versions
    <2>33. ASSUME NEW p \in Paths, CommitPart(p) PROVE TypeOK'
        <3>1. Settled(p) \in Row /\ Settled(p).attempts \in Nat
            BY SettledIsRow DEF Row
        <3>2. Rewritten(Settled(p), Settled(p).attempts, "extract", "retryable") \in Row
            BY <3>1, RowOperators DEF Reasons, Stages, Classes
        <3> QED BY <2>33, <3>2 DEF TypeOK, CommitPart
    <2>34. ASSUME NEW p \in Paths, CommitFails(p) PROVE TypeOK'
        BY <2>34, FailTypes DEF TypeOK, CommitFails, Places, WorkerTypes, Settling, PausePlace, Versions
    <2>35. ASSUME NEW p \in Paths, MarkSucceeded(p) PROVE TypeOK'
        BY <2>35, DropTypes DEF TypeOK, MarkSucceeded, Places, WorkerTypes, Settling, PausePlace, Versions
    <2>36. ASSUME NEW p \in Paths, Die(p) PROVE TypeOK'
        <3>1. faults' \in [Paths -> Nat]
            BY <2>36 DEF TypeOK, Die, Stop
        <3>2. ver' \in Versions /\ events' \in 0..MaxEvents
            BY <2>36 DEF TypeOK, Die, Stop, Versions
        <3>3. UNCHANGED <<jobs, seen, chunked, disk, embedder, tried>>
            BY <2>36 DEF Die, Stop
        <3>4. /\ pc' = "down" /\ todo' = {} /\ passed' = {} /\ resume' = {}
              /\ inFlight' = NoPath /\ stored' = NoPath /\ write' = NoWrite
              /\ paused' = FALSE /\ turn' = FALSE /\ event' = {}
            BY <2>36 DEF Die, Stop
        <3> QED BY <3>1, <3>2, <3>3, <3>4 DEF TypeOK, Places
    <2>37. CASE Crash
        <3>1. faults' \in [Paths -> Nat]
            BY <2>37 DEF TypeOK, Crash, Stop
        <3>2. ver' \in Versions /\ events' \in 0..MaxEvents
            BY <2>37 DEF TypeOK, Crash, Stop, Versions, Happens
        <3>3. UNCHANGED <<jobs, seen, chunked, disk, embedder, tried>>
            BY <2>37 DEF Crash, Stop
        <3>4. /\ pc' = "down" /\ todo' = {} /\ passed' = {} /\ resume' = {}
              /\ inFlight' = NoPath /\ stored' = NoPath /\ write' = NoWrite
              /\ paused' = FALSE /\ turn' = FALSE /\ event' = {}
            BY <2>37 DEF Crash, Stop
        <3> QED BY <3>1, <3>2, <3>3, <3>4 DEF TypeOK, Places
    <2>38. CASE EmbedderBreaks
        BY <2>38 DEF TypeOK, EmbedderBreaks, Happens
    <2>39. CASE EmbedderRecovers
        BY <2>39 DEF TypeOK, EmbedderRecovers
    <2>40. CASE RequeueDead
        BY <2>40, PlainRows DEF TypeOK, RequeueDead, Happens
    <2>41. CASE Reparse
        BY <2>41, PlainRows DEF TypeOK, Reparse, Happens
    <2>42. CASE Start
        BY <2>42 DEF TypeOK, Start, Places
    <2>43. CASE BreakerElapses
        BY <2>43 DEF TypeOK, BreakerElapses
    <2>44. ASSUME NEW p \in Paths, Deliver(p) PROVE TypeOK'
        BY <2>44 DEF TypeOK, Deliver, Happens, Versions
    <2>45. ASSUME NEW p \in Paths, Vanish(p) PROVE TypeOK'
        BY <2>45 DEF TypeOK, Vanish, Happens, Versions
    <2>46. ASSUME NEW p \in Paths, WalkQueues(p) PROVE TypeOK'
        BY <2>46, PlainRows DEF TypeOK, WalkQueues
    <2>47. ASSUME NEW p \in Paths, Reap(p) PROVE TypeOK'
        BY <2>47, PlainRows DEF TypeOK, Reap, Versions
    <2>48. ASSUME NEW p \in Paths, BackoffElapses(p) PROVE TypeOK'
        BY <2>48 DEF TypeOK, BackoffElapses
    <2>49. ASSUME NEW p \in Paths, WatcherEnqueues(p) PROVE TypeOK'
        <3>1. jobs' \in [Paths -> Row] /\ tried' \in [Paths -> BOOLEAN]
            <4>1. CASE UNCHANGED <<jobs, tried>>
                BY <4>1 DEF TypeOK
            <4>2. CASE /\ jobs' = [jobs EXCEPT ![p] = Admitted("foreground")]
                       /\ tried' = [tried EXCEPT ![p] = FALSE]
                BY <4>2, PlainRows DEF TypeOK
            <4> QED BY <2>49, <4>1, <4>2 DEF WatcherEnqueues
        <3>2. event' \subseteq Paths
            BY <2>49 DEF TypeOK, WatcherEnqueues
        <3> QED BY <2>49, <3>1, <3>2 DEF TypeOK, WatcherEnqueues
    <2>50. CASE UNCHANGED vars
        BY <2>50 DEF TypeOK, vars
    <2> QED BY <2>1, <2>2, <2>3, <2>4, <2>5, <2>6, <2>7, <2>8, <2>9, <2>10, <2>11, <2>12, <2>13, <2>14, <2>15, <2>16, <2>17, <2>18, <2>19, <2>20, <2>21, <2>22, <2>23, <2>24, <2>25, <2>26, <2>27, <2>28, <2>29, <2>30, <2>31, <2>32, <2>33, <2>34, <2>35, <2>36, <2>37, <2>38, <2>39, <2>40, <2>41, <2>42, <2>43, <2>44, <2>45, <2>46, <2>47, <2>48, <2>49, <2>50
           DEF Next, Drain, Environment
<1> QED BY <1>1, <1>2, PTL DEF Spec
----------------------------------------------------------------------------
(***************************************************************************)
(* Where the rows of a batch are.  Nobody else buries or deletes a row the *)
(* worker holds, so each is queued until the worker writes its outcome.    *)
(***************************************************************************)

AtEmbed == {"embed", "probe", "isolate", "reprobe", "pause", "pause_operator"}

HeldInv ==
    /\ \A p \in todo \cup passed : Queued(p)
    /\ todo \cap passed = {}
    /\ write # NoWrite =>
         /\ Queued(write.path) /\ write.path \notin todo \cup passed
         /\ inFlight = NoPath /\ stored = NoPath
    /\ stored # NoPath => /\ stored \in todo /\ pc \in {"phase1", "reprobe", "commit"}
                          /\ pc = "phase1" => inFlight = stored
    /\ inFlight # NoPath => Queued(inFlight)
    /\ inFlight # NoPath /\ pc \in {"phase1", "phase2a"} => inFlight \in todo
    /\ inFlight # NoPath /\ pc \in AtEmbed => todo \cup passed = {inFlight}
    /\ inFlight # NoPath /\ pc = "commit" =>
         /\ todo \subseteq {inFlight}
         /\ inFlight \in todo \/ jobs[inFlight].stage # "interrupted"
    /\ pc \in {"embed", "probe", "commit"} => passed = {}
    /\ pc \in {"idle", "down"} =>
         /\ todo = {} /\ passed = {} /\ inFlight = NoPath /\ write = NoWrite

LEMMA ClaimIsQueued == \A p \in BatchRows : Queued(p)
    BY DEF BatchRows, RunAlone, ClaimedRows, ForegroundRows, ReparseRows, Due, Leading

\* What is left of the queued rows when one of them changes.
StillQueued(S) == \A q \in S : Queued(q) => Queued(q)'

LEMMA SettledStaysQueued ==
    ASSUME TypeOK, NEW p \in Paths, jobs' = [jobs EXCEPT ![p] = Settled(p)]
    PROVE  StillQueued(Paths)
    BY DEF TypeOK, StillQueued, Queued, Settled, Refunded, Columns

LEMMA ChargeHeld ==
    ASSUME TypeOK, NEW p \in Paths, Queued(p), Charge(p)
    PROVE  /\ StillQueued(Paths \ {p})
           /\ Exhausted(jobs[p], MaxAttempts) => inFlight' = inFlight
           /\ ~Exhausted(jobs[p], MaxAttempts) => inFlight' = p /\ Queued(p)'
    <1>1. CASE Exhausted(jobs[p], MaxAttempts)
        BY <1>1 DEF TypeOK, Charge, StillQueued, Queued
    <1>2. CASE ~Exhausted(jobs[p], MaxAttempts)
        <2>1. jobs' = [jobs EXCEPT ![p] = Charged(jobs[p])] /\ inFlight' = p
            BY <1>2 DEF Charge
        <2>2. jobs'[p].status = "queued"
            BY <2>1 DEF TypeOK, Charged, Columns, Queued
        <2> QED BY <1>2, <2>1, <2>2 DEF TypeOK, StillQueued, Queued
    <1> QED BY <1>1, <1>2

\* mark_failed and defer settle the message they name and write its path.
LEMMA FailHeld ==
    ASSUME TypeOK, NEW p \in Paths, FailRead(p), inFlight \in {p, NoPath}
    PROVE  /\ StillQueued(Paths) /\ inFlight' = NoPath
           /\ write' # NoWrite => write'.path = p
    BY SettledStaysQueued DEF FailRead, Settling

LEMMA DeferHeld ==
    ASSUME TypeOK, NEW p \in Paths, NEW class, DeferRead(p, class),
           inFlight \in {p, NoPath}
    PROVE  /\ StillQueued(Paths) /\ inFlight' = NoPath
           /\ write' # NoWrite => write'.path = p
    BY SettledStaysQueued DEF DeferRead, Settling

LEMMA OthersHeld ==
    ASSUME TypeOK, NEW p \in Paths, Drop(p) \/ DeadTerminal(p), inFlight \in {p, NoPath}
    PROVE  StillQueued(Paths \ {p}) /\ inFlight' = NoPath
    BY DEF TypeOK, Drop, DeadTerminal, Settling, StillQueued, Queued

\* The inductive invariant behind HeldRowsAreQueued.
THEOREM HeldInvariant == Spec => []HeldInv
<1>1. Init => HeldInv
    BY DEF Init, HeldInv, Queued, AtEmbed, NoWrite
<1>2. TypeOK /\ HeldInv /\ [Next]_vars => HeldInv'
    <2> SUFFICES ASSUME TypeOK, HeldInv, [Next]_vars PROVE HeldInv'
        OBVIOUS
    <2> USE QueueAssumption DEF Working, Parsing, Handled, HandOn, Goto, OpenBreaker,
            LoopDone, Isolating, Committing, durable, index, environ, history, worker
    <2>1. CASE Claim
        BY <2>1, ClaimIsOfPaths, ClaimIsQueued DEF TypeOK, HeldInv, AtEmbed, Queued, Claim, Idle
    <2>2. CASE OutcomeWrite
        BY <2>2 DEF TypeOK, HeldInv, AtEmbed, Queued, OutcomeWrite, Killed, Rewritten, Columns, NoWrite, Outcome
    <2>3. CASE CollectBatch
        BY <2>3 DEF TypeOK, HeldInv, AtEmbed, Queued, CollectBatch, PausePlace
    <2>4. CASE BulkSucceeds
        BY <2>4 DEF TypeOK, HeldInv, AtEmbed, Queued, BulkSucceeds, PausePlace
    <2>5. CASE BulkThrottled
        BY <2>5 DEF TypeOK, HeldInv, AtEmbed, Queued, BulkThrottled, PausePlace
    <2>6. CASE BulkFails
        BY <2>6 DEF TypeOK, HeldInv, AtEmbed, Queued, BulkFails, PausePlace
    <2>7. CASE ProbeFails
        BY <2>7 DEF TypeOK, HeldInv, AtEmbed, Queued, ProbeFails, PausePlace
    <2>8. CASE ProbePasses
        BY <2>8 DEF TypeOK, HeldInv, AtEmbed, Queued, ProbePasses, PausePlace
    <2>9. CASE ReprobeFails
        BY <2>9 DEF TypeOK, HeldInv, AtEmbed, Queued, ReprobeFails, PausePlace
    <2>10. CASE IsolationDone
        BY <2>10 DEF TypeOK, HeldInv, AtEmbed, Queued, IsolationDone, PausePlace
    <2>11. CASE PauseDone
        BY <2>11 DEF TypeOK, HeldInv, AtEmbed, Queued, PauseDone, PausePlace
    <2>12. CASE Release
        BY <2>12 DEF TypeOK, HeldInv, AtEmbed, Queued, Release, PausePlace
    <2>13. CASE BatchDone
        BY <2>13 DEF TypeOK, HeldInv, AtEmbed, Queued, BatchDone, PausePlace
    <2>14. CASE EnterEmbed
        BY <2>14, ChargeHeld DEF TypeOK, HeldInv, AtEmbed, Queued, EnterEmbed, StillQueued, Interrupted, Columns
    <2>15. ASSUME NEW p \in Paths, ParkTrashed(p) PROVE HeldInv'
        <3>1. /\ StillQueued(Paths \ {p}) /\ inFlight' = NoPath
              /\ write' # NoWrite => write'.path = p /\ Queued(p)'
            <4>1. CASE seen[p] = 0
                BY <2>15, <4>1, OthersHeld DEF TypeOK, ParkTrashed
            <4>2. CASE seen[p] # 0
                BY <2>15, <4>2, DeferHeld DEF TypeOK, HeldInv, ParkTrashed, StillQueued
            <4> QED BY <4>1, <4>2
        <3> QED BY <2>15, <3>1 DEF TypeOK, HeldInv, AtEmbed, ParkTrashed, StillQueued
    <2>16. ASSUME NEW p \in Paths, BeginParse(p) PROVE HeldInv'
        <3>1. Queued(p) /\ p \in todo /\ Charge(p) /\ UNCHANGED <<pc, passed, stored, write>>
            BY <2>16 DEF HeldInv, BeginParse
        <3>2. StillQueued(Paths \ {p})
            BY <3>1, ChargeHeld
        <3>3. CASE Exhausted(jobs[p], MaxAttempts)
            <4>1. todo' = todo \ {p} /\ inFlight' = NoPath
                BY <2>16, <3>1, <3>3, ChargeHeld DEF BeginParse
            <4> QED BY <2>16, <3>1, <3>2, <4>1 DEF TypeOK, HeldInv, AtEmbed, BeginParse, StillQueued
        <3>4. CASE ~Exhausted(jobs[p], MaxAttempts)
            <4>1. todo' = todo /\ inFlight' = p /\ Queued(p)'
                BY <2>16, <3>1, <3>4, ChargeHeld DEF BeginParse
            <4> QED BY <2>16, <3>1, <3>2, <4>1 DEF TypeOK, HeldInv, AtEmbed, BeginParse, StillQueued
        <3> QED BY <3>3, <3>4
    <2>17. ASSUME NEW p \in Paths, ParseMissing(p) PROVE HeldInv'
        BY <2>17, OthersHeld, DeferHeld DEF TypeOK, HeldInv, AtEmbed, Queued, ParseMissing, StillQueued
    <2>18. ASSUME NEW p \in Paths, ParseTerminal(p) PROVE HeldInv'
        BY <2>18, OthersHeld DEF TypeOK, HeldInv, AtEmbed, Queued, ParseTerminal, StillQueued
    <2>19. ASSUME NEW p \in Paths, ParseFails(p) PROVE HeldInv'
        BY <2>19, FailHeld DEF TypeOK, HeldInv, AtEmbed, Queued, ParseFails, StillQueued
    <2>20. ASSUME NEW p \in Paths, ParseNotPermitted(p) PROVE HeldInv'
        BY <2>20, DeferHeld DEF TypeOK, HeldInv, AtEmbed, Queued, ParseNotPermitted, StillQueued
    <2>21. ASSUME NEW p \in Paths, UpsertThread(p) PROVE HeldInv'
        BY <2>21 DEF TypeOK, HeldInv, AtEmbed, Queued, UpsertThread, StillQueued
    <2>22. ASSUME NEW p \in Paths, EndParse(p) PROVE HeldInv'
        BY <2>22, SettledStaysQueued DEF TypeOK, HeldInv, AtEmbed, Queued, EndParse, StillQueued, Settling
    <2>23. ASSUME NEW p \in Paths, BeginCollect(p) PROVE HeldInv'
        BY <2>23, ChargeHeld DEF TypeOK, HeldInv, AtEmbed, Queued, BeginCollect, StillQueued
    <2>24. ASSUME NEW p \in Paths, EndCollect(p) PROVE HeldInv'
        BY <2>24, SettledStaysQueued DEF TypeOK, HeldInv, AtEmbed, Queued, EndCollect, StillQueued, Settling
    <2>25. ASSUME NEW p \in Paths, CollectFails(p) PROVE HeldInv'
        BY <2>25, FailHeld DEF TypeOK, HeldInv, AtEmbed, Queued, CollectFails, StillQueued
    <2>26. ASSUME NEW p \in Paths, EmbedAlone(p) PROVE HeldInv'
        BY <2>26 DEF TypeOK, HeldInv, AtEmbed, Queued, EmbedAlone, StillQueued
    <2>27. ASSUME NEW p \in Paths, EmbedRejected(p) PROVE HeldInv'
        BY <2>27, OthersHeld DEF TypeOK, HeldInv, AtEmbed, Queued, EmbedRejected, StillQueued
    <2>28. ASSUME NEW p \in Paths, EmbedUnavailable(p) PROVE HeldInv'
        BY <2>28 DEF TypeOK, HeldInv, AtEmbed, Queued, EmbedUnavailable, PausePlace
    <2>29. ASSUME NEW p \in Paths, EmbedUncertain(p) PROVE HeldInv'
        BY <2>29 DEF TypeOK, HeldInv, AtEmbed, Queued, EmbedUncertain, StillQueued
    <2>30. ASSUME NEW p \in Paths, ReprobePasses(p) PROVE HeldInv'
        BY <2>30, FailHeld DEF TypeOK, HeldInv, AtEmbed, Queued, ReprobePasses, StillQueued
    <2>31. ASSUME NEW p \in Paths, DeferPaused(p) PROVE HeldInv'
        BY <2>31, DeferHeld DEF TypeOK, HeldInv, AtEmbed, Queued, DeferPaused, StillQueued
    <2>32. ASSUME NEW p \in Paths, CommitVectors(p) PROVE HeldInv'
        BY <2>32 DEF TypeOK, HeldInv, AtEmbed, Queued, CommitVectors, StillQueued
    <2>33. ASSUME NEW p \in Paths, CommitPart(p) PROVE HeldInv'
        BY <2>33 DEF TypeOK, HeldInv, AtEmbed, Queued, CommitPart, Rewritten, Settled, Refunded, Columns
    <2>34. ASSUME NEW p \in Paths, CommitFails(p) PROVE HeldInv'
        BY <2>34, FailHeld DEF TypeOK, HeldInv, AtEmbed, Queued, CommitFails, StillQueued
    <2>35. ASSUME NEW p \in Paths, MarkSucceeded(p) PROVE HeldInv'
        BY <2>35, OthersHeld DEF TypeOK, HeldInv, AtEmbed, Queued, MarkSucceeded, StillQueued
    <2>36. ASSUME NEW p \in Paths, Die(p) PROVE HeldInv'
        BY <2>36 DEF TypeOK, HeldInv, AtEmbed, Queued, Die, Stop, NoWrite
    <2>37. CASE Crash
        BY <2>37 DEF TypeOK, HeldInv, AtEmbed, Queued, Crash, Stop, NoWrite
    <2>38. CASE EmbedderBreaks
        BY <2>38 DEF TypeOK, HeldInv, AtEmbed, Queued, EmbedderBreaks
    <2>39. CASE EmbedderRecovers
        BY <2>39 DEF TypeOK, HeldInv, AtEmbed, Queued, EmbedderRecovers
    <2>40. CASE Start
        BY <2>40 DEF TypeOK, HeldInv, AtEmbed, Queued, Start
    <2>41. CASE BreakerElapses
        BY <2>41 DEF TypeOK, HeldInv, AtEmbed, Queued, BreakerElapses
    <2>42. CASE RequeueDead
        <3>1. \A q \in Paths : Queued(q) => jobs'[q] = jobs[q]
            BY <2>42 DEF Queued, RequeueDead
        <3>2. UNCHANGED worker
            BY <2>42 DEF RequeueDead
        <3> QED BY <3>1, <3>2 DEF TypeOK, HeldInv, AtEmbed, Queued, Outcome
    <2>43. CASE Reparse
        <3>1. \A q \in Paths : Queued(q) => jobs'[q] = jobs[q]
            BY <2>43 DEF Queued, Reparse, NoRow, Columns
        <3>2. UNCHANGED worker
            BY <2>43 DEF Reparse
        <3> QED BY <3>1, <3>2 DEF TypeOK, HeldInv, AtEmbed, Queued, Outcome
    <2>44. ASSUME NEW p \in Paths, Deliver(p) PROVE HeldInv'
        BY <2>44 DEF TypeOK, HeldInv, AtEmbed, Queued, Deliver
    <2>45. ASSUME NEW p \in Paths, Vanish(p) PROVE HeldInv'
        BY <2>45 DEF TypeOK, HeldInv, AtEmbed, Queued, Vanish
    <2>46. ASSUME NEW p \in Paths, BackoffElapses(p) PROVE HeldInv'
        BY <2>46 DEF TypeOK, HeldInv, AtEmbed, Queued, BackoffElapses
    <2>47. ASSUME NEW p \in Paths, WalkQueues(p) PROVE HeldInv'
        BY <2>47 DEF TypeOK, HeldInv, AtEmbed, Queued, WalkQueues, Admitted, NoRow, Columns
    <2>48. ASSUME NEW p \in Paths, Reap(p) PROVE HeldInv'
        BY <2>48 DEF TypeOK, HeldInv, AtEmbed, Queued, Reap, Idle
    <2>49. ASSUME NEW p \in Paths, WatcherEnqueues(p) PROVE HeldInv'
        <3>1. CASE UNCHANGED jobs
            BY <2>49, <3>1 DEF HeldInv, AtEmbed, Queued, WatcherEnqueues
        <3>2. CASE jobs' = [jobs EXCEPT ![p] = Admitted("foreground")]
            <4>1. StillQueued(Paths) /\ jobs'[p].stage # "interrupted"
                  /\ \A q \in Paths : q # p => jobs'[q] = jobs[q]
                BY <3>2 DEF TypeOK, StillQueued, Queued, Admitted, Columns
            <4>2. UNCHANGED worker
                BY <2>49 DEF WatcherEnqueues
            <4> QED BY <4>1, <4>2 DEF TypeOK, HeldInv, AtEmbed, StillQueued, Outcome
        <3> QED BY <2>49, <3>1, <3>2 DEF WatcherEnqueues
    <2>50. CASE UNCHANGED vars
        BY <2>50 DEF HeldInv, AtEmbed, Queued, vars
    <2> QED
        BY <2>1, <2>2, <2>3, <2>4, <2>5, <2>6, <2>7, <2>8, <2>9, <2>10,
           <2>11, <2>12, <2>13, <2>14, <2>15, <2>16, <2>17, <2>18,
           <2>19, <2>20, <2>21, <2>22, <2>23, <2>24, <2>25, <2>26,
           <2>27, <2>28, <2>29, <2>30, <2>31, <2>32, <2>33, <2>34,
           <2>35, <2>36, <2>37, <2>38, <2>39, <2>40, <2>41, <2>42,
           <2>43, <2>44, <2>45, <2>46, <2>47, <2>48, <2>49, <2>50
           DEF Next, Drain, Environment
<1> QED BY TypeCorrect, <1>1, <1>2, PTL DEF Spec

\* HeldRowsAreQueued: the row of every message the worker holds is queued.
THEOREM HeldRows == Spec => []HeldRowsAreQueued
<1>1. TypeOK /\ HeldInv => HeldRowsAreQueued
    BY DEF TypeOK, HeldInv, HeldRowsAreQueued, NoWrite, Outcome
<1> QED BY TypeCorrect, HeldInvariant, <1>1, PTL

----------------------------------------------------------------------------
(***************************************************************************)
(* NoFalseBlame and DeadIsEarned.  Neither is inductive: a refund must find *)
(* the charge it undoes still marked on the row, and the outcome read by    *)
(* mark_failed or defer must still be true of the path when it is written.  *)
(***************************************************************************)

\* A charge is open in the row only while the mark is on it.
Charges(p) == IF inFlight = p /\ jobs[p].stage = "interrupted" THEN 1 ELSE 0

MarkedBlame == \A p \in Paths : jobs[p].attempts <= faults[p] + Charges(p)

WriteIsEarned ==
    write # NoWrite =>
        /\ write.attempts <= faults[write.path]
        /\ write.status = "dead" => /\ write.attempts >= MaxAttempts
                                    /\ write.class = "retryable"

EarnedInv == MarkedBlame /\ DeadIsEarned /\ WriteIsEarned

\* A step that leaves alone what EarnedInv speaks of.
LEMMA EarnedStutter ==
    ASSUME EarnedInv, UNCHANGED <<jobs, faults, inFlight, write>>
    PROVE  EarnedInv'
    BY DEF EarnedInv, MarkedBlame, Charges, DeadIsEarned, WriteIsEarned

\* A refund never takes more than the charge: what is left is earned.
LEMMA SettledIsEarned ==
    ASSUME TypeOK, EarnedInv, NEW p \in Paths
    PROVE  /\ Settled(p) \in Row
           /\ Settled(p).attempts <= faults[p]
           /\ Settled(p).status = jobs[p].status
           /\ Settled(p).class = jobs[p].class
    <1>1. Settled(p) \in Row
        BY SettledIsRow
    <1>2. jobs[p] \in Row /\ faults[p] \in Nat
        BY DEF TypeOK
    <1>3. jobs[p].attempts <= faults[p] + Charges(p)
        BY DEF EarnedInv, MarkedBlame
    <1>4. jobs[p].attempts \in Nat
        BY <1>2 DEF Row
    <1>5. CASE inFlight = p /\ jobs[p].stage = "interrupted" /\ jobs[p].attempts > 0
        BY <1>1, <1>2, <1>3, <1>4, <1>5 DEF Settled, Refunded, Columns, Charges
    <1>6. CASE ~(inFlight = p /\ jobs[p].stage = "interrupted" /\ jobs[p].attempts > 0)
        <2>1. Settled(p) = jobs[p]
            BY <1>6 DEF Settled, Refunded
        <2> QED BY <1>1, <1>2, <1>3, <1>4, <1>6, <2>1 DEF Charges
    <1> QED BY <1>5, <1>6

\* One row changes to one that is earned; the others keep their charges.
LEMMA OneRow ==
    ASSUME TypeOK, EarnedInv, NEW p \in Paths, NEW row \in Row,
           jobs' = [jobs EXCEPT ![p] = row],
           faults' \in [Paths -> Nat], \A q \in Paths : faults'[q] >= faults[q],
           \A q \in Paths : q # p /\ inFlight = q => inFlight' = q,
           row.attempts <= faults'[p]
               + (IF inFlight' = p /\ row.stage = "interrupted" THEN 1 ELSE 0),
           row.status = "dead" =>
               \/ row.class = "retryable" /\ faults'[p] >= MaxAttempts
               \/ row.class = "permanent" /\ p \in Terminal \cup Rejected
    PROVE  MarkedBlame' /\ DeadIsEarned'
    <1>1. \A q \in Paths : q # p => jobs'[q] = jobs[q]
        BY DEF TypeOK
    <1>2. jobs'[p] = row
        BY DEF TypeOK
    <1>3. \A q \in Paths : /\ faults[q] \in Nat /\ faults'[q] \in Nat
                            /\ jobs[q].attempts \in Nat
        BY DEF TypeOK, Row
    <1>4. ASSUME NEW q \in Paths
          PROVE  jobs'[q].attempts <= faults'[q] + Charges(q)'
        <2>1. CASE q = p
            BY <2>1, <1>2 DEF Charges
        <2>2. CASE q # p
            <3>1. jobs[q].attempts <= faults[q] + Charges(q)
                BY DEF EarnedInv, MarkedBlame
            <3>2. Charges(q) \in 0..1 /\ Charges(q)' \in 0..1 /\ Charges(q) <= Charges(q)'
                BY <2>2, <1>1 DEF Charges
            <3> QED BY <3>1, <3>2, <2>2, <1>1, <1>3
        <2> QED BY <2>1, <2>2
    <1>5. ASSUME NEW q \in Paths, jobs'[q].status = "dead"
          PROVE  \/ jobs'[q].class = "retryable" /\ faults'[q] >= MaxAttempts
                 \/ jobs'[q].class = "permanent" /\ q \in Terminal \cup Rejected
        <2>1. CASE q = p
            BY <2>1, <1>2, <1>5
        <2>2. CASE q # p
            BY <2>2, <1>1, <1>3, <1>5, QueueAssumption DEF EarnedInv, DeadIsEarned
        <2> QED BY <2>1, <2>2
    <1> QED BY <1>4, <1>5 DEF MarkedBlame, DeadIsEarned

LEMMA ChargeEarned ==
    ASSUME TypeOK, EarnedInv, NEW p \in Paths, Charge(p), inFlight = NoPath,
           UNCHANGED <<faults, write>>
    PROVE  EarnedInv'
    <1>1. jobs[p] \in Row /\ jobs[p].attempts \in Nat /\ faults[p] \in Nat
        BY DEF TypeOK, Row
    <1>2. jobs[p].attempts <= faults[p]
        BY <1>1, QueueAssumption DEF EarnedInv, MarkedBlame, Charges
    <1>3. faults' \in [Paths -> Nat] /\ \A q \in Paths : faults'[q] >= faults[q]
        BY DEF TypeOK
    <1>4. \A q \in Paths : inFlight # q
        BY QueueAssumption
    <1>5. CASE Exhausted(jobs[p], MaxAttempts)
        <2>1. ExhaustedRow(jobs[p]) \in Row
            BY <1>1, RowOperators DEF Reasons, Stages, Classes
        <2>2. jobs' = [jobs EXCEPT ![p] = ExhaustedRow(jobs[p])]
            BY <1>5 DEF Charge
        <2>3. /\ ExhaustedRow(jobs[p]).attempts = jobs[p].attempts
              /\ ExhaustedRow(jobs[p]).class = "retryable"
            BY DEF ExhaustedRow, Columns
        <2>4. faults[p] >= MaxAttempts
            BY <1>1, <1>2, <1>5, QueueAssumption DEF Exhausted
        <2>5. ExhaustedRow(jobs[p]).attempts <=
                faults'[p] + (IF inFlight' = p /\ ExhaustedRow(jobs[p]).stage = "interrupted"
                              THEN 1 ELSE 0)
            BY <1>1, <1>2, <2>3
        <2>6. MarkedBlame' /\ DeadIsEarned'
            BY <1>3, <1>4, <2>1, <2>2, <2>3, <2>4, <2>5, OneRow
        <2> QED BY <2>6 DEF EarnedInv, WriteIsEarned
    <1>6. CASE ~Exhausted(jobs[p], MaxAttempts)
        <2>1. Charged(jobs[p]) \in Row
            BY <1>1, RowOperators DEF Reasons, Stages, Classes
        <2>2. jobs' = [jobs EXCEPT ![p] = Charged(jobs[p])] /\ inFlight' = p
            BY <1>6 DEF Charge
        <2>3. Charged(jobs[p]).attempts <=
                faults'[p] + (IF inFlight' = p /\ Charged(jobs[p]).stage = "interrupted"
                              THEN 1 ELSE 0)
            BY <1>1, <1>2, <2>2 DEF Charged, Columns
        <2>4. Charged(jobs[p]).status = "dead" =>
                \/ Charged(jobs[p]).class = "retryable" /\ faults'[p] >= MaxAttempts
                \/ Charged(jobs[p]).class = "permanent" /\ p \in Terminal \cup Rejected
            BY DEF Charged, Columns, EarnedInv, DeadIsEarned
        <2>5. MarkedBlame' /\ DeadIsEarned'
            BY <1>3, <1>4, <2>1, <2>2, <2>3, <2>4, OneRow
        <2> QED BY <2>5 DEF EarnedInv, WriteIsEarned
    <1> QED BY <1>5, <1>6

\* Settling alone: end_attempt.
LEMMA SettleEarned ==
    ASSUME TypeOK, EarnedInv, NEW p \in Paths,
           jobs' = [jobs EXCEPT ![p] = Settled(p)], Settling(p),
           faults' \in [Paths -> Nat], \A q \in Paths : faults'[q] >= faults[q]
    PROVE  MarkedBlame' /\ DeadIsEarned'
    <1>1. /\ Settled(p) \in Row /\ Settled(p).attempts \in Nat
          /\ Settled(p).attempts <= faults[p]
          /\ Settled(p).status = jobs[p].status /\ Settled(p).class = jobs[p].class
        BY SettledIsEarned DEF Row
    <1>2. \A q \in Paths : q # p /\ inFlight = q => inFlight' = q
        BY DEF Settling
    <1>3. faults[p] \in Nat /\ faults'[p] \in Nat /\ faults'[p] >= faults[p]
        BY DEF TypeOK
    <1>4. Settled(p).attempts <= faults'[p]
            + (IF inFlight' = p /\ Settled(p).stage = "interrupted" THEN 1 ELSE 0)
        BY <1>1, <1>3
    <1>5. Settled(p).status = "dead" =>
             \/ Settled(p).class = "retryable" /\ faults'[p] >= MaxAttempts
             \/ Settled(p).class = "permanent" /\ p \in Terminal \cup Rejected
        <2>1. jobs[p].status = "dead" =>
                \/ jobs[p].class = "retryable" /\ faults[p] >= MaxAttempts
                \/ jobs[p].class = "permanent" /\ p \in Terminal \cup Rejected
            BY DEF EarnedInv, DeadIsEarned
        <2>2. faults[p] >= MaxAttempts => faults'[p] >= MaxAttempts
            BY <1>3, QueueAssumption
        <2> QED BY <1>1, <2>1, <2>2
    <1> QED BY <1>1, <1>2, <1>4, <1>5, OneRow

LEMMA FailEarned ==
    ASSUME TypeOK, EarnedInv, NEW p \in Paths, FailRead(p)
    PROVE  EarnedInv'
    <1>1. /\ faults' \in [Paths -> Nat] /\ \A q \in Paths : faults'[q] >= faults[q]
          /\ faults'[p] = faults[p] + 1 /\ faults[p] \in Nat
        BY DEF TypeOK, FailRead, Blame
    <1>2. MarkedBlame' /\ DeadIsEarned'
        BY <1>1, SettleEarned DEF FailRead
    <1>3. Settled(p).attempts \in Nat /\ Settled(p).attempts <= faults[p]
        BY SettledIsEarned DEF Row
    <1>4. WriteIsEarned'
        BY <1>1, <1>3 DEF FailRead, WriteIsEarned
    <1> QED BY <1>2, <1>4 DEF EarnedInv

LEMMA DeferEarned ==
    ASSUME TypeOK, EarnedInv, NEW p \in Paths, NEW class, DeferRead(p, class),
           UNCHANGED faults
    PROVE  EarnedInv'
    <1>1. faults' \in [Paths -> Nat] /\ \A q \in Paths : faults'[q] >= faults[q]
        BY DEF TypeOK
    <1>2. MarkedBlame' /\ DeadIsEarned'
        BY <1>1, SettleEarned DEF DeferRead
    <1>3. Settled(p).attempts <= faults[p]
        BY SettledIsEarned
    <1>4. WriteIsEarned'
        BY <1>3 DEF DeferRead, WriteIsEarned
    <1> QED BY <1>2, <1>4 DEF EarnedInv

\* A row that carries nothing, or what the path earned.
LEMMA DropEarned ==
    ASSUME TypeOK, EarnedInv, NEW p \in Paths, Drop(p), UNCHANGED <<faults, write>>
    PROVE  EarnedInv'
    <1>1. NoRow.attempts = 0 /\ NoRow.status = "none" /\ NoRow \in Row
        BY PlainRows DEF NoRow, Columns
    <1>2. faults' \in [Paths -> Nat] /\ faults'[p] \in Nat
          /\ \A q \in Paths : faults'[q] >= faults[q]
        BY DEF TypeOK
    <1>3. \A q \in Paths : q # p /\ inFlight = q => inFlight' = q
        BY DEF Drop, Settling
    <1>4. NoRow.attempts <= faults'[p]
            + (IF inFlight' = p /\ NoRow.stage = "interrupted" THEN 1 ELSE 0)
        BY <1>1, <1>2
    <1>5. MarkedBlame' /\ DeadIsEarned'
        BY <1>1, <1>2, <1>3, <1>4, OneRow DEF Drop
    <1> QED BY <1>5 DEF EarnedInv, WriteIsEarned

LEMMA TerminalEarned ==
    ASSUME TypeOK, EarnedInv, NEW p \in Terminal \cup Rejected, p \in Paths,
           DeadTerminal(p), UNCHANGED write
    PROVE  EarnedInv'
    <1> DEFINE row == Killed(Settled(p), 1, "permanent")
    <1>1. Settled(p) \in Row /\ Settled(p).attempts <= faults[p]
          /\ Settled(p).status = jobs[p].status /\ Settled(p).attempts \in Nat
        BY SettledIsEarned DEF Row
    <1>2. row \in Row
        BY <1>1, RowOperators DEF Reasons, Stages, Classes
    <1>3. /\ faults' \in [Paths -> Nat] /\ \A q \in Paths : faults'[q] >= faults[q]
          /\ faults'[p] = faults[p] + 1 /\ faults[p] \in Nat
        BY DEF TypeOK, DeadTerminal, Blame
    <1>4. \A q \in Paths : q # p /\ inFlight = q => inFlight' = q
        BY DEF DeadTerminal, Settling
    <1>5. row.attempts <= faults'[p]
            + (IF inFlight' = p /\ row.stage = "interrupted" THEN 1 ELSE 0)
        <2>1. CASE Settled(p).status = "none"
            BY <2>1, <1>1, <1>3 DEF Killed
        <2>2. CASE Settled(p).status # "none"
            BY <2>2, <1>1, <1>3 DEF Killed, Columns
        <2> QED BY <2>1, <2>2
    <1>6. row.status = "dead" => row.class = "permanent"
        BY DEF Killed, Columns
    <1>7. MarkedBlame' /\ DeadIsEarned'
        <2>1. jobs' = [jobs EXCEPT ![p] = row]
            BY DEF DeadTerminal
        <2> HIDE DEF row
        <2> QED BY <1>2, <1>3, <1>4, <1>5, <1>6, <2>1, OneRow
    <1>8. WriteIsEarned'
        <2>1. CASE write = NoWrite
            BY <2>1 DEF WriteIsEarned
        <2>2. CASE write # NoWrite
            <3>1. write.path \in Paths /\ write.attempts \in Nat
                BY <2>2 DEF TypeOK, Outcome
            <3> QED BY <2>2, <3>1, <1>3 DEF WriteIsEarned, EarnedInv, TypeOK
        <2> QED BY <2>1, <2>2
    <1> QED BY <1>7, <1>8 DEF EarnedInv

\* The write itself, over whatever the row has become.
LEMMA OutcomeEarned ==
    ASSUME TypeOK, EarnedInv, OutcomeWrite
    PROVE  EarnedInv'
    <1> DEFINE p == write.path
               row == IF write.status = "dead"
                      THEN Killed(jobs[p], write.attempts, write.class)
                      ELSE Rewritten(jobs[p], write.attempts, write.stage, write.class)
    <1>1. write \in Outcome
        BY DEF TypeOK, OutcomeWrite
    <1>2. /\ p \in Paths /\ write.attempts \in Nat /\ write.stage \in Stages
          /\ write.class \in Classes /\ write.stage # "interrupted"
        BY <1>1 DEF Outcome, Stages, Classes
    <1>3. jobs[p] \in Row /\ faults[p] \in Nat /\ jobs[p].attempts \in Nat
        BY <1>2 DEF TypeOK, Row
    <1>4. row \in Row
        BY <1>2, <1>3, RowOperators DEF Reasons
    <1>5. /\ write.attempts <= faults[p]
          /\ write.status = "dead" => write.attempts >= MaxAttempts /\ write.class = "retryable"
        BY DEF OutcomeWrite, EarnedInv, WriteIsEarned
    <1>6. /\ jobs' = [jobs EXCEPT ![p] = row] /\ write' = NoWrite
          /\ UNCHANGED <<faults, inFlight>>
        BY DEF OutcomeWrite, history
    <1>7. jobs[p].attempts <= faults[p] + Charges(p)
        BY <1>2 DEF EarnedInv, MarkedBlame
    <1>8. row = jobs[p] \/ row.attempts = write.attempts
        BY DEF Killed, Rewritten, Columns
    <1>9. row.attempts <= faults'[p]
            + (IF inFlight' = p /\ row.stage = "interrupted" THEN 1 ELSE 0)
        <2>1. CASE row = jobs[p]
            BY <2>1, <1>3, <1>6, <1>7 DEF Charges
        <2>2. CASE row.attempts = write.attempts
            BY <2>2, <1>2, <1>3, <1>5, <1>6
        <2> QED BY <1>8, <2>1, <2>2
    <1>10. row.status = "dead" =>
             \/ row.class = "retryable" /\ faults'[p] >= MaxAttempts
             \/ row.class = "permanent" /\ p \in Terminal \cup Rejected
        <2>1. CASE jobs[p].status = "none"
            BY <2>1 DEF Killed, Rewritten
        <2>2. CASE jobs[p].status # "none" /\ write.status = "dead"
            BY <2>2, <1>2, <1>3, <1>5, <1>6, QueueAssumption DEF Killed, Columns
        <2>3. CASE jobs[p].status # "none" /\ write.status # "dead"
            BY <2>3 DEF Rewritten, Columns
        <2> QED BY <2>1, <2>2, <2>3
    <1>11. /\ faults' \in [Paths -> Nat] /\ \A q \in Paths : faults'[q] >= faults[q]
           /\ \A q \in Paths : q # p /\ inFlight = q => inFlight' = q
        BY <1>6 DEF TypeOK
    <1>12. MarkedBlame' /\ DeadIsEarned'
        <2> HIDE DEF row, p
        <2> QED BY <1>2, <1>4, <1>6, <1>9, <1>10, <1>11, OneRow
    <1> QED BY <1>6, <1>12 DEF EarnedInv, WriteIsEarned

\* A crash blames the message whose step was running for its open charge.
LEMMA StopEarned ==
    ASSUME TypeOK, EarnedInv, Stop
    PROVE  EarnedInv'
    <1>1. UNCHANGED jobs /\ inFlight' = NoPath /\ write' = NoWrite
        BY DEF Stop, durable
    <1>2. faults' \in [Paths -> Nat]
        BY DEF TypeOK, Stop
    <1>3. ASSUME NEW q \in Paths
          PROVE  /\ faults[q] + Charges(q) <= faults'[q] /\ faults[q] <= faults'[q]
                 /\ faults[q] \in Nat /\ faults'[q] \in Nat /\ Charges(q) \in 0..1
                 /\ jobs[q].attempts \in Nat
        BY DEF TypeOK, Stop, Charges, Row
    <1>4. MarkedBlame'
        <2> SUFFICES ASSUME NEW q \in Paths PROVE jobs[q].attempts <= faults'[q]
            BY <1>1, <1>2, QueueAssumption DEF MarkedBlame, Charges
        <2>1. jobs[q].attempts <= faults[q] + Charges(q)
            BY DEF EarnedInv, MarkedBlame
        <2> QED BY <2>1, <1>3
    <1>5. DeadIsEarned'
        BY <1>1, <1>3, QueueAssumption DEF EarnedInv, DeadIsEarned
    <1> QED BY <1>1, <1>4, <1>5 DEF EarnedInv, WriteIsEarned

\* Rows admitted or rescued carry nothing; the others are as they were.
LEMMA FreshRowsEarned ==
    ASSUME TypeOK, EarnedInv, UNCHANGED <<faults, inFlight, write>>,
           \A q \in Paths : \/ jobs'[q] = jobs[q]
                            \/ jobs'[q].attempts = 0 /\ jobs'[q].status # "dead"
    PROVE  EarnedInv'
    <1>1. MarkedBlame'
        <2> SUFFICES ASSUME NEW q \in Paths
                     PROVE  jobs'[q].attempts <= faults[q] + Charges(q)'
            BY DEF MarkedBlame
        <2>1. faults[q] \in Nat /\ Charges(q)' \in 0..1
            BY DEF TypeOK, Charges
        <2>2. CASE jobs'[q] = jobs[q]
            <3>1. Charges(q)' = Charges(q)
                BY <2>2 DEF Charges
            <3> QED BY <2>2, <3>1 DEF EarnedInv, MarkedBlame
        <2>3. CASE jobs'[q].attempts = 0
            BY <2>1, <2>3
        <2> QED BY <2>2, <2>3
    <1>2. DeadIsEarned'
        BY DEF EarnedInv, DeadIsEarned
    <1> QED BY <1>1, <1>2 DEF EarnedInv, WriteIsEarned

\* The mark a batch of several gets carries no charge of its own.
LEMMA EnterEmbedEarned ==
    ASSUME TypeOK, HeldInv, EarnedInv, EnterEmbed
    PROVE  EarnedInv'
    <1>1. inFlight = NoPath /\ UNCHANGED <<faults, write>>
        BY DEF EnterEmbed, LoopDone, history
    <1>2. CASE UNCHANGED <<jobs, inFlight>>
        BY <1>1, <1>2, EarnedStutter
    <1>3. ASSUME NEW p \in passed, Charge(p) PROVE EarnedInv'
        BY <1>1, <1>3, ChargeEarned DEF TypeOK
    <1>4. CASE /\ jobs' = [p \in Paths |-> IF p \in passed THEN Interrupted(jobs[p]) ELSE jobs[p]]
               /\ UNCHANGED inFlight
        <2>1. \A q \in Paths : /\ jobs'[q].attempts = jobs[q].attempts
                               /\ jobs'[q].status = jobs[q].status
                               /\ jobs'[q].class = jobs[q].class
            BY <1>4 DEF Interrupted, Columns
        <2>2. \A q \in Paths : Charges(q) = 0 /\ Charges(q)' = 0
            BY <1>1, <1>4, QueueAssumption DEF Charges
        <2>3. MarkedBlame'
            BY <1>1, <2>1, <2>2 DEF EarnedInv, MarkedBlame
        <2>4. DeadIsEarned'
            BY <1>1, <2>1 DEF EarnedInv, DeadIsEarned
        <2> QED BY <1>1, <2>3, <2>4 DEF EarnedInv, WriteIsEarned
    <1> QED BY <1>2, <1>3, <1>4 DEF EnterEmbed

\* The deferral of a continuation closes the charge on the row; Release then
\* forgets it in memory, with no mark left to refund.
LEMMA CommitPartEarned ==
    ASSUME TypeOK, HeldInv, EarnedInv, NEW p \in Paths, CommitPart(p)
    PROVE  EarnedInv'
    <1> DEFINE row == Rewritten(Settled(p), Settled(p).attempts, "extract", "retryable")
    <1>1. /\ Settled(p) \in Row /\ Settled(p).attempts \in Nat
          /\ Settled(p).attempts <= faults[p] /\ Settled(p).status = jobs[p].status
        BY SettledIsEarned DEF Row
    <1>2. row \in Row
        BY <1>1, RowOperators DEF Reasons, Stages, Classes
    <1>3. /\ jobs' = [jobs EXCEPT ![p] = row] /\ UNCHANGED <<faults, inFlight, write>>
          /\ Queued(p)
        BY DEF CommitPart, Committing, HeldInv, history
    <1>4. row.attempts = Settled(p).attempts /\ row.status = "queued"
        BY <1>1, <1>3 DEF Rewritten, Columns, Queued
    <1>5. faults' \in [Paths -> Nat] /\ faults'[p] \in Nat
          /\ \A q \in Paths : faults'[q] >= faults[q]
        BY <1>3 DEF TypeOK
    <1>6. row.attempts <= faults'[p]
            + (IF inFlight' = p /\ row.stage = "interrupted" THEN 1 ELSE 0)
        BY <1>1, <1>3, <1>4, <1>5
    <1>7. MarkedBlame' /\ DeadIsEarned'
        <2> HIDE DEF row
        <2> QED BY <1>2, <1>3, <1>4, <1>5, <1>6, OneRow
    <1> QED BY <1>3, <1>7 DEF EarnedInv, WriteIsEarned

\* Every attempt and every death is earned, at every step.
THEOREM Earned == Spec => []EarnedInv
<1>1. Init => EarnedInv
    BY DEF Init, EarnedInv, MarkedBlame, Charges, DeadIsEarned, WriteIsEarned, NoRow,
           Admitted, Columns
<1>2. TypeOK /\ HeldInv /\ EarnedInv /\ [Next]_vars => EarnedInv'
    <2> SUFFICES ASSUME TypeOK, HeldInv, EarnedInv, [Next]_vars PROVE EarnedInv'
        OBVIOUS
    <2> USE DEF Goto, OpenBreaker, HandOn, durable, index, environ, history, worker
    <2>1. CASE Claim
        BY <2>1, EarnedStutter DEF Claim
    <2>2. CASE OutcomeWrite
        BY <2>2, OutcomeEarned
    <2>3. CASE CollectBatch
        BY <2>3, EarnedStutter DEF CollectBatch
    <2>4. CASE BulkSucceeds
        BY <2>4, EarnedStutter DEF BulkSucceeds
    <2>5. CASE BulkThrottled
        BY <2>5, EarnedStutter DEF BulkThrottled
    <2>6. CASE BulkFails
        BY <2>6, EarnedStutter DEF BulkFails
    <2>7. CASE ProbeFails
        BY <2>7, EarnedStutter DEF ProbeFails
    <2>8. CASE ProbePasses
        BY <2>8, EarnedStutter DEF ProbePasses
    <2>9. CASE ReprobeFails
        BY <2>9, EarnedStutter DEF ReprobeFails
    <2>10. CASE IsolationDone
        BY <2>10, EarnedStutter DEF IsolationDone
    <2>11. CASE PauseDone
        BY <2>11, EarnedStutter DEF PauseDone
    <2>12. CASE Release
        <3>1. UNCHANGED <<jobs, faults, write>> /\ inFlight' = NoPath
            BY <2>12 DEF Release
        <3>2. jobs[inFlight].stage # "interrupted"
            BY <2>12, QueueAssumption DEF Release, HeldInv, Working
        <3>3. \A q \in Paths : Charges(q) = 0 /\ Charges(q)' = 0
            BY <3>1, <3>2, QueueAssumption DEF Charges
        <3> QED BY <3>1, <3>3 DEF EarnedInv, MarkedBlame, DeadIsEarned, WriteIsEarned
    <2>13. CASE BatchDone
        BY <2>13, EarnedStutter DEF BatchDone
    <2>14. CASE EnterEmbed
        BY <2>14, EnterEmbedEarned
    <2>15. ASSUME NEW p \in Paths, ParkTrashed(p) PROVE EarnedInv'
        <3>1. CASE seen[p] = 0
            BY <2>15, <3>1, DropEarned DEF ParkTrashed
        <3>2. CASE seen[p] # 0
            BY <2>15, <3>2, DeferEarned DEF ParkTrashed
        <3> QED BY <3>1, <3>2
    <2>16. ASSUME NEW p \in Paths, BeginParse(p) PROVE EarnedInv'
        BY <2>16, ChargeEarned DEF BeginParse
    <2>17. ASSUME NEW p \in Paths, ParseMissing(p) PROVE EarnedInv'
        <3>1. CASE seen[p] = 0
            BY <2>17, <3>1, DropEarned DEF ParseMissing
        <3>2. CASE seen[p] # 0
            BY <2>17, <3>2, DeferEarned DEF ParseMissing
        <3> QED BY <3>1, <3>2
    <2>18. ASSUME NEW p \in Paths, ParseTerminal(p) PROVE EarnedInv'
        BY <2>18, TerminalEarned DEF ParseTerminal
    <2>19. ASSUME NEW p \in Paths, ParseFails(p) PROVE EarnedInv'
        BY <2>19, FailEarned DEF ParseFails
    <2>20. ASSUME NEW p \in Paths, ParseNotPermitted(p) PROVE EarnedInv'
        BY <2>20, DeferEarned DEF ParseNotPermitted
    <2>21. ASSUME NEW p \in Paths, UpsertThread(p) PROVE EarnedInv'
        BY <2>21, EarnedStutter DEF UpsertThread
    <2>22. ASSUME NEW p \in Paths, EndParse(p) PROVE EarnedInv'
        <3>1. faults' \in [Paths -> Nat] /\ \A q \in Paths : faults'[q] >= faults[q]
            BY <2>22 DEF TypeOK, EndParse
        <3>2. MarkedBlame' /\ DeadIsEarned'
            BY <2>22, <3>1, SettleEarned DEF EndParse
        <3> QED BY <2>22, <3>2 DEF EarnedInv, WriteIsEarned, EndParse
    <2>23. ASSUME NEW p \in Paths, BeginCollect(p) PROVE EarnedInv'
        BY <2>23, ChargeEarned DEF BeginCollect
    <2>24. ASSUME NEW p \in Paths, EndCollect(p) PROVE EarnedInv'
        <3>1. faults' \in [Paths -> Nat] /\ \A q \in Paths : faults'[q] >= faults[q]
            BY <2>24 DEF TypeOK, EndCollect
        <3>2. MarkedBlame' /\ DeadIsEarned'
            BY <2>24, <3>1, SettleEarned DEF EndCollect
        <3> QED BY <2>24, <3>2 DEF EarnedInv, WriteIsEarned, EndCollect
    <2>25. ASSUME NEW p \in Paths, CollectFails(p) PROVE EarnedInv'
        BY <2>25, FailEarned DEF CollectFails
    <2>26. ASSUME NEW p \in Paths, EmbedAlone(p) PROVE EarnedInv'
        BY <2>26, EarnedStutter DEF EmbedAlone
    <2>27. ASSUME NEW p \in Paths, EmbedRejected(p) PROVE EarnedInv'
        BY <2>27, TerminalEarned DEF EmbedRejected
    <2>28. ASSUME NEW p \in Paths, EmbedUnavailable(p) PROVE EarnedInv'
        BY <2>28, EarnedStutter DEF EmbedUnavailable
    <2>29. ASSUME NEW p \in Paths, EmbedUncertain(p) PROVE EarnedInv'
        BY <2>29, EarnedStutter DEF EmbedUncertain
    <2>30. ASSUME NEW p \in Paths, ReprobePasses(p) PROVE EarnedInv'
        BY <2>30, FailEarned DEF ReprobePasses
    <2>31. ASSUME NEW p \in Paths, DeferPaused(p) PROVE EarnedInv'
        BY <2>31, DeferEarned DEF DeferPaused
    <2>32. ASSUME NEW p \in Paths, CommitVectors(p) PROVE EarnedInv'
        BY <2>32, EarnedStutter DEF CommitVectors
    <2>33. ASSUME NEW p \in Paths, CommitPart(p) PROVE EarnedInv'
        BY <2>33, CommitPartEarned
    <2>34. ASSUME NEW p \in Paths, CommitFails(p) PROVE EarnedInv'
        BY <2>34, FailEarned DEF CommitFails
    <2>35. ASSUME NEW p \in Paths, MarkSucceeded(p) PROVE EarnedInv'
        BY <2>35, DropEarned DEF MarkSucceeded
    <2>36. ASSUME NEW p \in Paths, Die(p) PROVE EarnedInv'
        BY <2>36, StopEarned DEF Die
    <2>37. CASE Crash
        BY <2>37, StopEarned DEF Crash
    <2>38. CASE EmbedderBreaks
        BY <2>38, EarnedStutter DEF EmbedderBreaks
    <2>39. CASE EmbedderRecovers
        BY <2>39, EarnedStutter DEF EmbedderRecovers
    <2>40. CASE Start
        BY <2>40, EarnedStutter DEF Start
    <2>41. CASE BreakerElapses
        BY <2>41, EarnedStutter DEF BreakerElapses
    <2>42. CASE RequeueDead
        BY <2>42, FreshRowsEarned DEF RequeueDead, Requeued, Columns
    <2>43. CASE Reparse
        BY <2>43, FreshRowsEarned DEF Reparse, Admitted, Columns
    <2>44. ASSUME NEW p \in Paths, Deliver(p) PROVE EarnedInv'
        BY <2>44, EarnedStutter DEF Deliver
    <2>45. ASSUME NEW p \in Paths, Vanish(p) PROVE EarnedInv'
        BY <2>45, EarnedStutter DEF Vanish
    <2>46. ASSUME NEW p \in Paths, BackoffElapses(p) PROVE EarnedInv'
        BY <2>46, EarnedStutter DEF BackoffElapses
    <2>47. ASSUME NEW p \in Paths, WalkQueues(p) PROVE EarnedInv'
        BY <2>47, FreshRowsEarned DEF TypeOK, WalkQueues, Admitted, Columns
    <2>48. ASSUME NEW p \in Paths, Reap(p) PROVE EarnedInv'
        BY <2>48, FreshRowsEarned DEF TypeOK, Reap, NoRow, Columns
    <2>49. ASSUME NEW p \in Paths, WatcherEnqueues(p) PROVE EarnedInv'
        <3>1. CASE UNCHANGED jobs
            BY <2>49, <3>1, EarnedStutter DEF WatcherEnqueues
        <3>2. CASE jobs' = [jobs EXCEPT ![p] = Admitted("foreground")]
            BY <2>49, <3>2, FreshRowsEarned DEF TypeOK, WatcherEnqueues, Admitted, Columns
        <3> QED BY <2>49, <3>1, <3>2 DEF WatcherEnqueues
    <2>50. CASE UNCHANGED vars
        BY <2>50, EarnedStutter DEF vars
    <2> QED
        BY <2>1, <2>2, <2>3, <2>4, <2>5, <2>6, <2>7, <2>8, <2>9, <2>10,
           <2>11, <2>12, <2>13, <2>14, <2>15, <2>16, <2>17, <2>18,
           <2>19, <2>20, <2>21, <2>22, <2>23, <2>24, <2>25, <2>26,
           <2>27, <2>28, <2>29, <2>30, <2>31, <2>32, <2>33, <2>34,
           <2>35, <2>36, <2>37, <2>38, <2>39, <2>40, <2>41, <2>42,
           <2>43, <2>44, <2>45, <2>46, <2>47, <2>48, <2>49, <2>50
           DEF Next, Drain, Environment
<1> QED BY TypeCorrect, HeldInvariant, <1>1, <1>2, PTL DEF Spec

\* NoFalseBlame: outages, deferrals, batchmates, restarts and racing
\* admissions never leave an attempt on a row (queue.py:88-91).
THEOREM BlameIsTrue == Spec => []NoFalseBlame
<1>1. TypeOK /\ EarnedInv => NoFalseBlame
    <2> SUFFICES ASSUME TypeOK, EarnedInv, NEW p \in Paths
                 PROVE  jobs[p].attempts <= faults[p] + OpenCharge(p)
        BY DEF NoFalseBlame
    <2>1. jobs[p].attempts <= faults[p] + Charges(p)
        BY DEF EarnedInv, MarkedBlame
    <2>2. jobs[p].attempts \in Nat /\ faults[p] \in Nat
        BY DEF TypeOK, Row
    <2>3. Charges(p) \in 0..1 /\ OpenCharge(p) \in 0..1 /\ Charges(p) <= OpenCharge(p)
        BY DEF Charges, OpenCharge
    <2> QED BY <2>1, <2>2, <2>3
<1> QED BY TypeCorrect, Earned, <1>1, PTL

\* DeadIsEarned: a row dies of its own failures only, never of an outage
\* that the probes recognise, of a misconfiguration or of a batchmate.
THEOREM DeathIsEarned == Spec => []DeadIsEarned
<1>1. EarnedInv => DeadIsEarned
    BY DEF EarnedInv
<1> QED BY Earned, <1>1, PTL
----------------------------------------------------------------------------
(***************************************************************************)
(* The refinement of IndexPromise.  Only the status of a row and the two   *)
(* versions are visible there, so most steps stutter.                      *)
(***************************************************************************)

\* A message that is dropped owes nothing: it was never published, or its
\* Phase 2c has just completed it.
DoneInv ==
    /\ \A p \in Paths : seen[p] = 0 => chunked[p] = 0
    /\ stored # NoPath /\ pc = "commit" => seen[stored] = chunked[stored]

SameStatus(S) == \A q \in S : jobs'[q].status = jobs[q].status

LEMMA PromiseStutter ==
    ASSUME SameStatus(Paths), UNCHANGED <<seen, chunked>>
    PROVE  UNCHANGED Promise!vars
    BY DEF SameStatus, Promise!vars, Queued

LEMMA PromiseBury ==
    ASSUME NEW p \in Paths, Queued(p), jobs'[p].status = "dead",
           SameStatus(Paths \ {p}), UNCHANGED <<seen, chunked>>
    PROVE  Promise!Next
    <1>1. Promise!Bury(p)
        BY DEF SameStatus, Promise!Bury, Queued
    <1> QED BY <1>1 DEF Promise!Next

LEMMA PromiseFinish ==
    ASSUME NEW p \in Paths, Queued(p), jobs'[p].status = "none", seen[p] = chunked[p],
           SameStatus(Paths \ {p}), UNCHANGED <<seen, chunked>>
    PROVE  Promise!Next
    <1>1. Promise!Finish(p)
        BY DEF SameStatus, Promise!Finish, Queued
    <1> QED BY <1>1 DEF Promise!Next

LEMMA PromiseOwe ==
    ASSUME NEW S \in SUBSET Paths, \A q \in S : jobs'[q].status = "queued",
           SameStatus(Paths \ S), UNCHANGED <<seen, chunked>>
    PROVE  Promise!Next
    <1>1. Promise!Owe(S)
        BY DEF SameStatus, Promise!Owe, Queued
    <1> QED BY <1>1 DEF Promise!Next

LEMMA PromiseOweOne ==
    ASSUME NEW p \in Paths, jobs'[p].status = "queued",
           SameStatus(Paths \ {p}), UNCHANGED <<seen, chunked>>
    PROVE  Promise!Next
    <1>1. \A q \in {p} : jobs'[q].status = "queued"
        OBVIOUS
    <1>2. {p} \in SUBSET Paths
        OBVIOUS
    <1> QED BY <1>1, <1>2, PromiseOwe

LEMMA PromisePublish ==
    ASSUME NEW p \in Paths, Queued(p), NEW v \in 1..MaxVersion, SameStatus(Paths),
           seen' = [seen EXCEPT ![p] = v], UNCHANGED chunked
    PROVE  Promise!Next
    <1>1. Promise!Publish(p, v)
        BY DEF SameStatus, Promise!Publish, Queued
    <1> QED BY <1>1 DEF Promise!Next

LEMMA PromiseComplete ==
    ASSUME NEW p \in Paths, Queued(p), SameStatus(Paths),
           chunked' = [chunked EXCEPT ![p] = seen[p]], UNCHANGED seen
    PROVE  Promise!Next
    <1>1. Promise!Complete(p)
        BY DEF SameStatus, Promise!Complete, Queued
    <1> QED BY <1>1 DEF Promise!Next

LEMMA PromiseForget ==
    ASSUME NEW p \in Paths, jobs'[p].status = "none", SameStatus(Paths \ {p}),
           seen' = [seen EXCEPT ![p] = 0], chunked' = [chunked EXCEPT ![p] = 0]
    PROVE  Promise!Next
    <1>1. Promise!Forget(p)
        BY DEF SameStatus, Promise!Forget, Queued
    <1> QED BY <1>1 DEF Promise!Next

\* What the queue's methods do to the status of a row.
LEMMA SettledStatus ==
    ASSUME TypeOK, NEW p \in Paths, jobs' = [jobs EXCEPT ![p] = Settled(p)]
    PROVE  SameStatus(Paths)
    BY DEF TypeOK, SameStatus, Settled, Refunded, Columns

LEMMA ChargePromised ==
    ASSUME TypeOK, NEW p \in Paths, Queued(p), Charge(p), UNCHANGED <<seen, chunked>>
    PROVE  [Promise!Next]_Promise!vars
    <1>1. CASE Exhausted(jobs[p], MaxAttempts)
        <2>1. jobs'[p].status = "dead" /\ SameStatus(Paths \ {p})
            BY <1>1 DEF TypeOK, Charge, ExhaustedRow, Columns, SameStatus
        <2> QED BY <2>1, PromiseBury
    <1>2. CASE ~Exhausted(jobs[p], MaxAttempts)
        <2>1. SameStatus(Paths)
            BY <1>2 DEF TypeOK, Charge, Charged, Columns, SameStatus
        <2> QED BY <2>1, PromiseStutter
    <1> QED BY <1>1, <1>2

LEMMA DropPromised ==
    ASSUME TypeOK, NEW p \in Paths, Queued(p), Drop(p), seen[p] = chunked[p],
           UNCHANGED <<seen, chunked>>
    PROVE  Promise!Next
    <1>1. jobs'[p].status = "none" /\ SameStatus(Paths \ {p})
        BY DEF TypeOK, Drop, NoRow, Columns, SameStatus
    <1> QED BY <1>1, PromiseFinish

LEMMA TerminalPromised ==
    ASSUME TypeOK, NEW p \in Paths, Queued(p), DeadTerminal(p), UNCHANGED <<seen, chunked>>
    PROVE  Promise!Next
    <1>1. Settled(p).status = "queued"
        BY DEF Settled, Refunded, Columns, Queued
    <1>2. jobs'[p].status = "dead" /\ SameStatus(Paths \ {p})
        BY <1>1 DEF TypeOK, DeadTerminal, Killed, Columns, SameStatus
    <1> QED BY <1>2, PromiseBury

LEMMA OutcomePromised ==
    ASSUME TypeOK, HeldInv, OutcomeWrite
    PROVE  [Promise!Next]_Promise!vars
    <1> DEFINE p == write.path
    <1>1. p \in Paths /\ Queued(p) /\ UNCHANGED <<seen, chunked>>
        BY DEF TypeOK, HeldInv, OutcomeWrite, Outcome, index
    <1>2. SameStatus(Paths \ {p})
        BY DEF TypeOK, OutcomeWrite, SameStatus
    <1>3. CASE write.status = "dead"
        <2>1. jobs'[p].status = "dead"
            BY <1>1, <1>3 DEF TypeOK, OutcomeWrite, Killed, Columns, Queued
        <2> HIDE DEF p
        <2> QED BY <1>1, <1>2, <2>1, PromiseBury
    <1>4. CASE write.status # "dead"
        <2>1. jobs'[p].status = "queued"
            BY <1>1, <1>4 DEF TypeOK, OutcomeWrite, Rewritten, Columns, Queued
        <2>2. SameStatus(Paths)
            BY <1>1, <1>2, <2>1 DEF SameStatus, Queued
        <2> QED BY <1>1, <2>2, PromiseStutter
    <1> QED BY <1>3, <1>4

\* The inductive invariant the refinement needs.
THEOREM DoneInvariant == Spec => []DoneInv
<1>1. Init => DoneInv
    BY DEF Init, DoneInv
<1>2. TypeOK /\ HeldInv /\ DoneInv /\ [Next]_vars => DoneInv'
    <2> SUFFICES ASSUME TypeOK, HeldInv, DoneInv, [Next]_vars PROVE DoneInv'
        OBVIOUS
    <2> USE DEF Goto, OpenBreaker, durable, index, environ, history, worker
    <2>1. CASE Claim
        BY <2>1 DEF DoneInv, Claim, PausePlace, HeldInv, LoopDone, Working
    <2>2. CASE OutcomeWrite
        BY <2>2 DEF DoneInv, OutcomeWrite
    <2>3. CASE CollectBatch
        BY <2>3 DEF DoneInv, CollectBatch, PausePlace, HeldInv, LoopDone, Working
    <2>4. CASE BulkSucceeds
        BY <2>4 DEF DoneInv, BulkSucceeds, PausePlace, HeldInv, LoopDone, Working
    <2>5. CASE BulkThrottled
        BY <2>5 DEF DoneInv, BulkThrottled, PausePlace, HeldInv, LoopDone, Working
    <2>6. CASE BulkFails
        BY <2>6 DEF DoneInv, BulkFails, PausePlace, HeldInv, LoopDone, Working
    <2>7. CASE ProbeFails
        BY <2>7 DEF DoneInv, ProbeFails, PausePlace, HeldInv, LoopDone, Working
    <2>8. CASE ProbePasses
        BY <2>8 DEF DoneInv, ProbePasses, PausePlace, HeldInv, LoopDone, Working
    <2>9. CASE ReprobeFails
        BY <2>9 DEF DoneInv, ReprobeFails, PausePlace, HeldInv, LoopDone, Working
    <2>10. CASE IsolationDone
        BY <2>10 DEF DoneInv, IsolationDone, PausePlace, HeldInv, LoopDone, Working
    <2>11. CASE PauseDone
        BY <2>11 DEF DoneInv, PauseDone, PausePlace, HeldInv, LoopDone, Working
    <2>12. CASE Release
        BY <2>12 DEF DoneInv, Release
    <2>13. CASE BatchDone
        BY <2>13 DEF DoneInv, BatchDone
    <2>14. CASE EnterEmbed
        BY <2>14 DEF DoneInv, EnterEmbed, PausePlace, HeldInv, LoopDone, Working
    <2>15. ASSUME NEW p \in Paths, ParkTrashed(p) PROVE DoneInv'
        BY <2>15 DEF DoneInv, ParkTrashed
    <2>16. ASSUME NEW p \in Paths, BeginParse(p) PROVE DoneInv'
        BY <2>16 DEF DoneInv, BeginParse
    <2>17. ASSUME NEW p \in Paths, ParseMissing(p) PROVE DoneInv'
        BY <2>17 DEF DoneInv, ParseMissing
    <2>18. ASSUME NEW p \in Paths, ParseTerminal(p) PROVE DoneInv'
        BY <2>18 DEF DoneInv, ParseTerminal
    <2>19. ASSUME NEW p \in Paths, ParseFails(p) PROVE DoneInv'
        BY <2>19 DEF DoneInv, ParseFails
    <2>20. ASSUME NEW p \in Paths, ParseNotPermitted(p) PROVE DoneInv'
        BY <2>20 DEF DoneInv, ParseNotPermitted
    <2>21. ASSUME NEW p \in Paths, UpsertThread(p) PROVE DoneInv'
        BY <2>21 DEF TypeOK, DoneInv, UpsertThread, Parsing, Working, Versions
    <2>22. ASSUME NEW p \in Paths, EndParse(p) PROVE DoneInv'
        BY <2>22 DEF DoneInv, EndParse, HandOn
    <2>23. ASSUME NEW p \in Paths, BeginCollect(p) PROVE DoneInv'
        BY <2>23 DEF DoneInv, BeginCollect
    <2>24. ASSUME NEW p \in Paths, EndCollect(p) PROVE DoneInv'
        BY <2>24 DEF DoneInv, EndCollect, HandOn
    <2>25. ASSUME NEW p \in Paths, CollectFails(p) PROVE DoneInv'
        BY <2>25 DEF DoneInv, CollectFails
    <2>26. ASSUME NEW p \in Paths, EmbedAlone(p) PROVE DoneInv'
        BY <2>26 DEF DoneInv, EmbedAlone, HandOn
    <2>27. ASSUME NEW p \in Paths, EmbedRejected(p) PROVE DoneInv'
        BY <2>27 DEF DoneInv, EmbedRejected
    <2>28. ASSUME NEW p \in Paths, EmbedUnavailable(p) PROVE DoneInv'
        BY <2>28 DEF DoneInv, EmbedUnavailable, PausePlace, HeldInv, LoopDone, Working
    <2>29. ASSUME NEW p \in Paths, EmbedUncertain(p) PROVE DoneInv'
        BY <2>29 DEF DoneInv, EmbedUncertain
    <2>30. ASSUME NEW p \in Paths, ReprobePasses(p) PROVE DoneInv'
        BY <2>30 DEF DoneInv, ReprobePasses
    <2>31. ASSUME NEW p \in Paths, DeferPaused(p) PROVE DoneInv'
        BY <2>31 DEF DoneInv, DeferPaused
    <2>32. ASSUME NEW p \in Paths, CommitVectors(p) PROVE DoneInv'
        BY <2>32 DEF TypeOK, DoneInv, CommitVectors, Committing
    <2>33. ASSUME NEW p \in Paths, CommitPart(p) PROVE DoneInv'
        BY <2>33 DEF DoneInv, CommitPart
    <2>34. ASSUME NEW p \in Paths, CommitFails(p) PROVE DoneInv'
        BY <2>34 DEF DoneInv, CommitFails
    <2>35. ASSUME NEW p \in Paths, MarkSucceeded(p) PROVE DoneInv'
        BY <2>35 DEF DoneInv, MarkSucceeded
    <2>36. ASSUME NEW p \in Paths, Die(p) PROVE DoneInv'
        BY <2>36 DEF DoneInv, Die, Stop
    <2>37. CASE Crash
        BY <2>37 DEF DoneInv, Crash, Stop
    <2>38. CASE EmbedderBreaks
        BY <2>38 DEF DoneInv, EmbedderBreaks
    <2>39. CASE EmbedderRecovers
        BY <2>39 DEF DoneInv, EmbedderRecovers
    <2>40. CASE RequeueDead
        BY <2>40 DEF DoneInv, RequeueDead
    <2>41. CASE Reparse
        BY <2>41 DEF DoneInv, Reparse
    <2>42. CASE Start
        BY <2>42 DEF DoneInv, Start, PausePlace, HeldInv, LoopDone, Working
    <2>43. CASE BreakerElapses
        BY <2>43 DEF DoneInv, BreakerElapses
    <2>44. ASSUME NEW p \in Paths, Deliver(p) PROVE DoneInv'
        BY <2>44 DEF DoneInv, Deliver
    <2>45. ASSUME NEW p \in Paths, Vanish(p) PROVE DoneInv'
        BY <2>45 DEF DoneInv, Vanish
    <2>46. ASSUME NEW p \in Paths, WalkQueues(p) PROVE DoneInv'
        BY <2>46 DEF DoneInv, WalkQueues
    <2>47. ASSUME NEW p \in Paths, Reap(p) PROVE DoneInv'
        BY <2>47 DEF TypeOK, HeldInv, DoneInv, Reap, Idle
    <2>48. ASSUME NEW p \in Paths, BackoffElapses(p) PROVE DoneInv'
        BY <2>48 DEF DoneInv, BackoffElapses
    <2>49. ASSUME NEW p \in Paths, WatcherEnqueues(p) PROVE DoneInv'
        BY <2>49 DEF DoneInv, WatcherEnqueues
    <2>50. CASE UNCHANGED vars
        BY <2>50 DEF DoneInv, vars
    <2> QED
        BY <2>1, <2>2, <2>3, <2>4, <2>5, <2>6, <2>7, <2>8, <2>9, <2>10,
           <2>11, <2>12, <2>13, <2>14, <2>15, <2>16, <2>17, <2>18,
           <2>19, <2>20, <2>21, <2>22, <2>23, <2>24, <2>25, <2>26,
           <2>27, <2>28, <2>29, <2>30, <2>31, <2>32, <2>33, <2>34,
           <2>35, <2>36, <2>37, <2>38, <2>39, <2>40, <2>41, <2>42,
           <2>43, <2>44, <2>45, <2>46, <2>47, <2>48, <2>49, <2>50
           DEF Next, Drain, Environment
<1> QED BY TypeCorrect, HeldInvariant, <1>1, <1>2, PTL DEF Spec

\* KeepsThePromise: the queue and its worker implement IndexPromise.
THEOREM Implements == Spec => KeepsThePromise
<1>1. Init => Promise!Init
    <2> SUFFICES ASSUME Init PROVE Promise!Init
        OBVIOUS
    <2>1. seen \in [Paths -> 0..MaxVersion] /\ chunked = seen
        BY QueueAssumption DEF Init
    <2>2. \A p \in Paths : jobs[p].status # "dead"
        BY DEF Init, Admitted, NoRow, Columns
    <2> QED BY <2>1, <2>2 DEF Promise!Init
<1>2. TypeOK /\ HeldInv /\ DoneInv /\ [Next]_vars => [Promise!Next]_Promise!vars
    <2> SUFFICES ASSUME TypeOK, HeldInv, DoneInv, [Next]_vars
                 PROVE  [Promise!Next]_Promise!vars
        OBVIOUS
    <2> USE DEF Goto, OpenBreaker, durable, index, environ, history, worker
    <2>1. CASE Claim
        BY <2>1, PromiseStutter DEF SameStatus, Claim
    <2>2. CASE OutcomeWrite
        BY <2>2, OutcomePromised
    <2>3. CASE CollectBatch
        BY <2>3, PromiseStutter DEF SameStatus, CollectBatch
    <2>4. CASE BulkSucceeds
        BY <2>4, PromiseStutter DEF SameStatus, BulkSucceeds
    <2>5. CASE BulkThrottled
        BY <2>5, PromiseStutter DEF SameStatus, BulkThrottled
    <2>6. CASE BulkFails
        BY <2>6, PromiseStutter DEF SameStatus, BulkFails
    <2>7. CASE ProbeFails
        BY <2>7, PromiseStutter DEF SameStatus, ProbeFails
    <2>8. CASE ProbePasses
        BY <2>8, PromiseStutter DEF SameStatus, ProbePasses
    <2>9. CASE ReprobeFails
        BY <2>9, PromiseStutter DEF SameStatus, ReprobeFails
    <2>10. CASE IsolationDone
        BY <2>10, PromiseStutter DEF SameStatus, IsolationDone
    <2>11. CASE PauseDone
        BY <2>11, PromiseStutter DEF SameStatus, PauseDone
    <2>12. CASE Release
        BY <2>12, PromiseStutter DEF SameStatus, Release
    <2>13. CASE BatchDone
        BY <2>13, PromiseStutter DEF SameStatus, BatchDone
    <2>14. CASE EnterEmbed
        <3>1. UNCHANGED <<seen, chunked>>
            BY <2>14 DEF EnterEmbed
        <3>2. CASE UNCHANGED jobs
            BY <3>1, <3>2, PromiseStutter DEF SameStatus
        <3>3. ASSUME NEW p \in passed, Charge(p) PROVE [Promise!Next]_Promise!vars
            BY <3>1, <3>3, ChargePromised DEF TypeOK, HeldInv
        <3>4. CASE jobs' = [p \in Paths |-> IF p \in passed THEN Interrupted(jobs[p]) ELSE jobs[p]]
            <4>1. SameStatus(Paths)
                BY <3>4 DEF SameStatus, Interrupted, Columns
            <4> QED BY <3>1, <4>1, PromiseStutter
        <3> QED BY <2>14, <3>2, <3>3, <3>4 DEF EnterEmbed
    <2>15. ASSUME NEW p \in Paths, ParkTrashed(p) PROVE [Promise!Next]_Promise!vars
        <3>1. Queued(p) /\ UNCHANGED <<seen, chunked>>
            BY <2>15 DEF HeldInv, ParkTrashed
        <3>2. CASE seen[p] = 0
            BY <2>15, <3>1, <3>2, DropPromised DEF DoneInv, ParkTrashed
        <3>3. CASE seen[p] # 0
            BY <2>15, <3>1, <3>3, SettledStatus, PromiseStutter DEF ParkTrashed, DeferRead
        <3> QED BY <3>2, <3>3
    <2>16. ASSUME NEW p \in Paths, BeginParse(p) PROVE [Promise!Next]_Promise!vars
        <3>1. Queued(p) /\ UNCHANGED <<seen, chunked>>
            BY <2>16 DEF HeldInv, BeginParse
        <3> QED BY <2>16, <3>1, ChargePromised DEF BeginParse
    <2>17. ASSUME NEW p \in Paths, ParseMissing(p) PROVE [Promise!Next]_Promise!vars
        <3>1. Queued(p) /\ UNCHANGED <<seen, chunked>>
            BY <2>17, QueueAssumption DEF HeldInv, ParseMissing, Parsing
        <3>2. CASE seen[p] = 0
            BY <2>17, <3>1, <3>2, DropPromised DEF DoneInv, ParseMissing
        <3>3. CASE seen[p] # 0
            BY <2>17, <3>1, <3>3, SettledStatus, PromiseStutter DEF ParseMissing, DeferRead
        <3> QED BY <3>2, <3>3
    <2>18. ASSUME NEW p \in Paths, ParseTerminal(p) PROVE [Promise!Next]_Promise!vars
        BY <2>18, QueueAssumption, TerminalPromised DEF HeldInv, ParseTerminal, Parsing
    <2>19. ASSUME NEW p \in Paths, ParseFails(p) PROVE [Promise!Next]_Promise!vars
        BY <2>19, SettledStatus, PromiseStutter DEF ParseFails, FailRead
    <2>20. ASSUME NEW p \in Paths, ParseNotPermitted(p) PROVE [Promise!Next]_Promise!vars
        BY <2>20, SettledStatus, PromiseStutter DEF ParseNotPermitted, DeferRead
    <2>21. ASSUME NEW p \in Paths, UpsertThread(p) PROVE [Promise!Next]_Promise!vars
        <3>1. Queued(p) /\ ver \in 1..MaxVersion
            BY <2>21, QueueAssumption DEF TypeOK, HeldInv, UpsertThread, Parsing, Versions
        <3>2. /\ SameStatus(Paths) /\ UNCHANGED chunked
              /\ seen' = [seen EXCEPT ![p] = ver]
            BY <2>21 DEF UpsertThread, SameStatus
        <3> QED BY <3>1, <3>2, PromisePublish
    <2>22. ASSUME NEW p \in Paths, EndParse(p) PROVE [Promise!Next]_Promise!vars
        BY <2>22, SettledStatus, PromiseStutter DEF EndParse
    <2>23. ASSUME NEW p \in Paths, BeginCollect(p) PROVE [Promise!Next]_Promise!vars
        <3>1. Queued(p) /\ UNCHANGED <<seen, chunked>>
            BY <2>23 DEF HeldInv, BeginCollect
        <3> QED BY <2>23, <3>1, ChargePromised DEF BeginCollect
    <2>24. ASSUME NEW p \in Paths, EndCollect(p) PROVE [Promise!Next]_Promise!vars
        BY <2>24, SettledStatus, PromiseStutter DEF EndCollect
    <2>25. ASSUME NEW p \in Paths, CollectFails(p) PROVE [Promise!Next]_Promise!vars
        BY <2>25, SettledStatus, PromiseStutter DEF CollectFails, FailRead
    <2>26. ASSUME NEW p \in Paths, EmbedAlone(p) PROVE [Promise!Next]_Promise!vars
        BY <2>26, PromiseStutter DEF SameStatus, EmbedAlone, HandOn
    <2>27. ASSUME NEW p \in Paths, EmbedRejected(p) PROVE [Promise!Next]_Promise!vars
        BY <2>27, TerminalPromised DEF HeldInv, EmbedRejected, Isolating
    <2>28. ASSUME NEW p \in Paths, EmbedUnavailable(p) PROVE [Promise!Next]_Promise!vars
        BY <2>28, PromiseStutter DEF SameStatus, EmbedUnavailable
    <2>29. ASSUME NEW p \in Paths, EmbedUncertain(p) PROVE [Promise!Next]_Promise!vars
        BY <2>29, PromiseStutter DEF SameStatus, EmbedUncertain
    <2>30. ASSUME NEW p \in Paths, ReprobePasses(p) PROVE [Promise!Next]_Promise!vars
        BY <2>30, SettledStatus, PromiseStutter DEF ReprobePasses, FailRead
    <2>31. ASSUME NEW p \in Paths, DeferPaused(p) PROVE [Promise!Next]_Promise!vars
        BY <2>31, SettledStatus, PromiseStutter DEF DeferPaused, DeferRead
    <2>32. ASSUME NEW p \in Paths, CommitVectors(p) PROVE [Promise!Next]_Promise!vars
        <3>1. Queued(p)
            BY <2>32 DEF HeldInv, CommitVectors, Committing
        <3>2. /\ SameStatus(Paths) /\ UNCHANGED seen
              /\ chunked' = [chunked EXCEPT ![p] = seen[p]]
            BY <2>32 DEF CommitVectors, SameStatus
        <3> QED BY <3>1, <3>2, PromiseComplete
    <2>33. ASSUME NEW p \in Paths, CommitPart(p) PROVE [Promise!Next]_Promise!vars
        <3>1. Queued(p) /\ UNCHANGED <<seen, chunked>>
            BY <2>33 DEF HeldInv, CommitPart, Committing
        <3>2. Settled(p).status = "queued"
            BY <3>1 DEF Settled, Refunded, Columns, Queued
        <3>3. SameStatus(Paths)
            BY <2>33, <3>1, <3>2 DEF TypeOK, CommitPart, SameStatus, Rewritten, Columns, Queued
        <3> QED BY <3>1, <3>3, PromiseStutter
    <2>34. ASSUME NEW p \in Paths, CommitFails(p) PROVE [Promise!Next]_Promise!vars
        BY <2>34, SettledStatus, PromiseStutter DEF CommitFails, FailRead
    <2>35. ASSUME NEW p \in Paths, MarkSucceeded(p) PROVE [Promise!Next]_Promise!vars
        <3>1. Queued(p) /\ seen[p] = chunked[p] /\ UNCHANGED <<seen, chunked>>
            BY <2>35, QueueAssumption DEF HeldInv, DoneInv, MarkSucceeded, Working
        <3> QED BY <2>35, <3>1, DropPromised DEF MarkSucceeded
    <2>36. ASSUME NEW p \in Paths, Die(p) PROVE [Promise!Next]_Promise!vars
        BY <2>36, PromiseStutter DEF SameStatus, Die, Stop
    <2>37. CASE Crash
        BY <2>37, PromiseStutter DEF SameStatus, Crash, Stop
    <2>38. CASE EmbedderBreaks
        BY <2>38, PromiseStutter DEF SameStatus, EmbedderBreaks
    <2>39. CASE EmbedderRecovers
        BY <2>39, PromiseStutter DEF SameStatus, EmbedderRecovers
    <2>40. CASE RequeueDead
        <3>1. PICK dead \in SUBSET Paths :
                jobs' = [p \in Paths |-> IF p \in dead THEN Requeued(jobs[p]) ELSE jobs[p]]
            BY <2>40 DEF RequeueDead
        <3>2. (\A p \in dead : jobs'[p].status = "queued") /\ SameStatus(Paths \ dead)
            BY <3>1 DEF Requeued, Columns, SameStatus
        <3> QED BY <2>40, <3>2, PromiseOwe DEF RequeueDead
    <2>41. CASE Reparse
        <3>1. PICK new \in SUBSET Paths :
                jobs' = [p \in Paths |-> IF p \in new THEN Admitted("reparse") ELSE jobs[p]]
            BY <2>41 DEF Reparse
        <3>2. (\A p \in new : jobs'[p].status = "queued") /\ SameStatus(Paths \ new)
            BY <3>1 DEF Admitted, Columns, SameStatus
        <3> QED BY <2>41, <3>2, PromiseOwe DEF Reparse
    <2>42. CASE Start
        BY <2>42, PromiseStutter DEF SameStatus, Start
    <2>43. CASE BreakerElapses
        BY <2>43, PromiseStutter DEF SameStatus, BreakerElapses
    <2>44. ASSUME NEW p \in Paths, Deliver(p) PROVE [Promise!Next]_Promise!vars
        BY <2>44, PromiseStutter DEF SameStatus, Deliver
    <2>45. ASSUME NEW p \in Paths, Vanish(p) PROVE [Promise!Next]_Promise!vars
        BY <2>45, PromiseStutter DEF SameStatus, Vanish
    <2>46. ASSUME NEW p \in Paths, WalkQueues(p) PROVE [Promise!Next]_Promise!vars
        <3>1. jobs'[p].status = "queued" /\ SameStatus(Paths \ {p})
            BY <2>46 DEF TypeOK, WalkQueues, Admitted, Columns, SameStatus
        <3> QED BY <2>46, <3>1, PromiseOweOne DEF WalkQueues
    <2>47. ASSUME NEW p \in Paths, Reap(p) PROVE [Promise!Next]_Promise!vars
        <3>1. jobs'[p].status = "none" /\ SameStatus(Paths \ {p})
            BY <2>47 DEF TypeOK, Reap, NoRow, Columns, SameStatus
        <3> QED BY <2>47, <3>1, PromiseForget DEF Reap
    <2>48. ASSUME NEW p \in Paths, BackoffElapses(p) PROVE [Promise!Next]_Promise!vars
        BY <2>48, PromiseStutter DEF SameStatus, BackoffElapses
    <2>49. ASSUME NEW p \in Paths, WatcherEnqueues(p) PROVE [Promise!Next]_Promise!vars
        <3>1. UNCHANGED <<seen, chunked>>
            BY <2>49 DEF WatcherEnqueues
        <3>2. CASE UNCHANGED jobs
            BY <3>1, <3>2, PromiseStutter DEF SameStatus
        <3>3. CASE jobs' = [jobs EXCEPT ![p] = Admitted("foreground")]
            <4>1. jobs'[p].status = "queued" /\ SameStatus(Paths \ {p})
                BY <3>3 DEF TypeOK, Admitted, Columns, SameStatus
            <4> QED BY <3>1, <4>1, PromiseOweOne
        <3> QED BY <2>49, <3>2, <3>3 DEF WatcherEnqueues
    <2>50. CASE UNCHANGED vars
        BY <2>50, PromiseStutter DEF SameStatus, vars
    <2> QED
        BY <2>1, <2>2, <2>3, <2>4, <2>5, <2>6, <2>7, <2>8, <2>9, <2>10,
           <2>11, <2>12, <2>13, <2>14, <2>15, <2>16, <2>17, <2>18,
           <2>19, <2>20, <2>21, <2>22, <2>23, <2>24, <2>25, <2>26,
           <2>27, <2>28, <2>29, <2>30, <2>31, <2>32, <2>33, <2>34,
           <2>35, <2>36, <2>37, <2>38, <2>39, <2>40, <2>41, <2>42,
           <2>43, <2>44, <2>45, <2>46, <2>47, <2>48, <2>49, <2>50
           DEF Next, Drain, Environment
<1> QED BY TypeCorrect, HeldInvariant, DoneInvariant, <1>1, <1>2, PTL
       DEF Spec, KeepsThePromise, Promise!Spec

\* A published message that is not complete is owed or buried.
OwedOrBuried ==
    \A p \in Paths : seen[p] # chunked[p] =>
        p \in {q \in Paths : Queued(q)} \cup {q \in Paths : jobs[q].status = "dead"}

\* IndexedWholeOrQueued follows from the promise alone: no step of IndexPromise
\* ends work that is half done.
THEOREM WholeOrQueued == Spec => []IndexedWholeOrQueued
<1>1. Init => OwedOrBuried
    BY DEF Init, OwedOrBuried
<1>2. TypeOK /\ OwedOrBuried /\ [Promise!Next]_Promise!vars => OwedOrBuried'
    <2> SUFFICES ASSUME TypeOK, OwedOrBuried, [Promise!Next]_Promise!vars
                 PROVE  OwedOrBuried'
        OBVIOUS
    <2> USE DEF TypeOK, OwedOrBuried
    <2>1. ASSUME NEW S \in SUBSET Paths, Promise!Owe(S) PROVE OwedOrBuried'
        BY <2>1 DEF Promise!Owe
    <2>2. ASSUME NEW p \in Paths, NEW v \in 1..MaxVersion, Promise!Publish(p, v)
          PROVE  OwedOrBuried'
        BY <2>2 DEF Promise!Publish
    <2>3. ASSUME NEW p \in Paths, Promise!Complete(p) PROVE OwedOrBuried'
        BY <2>3 DEF Promise!Complete
    <2>4. ASSUME NEW p \in Paths, Promise!Finish(p) PROVE OwedOrBuried'
        BY <2>4 DEF Promise!Finish
    <2>5. ASSUME NEW p \in Paths, Promise!Bury(p) PROVE OwedOrBuried'
        BY <2>5 DEF Promise!Bury
    <2>6. ASSUME NEW p \in Paths, Promise!Forget(p) PROVE OwedOrBuried'
        BY <2>6 DEF Promise!Forget
    <2>7. CASE UNCHANGED Promise!vars
        BY <2>7 DEF Promise!vars
    <2> QED BY <2>1, <2>2, <2>3, <2>4, <2>5, <2>6, <2>7 DEF Promise!Next
<1>3. OwedOrBuried => IndexedWholeOrQueued
    BY DEF OwedOrBuried, IndexedWholeOrQueued, Queued, NoRow, Columns
<1> QED BY TypeCorrect, Implements, <1>1, <1>2, <1>3, PTL
       DEF Spec, KeepsThePromise, Promise!Spec

----------------------------------------------------------------------------
(***************************************************************************)
(* WithinBudget.  It is not inductive: a charge, or a failure, may add one *)
(* to whatever the row carries, so the rows that can still be charged must *)
(* be shown to be below the budget.  A queued row at its limit carries the *)
(* mark of the step that was running; the next charge buries it.           *)
(***************************************************************************)

\* A row at its limit is dead, or still carries the mark of its last charge.
Within(row) ==
    /\ row.attempts <= MaxAttempts
    /\ row.status = "queued" /\ row.stage # "interrupted" => row.attempts < MaxAttempts

\* The rows some step of this batch has already settled.
OnHand == passed \cup (IF pc = "phase1" THEN {} ELSE todo)

WriteWithin ==
    write # NoWrite =>
        /\ write.attempts <= MaxAttempts
        /\ write.status = "queued" => write.attempts < MaxAttempts
        /\ write.path \in Trashed => write.attempts = 0

\* No trashed message is ever charged: it leaves the batch before its parse.
TrashedApart == Trashed \cap (OnHand \cup {inFlight}) = {}

BudgetInv ==
    /\ \A p \in Paths : Within(jobs[p])
    /\ \A p \in OnHand \ {inFlight} : jobs[p].attempts < MaxAttempts
    /\ \A p \in Trashed : jobs[p].attempts = 0
    /\ TrashedApart
    /\ WriteWithin

\* A settled row has an attempt left: the refund took back the charge of the
\* step that ended, or the row was never charged by it.
LEMMA SettledWithin ==
    ASSUME TypeOK, BudgetInv, NEW p \in Paths, Queued(p),
           p = inFlight \/ p \in OnHand \/ p \in Trashed
    PROVE  /\ Settled(p) \in Row /\ Settled(p).attempts \in Nat
           /\ Settled(p).attempts < MaxAttempts
           /\ Settled(p).status = "queued"
           /\ Within(Settled(p))
           /\ p \in Trashed => Settled(p).attempts = 0
    <1>1. jobs[p] \in Row /\ jobs[p].attempts \in Nat /\ Settled(p) \in Row
        BY SettledIsRow DEF TypeOK, Row
    <1>2. Within(jobs[p]) /\ (p \in Trashed => jobs[p].attempts = 0 /\ p # inFlight)
        BY QueueAssumption DEF BudgetInv, TrashedApart
    <1>3. CASE inFlight = p /\ jobs[p].stage = "interrupted" /\ jobs[p].attempts > 0
        <2>1. Settled(p) = Columns("queued", jobs[p].reason, jobs[p].attempts - 1, "none", jobs[p].class)
            BY <1>3 DEF Settled, Refunded, Queued
        <2> QED BY <1>1, <1>2, <1>3, <2>1, QueueAssumption DEF Columns, Within
    <1>4. CASE ~(inFlight = p /\ jobs[p].stage = "interrupted" /\ jobs[p].attempts > 0)
        <2>1. Settled(p) = jobs[p]
            BY <1>4 DEF Settled, Refunded
        <2>2. jobs[p].attempts < MaxAttempts
            BY <1>1, <1>2, <1>4, QueueAssumption DEF Within, Queued, BudgetInv
        <2> QED BY <1>1, <1>2, <2>1, <2>2 DEF Queued, Within
    <1> QED BY <1>3, <1>4

\* A step that leaves the rows alone and takes no new one in hand.
LEMMA BudgetStutter ==
    ASSUME BudgetInv, UNCHANGED <<jobs, write>>, OnHand' \subseteq OnHand,
           inFlight' = inFlight \/ (inFlight' = NoPath /\ inFlight \notin OnHand')
    PROVE  BudgetInv'
    <1>1. \A p \in OnHand' \ {inFlight'} : p \in OnHand \ {inFlight}
        OBVIOUS
    <1>2. TrashedApart'
        BY QueueAssumption DEF BudgetInv, TrashedApart
    <1> QED BY <1>1, <1>2 DEF BudgetInv, WriteWithin

\* One row changes; what else is in hand was so before.
LEMMA OneRowBudget ==
    ASSUME TypeOK, BudgetInv, NEW p \in Paths, NEW row \in Row,
           jobs' = [jobs EXCEPT ![p] = row],
           Within(row), p \in Trashed => row.attempts = 0,
           OnHand' \subseteq OnHand \cup {p},
           p \in OnHand' \ {inFlight'} => row.attempts < MaxAttempts,
           inFlight' \in {inFlight, p, NoPath},
           inFlight \in {inFlight', p, NoPath} \/ inFlight \notin OnHand',
           p \in Trashed => inFlight' # p /\ p \notin OnHand',
           WriteWithin'
    PROVE  BudgetInv'
    <1>1. jobs'[p] = row /\ \A q \in Paths : q # p => jobs'[q] = jobs[q]
        BY DEF TypeOK
    <1>2. \A q \in Paths : Within(jobs'[q])
        BY <1>1 DEF BudgetInv
    <1>3. \A q \in OnHand' \ {inFlight'} : jobs'[q].attempts < MaxAttempts
        <2> SUFFICES ASSUME NEW q \in OnHand' \ {inFlight'}, q # p
                     PROVE  jobs'[q].attempts < MaxAttempts
            BY <1>1
        <2>1. q \in OnHand /\ q \in Paths
            BY DEF TypeOK, OnHand
        <2>2. q # inFlight
            BY <2>1, QueueAssumption
        <2> QED BY <1>1, <2>1, <2>2 DEF BudgetInv
    <1>4. \A q \in Trashed : jobs'[q].attempts = 0
        BY <1>1, QueueAssumption DEF BudgetInv
    <1>5. TrashedApart'
        BY QueueAssumption DEF BudgetInv, TrashedApart
    <1> QED BY <1>2, <1>3, <1>4, <1>5 DEF BudgetInv

\* begin_attempt stays within the budget: a marked row at its limit dies, any
\* other has an attempt left.
LEMMA ChargeBudget ==
    ASSUME TypeOK, BudgetInv, NEW p \in Paths, Queued(p), p \notin Trashed,
           inFlight = NoPath, Charge(p), UNCHANGED write,
           OnHand' \subseteq OnHand \cup {p},
           Exhausted(jobs[p], MaxAttempts) => p \notin OnHand'
    PROVE  BudgetInv'
    <1>1. jobs[p] \in Row /\ jobs[p].attempts \in Nat /\ Within(jobs[p])
        BY DEF TypeOK, Row, BudgetInv
    <1>2. WriteWithin'
        BY DEF BudgetInv, WriteWithin
    <1>3. CASE Exhausted(jobs[p], MaxAttempts)
        <2>1. ExhaustedRow(jobs[p]) \in Row /\ Within(ExhaustedRow(jobs[p]))
            BY <1>1, RowOperators DEF Reasons, Stages, Classes, ExhaustedRow, Columns, Within
        <2>2. jobs' = [jobs EXCEPT ![p] = ExhaustedRow(jobs[p])] /\ inFlight' = inFlight
            BY <1>3 DEF Charge
        <2> QED BY <1>2, <1>3, <2>1, <2>2, OneRowBudget
    <1>4. CASE ~Exhausted(jobs[p], MaxAttempts)
        <2>1. jobs[p].attempts < MaxAttempts
            BY <1>1, <1>4, QueueAssumption DEF Exhausted, Within, Queued
        <2>2. Charged(jobs[p]) \in Row /\ Within(Charged(jobs[p]))
            BY <1>1, <2>1, RowOperators, QueueAssumption
               DEF Reasons, Stages, Classes, Charged, Columns, Within, Queued
        <2>3. jobs' = [jobs EXCEPT ![p] = Charged(jobs[p])] /\ inFlight' = p
            BY <1>4 DEF Charge
        <2> QED BY <1>2, <2>2, <2>3, OneRowBudget
    <1> QED BY <1>3, <1>4

\* The row mark_failed, defer or end_attempt leaves behind when it settled.
LEMMA SettleBudget ==
    ASSUME TypeOK, BudgetInv, NEW p \in Paths, Queued(p),
           p = inFlight \/ p \in OnHand \/ p \in Trashed,
           inFlight \in {p, NoPath},
           jobs' = [jobs EXCEPT ![p] = Settled(p)], Settling(p),
           OnHand' \subseteq OnHand \cup {p}, p \in Trashed => p \notin OnHand',
           WriteWithin'
    PROVE  BudgetInv'
    <1>1. /\ Settled(p) \in Row /\ Settled(p).attempts < MaxAttempts
          /\ Within(Settled(p))
          /\ p \in Trashed => Settled(p).attempts = 0
        BY SettledWithin
    <1>2. inFlight' = NoPath
        BY DEF Settling
    <1> QED BY <1>1, <1>2, QueueAssumption, OneRowBudget

\* mark_failed adds one to what is left of the settled row, and buries it
\* when that reaches the limit.
LEMMA FailBudget ==
    ASSUME TypeOK, BudgetInv, NEW p \in Paths, Queued(p),
           p = inFlight \/ p \in OnHand, inFlight \in {p, NoPath}, FailRead(p),
           OnHand' \subseteq OnHand \ {p}
    PROVE  BudgetInv'
    <1>1. Settled(p).attempts \in Nat /\ Settled(p).attempts < MaxAttempts
        BY SettledWithin
    <1>2. p \notin Trashed
        BY DEF BudgetInv, TrashedApart
    <1>3. WriteWithin'
        BY <1>1, <1>2, QueueAssumption DEF FailRead, WriteWithin
    <1> QED BY <1>3, SettleBudget DEF FailRead

\* defer writes back what is left of the settled row.
LEMMA DeferBudget ==
    ASSUME TypeOK, BudgetInv, NEW p \in Paths, NEW class, Queued(p),
           p = inFlight \/ p \in OnHand \/ p \in Trashed,
           inFlight \in {p, NoPath}, DeferRead(p, class),
           OnHand' \subseteq OnHand \ {p}
    PROVE  BudgetInv'
    <1>1. /\ Settled(p).attempts \in Nat /\ Settled(p).attempts < MaxAttempts
          /\ p \in Trashed => Settled(p).attempts = 0
        BY SettledWithin
    <1>2. WriteWithin'
        BY <1>1, QueueAssumption DEF DeferRead, WriteWithin
    <1> QED BY <1>2, SettleBudget DEF DeferRead

LEMMA DropBudget ==
    ASSUME TypeOK, BudgetInv, NEW p \in Paths, Drop(p), inFlight \in {p, NoPath},
           OnHand' \subseteq OnHand \ {p}, UNCHANGED write
    PROVE  BudgetInv'
    <1>1. NoRow \in Row /\ Within(NoRow) /\ NoRow.attempts = 0
        BY PlainRows, QueueAssumption DEF NoRow, Columns, Within
    <1>2. inFlight' = NoPath /\ jobs' = [jobs EXCEPT ![p] = NoRow]
        BY DEF Drop, Settling
    <1>3. WriteWithin'
        BY DEF BudgetInv, WriteWithin
    <1> QED BY <1>1, <1>2, <1>3, QueueAssumption, OneRowBudget

\* mark_dead_terminal writes one attempt; no trashed message comes this far.
LEMMA TerminalBudget ==
    ASSUME TypeOK, BudgetInv, NEW p \in Paths, Queued(p), DeadTerminal(p),
           p = inFlight \/ p \in OnHand, inFlight \in {p, NoPath},
           OnHand' \subseteq OnHand \ {p}, UNCHANGED write
    PROVE  BudgetInv'
    <1> DEFINE row == Killed(Settled(p), 1, "permanent")
    <1>1. Settled(p) \in Row /\ Settled(p).status = "queued"
        BY SettledWithin
    <1>2. row \in Row
        BY <1>1, RowOperators DEF Reasons, Stages, Classes
    <1>3. row.status = "dead" /\ row.attempts = 1
        BY <1>1 DEF Killed, Columns
    <1>4. Within(row) /\ p \notin Trashed
        BY <1>3, QueueAssumption DEF Within, BudgetInv, TrashedApart
    <1>5. inFlight' = NoPath /\ jobs' = [jobs EXCEPT ![p] = row]
        BY DEF DeadTerminal, Settling
    <1>6. WriteWithin'
        BY DEF BudgetInv, WriteWithin
    <1> HIDE DEF row
    <1> QED BY <1>2, <1>4, <1>5, <1>6, QueueAssumption, OneRowBudget

\* The write, over whatever the row has become.
LEMMA OutcomeBudget ==
    ASSUME TypeOK, HeldInv, BudgetInv, OutcomeWrite
    PROVE  BudgetInv'
    <1> DEFINE p == write.path
               row == IF write.status = "dead"
                      THEN Killed(jobs[p], write.attempts, write.class)
                      ELSE Rewritten(jobs[p], write.attempts, write.stage, write.class)
    <1>1. /\ write \in Outcome /\ p \in Paths /\ write.attempts \in Nat
          /\ write.stage \in Stages /\ write.class \in Classes
          /\ write.status \in {"queued", "dead"}
        BY DEF TypeOK, OutcomeWrite, Outcome, Stages, Classes
    <1>2. row \in Row
        BY <1>1, RowOperators DEF TypeOK, Reasons
    <1>3. Queued(p) /\ p \notin todo \cup passed /\ inFlight = NoPath
        BY DEF HeldInv, OutcomeWrite
    <1>4. row.attempts = write.attempts /\ row.status = write.status
        BY <1>1, <1>3 DEF Killed, Rewritten, Columns, Queued
    <1>5. Within(row) /\ (p \in Trashed => row.attempts = 0)
        BY <1>4 DEF OutcomeWrite, BudgetInv, WriteWithin, Within
    <1>6. /\ jobs' = [jobs EXCEPT ![p] = row] /\ write' = NoWrite
          /\ UNCHANGED <<inFlight, passed, todo, pc>>
        BY DEF OutcomeWrite
    <1>7. OnHand' = OnHand /\ p \notin OnHand' /\ WriteWithin'
        BY <1>3, <1>6 DEF OnHand, WriteWithin
    <1>8. inFlight' # p
        BY <1>1, <1>3, <1>6, QueueAssumption
    <1> HIDE DEF row, p
    <1> QED BY <1>1, <1>2, <1>3, <1>5, <1>6, <1>7, <1>8, OneRowBudget

\* Another writer of the queue resets a row it admits, requeues or deletes.
LEMMA ResetBudget ==
    ASSUME TypeOK, BudgetInv, NEW S \in SUBSET Paths,
           \A p \in S : jobs'[p].attempts = 0,
           \A p \in Paths \ S : jobs'[p] = jobs[p],
           UNCHANGED <<pc, todo, passed, inFlight, write>>
    PROVE  BudgetInv'
    <1>1. \A p \in Paths : Within(jobs'[p])
        BY QueueAssumption DEF BudgetInv, Within
    <1>2. OnHand' = OnHand /\ OnHand \subseteq Paths
        BY DEF OnHand, TypeOK
    <1>3. \A p \in OnHand' \ {inFlight'} : jobs'[p].attempts < MaxAttempts
        BY <1>2, QueueAssumption DEF BudgetInv
    <1>4. \A p \in Trashed : jobs'[p].attempts = 0
        BY QueueAssumption DEF BudgetInv
    <1>5. TrashedApart' /\ WriteWithin'
        BY <1>2 DEF BudgetInv, TrashedApart, WriteWithin
    <1> QED BY <1>1, <1>3, <1>4, <1>5 DEF BudgetInv

LEMMA ResetOneBudget ==
    ASSUME TypeOK, BudgetInv, NEW p \in Paths, jobs'[p].attempts = 0,
           \A q \in Paths \ {p} : jobs'[q] = jobs[q],
           UNCHANGED <<pc, todo, passed, inFlight, write>>
    PROVE  BudgetInv'
    <1>1. {p} \in SUBSET Paths
        OBVIOUS
    <1>2. (\A q \in {p} : jobs'[q].attempts = 0) /\ (\A q \in Paths \ {p} : jobs'[q] = jobs[q])
        OBVIOUS
    <1> QED BY <1>1, <1>2, ResetBudget

\* After a stop the worker holds nothing.
LEMMA StopBudget ==
    ASSUME TypeOK, BudgetInv, Stop
    PROVE  BudgetInv'
    <1>1. UNCHANGED jobs /\ inFlight' = NoPath /\ write' = NoWrite /\ OnHand' = {}
        BY DEF Stop, durable, OnHand
    <1>2. TrashedApart' /\ WriteWithin'
        BY <1>1, QueueAssumption DEF TrashedApart, WriteWithin
    <1> QED BY <1>1, <1>2 DEF BudgetInv

\* The inductive invariant behind WithinBudget.
THEOREM BudgetInvariant == Spec => []BudgetInv
<1>1. Init => BudgetInv
    <2> SUFFICES ASSUME Init PROVE BudgetInv
        OBVIOUS
    <2>1. \A p \in Paths : jobs[p].attempts = 0
        BY DEF Init, Admitted, NoRow, Columns
    <2> QED BY <2>1, QueueAssumption DEF Init, BudgetInv, Within, OnHand, TrashedApart, WriteWithin
<1>2. TypeOK /\ HeldInv /\ BudgetInv /\ [Next]_vars => BudgetInv'
    <2> SUFFICES ASSUME TypeOK, HeldInv, BudgetInv, [Next]_vars PROVE BudgetInv'
        OBVIOUS
    <2> USE DEF Working, Parsing, Handled, HandOn, Goto, OpenBreaker,
            LoopDone, Isolating, Committing, durable, index, environ, history, worker
    <2>1. CASE Claim
        BY <2>1, BudgetStutter DEF OnHand, Claim, HeldInv, Idle
    <2>2. CASE OutcomeWrite
        BY <2>2, OutcomeBudget
    <2>3. CASE CollectBatch
        BY <2>3, BudgetStutter DEF TypeOK, HeldInv, AtEmbed, OnHand, CollectBatch, PausePlace
    <2>4. CASE BulkSucceeds
        BY <2>4, BudgetStutter DEF TypeOK, HeldInv, AtEmbed, OnHand, BulkSucceeds, PausePlace
    <2>5. CASE BulkThrottled
        BY <2>5, BudgetStutter DEF TypeOK, HeldInv, AtEmbed, OnHand, BulkThrottled, PausePlace
    <2>6. CASE BulkFails
        BY <2>6, BudgetStutter DEF TypeOK, HeldInv, AtEmbed, OnHand, BulkFails, PausePlace
    <2>7. CASE ProbeFails
        BY <2>7, BudgetStutter DEF TypeOK, HeldInv, AtEmbed, OnHand, ProbeFails, PausePlace
    <2>8. CASE ProbePasses
        BY <2>8, BudgetStutter DEF TypeOK, HeldInv, AtEmbed, OnHand, ProbePasses, PausePlace
    <2>9. CASE ReprobeFails
        BY <2>9, BudgetStutter DEF TypeOK, HeldInv, AtEmbed, OnHand, ReprobeFails, PausePlace
    <2>10. CASE IsolationDone
        BY <2>10, BudgetStutter DEF TypeOK, HeldInv, AtEmbed, OnHand, IsolationDone, PausePlace
    <2>11. CASE PauseDone
        BY <2>11, BudgetStutter DEF TypeOK, HeldInv, AtEmbed, OnHand, PauseDone, PausePlace
    <2>12. CASE Release
        BY <2>12, BudgetStutter DEF TypeOK, HeldInv, AtEmbed, OnHand, Release, PausePlace
    <2>13. CASE BatchDone
        BY <2>13, BudgetStutter DEF TypeOK, HeldInv, AtEmbed, OnHand, BatchDone, PausePlace
    <2>14. CASE EnterEmbed
        <3>1. /\ pc = "phase2a" /\ inFlight = NoPath /\ passed' = {} /\ OnHand' \subseteq passed
              /\ passed \subseteq OnHand /\ UNCHANGED write
            BY <2>14 DEF EnterEmbed, OnHand
        <3>2. CASE UNCHANGED <<jobs, inFlight>>
            BY <3>1, <3>2, BudgetStutter
        <3>3. ASSUME NEW p \in passed, passed = {p}, Charge(p),
                     Exhausted(jobs[p], MaxAttempts) => todo' = todo
              PROVE  BudgetInv'
            <4>1. p \in Paths /\ Queued(p) /\ p \notin Trashed
                BY <3>1, <3>3 DEF TypeOK, HeldInv, BudgetInv, TrashedApart
            <4>2. Exhausted(jobs[p], MaxAttempts) => OnHand' = {}
                BY <2>14, <3>1, <3>3 DEF OnHand, EnterEmbed
            <4> QED BY <3>1, <3>3, <4>1, <4>2, ChargeBudget
        <3>4. CASE /\ jobs' = [p \in Paths |-> IF p \in passed THEN Interrupted(jobs[p]) ELSE jobs[p]]
                   /\ UNCHANGED inFlight
            <4>1. ASSUME NEW p \in Paths
                  PROVE  jobs'[p].attempts = jobs[p].attempts /\ Within(jobs'[p])
                BY <3>4 DEF BudgetInv, Interrupted, Columns, Within
            <4>2. \A p \in OnHand' \ {inFlight'} : jobs'[p].attempts < MaxAttempts
                BY <3>1, <3>4, <4>1 DEF TypeOK, BudgetInv
            <4>3. \A p \in Trashed : jobs'[p].attempts = 0
                BY <4>1, QueueAssumption DEF BudgetInv
            <4>4. TrashedApart' /\ WriteWithin'
                BY <3>1, <3>4 DEF BudgetInv, TrashedApart, WriteWithin
            <4> QED BY <4>1, <4>2, <4>3, <4>4 DEF BudgetInv
        <3> QED BY <2>14, <3>2, <3>3, <3>4 DEF EnterEmbed
    <2>15. ASSUME NEW p \in Paths, ParkTrashed(p) PROVE BudgetInv'
        <3>1. /\ Queued(p) /\ inFlight = NoPath /\ p \in Trashed
              /\ OnHand' \subseteq OnHand \ {p}
            BY <2>15 DEF HeldInv, OnHand, ParkTrashed
        <3>2. CASE seen[p] = 0
            BY <2>15, <3>1, <3>2, DropBudget DEF ParkTrashed
        <3>3. CASE seen[p] # 0
            BY <2>15, <3>1, <3>3, DeferBudget DEF ParkTrashed
        <3> QED BY <3>2, <3>3
    <2>16. ASSUME NEW p \in Paths, BeginParse(p) PROVE BudgetInv'
        <3>1. Queued(p) /\ p \notin Trashed /\ inFlight = NoPath /\ p \notin OnHand' /\ OnHand' = OnHand
            BY <2>16 DEF HeldInv, OnHand, BeginParse
        <3> QED BY <2>16, <3>1, ChargeBudget DEF BeginParse
    <2>17. ASSUME NEW p \in Paths, ParseMissing(p) PROVE BudgetInv'
        <3>1. Queued(p) /\ inFlight = p /\ OnHand' \subseteq OnHand \ {p}
            BY <2>17, QueueAssumption DEF HeldInv, OnHand, ParseMissing
        <3>2. CASE seen[p] = 0
            BY <2>17, <3>1, <3>2, DropBudget DEF ParseMissing
        <3>3. CASE seen[p] # 0
            BY <2>17, <3>1, <3>3, DeferBudget DEF ParseMissing
        <3> QED BY <3>2, <3>3
    <2>18. ASSUME NEW p \in Paths, ParseTerminal(p) PROVE BudgetInv'
        <3>1. Queued(p) /\ inFlight = p /\ OnHand' \subseteq OnHand \ {p}
            BY <2>18, QueueAssumption DEF HeldInv, AtEmbed, OnHand, ParseTerminal
        <3> QED BY <2>18, <3>1, TerminalBudget DEF ParseTerminal
    <2>19. ASSUME NEW p \in Paths, ParseFails(p) PROVE BudgetInv'
        <3>1. Queued(p) /\ inFlight = p /\ OnHand' \subseteq OnHand \ {p}
            BY <2>19, QueueAssumption DEF HeldInv, AtEmbed, OnHand, ParseFails
        <3> QED BY <2>19, <3>1, FailBudget DEF ParseFails
    <2>20. ASSUME NEW p \in Paths, ParseNotPermitted(p) PROVE BudgetInv'
        <3>1. Queued(p) /\ inFlight = p /\ OnHand' \subseteq OnHand \ {p}
            BY <2>20, QueueAssumption DEF HeldInv, AtEmbed, OnHand, ParseNotPermitted
        <3> QED BY <2>20, <3>1, DeferBudget DEF ParseNotPermitted
    <2>21. ASSUME NEW p \in Paths, UpsertThread(p) PROVE BudgetInv'
        BY <2>21, BudgetStutter DEF OnHand, UpsertThread
    <2>22. ASSUME NEW p \in Paths, EndParse(p) PROVE BudgetInv'
        <3>1. Queued(p) /\ inFlight = p /\ p \notin Trashed /\ OnHand' \subseteq OnHand \cup {p}
            BY <2>22, QueueAssumption DEF HeldInv, OnHand, BudgetInv, TrashedApart, EndParse
        <3>2. WriteWithin'
            BY <2>22 DEF BudgetInv, WriteWithin, EndParse
        <3> QED BY <2>22, <3>1, <3>2, SettleBudget DEF EndParse
    <2>23. ASSUME NEW p \in Paths, BeginCollect(p) PROVE BudgetInv'
        <3>1. /\ Queued(p) /\ p \notin Trashed /\ inFlight = NoPath
              /\ OnHand' \subseteq OnHand \cup {p}
              /\ Exhausted(jobs[p], MaxAttempts) => p \notin OnHand'
            BY <2>23 DEF HeldInv, OnHand, BudgetInv, TrashedApart, BeginCollect
        <3> QED BY <2>23, <3>1, ChargeBudget DEF BeginCollect
    <2>24. ASSUME NEW p \in Paths, EndCollect(p) PROVE BudgetInv'
        <3>1. Queued(p) /\ inFlight = p /\ p \notin Trashed /\ OnHand' \subseteq OnHand \cup {p}
            BY <2>24, QueueAssumption DEF HeldInv, OnHand, BudgetInv, TrashedApart, EndCollect
        <3>2. WriteWithin'
            BY <2>24 DEF BudgetInv, WriteWithin, EndCollect
        <3> QED BY <2>24, <3>1, <3>2, SettleBudget DEF EndCollect
    <2>25. ASSUME NEW p \in Paths, CollectFails(p) PROVE BudgetInv'
        <3>1. Queued(p) /\ inFlight = p /\ OnHand' \subseteq OnHand \ {p}
            BY <2>25, QueueAssumption DEF HeldInv, AtEmbed, OnHand, CollectFails
        <3> QED BY <2>25, <3>1, FailBudget DEF CollectFails
    <2>26. ASSUME NEW p \in Paths, EmbedAlone(p) PROVE BudgetInv'
        BY <2>26, BudgetStutter DEF OnHand, EmbedAlone
    <2>27. ASSUME NEW p \in Paths, EmbedRejected(p) PROVE BudgetInv'
        <3>1. Queued(p) /\ inFlight \in {p, NoPath} /\ p \in OnHand /\ OnHand' \subseteq OnHand \ {p}
            BY <2>27, QueueAssumption DEF HeldInv, AtEmbed, OnHand, EmbedRejected
        <3> QED BY <2>27, <3>1, TerminalBudget DEF EmbedRejected
    <2>28. ASSUME NEW p \in Paths, EmbedUnavailable(p) PROVE BudgetInv'
        BY <2>28, BudgetStutter DEF OnHand, EmbedUnavailable, PausePlace
    <2>29. ASSUME NEW p \in Paths, EmbedUncertain(p) PROVE BudgetInv'
        BY <2>29, BudgetStutter DEF OnHand, EmbedUncertain
    <2>30. ASSUME NEW p \in Paths, ReprobePasses(p) PROVE BudgetInv'
        <3>1. Queued(p) /\ inFlight \in {p, NoPath} /\ p \in OnHand /\ OnHand' \subseteq OnHand \ {p}
            BY <2>30, QueueAssumption DEF HeldInv, AtEmbed, OnHand, ReprobePasses
        <3> QED BY <2>30, <3>1, FailBudget DEF ReprobePasses
    <2>31. ASSUME NEW p \in Paths, DeferPaused(p) PROVE BudgetInv'
        <3>1. Queued(p) /\ inFlight \in {p, NoPath} /\ p \in OnHand /\ OnHand' \subseteq OnHand \ {p}
            BY <2>31, QueueAssumption DEF HeldInv, AtEmbed, OnHand, DeferPaused
        <3> QED BY <2>31, <3>1, DeferBudget DEF DeferPaused
    <2>32. ASSUME NEW p \in Paths, CommitVectors(p) PROVE BudgetInv'
        BY <2>32, BudgetStutter DEF OnHand, CommitVectors
    <2>33. ASSUME NEW p \in Paths, CommitPart(p) PROVE BudgetInv'
        <3> DEFINE row == Rewritten(Settled(p), Settled(p).attempts, "extract", "retryable")
        <3>1. Queued(p) /\ p \in OnHand /\ p \notin Trashed /\ OnHand' \subseteq OnHand \ {p}
              /\ inFlight' = inFlight /\ inFlight \in {p, NoPath}
            BY <2>33 DEF HeldInv, OnHand, BudgetInv, TrashedApart, CommitPart
        <3>2. /\ Settled(p) \in Row /\ Settled(p).attempts \in Nat
              /\ Settled(p).attempts < MaxAttempts /\ Settled(p).status = "queued"
            BY <3>1, SettledWithin
        <3>3. row \in Row
            BY <3>2, RowOperators DEF Reasons, Stages, Classes
        <3>4. Within(row)
            BY <3>2, QueueAssumption DEF Rewritten, Columns, Within
        <3>5. jobs' = [jobs EXCEPT ![p] = row] /\ WriteWithin'
            BY <2>33 DEF CommitPart, BudgetInv, WriteWithin
        <3> HIDE DEF row
        <3> QED BY <3>1, <3>3, <3>4, <3>5, OneRowBudget
    <2>34. ASSUME NEW p \in Paths, CommitFails(p) PROVE BudgetInv'
        <3>1. Queued(p) /\ inFlight \in {p, NoPath} /\ p \in OnHand /\ OnHand' \subseteq OnHand \ {p}
            BY <2>34, QueueAssumption DEF HeldInv, AtEmbed, OnHand, CommitFails
        <3> QED BY <2>34, <3>1, FailBudget DEF CommitFails
    <2>35. ASSUME NEW p \in Paths, MarkSucceeded(p) PROVE BudgetInv'
        <3>1. inFlight \in {p, NoPath} /\ OnHand' \subseteq OnHand \ {p}
            BY <2>35, QueueAssumption DEF TypeOK, HeldInv, OnHand, MarkSucceeded
        <3> QED BY <2>35, <3>1, DropBudget DEF MarkSucceeded
    <2>36. ASSUME NEW p \in Paths, Die(p) PROVE BudgetInv'
        BY <2>36, StopBudget DEF Die
    <2>37. CASE Crash
        BY <2>37, StopBudget DEF Crash
    <2>38. CASE EmbedderBreaks
        BY <2>38, BudgetStutter DEF OnHand, EmbedderBreaks
    <2>39. CASE EmbedderRecovers
        BY <2>39, BudgetStutter DEF OnHand, EmbedderRecovers
    <2>40. CASE Start
        BY <2>40, BudgetStutter DEF HeldInv, OnHand, Start
    <2>41. CASE BreakerElapses
        BY <2>41, BudgetStutter DEF OnHand, BreakerElapses
    <2>42. CASE RequeueDead
        <3>1. PICK S \in SUBSET Paths :
                jobs' = [p \in Paths |-> IF p \in S THEN Requeued(jobs[p]) ELSE jobs[p]]
            BY <2>42 DEF RequeueDead
        <3>2. (\A p \in S : jobs'[p].attempts = 0) /\ (\A p \in Paths \ S : jobs'[p] = jobs[p])
            BY <3>1 DEF Requeued, Columns
        <3> QED BY <2>42, <3>2, ResetBudget DEF RequeueDead
    <2>43. CASE Reparse
        <3>1. PICK S \in SUBSET Paths :
                jobs' = [p \in Paths |-> IF p \in S THEN Admitted("reparse") ELSE jobs[p]]
            BY <2>43 DEF Reparse
        <3>2. (\A p \in S : jobs'[p].attempts = 0) /\ (\A p \in Paths \ S : jobs'[p] = jobs[p])
            BY <3>1 DEF Admitted, Columns
        <3> QED BY <2>43, <3>2, ResetBudget DEF Reparse
    <2>44. ASSUME NEW p \in Paths, Deliver(p) PROVE BudgetInv'
        BY <2>44, BudgetStutter DEF OnHand, Deliver
    <2>45. ASSUME NEW p \in Paths, Vanish(p) PROVE BudgetInv'
        BY <2>45, BudgetStutter DEF OnHand, Vanish
    <2>46. ASSUME NEW p \in Paths, BackoffElapses(p) PROVE BudgetInv'
        BY <2>46, BudgetStutter DEF OnHand, BackoffElapses
    <2>47. ASSUME NEW p \in Paths, WalkQueues(p) PROVE BudgetInv'
        <3>1. jobs'[p].attempts = 0 /\ (\A q \in Paths \ {p} : jobs'[q] = jobs[q])
            BY <2>47 DEF TypeOK, WalkQueues, Admitted, Columns
        <3> QED BY <2>47, <3>1, ResetOneBudget DEF WalkQueues
    <2>48. ASSUME NEW p \in Paths, Reap(p) PROVE BudgetInv'
        <3>1. jobs'[p].attempts = 0 /\ (\A q \in Paths \ {p} : jobs'[q] = jobs[q])
            BY <2>48 DEF TypeOK, Reap, NoRow, Columns
        <3> QED BY <2>48, <3>1, ResetOneBudget DEF Reap
    <2>49. ASSUME NEW p \in Paths, WatcherEnqueues(p) PROVE BudgetInv'
        <3>1. CASE UNCHANGED jobs
            BY <2>49, <3>1, BudgetStutter DEF OnHand, WatcherEnqueues
        <3>2. CASE jobs' = [jobs EXCEPT ![p] = Admitted("foreground")]
            <4>1. jobs'[p].attempts = 0 /\ (\A q \in Paths \ {p} : jobs'[q] = jobs[q])
                BY <3>2 DEF TypeOK, Admitted, Columns
            <4> QED BY <2>49, <4>1, ResetOneBudget DEF WatcherEnqueues
        <3> QED BY <2>49, <3>1, <3>2 DEF WatcherEnqueues
    <2>50. CASE UNCHANGED vars
        BY <2>50, BudgetStutter DEF OnHand, vars
    <2> QED
        BY <2>1, <2>2, <2>3, <2>4, <2>5, <2>6, <2>7, <2>8, <2>9, <2>10,
           <2>11, <2>12, <2>13, <2>14, <2>15, <2>16, <2>17, <2>18,
           <2>19, <2>20, <2>21, <2>22, <2>23, <2>24, <2>25, <2>26,
           <2>27, <2>28, <2>29, <2>30, <2>31, <2>32, <2>33, <2>34,
           <2>35, <2>36, <2>37, <2>38, <2>39, <2>40, <2>41, <2>42,
           <2>43, <2>44, <2>45, <2>46, <2>47, <2>48, <2>49, <2>50
           DEF Next, Drain, Environment
<1> QED BY TypeCorrect, HeldInvariant, <1>1, <1>2, PTL DEF Spec

\* WithinBudget: no row is ever charged past MaxAttempts, whatever crashes,
\* outages and admissions come between its steps.
THEOREM Budget == Spec => []WithinBudget
<1>1. BudgetInv => WithinBudget
    BY DEF BudgetInv, Within, WithinBudget
<1> QED BY BudgetInvariant, <1>1, PTL

----------------------------------------------------------------------------
(***************************************************************************)
(* RestartCostsOne.  The attempts charged to innocent messages are counted *)
(* by giving each its own event: an injection into 1..events.  It is not   *)
(* inductive by itself: an outage is an event long before the message that *)
(* was being probed is charged for it, so a running outage, or a probe of  *)
(* an innocent message that an outage has caused, holds one event back.    *)
(***************************************************************************)

\* The event an outage holds back for the message it may yet charge.
Reprobing == pc = "reprobe" /\ stored \in Innocents
Credit == IF embedder # "up" \/ Reprobing THEN {<<NoPath, 0>>} ELSE {}

CostInv == ExistsInjection(InnocentCharges \cup Credit, 1..events)

LEMMA FitSubset ==
    ASSUME NEW S, NEW T \in SUBSET S, NEW n, ExistsInjection(S, 1..n)
    PROVE  ExistsInjection(T, 1..n)
    <1>1. PICK f \in [S -> 1..n] : \A x, y \in S : f[x] = f[y] => x = y
        BY DEF ExistsInjection, Injection, IsInjective
    <1> DEFINE g == [x \in T |-> f[x]]
    <1>2. g \in Injection(T, 1..n)
        BY <1>1 DEF Injection, IsInjective
    <1> QED BY <1>2 DEF ExistsInjection

LEMMA FitOneMore ==
    ASSUME NEW S, NEW x, NEW n \in Nat, ExistsInjection(S, 1..n)
    PROVE  ExistsInjection(S \cup {x}, 1..(n + 1))
    <1>1. PICK f \in [S -> 1..n] : \A y, z \in S : f[y] = f[z] => y = z
        BY DEF ExistsInjection, Injection, IsInjective
    <1> DEFINE g == [y \in S \cup {x} |-> IF y \in S THEN f[y] ELSE n + 1]
    <1>2. \A y \in S : f[y] \in 1..(n + 1) /\ f[y] # n + 1
        BY <1>1
    <1>3. g \in [S \cup {x} -> 1..(n + 1)]
        BY <1>2
    <1>4. \A y, z \in S \cup {x} : g[y] = g[z] => y = z
        BY <1>1, <1>2
    <1>5. g \in Injection(S \cup {x}, 1..(n + 1))
        BY <1>3, <1>4 DEF Injection, IsInjective
    <1> QED BY <1>5 DEF ExistsInjection

LEMMA FitInstead ==
    ASSUME NEW S, NEW c \in S, NEW x, NEW n \in Nat, ExistsInjection(S, 1..n)
    PROVE  ExistsInjection((S \ {c}) \cup {x}, 1..n)
    <1>1. PICK f \in [S -> 1..n] : \A y, z \in S : f[y] = f[z] => y = z
        BY DEF ExistsInjection, Injection, IsInjective
    <1> DEFINE U == (S \ {c}) \cup {x}
               g == [y \in U |-> IF y \in S \ {c} THEN f[y] ELSE f[c]]
    <1>2. g \in [U -> 1..n]
        BY <1>1
    <1>3. \A y, z \in U : g[y] = g[z] => y = z
        BY <1>1
    <1>4. g \in Injection(U, 1..n)
        BY <1>2, <1>3 DEF Injection, IsInjective
    <1> QED BY <1>4 DEF ExistsInjection

\* A failure of p adds one charge, and none when p is not innocent.
LEMMA OneCharge ==
    ASSUME TypeOK, NEW p \in Paths, faults' = [faults EXCEPT ![p] = @ + 1]
    PROVE  /\ InnocentCharges' \subseteq InnocentCharges \cup {<<p, faults[p] + 1>>}
           /\ p \notin Innocents => InnocentCharges' = InnocentCharges
    <1>1. \A q \in Innocents : faults[q] \in Nat /\ q \in Paths
        BY DEF TypeOK, Innocents
    <1>2. \A q \in Innocents : q # p => faults'[q] = faults[q]
        BY <1>1 DEF TypeOK
    <1>3. p \in Innocents => \A n \in 1..faults'[p] : n \in 1..faults[p] \/ n = faults[p] + 1
        BY <1>1 DEF TypeOK
    <1> QED BY <1>2, <1>3 DEF InnocentCharges, Innocents

\* A step that charges no innocent message and holds back no new event.
LEMMA CostStutter ==
    ASSUME CostInv, InnocentCharges' = InnocentCharges, UNCHANGED events,
           embedder' # "up" \/ Reprobing' => embedder # "up" \/ Reprobing
    PROVE  CostInv'
    <1>1. (InnocentCharges \cup Credit)' \subseteq InnocentCharges \cup Credit
        BY DEF Credit
    <1> QED BY <1>1, FitSubset DEF CostInv

\* An event of the world pays for one charge, or for the outage it starts.
LEMMA CostEvent ==
    ASSUME TypeOK, CostInv, events' = events + 1, NEW x,
           (InnocentCharges \cup Credit)' \subseteq InnocentCharges \cup Credit \cup {x}
    PROVE  CostInv'
    <1>1. events \in Nat
        BY QueueAssumption DEF TypeOK
    <1>2. ExistsInjection(InnocentCharges \cup Credit \cup {x}, 1..events')
        BY <1>1, FitOneMore DEF CostInv
    <1> QED BY <1>2, FitSubset DEF CostInv

LEMMA SameCharges ==
    ASSUME UNCHANGED faults
    PROVE  InnocentCharges' = InnocentCharges
    BY DEF InnocentCharges, Innocents

\* The inductive invariant behind RestartCostsOne.
THEOREM CostInvariant == Spec => []CostInv
<1>1. Init => CostInv
    <2> SUFFICES ASSUME Init PROVE CostInv
        OBVIOUS
    <2>1. InnocentCharges \cup Credit = {}
        BY DEF Init, InnocentCharges, Innocents, Credit, Reprobing
    <2>2. [x \in {} |-> 1] \in Injection({}, 1..events)
        BY DEF Injection, IsInjective
    <2> QED BY <2>1, <2>2 DEF CostInv, ExistsInjection
<1>2. TypeOK /\ HeldInv /\ CostInv /\ [Next]_vars => CostInv'
    <2> SUFFICES ASSUME TypeOK, HeldInv, CostInv, [Next]_vars PROVE CostInv'
        OBVIOUS
    <2> USE DEF Working, Parsing, Handled, HandOn, Goto, OpenBreaker,
            LoopDone, Isolating, Committing, durable, index, environ, history, worker
    <2>1. CASE Claim
        BY <2>1, SameCharges, CostStutter DEF Reprobing, Claim, Idle
    <2>2. CASE OutcomeWrite
        BY <2>2, SameCharges, CostStutter DEF Reprobing, OutcomeWrite
    <2>3. CASE CollectBatch
        BY <2>3, SameCharges, CostStutter DEF Reprobing, CollectBatch
    <2>4. CASE BulkSucceeds
        BY <2>4, SameCharges, CostStutter DEF Reprobing, BulkSucceeds
    <2>5. CASE BulkThrottled
        BY <2>5, SameCharges, CostStutter DEF Reprobing, BulkThrottled
    <2>6. CASE BulkFails
        BY <2>6, SameCharges, CostStutter DEF Reprobing, BulkFails
    <2>7. CASE ProbeFails
        BY <2>7, SameCharges, CostStutter DEF Reprobing, ProbeFails, PausePlace
    <2>8. CASE ProbePasses
        BY <2>8, SameCharges, CostStutter DEF Reprobing, ProbePasses
    <2>9. CASE ReprobeFails
        BY <2>9, SameCharges, CostStutter DEF Reprobing, ReprobeFails, PausePlace
    <2>10. CASE IsolationDone
        BY <2>10, SameCharges, CostStutter DEF Reprobing, IsolationDone
    <2>11. CASE PauseDone
        BY <2>11, SameCharges, CostStutter DEF Reprobing, PauseDone
    <2>12. CASE Release
        BY <2>12, SameCharges, CostStutter DEF Reprobing, Release
    <2>13. CASE BatchDone
        BY <2>13, SameCharges, CostStutter DEF Reprobing, BatchDone
    <2>14. CASE EnterEmbed
        BY <2>14, SameCharges, CostStutter DEF Reprobing, EnterEmbed
    <2>15. ASSUME NEW p \in Paths, ParkTrashed(p) PROVE CostInv'
        BY <2>15, SameCharges, CostStutter DEF Reprobing, ParkTrashed
    <2>16. ASSUME NEW p \in Paths, BeginParse(p) PROVE CostInv'
        BY <2>16, SameCharges, CostStutter DEF Reprobing, BeginParse
    <2>17. ASSUME NEW p \in Paths, ParseMissing(p) PROVE CostInv'
        BY <2>17, SameCharges, CostStutter DEF Reprobing, ParseMissing
    <2>18. ASSUME NEW p \in Paths, ParseTerminal(p) PROVE CostInv'
        <3>1. /\ p \notin Innocents /\ faults' = [faults EXCEPT ![p] = @ + 1]
              /\ ~Reprobing' /\ UNCHANGED <<embedder, events>>
            BY <2>18 DEF Innocents, DeadTerminal, Blame, Reprobing, ParseTerminal
        <3> QED BY <3>1, OneCharge, CostStutter
    <2>19. ASSUME NEW p \in Paths, ParseFails(p) PROVE CostInv'
        <3>1. /\ p \notin Innocents /\ faults' = [faults EXCEPT ![p] = @ + 1]
              /\ ~Reprobing' /\ UNCHANGED <<embedder, events>>
            BY <2>19 DEF Innocents, FailRead, Blame, Reprobing, ParseFails
        <3> QED BY <3>1, OneCharge, CostStutter
    <2>20. ASSUME NEW p \in Paths, ParseNotPermitted(p) PROVE CostInv'
        BY <2>20, SameCharges, CostStutter DEF Reprobing, ParseNotPermitted
    <2>21. ASSUME NEW p \in Paths, UpsertThread(p) PROVE CostInv'
        BY <2>21, SameCharges, CostStutter DEF Reprobing, UpsertThread
    <2>22. ASSUME NEW p \in Paths, EndParse(p) PROVE CostInv'
        BY <2>22, SameCharges, CostStutter DEF Reprobing, EndParse
    <2>23. ASSUME NEW p \in Paths, BeginCollect(p) PROVE CostInv'
        BY <2>23, SameCharges, CostStutter DEF Reprobing, BeginCollect
    <2>24. ASSUME NEW p \in Paths, EndCollect(p) PROVE CostInv'
        BY <2>24, SameCharges, CostStutter DEF Reprobing, EndCollect
    <2>25. ASSUME NEW p \in Paths, CollectFails(p) PROVE CostInv'
        <3>1. /\ p \notin Innocents /\ faults' = [faults EXCEPT ![p] = @ + 1]
              /\ ~Reprobing' /\ UNCHANGED <<embedder, events>>
            BY <2>25 DEF Innocents, FailRead, Blame, Reprobing, CollectFails
        <3> QED BY <3>1, OneCharge, CostStutter
    <2>26. ASSUME NEW p \in Paths, EmbedAlone(p) PROVE CostInv'
        BY <2>26, SameCharges, CostStutter DEF Reprobing, EmbedAlone
    <2>27. ASSUME NEW p \in Paths, EmbedRejected(p) PROVE CostInv'
        <3>1. /\ p \notin Innocents /\ faults' = [faults EXCEPT ![p] = @ + 1]
              /\ ~Reprobing' /\ UNCHANGED <<embedder, events>>
            BY <2>27 DEF Innocents, DeadTerminal, Blame, Reprobing, EmbedRejected
        <3> QED BY <3>1, OneCharge, CostStutter
    <2>28. ASSUME NEW p \in Paths, EmbedUnavailable(p) PROVE CostInv'
        BY <2>28, SameCharges, CostStutter DEF Reprobing, EmbedUnavailable, PausePlace
    <2>29. ASSUME NEW p \in Paths, EmbedUncertain(p) PROVE CostInv'
        <3>1. Reprobing' => embedder # "up"
            BY <2>29 DEF EmbedUncertain, Reprobing, Innocents
        <3> QED BY <2>29, <3>1, SameCharges, CostStutter DEF EmbedUncertain
    <2>30. ASSUME NEW p \in Paths, ReprobePasses(p) PROVE CostInv'
        <3>1. /\ pc = "reprobe" /\ stored = p /\ embedder = "up"
              /\ faults' = [faults EXCEPT ![p] = @ + 1]
              /\ ~Reprobing' /\ UNCHANGED <<embedder, events>>
            BY <2>30 DEF ReprobePasses, FailRead, Blame, Reprobing
        <3>2. CASE p \notin Innocents
            BY <3>1, <3>2, OneCharge, CostStutter
        <3>3. CASE p \in Innocents
            <4> DEFINE held == <<NoPath, 0>>
                       all == InnocentCharges \cup Credit
                       new == <<p, faults[p] + 1>>
            <4>1. held \in all /\ held \notin InnocentCharges /\ Credit' = {}
                BY <3>1, <3>3, QueueAssumption DEF Credit, Reprobing, InnocentCharges, Innocents
            <4>2. (InnocentCharges \cup Credit)' \subseteq (all \ {held}) \cup {new}
                BY <3>1, <4>1, OneCharge
            <4>3. events \in Nat /\ ExistsInjection(all, 1..events)
                BY QueueAssumption DEF TypeOK, CostInv
            <4>4. ExistsInjection((all \ {held}) \cup {new}, 1..events)
                <5> HIDE DEF all, held, new
                <5> QED BY <4>1, <4>3, FitInstead
            <4>5. ExistsInjection((InnocentCharges \cup Credit)', 1..events)
                <5> HIDE DEF all, held, new
                <5> QED BY <4>2, <4>4, FitSubset
            <4> QED BY <3>1, <4>5 DEF CostInv
        <3> QED BY <3>2, <3>3
    <2>31. ASSUME NEW p \in Paths, DeferPaused(p) PROVE CostInv'
        BY <2>31, SameCharges, CostStutter DEF Reprobing, DeferPaused
    <2>32. ASSUME NEW p \in Paths, CommitVectors(p) PROVE CostInv'
        BY <2>32, SameCharges, CostStutter DEF Reprobing, CommitVectors
    <2>33. ASSUME NEW p \in Paths, CommitPart(p) PROVE CostInv'
        BY <2>33, SameCharges, CostStutter DEF Reprobing, CommitPart
    <2>34. ASSUME NEW p \in Paths, CommitFails(p) PROVE CostInv'
        <3>1. /\ p \notin Innocents /\ faults' = [faults EXCEPT ![p] = @ + 1]
              /\ ~Reprobing' /\ UNCHANGED <<embedder, events>>
            BY <2>34 DEF Innocents, FailRead, Blame, Reprobing, CommitFails
        <3> QED BY <3>1, OneCharge, CostStutter
    <2>35. ASSUME NEW p \in Paths, MarkSucceeded(p) PROVE CostInv'
        BY <2>35, SameCharges, CostStutter DEF Reprobing, MarkSucceeded
    <2>36. ASSUME NEW p \in Paths, Die(p) PROVE CostInv'
        <3>1. Stop /\ UNCHANGED events /\ ~Reprobing'
            BY <2>36 DEF Die, Stop, Reprobing
        <3>2. inFlight \in Paths => inFlight = p
            BY <2>36, QueueAssumption DEF Die, HeldInv, AtEmbed
        <3>3. p \notin Innocents
            BY <2>36, QueueAssumption DEF Die, Innocents, Steps
        <3>4. InnocentCharges' = InnocentCharges
            BY <3>1, <3>2, <3>3, SameCharges, OneCharge DEF Stop
        <3> QED BY <3>1, <3>4, CostStutter DEF Stop
    <2>37. CASE Crash
        <3>1. Stop /\ events' = events + 1 /\ UNCHANGED embedder
            BY <2>37 DEF Crash, Happens, Stop
        <3>2. PICK x : InnocentCharges' \subseteq InnocentCharges \cup {x}
            BY <3>1, SameCharges, OneCharge DEF Stop
        <3>3. Credit' \subseteq Credit
            BY <3>1 DEF Credit, Reprobing, Stop
        <3> QED BY <3>1, <3>2, <3>3, CostEvent
    <2>38. CASE EmbedderBreaks
        <3>1. InnocentCharges' = InnocentCharges /\ events' = events + 1
            BY <2>38, SameCharges DEF EmbedderBreaks, Happens
        <3>2. (InnocentCharges \cup Credit)' \subseteq InnocentCharges \cup Credit \cup {<<NoPath, 0>>}
            BY <3>1 DEF Credit
        <3> QED BY <3>1, <3>2, CostEvent
    <2>39. CASE EmbedderRecovers
        BY <2>39, SameCharges, CostStutter DEF Reprobing, EmbedderRecovers
    <2>40. CASE Start
        BY <2>40, SameCharges, CostStutter DEF Reprobing, Start
    <2>41. CASE BreakerElapses
        BY <2>41, SameCharges, CostStutter DEF Reprobing, BreakerElapses
    <2>42. CASE RequeueDead
        <3>1. /\ InnocentCharges' = InnocentCharges /\ Credit' = Credit
              /\ events' = events + 1
            BY <2>42, SameCharges DEF RequeueDead, Happens, Credit, Reprobing, Innocents
        <3> QED BY <3>1, CostEvent
    <2>43. CASE Reparse
        <3>1. /\ InnocentCharges' = InnocentCharges /\ Credit' = Credit
              /\ events' = events + 1
            BY <2>43, SameCharges DEF Reparse, Happens, Credit, Reprobing, Innocents
        <3> QED BY <3>1, CostEvent
    <2>44. ASSUME NEW p \in Paths, Deliver(p) PROVE CostInv'
        <3>1. /\ InnocentCharges' = InnocentCharges /\ Credit' = Credit
              /\ events' = events + 1
            BY <2>44, SameCharges DEF Deliver, Happens, Credit, Reprobing, Innocents
        <3> QED BY <3>1, CostEvent
    <2>45. ASSUME NEW p \in Paths, Vanish(p) PROVE CostInv'
        <3>1. /\ InnocentCharges' = InnocentCharges /\ Credit' = Credit
              /\ events' = events + 1
            BY <2>45, SameCharges DEF Vanish, Happens, Credit, Reprobing, Innocents
        <3> QED BY <3>1, CostEvent
    <2>46. ASSUME NEW p \in Paths, BackoffElapses(p) PROVE CostInv'
        BY <2>46, SameCharges, CostStutter DEF Reprobing, BackoffElapses
    <2>47. ASSUME NEW p \in Paths, WalkQueues(p) PROVE CostInv'
        BY <2>47, SameCharges, CostStutter DEF Reprobing, WalkQueues
    <2>48. ASSUME NEW p \in Paths, Reap(p) PROVE CostInv'
        BY <2>48, SameCharges, CostStutter DEF Reprobing, Reap
    <2>49. ASSUME NEW p \in Paths, WatcherEnqueues(p) PROVE CostInv'
        BY <2>49, SameCharges, CostStutter DEF Reprobing, WatcherEnqueues
    <2>50. CASE UNCHANGED vars
        BY <2>50, SameCharges, CostStutter DEF Reprobing, vars
    <2> QED
        BY <2>1, <2>2, <2>3, <2>4, <2>5, <2>6, <2>7, <2>8, <2>9, <2>10,
           <2>11, <2>12, <2>13, <2>14, <2>15, <2>16, <2>17, <2>18,
           <2>19, <2>20, <2>21, <2>22, <2>23, <2>24, <2>25, <2>26,
           <2>27, <2>28, <2>29, <2>30, <2>31, <2>32, <2>33, <2>34,
           <2>35, <2>36, <2>37, <2>38, <2>39, <2>40, <2>41, <2>42,
           <2>43, <2>44, <2>45, <2>46, <2>47, <2>48, <2>49, <2>50
           DEF Next, Drain, Environment
<1> QED BY TypeCorrect, HeldInvariant, <1>1, <1>2, PTL DEF Spec

\* RestartCostsOne: however many messages there are, the innocent ones together
\* are charged at most one attempt for each event of the outside world.
THEOREM CostsOne == Spec => []RestartCostsOne
<1>1. TypeOK /\ CostInv => RestartCostsOne
    <2> SUFFICES ASSUME TypeOK, CostInv PROVE Cardinality(InnocentCharges) <= events
        BY DEF RestartCostsOne
    <2>1. ExistsInjection(InnocentCharges, 1..events)
        BY FitSubset DEF CostInv
    <2>2. PICK f : f \in Injection(InnocentCharges, 1..events)
        BY <2>1 DEF ExistsInjection
    <2>3. events \in Nat
        BY QueueAssumption DEF TypeOK
    <2>4. IsFiniteSet(1..events) /\ Cardinality(1..events) = events
        BY <2>3, FS_Interval
    <2> QED BY <2>2, <2>4, FS_Injection
<1> QED BY TypeCorrect, CostInvariant, <1>1, PTL
=============================================================================
