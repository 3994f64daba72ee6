--------------------------- MODULE IndexingQueue ---------------------------
(***************************************************************************)
(* The indexer's durable queue and the single worker that drains it in     *)
(* batches (indexer/src/queue.py, indexer/src/main.py                      *)
(* _drain_queue_batched), with the three other writers of the queue: the   *)
(* watchdog thread, the operator's processes and, between two batches, the *)
(* Maildir walk.  A crash may come between any two steps.                  *)
(*                                                                         *)
(* Every SQL statement runs under the connection lock, so it is one step.  *)
(* mark_failed and defer read the row in one statement and write it in     *)
(* another: they are two steps, and "write" holds the outcome in between.  *)
(***************************************************************************)
EXTENDS JobRow, FiniteSets, SequencesExt

CONSTANTS
    Paths,          \* file paths under the Maildir
    NoPath,         \* None
    MaxAttempts,    \* INDEXER_MAX_ATTEMPTS
    BatchSize,      \* the drain's batch_size
    Trashed,        \* T-flagged names; empty in archive mode
    Terminal,       \* oversized, too deeply nested, or without a Message-ID
    Flaky,          \* a step on it may raise an ordinary exception
    Killers,        \* [Paths -> step that kills the process, or "never"]
    Rejected,       \* its text is refused by the provider (400, 413, 422)
    Uncertain,      \* its text makes the provider answer 5xx
    Textless,       \* nothing new to embed
    Long,           \* its attachments need a second extraction pass
    Faults,         \* the ways the embedder may fail in this instance
    Initial,        \* paths on disk and indexed before the first start
    Leftover,       \* paths on disk and queued by an earlier run, e.g. in archive mode
    Events,         \* what the outside world does in this instance
    MaxVersion,     \* bound: contents a path may have
    MaxEvents       \* bound: how often it does any of Events

Steps == {"phase1", "phase2a", "embed"}
Outages == {"unreachable", "failing", "throttling", "misconfigured"}

ASSUME QueueAssumption ==
    /\ NoPath \notin Paths
    /\ MaxAttempts \in Nat \ {0}
    /\ BatchSize \in Nat \ {0}
    /\ MaxVersion \in Nat \ {0}
    /\ MaxEvents \in Nat
    /\ Trashed \subseteq Paths /\ Initial \subseteq Paths /\ Leftover \subseteq Paths
    /\ Killers \in [Paths -> Steps \cup {"never"}]
    /\ Faults \subseteq Outages
    /\ Events \subseteq {"crash", "outage", "deliver", "vanish", "requeue", "reparse"}

VARIABLES
    jobs,       \* durable: indexing_jobs, one Row per path
    dueq,       \* durable: the due queued paths, by next_attempt_at
    seen,       \* durable: version in indexed_files (Phase 1), 0 for none
    chunked,    \* durable: version whose Phase 2c is complete, 0 for none
    pc,         \* worker: where the drain is
    todo,       \* worker: rows the current loop has still to handle
    passed,     \* worker: rows the current loop handed on
    inFlight,   \* worker: the charged message (_in_flight), or NoPath
    stored,     \* worker: the message written but not yet settled, or NoPath
    ver,        \* worker: the version the running parse read
    resume,     \* worker: claimed rows that are extraction continuations
    write,      \* worker: the outcome mark_failed or defer is about to write
    paused,     \* worker: the embed outage breaker is open
    turn,       \* worker: _reparse_turn
    disk,       \* environment: version of each file on disk, 0 for none
    event,      \* environment: paths with a watchdog event not yet handled
    embedder,   \* environment: "up" or one of Faults
    events,     \* environment: events used so far, bounded by MaxEvents
    faults,     \* history: failures of each path itself, and crashes in its step
    tried       \* history: a pass began since the row was last admitted

durable == <<jobs, dueq, seen, chunked>>
index   == <<seen, chunked>>
worker  == <<pc, todo, passed, inFlight, stored, ver, resume, write, paused, turn>>
environ == <<disk, event, embedder, events>>
history == <<faults, tried>>
vars    == <<durable, worker, environ, history>>

NoWrite == [path |-> NoPath, status |-> "none", attempts |-> 0,
            stage |-> "none", class |-> "none"]
Versions == 0..MaxVersion
Fresh(p) == disk[p] # 0 /\ seen[p] = disk[p]
Queued(p) == jobs[p].status = "queued"
Idle == pc = "idle"
----------------------------------------------------------------------------
(* Claiming: queue_fetch_due_batch and claim_batch.                        *)

Before(p, q) == \E i, j \in DOMAIN dueq : i < j /\ dueq[i] = p /\ dueq[j] = q
Leading(S, n) == {p \in S : Cardinality({q \in S : Before(q, p)}) < n}

Due(reasons) ==
    {p \in Paths : Contains(dueq, p) /\ Queued(p) /\ jobs[p].reason \in reasons}
ReparseRows == Leading(Due({"reparse"}), BatchSize)
Reserved ==
    IF (BatchSize > 1 \/ turn) /\ ReparseRows # {} THEN 1 ELSE 0
ForegroundRows == Leading(Due({"foreground"}), BatchSize - Reserved)
ClaimedRows ==
    ForegroundRows \cup Leading(ReparseRows, BatchSize - Cardinality(ForegroundRows))

\* A batch of several rows with an interrupted one shrinks to the first of
\* them, in the order the rows came: foreground rows, then reparse rows.
RunAlone ==
    LET marked == {p \in ClaimedRows : jobs[p].stage = "interrupted"}
        live   == marked \cap ForegroundRows
    IN  Leading(IF live # {} THEN live ELSE marked, 1)

\* A slip: a marked row runs with its batchmates.
NeverAlone == ClaimedRows

BatchRows ==
    IF Cardinality(ClaimedRows) > 1 /\ RunAlone # {} THEN RunAlone ELSE ClaimedRows

Claim ==
    /\ Idle /\ ~paused
    /\ ClaimedRows # {}
    /\ pc' = "phase1"
    /\ todo' = BatchRows
    /\ passed' = {}
    /\ resume' = {p \in BatchRows : jobs[p].stage = "extract"}
    /\ turn' = IF BatchSize = 1 THEN ForegroundRows # {} ELSE turn
    /\ UNCHANGED <<inFlight, stored, ver, write, paused>>
    /\ UNCHANGED <<durable, environ, history>>
----------------------------------------------------------------------------
(* The queue's outcome methods, as the worker's steps use them.            *)

NotDue(p) == dueq' = Remove(dueq, p)
NowDue(p) == dueq' = Append(Remove(dueq, p), p)

Blame(p) == faults' = [faults EXCEPT ![p] = @ + 1]

\* A slip: the outcome forgets the refund.
Unsettled(p) == jobs[p]

\* The row once _settle refunded an open charge on it.
Settled(p) == IF inFlight = p THEN Refunded(jobs[p]) ELSE jobs[p]
Settling(p) == inFlight' = IF inFlight = p THEN NoPath ELSE inFlight

\* begin_attempt; the caller says what it does with the message.
Charge(p) ==
    IF Exhausted(jobs[p], MaxAttempts)
    THEN /\ jobs' = [jobs EXCEPT ![p] = ExhaustedRow(@)]
         /\ NotDue(p)
         /\ UNCHANGED inFlight
    ELSE /\ jobs' = [jobs EXCEPT ![p] = Charged(@)]
         /\ inFlight' = p
         /\ UNCHANGED dueq

\* mark_failed up to its write: settle, read the attempts, decide.
FailRead(p) ==
    LET row == Settled(p)
        n   == row.attempts + 1
    IN  /\ jobs' = [jobs EXCEPT ![p] = row]
        /\ Settling(p)
        /\ write' = IF row.status = "none" THEN NoWrite
                    ELSE [path |-> p, attempts |-> n, stage |-> "failed",
                          class |-> "retryable",
                          status |-> IF n >= MaxAttempts THEN "dead" ELSE "queued"]
        /\ Blame(p)

\* defer up to its write: settle and read the attempts.
DeferRead(p, class) ==
    LET row == Settled(p)
    IN  /\ jobs' = [jobs EXCEPT ![p] = row]
        /\ Settling(p)
        /\ write' = IF row.status = "none" THEN NoWrite
                    ELSE [path |-> p, attempts |-> row.attempts,
                          stage |-> "deferred", class |-> class,
                          status |-> "queued"]

\* The write of mark_failed or defer, whatever the row has become meanwhile;
\* a later due time takes the row out of the due ones.
OutcomeWrite ==
    /\ write # NoWrite
    /\ LET p == write.path
       IN  /\ jobs' = [jobs EXCEPT ![p] =
                         IF write.status = "dead"
                         THEN Killed(@, write.attempts, write.class)
                         ELSE Rewritten(@, write.attempts, write.stage, write.class)]
           /\ NotDue(p)
    /\ write' = NoWrite
    /\ UNCHANGED <<index, pc, todo, passed, inFlight, stored, ver, resume, paused, turn>>
    /\ UNCHANGED <<environ, history>>

\* mark_dead_terminal.
DeadTerminal(p) ==
    /\ jobs' = [jobs EXCEPT ![p] = Killed(Settled(p), 1, "permanent")]
    /\ Settling(p)
    /\ NotDue(p)
    /\ Blame(p)

\* mark_succeeded and mark_skipped.
Drop(p) ==
    /\ jobs' = [jobs EXCEPT ![p] = NoRow]
    /\ Settling(p)
    /\ NotDue(p)

Working(step) == pc = step /\ write = NoWrite
Handled(p) == todo' = todo \ {p}
HandOn(p) == Handled(p) /\ passed' = passed \cup {p}
----------------------------------------------------------------------------
(* Phase 1: parse, thread, commit the thread (_phase1_commit_thread).      *)

\* skip_trashed, before any charge: the job of an indexed message is parked,
\* that of one never indexed dropped.
ParkTrashed(p) ==
    /\ Working("phase1") /\ inFlight = NoPath
    /\ p \in todo \cap Trashed
    /\ Handled(p)
    /\ IF seen[p] = 0
       THEN Drop(p) /\ UNCHANGED write
       ELSE DeferRead(p, "retryable") /\ UNCHANGED dueq
    /\ UNCHANGED <<index, pc, passed, stored, ver, resume, paused, turn>>
    /\ UNCHANGED <<environ, history>>

\* begin_attempt before the parse; the parse then reads the file.
BeginParse(p) ==
    /\ Working("phase1") /\ inFlight = NoPath
    /\ p \in todo \ Trashed
    /\ Charge(p)
    /\ IF Exhausted(jobs[p], MaxAttempts)
       THEN Handled(p) /\ UNCHANGED ver
       ELSE ver' = disk[p] /\ UNCHANGED todo
    /\ tried' = [tried EXCEPT ![p] = TRUE]
    /\ UNCHANGED <<index, pc, passed, stored, resume, write, paused, turn>>
    /\ UNCHANGED <<environ, faults>>

Parsing(p) == Working("phase1") /\ inFlight = p /\ stored = NoPath

\* A slip: a file that is gone drops its job, whatever the index still owes.
ParseMissingDrops(p) ==
    /\ Parsing(p) /\ ver = 0
    /\ Handled(p)
    /\ Drop(p)
    /\ UNCHANGED <<index, pc, passed, stored, ver, resume, write, paused, turn>>
    /\ UNCHANGED <<environ, history>>

\* FileNotFoundError: a job still owed to the index is kept (retain_or_
\* retarget_missing_job, without a live copy to take it), any other dropped.
ParseMissing(p) ==
    /\ Parsing(p) /\ ver = 0
    /\ Handled(p)
    /\ IF seen[p] = 0
       THEN Drop(p) /\ UNCHANGED write
       ELSE DeferRead(p, "retryable") /\ UNCHANGED dueq
    /\ UNCHANGED <<index, pc, passed, stored, ver, resume, paused, turn>>
    /\ UNCHANGED <<environ, history>>

ParseTerminal(p) ==
    /\ Parsing(p) /\ ver # 0 /\ p \in Terminal
    /\ Handled(p)
    /\ DeadTerminal(p)
    /\ UNCHANGED <<index, pc, passed, stored, ver, resume, write, paused, turn>>
    /\ UNCHANGED <<environ, tried>>

\* An exception of parse, thread or commit, or a permission error past its
\* deferral window.
ParseFails(p) ==
    /\ Parsing(p) /\ ver # 0 /\ p \in Flaky
    /\ Handled(p)
    /\ FailRead(p)
    /\ UNCHANGED <<dueq, index, pc, passed, stored, ver, resume, paused, turn>>
    /\ UNCHANGED <<environ, tried>>

\* PermissionError while mbsync has not opened the file yet.
ParseNotPermitted(p) ==
    /\ Parsing(p) /\ ver # 0 /\ p \in Flaky
    /\ Handled(p)
    /\ DeferRead(p, "retryable")
    /\ UNCHANGED <<dueq, index, pc, passed, stored, ver, resume, paused, turn>>
    /\ UNCHANGED <<environ, history>>

\* upsert_thread commits the thread and the indexed_files row.
UpsertThread(p) ==
    /\ Parsing(p) /\ ver # 0 /\ p \notin Terminal /\ Killers[p] # "phase1"
    /\ seen' = [seen EXCEPT ![p] = ver]
    /\ stored' = p
    /\ UNCHANGED <<jobs, dueq, chunked, pc, todo, passed, inFlight, ver, resume, write, paused, turn>>
    /\ UNCHANGED <<environ, history>>

\* end_attempt: the step returned.
EndParse(p) ==
    /\ Working("phase1") /\ stored = p
    /\ jobs' = [jobs EXCEPT ![p] = Settled(p)]
    /\ Settling(p)
    /\ HandOn(p)
    /\ stored' = NoPath
    /\ UNCHANGED <<dueq, index, pc, ver, resume, write, paused, turn>>
    /\ UNCHANGED <<environ, history>>
----------------------------------------------------------------------------
(* Phase 2a: extract and chunk (_phase2a_collect_chunks).                  *)

LoopDone(step) == Working(step) /\ todo = {} /\ inFlight = NoPath

CollectBatch ==
    /\ LoopDone("phase1")
    /\ pc' = IF passed = {} THEN "idle" ELSE "phase2a"
    /\ todo' = passed
    /\ passed' = {}
    /\ UNCHANGED <<durable, inFlight, stored, ver, resume, write, paused, turn>>
    /\ UNCHANGED <<environ, history>>

BeginCollect(p) ==
    /\ Working("phase2a") /\ inFlight = NoPath
    /\ p \in todo
    /\ Charge(p)
    /\ IF Exhausted(jobs[p], MaxAttempts) THEN Handled(p) ELSE UNCHANGED todo
    /\ UNCHANGED <<index, pc, passed, stored, ver, resume, write, paused, turn>>
    /\ UNCHANGED <<environ, history>>

EndCollect(p) ==
    /\ Working("phase2a") /\ inFlight = p /\ Killers[p] # "phase2a"
    /\ jobs' = [jobs EXCEPT ![p] = Settled(p)]
    /\ Settling(p)
    /\ HandOn(p)
    /\ UNCHANGED <<dueq, index, pc, stored, ver, resume, write, paused, turn>>
    /\ UNCHANGED <<environ, history>>

CollectFails(p) ==
    /\ Working("phase2a") /\ inFlight = p /\ p \in Flaky
    /\ Handled(p)
    /\ FailRead(p)
    /\ UNCHANGED <<dueq, index, pc, passed, stored, ver, resume, paused, turn>>
    /\ UNCHANGED <<environ, tried>>

\* Before the batch-wide work: a lone survivor stays charged through it,
\* several are marked without a charge.
EnterEmbed ==
    /\ LoopDone("phase2a")
    /\ passed' = {}
    /\ \/ /\ passed = {}
          /\ pc' = "idle"
          /\ UNCHANGED <<jobs, dueq, todo, inFlight>>
       \/ \E p \in passed :
             /\ passed = {p}
             /\ Charge(p)
             /\ IF Exhausted(jobs[p], MaxAttempts)
                THEN pc' = "idle" /\ UNCHANGED todo
                ELSE pc' = "embed" /\ todo' = passed
       \/ /\ Cardinality(passed) > 1
          /\ jobs' = [p \in Paths |-> IF p \in passed THEN Interrupted(jobs[p]) ELSE jobs[p]]
          /\ pc' = "embed"
          /\ todo' = passed
          /\ UNCHANGED <<dueq, inFlight>>
    /\ UNCHANGED <<index, stored, ver, resume, write, paused, turn>>
    /\ UNCHANGED <<environ, history>>
----------------------------------------------------------------------------
(* Phase 2b: the bulk embed, the probe and the isolation of a bad input.   *)

BadText == (Rejected \cup Uncertain) \ Textless
Survivable == \A p \in todo : Killers[p] # "embed"
Asks == ~(todo \subseteq Textless)      \* the batch sends a request

\* Where the worker goes; nothing durable changes.
Goto(place) ==
    /\ pc' = place
    /\ UNCHANGED <<durable, todo, passed, inFlight, stored, ver, resume, write, paused, turn>>
    /\ UNCHANGED <<environ, history>>

BulkSucceeds ==
    /\ Working("embed") /\ Survivable
    /\ Asks => embedder = "up" /\ todo \cap BadText = {}
    /\ Goto("commit")

\* record_failure opens the breaker; the rows are deferred one by one below.
OpenBreaker(place) ==
    /\ pc' = place
    /\ paused' = TRUE
    /\ UNCHANGED <<durable, todo, passed, inFlight, stored, ver, resume, write, turn>>
    /\ UNCHANGED <<environ, history>>

PausePlace == IF embedder = "misconfigured" THEN "pause_operator" ELSE "pause"

\* 429: nothing to isolate, the whole batch waits.
BulkThrottled ==
    /\ Working("embed") /\ Survivable
    /\ Asks /\ embedder = "throttling"
    /\ OpenBreaker("pause")

BulkFails ==
    /\ Working("embed") /\ Survivable
    /\ Asks
    /\ \/ embedder \in {"unreachable", "failing", "misconfigured"}
       \/ embedder = "up" /\ todo \cap BadText # {}
    /\ Goto("probe")

ProbeFails ==
    /\ Working("probe") /\ embedder # "up"
    /\ OpenBreaker(PausePlace)

ProbePasses ==
    /\ Working("probe") /\ embedder = "up"
    /\ Goto("isolate")

\* _embed_each_message, one message; Reprobing holds the one probed again.
Isolating(p) == Working("isolate") /\ p \in todo

EmbedAlone(p) ==
    /\ Isolating(p)
    /\ p \in Textless \/ (embedder = "up" /\ p \notin BadText)
    /\ HandOn(p)
    /\ UNCHANGED <<durable, pc, inFlight, stored, ver, resume, write, paused, turn>>
    /\ UNCHANGED <<environ, history>>

EmbedRejected(p) ==
    /\ Isolating(p) /\ embedder = "up"
    /\ p \in Rejected \ Textless
    /\ Handled(p)
    /\ DeadTerminal(p)
    /\ UNCHANGED <<index, pc, passed, stored, ver, resume, write, paused, turn>>
    /\ UNCHANGED <<environ, tried>>

EmbedUnavailable(p) ==
    /\ Isolating(p) /\ p \notin Textless
    /\ embedder \in {"unreachable", "throttling", "misconfigured"}
    /\ OpenBreaker(PausePlace)

\* 5xx: the provider is asked again; "stored" names the message meanwhile.
EmbedUncertain(p) ==
    /\ Isolating(p) /\ p \notin Textless
    /\ embedder = "failing" \/ (embedder = "up" /\ p \in Uncertain \ Rejected)
    /\ pc' = "reprobe"
    /\ stored' = p
    /\ UNCHANGED <<durable, todo, passed, inFlight, ver, resume, write, paused, turn>>
    /\ UNCHANGED <<environ, history>>

ReprobeFails ==
    /\ Working("reprobe") /\ embedder # "up"
    /\ pc' = PausePlace
    /\ paused' = TRUE
    /\ stored' = NoPath
    /\ UNCHANGED <<durable, todo, passed, inFlight, ver, resume, write, turn>>
    /\ UNCHANGED <<environ, history>>

\* The second probe passes, so the input is charged.
ReprobePasses(p) ==
    /\ Working("reprobe") /\ stored = p /\ embedder = "up"
    /\ pc' = "isolate"
    /\ stored' = NoPath
    /\ Handled(p)
    /\ FailRead(p)
    /\ UNCHANGED <<dueq, index, passed, ver, resume, paused, turn>>
    /\ UNCHANGED <<environ, tried>>

IsolationDone ==
    /\ Working("isolate") /\ todo = {}
    /\ pc' = "commit"
    /\ todo' = passed
    /\ passed' = {}
    /\ UNCHANGED <<durable, inFlight, stored, ver, resume, write, paused, turn>>
    /\ UNCHANGED <<environ, history>>

\* A slip: the pause charges the messages it puts off.
PauseCharges(p) ==
    /\ Working("pause") \/ Working("pause_operator")
    /\ p \in todo
    /\ Handled(p)
    /\ FailRead(p)
    /\ UNCHANGED <<dueq, index, pc, passed, stored, ver, resume, paused, turn>>
    /\ UNCHANGED <<environ, tried>>

\* _pause_embedding defers what is left; what was embedded is committed.
DeferPaused(p) ==
    /\ Working("pause") \/ Working("pause_operator")
    /\ p \in todo
    /\ Handled(p)
    /\ DeferRead(p, IF pc = "pause" THEN "retryable" ELSE "operator")
    /\ UNCHANGED <<dueq, index, pc, passed, stored, ver, resume, paused, turn>>
    /\ UNCHANGED <<environ, history>>

PauseDone ==
    /\ Working("pause") \/ Working("pause_operator")
    /\ todo = {}
    /\ pc' = "commit"
    /\ todo' = passed
    /\ passed' = {}
    /\ UNCHANGED <<durable, inFlight, stored, ver, resume, write, paused, turn>>
    /\ UNCHANGED <<environ, history>>
----------------------------------------------------------------------------
(* Phase 2c: the vector commits (_phase2c_commit_vectors).                 *)

Committing(p) == Working("commit") /\ stored = NoPath /\ p \in todo

CommitVectors(p) ==
    /\ Committing(p)
    /\ p \in Long => p \in resume
    /\ chunked' = [chunked EXCEPT ![p] = seen[p]]
    /\ stored' = p
    /\ UNCHANGED <<jobs, dueq, seen, pc, todo, passed, inFlight, ver, resume, write, paused, turn>>
    /\ UNCHANGED <<environ, history>>

\* A pass that leaves attachments to extract defers the job, due at once,
\* inside the transaction, with the refund of a lone survivor folded in; the
\* charge stays open in memory until Release.
CommitPart(p) ==
    /\ Committing(p)
    /\ p \in Long \ resume
    /\ jobs' = [jobs EXCEPT ![p] = Rewritten(Settled(p), Settled(p).attempts, "extract", "retryable")]
    /\ NowDue(p)
    /\ Handled(p)
    /\ UNCHANGED <<index, pc, passed, inFlight, stored, ver, resume, write, paused, turn>>
    /\ UNCHANGED <<environ, history>>

Release ==
    /\ Working("commit") /\ stored = NoPath
    /\ inFlight \in Paths \ todo
    /\ inFlight' = NoPath
    /\ UNCHANGED <<durable, pc, todo, passed, stored, ver, resume, write, paused, turn>>
    /\ UNCHANGED <<environ, history>>

CommitFails(p) ==
    /\ Committing(p) /\ p \in Flaky
    /\ Handled(p)
    /\ FailRead(p)
    /\ UNCHANGED <<dueq, index, pc, passed, stored, ver, resume, paused, turn>>
    /\ UNCHANGED <<environ, tried>>

MarkSucceeded(p) ==
    /\ Working("commit") /\ stored = p
    /\ Drop(p)
    /\ Handled(p)
    /\ stored' = NoPath
    /\ UNCHANGED <<index, pc, passed, ver, resume, write, paused, turn>>
    /\ UNCHANGED <<environ, history>>

BatchDone == LoopDone("commit") /\ Goto("idle")
----------------------------------------------------------------------------
(* The main thread between two batches.                                    *)

\* A slip: a file that is indexed at all is passed over, whatever it holds now.
WalkQueuesUnseen(p) ==
    /\ Idle
    /\ disk[p] # 0 /\ seen[p] = 0
    /\ p \notin Trashed
    /\ jobs[p] = NoRow
    /\ jobs' = [jobs EXCEPT ![p] = Admitted("foreground")]
    /\ \E i \in 1..(Len(dueq) + 1) : dueq' = InsertAt(dueq, i, p)
    /\ tried' = [tried EXCEPT ![p] = FALSE]
    /\ UNCHANGED <<index, worker, environ, faults>>

\* The Maildir walk (_enqueue_unindexed_messages) for one file; queued due
\* at the message's own date, so anywhere among the rows already due.
WalkQueues(p) ==
    /\ Idle
    /\ disk[p] # 0 /\ ~Fresh(p)
    /\ p \notin Trashed
    /\ jobs[p] = NoRow
    /\ jobs' = [jobs EXCEPT ![p] = Admitted("foreground")]
    /\ \E i \in 1..(Len(dueq) + 1) : dueq' = InsertAt(dueq, i, p)
    /\ tried' = [tried EXCEPT ![p] = FALSE]
    /\ UNCHANGED <<index, worker, environ, faults>>

\* Two slips: the reaper runs beside a batch, or leaves the Phase 1 row behind.
ReapAnyTime(p) ==
    /\ pc # "down" /\ p \in Trashed /\ seen[p] # 0
    /\ jobs' = [jobs EXCEPT ![p] = NoRow]
    /\ dueq' = Remove(dueq, p)
    /\ seen' = [seen EXCEPT ![p] = 0]
    /\ chunked' = [chunked EXCEPT ![p] = 0]
    /\ UNCHANGED <<worker, environ, history>>

ReapHalf(p) ==
    /\ Idle /\ p \in Trashed /\ seen[p] # 0
    /\ jobs' = [jobs EXCEPT ![p] = NoRow]
    /\ dueq' = Remove(dueq, p)
    /\ chunked' = [chunked EXCEPT ![p] = 0]
    /\ UNCHANGED <<seen, worker, environ, history>>

\* The reaper deletes a trashed message's rows together with its job.
Reap(p) ==
    /\ Idle
    /\ p \in Trashed /\ seen[p] # 0
    /\ jobs' = [jobs EXCEPT ![p] = NoRow]
    /\ dueq' = Remove(dueq, p)
    /\ seen' = [seen EXCEPT ![p] = 0]
    /\ chunked' = [chunked EXCEPT ![p] = 0]
    /\ UNCHANGED <<worker, environ, history>>

BackoffElapses(p) ==
    /\ Queued(p) /\ ~Contains(dueq, p)
    /\ dueq' = Append(dueq, p)
    /\ UNCHANGED <<jobs, index, worker, environ, history>>

BreakerElapses ==
    /\ paused /\ Idle
    /\ paused' = FALSE
    /\ UNCHANGED <<durable, pc, todo, passed, inFlight, stored, ver, resume, write, turn>>
    /\ UNCHANGED <<environ, history>>
----------------------------------------------------------------------------
(* The process.                                                            *)

Stop ==
    /\ pc' = "down"
    /\ todo' = {} /\ passed' = {} /\ resume' = {}
    /\ inFlight' = NoPath /\ stored' = NoPath
    /\ ver' = 0
    /\ write' = NoWrite
    /\ paused' = FALSE /\ turn' = FALSE
    /\ event' = {}
    /\ faults' = IF inFlight \in Paths
                 THEN [faults EXCEPT ![inFlight] = @ + 1]
                 ELSE faults
    /\ UNCHANGED <<durable, disk, embedder, tried>>

\* One event of the outside world, counted against the bound.
Happens(what) ==
    /\ what \in Events
    /\ events < MaxEvents
    /\ events' = events + 1

\* A message that kills the process: out of memory, MemoryError raised
\* again, or the stall guard on a step that never returns.
Die(p) ==
    /\ write = NoWrite
    /\ \/ Parsing(p) /\ ver # 0
       \/ pc = "phase2a" /\ inFlight = p
       \/ pc = "embed" /\ p \in todo
    /\ Killers[p] = pc
    /\ Stop
    /\ UNCHANGED events

\* A crash or a restart that no message causes.
Crash ==
    /\ pc # "down"
    /\ Happens("crash")
    /\ Stop

Start ==
    /\ pc = "down"
    /\ Goto("idle")
----------------------------------------------------------------------------
(* The watchdog thread, the operator and the outside world.                *)

\* on_created, or on_moved into cur/ or new/: INSERT OR REPLACE.  A rename
\* onto a path already indexed and fresh queues nothing.
WatcherEnqueues(p) ==
    /\ pc # "down"
    /\ p \in event
    /\ event' = event \ {p}
    /\ \/ /\ p \in Trashed \/ Fresh(p)
          /\ UNCHANGED <<jobs, dueq, tried>>
       \/ /\ p \notin Trashed
          /\ jobs' = [jobs EXCEPT ![p] = Admitted("foreground")]
          /\ NowDue(p)
          /\ tried' = [tried EXCEPT ![p] = FALSE]
    /\ UNCHANGED <<index, worker, disk, embedder, events, faults>>

\* New content under the path; the watcher hears of it while it runs.
Deliver(p) ==
    /\ Happens("deliver")
    /\ disk' = [disk EXCEPT ![p] = IF @ < MaxVersion THEN @ + 1 ELSE 1]
    /\ event' = IF pc = "down" THEN event ELSE event \cup {p}
    /\ UNCHANGED <<durable, worker, embedder, history>>

\* The file is renamed or removed by mbsync.
Vanish(p) ==
    /\ disk[p] # 0
    /\ Happens("vanish")
    /\ disk' = [disk EXCEPT ![p] = 0]
    /\ UNCHANGED <<durable, worker, event, embedder, history>>

EmbedderBreaks ==
    /\ embedder = "up"
    /\ Happens("outage")
    /\ embedder' \in Faults
    /\ UNCHANGED <<durable, worker, disk, event, history>>

EmbedderRecovers ==
    /\ embedder # "up"
    /\ embedder' = "up"
    /\ UNCHANGED <<durable, worker, disk, event, events, history>>

\* make requeue-dead, for one class of dead rows or for all of them.
RequeueDead ==
    /\ Happens("requeue")
    /\ \E class \in Classes :
         LET dead == {p \in Paths : jobs[p].status = "dead"
                                    /\ class \in {"none", jobs[p].class}}
         IN  /\ dead # {}
             /\ jobs' = [p \in Paths |-> IF p \in dead THEN Requeued(jobs[p]) ELSE jobs[p]]
             /\ \E s \in SetToSeqs(dead) : dueq' = dueq \o s
             /\ tried' = [p \in Paths |-> tried[p] /\ p \notin dead]
    /\ UNCHANGED <<index, worker, disk, event, embedder, faults>>

\* make reparse, or a migration: ON CONFLICT DO NOTHING for every indexed file.
Reparse ==
    /\ Happens("reparse")
    /\ LET new == {p \in Paths : seen[p] # 0 /\ jobs[p] = NoRow}
       IN  /\ new # {}
           /\ jobs' = [p \in Paths |-> IF p \in new THEN Admitted("reparse") ELSE jobs[p]]
           /\ \E s \in SetToSeqs(new) : dueq' = dueq \o s
           /\ tried' = [p \in Paths |-> tried[p] /\ p \notin new]
    /\ UNCHANGED <<index, worker, disk, event, embedder, faults>>
----------------------------------------------------------------------------
Init ==
    /\ jobs = [p \in Paths |-> IF p \in Leftover THEN Admitted("foreground") ELSE NoRow]
    /\ dueq \in SetToSeqs(Leftover)
    /\ seen = [p \in Paths |-> IF p \in Initial THEN 1 ELSE 0]
    /\ chunked = seen
    /\ pc = "down"
    /\ todo = {} /\ passed = {} /\ resume = {}
    /\ inFlight = NoPath /\ stored = NoPath
    /\ ver = 0
    /\ write = NoWrite
    /\ paused = FALSE /\ turn = FALSE
    /\ disk = [p \in Paths |-> IF p \in Initial \cup Leftover THEN 1 ELSE 0]
    /\ event = {}
    /\ embedder = "up"
    /\ events = 0
    /\ faults = [p \in Paths |-> 0]
    /\ tried = [p \in Paths |-> FALSE]

Drain ==
    \/ Claim \/ OutcomeWrite \/ CollectBatch \/ EnterEmbed
    \/ BulkSucceeds \/ BulkThrottled \/ BulkFails \/ ProbeFails \/ ProbePasses
    \/ ReprobeFails \/ IsolationDone \/ PauseDone \/ Release \/ BatchDone
    \/ \E p \in Paths :
         \/ ParkTrashed(p) \/ BeginParse(p) \/ ParseMissing(p) \/ ParseTerminal(p)
         \/ ParseFails(p) \/ ParseNotPermitted(p) \/ UpsertThread(p) \/ EndParse(p)
         \/ BeginCollect(p) \/ EndCollect(p) \/ CollectFails(p)
         \/ EmbedAlone(p) \/ EmbedRejected(p) \/ EmbedUnavailable(p) \/ EmbedUncertain(p)
         \/ ReprobePasses(p) \/ DeferPaused(p)
         \/ CommitVectors(p) \/ CommitPart(p) \/ CommitFails(p) \/ MarkSucceeded(p)
         \/ Die(p)

Environment ==
    \/ Crash \/ EmbedderBreaks \/ EmbedderRecovers \/ RequeueDead \/ Reparse
    \/ \E p \in Paths : Deliver(p) \/ Vanish(p)

Next ==
    \/ Drain \/ Environment \/ Start \/ BreakerElapses
    \/ \E p \in Paths : WalkQueues(p) \/ Reap(p) \/ BackoffElapses(p) \/ WatcherEnqueues(p)

Spec == Init /\ [][Next]_vars

\* The worker's thread is never abandoned; the main loop, which runs the walk
\* between two batches, comes round again and again (hence strong fairness:
\* the next batch may start first each time); an outage ends.
Fairness ==
    /\ WF_vars(Drain)
    /\ WF_vars(Start)
    /\ WF_vars(BreakerElapses)
    /\ WF_vars(EmbedderRecovers)
    /\ \A p \in Paths :
         /\ SF_vars(WalkQueues(p))
         /\ WF_vars(BackoffElapses(p))
         /\ WF_vars(WatcherEnqueues(p))

FairSpec == Spec /\ Fairness
----------------------------------------------------------------------------
Outcome == [path : Paths, status : {"queued", "dead"}, attempts : Nat,
            stage : {"failed", "deferred"}, class : {"retryable", "operator"}]
Places == {"down", "idle", "phase1", "phase2a", "embed", "probe", "isolate",
           "reprobe", "pause", "pause_operator", "commit"}

\* The shape of every variable of the queue, the worker and their surroundings.
TypeOK ==
    /\ jobs \in [Paths -> Row]
    /\ seen \in [Paths -> Versions] /\ chunked \in [Paths -> Versions]
    /\ pc \in Places
    /\ todo \subseteq Paths /\ passed \subseteq Paths /\ resume \subseteq Paths
    /\ inFlight \in Paths \cup {NoPath} /\ stored \in Paths \cup {NoPath}
    /\ ver \in Versions
    /\ write \in Outcome \cup {NoWrite}
    /\ paused \in BOOLEAN /\ turn \in BOOLEAN
    /\ disk \in [Paths -> Versions] /\ event \subseteq Paths
    /\ embedder \in Faults \cup {"up"}
    /\ events \in 0..MaxEvents
    /\ faults \in [Paths -> Nat]
    /\ tried \in [Paths -> BOOLEAN]

\* Every row the worker holds is a queued one until its own outcome is
\* written: no other thread buries or deletes a claimed job, and a job found
\* exhausted leaves the batch.
HeldRowsAreQueued ==
    \A p \in todo \cup passed \cup ({inFlight, stored, write.path} \ {NoPath}) : Queued(p)

\* No row is charged past its budget: one that is out of attempts dies before
\* it is handed to another step.
WithinBudget == \A p \in Paths : jobs[p].attempts <= MaxAttempts

\* A message never carries more attempts than it failed or crashed the
\* process, but for the one charge open while its own step runs: outages,
\* deferrals, batchmates and racing admissions cost nothing (queue.py,
\* "Infrastructure failures are not the message's fault").
OpenCharge(p) == IF inFlight = p THEN 1 ELSE 0
NoFalseBlame ==
    \A p \in Paths : jobs[p].attempts <= faults[p] + OpenCharge(p)

\* A row is dead only by its own doing: MaxAttempts failures or crashes of
\* that message, or content that can never be indexed; the operator's class
\* (a misconfigured embedder) never kills a row.
DeadIsEarned ==
    \A p \in Paths : jobs[p].status = "dead" =>
        \/ jobs[p].class = "retryable" /\ faults[p] >= MaxAttempts
        \/ jobs[p].class = "permanent" /\ p \in Terminal \cup Rejected

\* Messages with no failure of their own: what kills the process or the
\* embedder is some other message or the outside world.
Innocents == {p \in Paths \ (Terminal \cup Flaky \cup Rejected \cup Uncertain) :
                Killers[p] = "never"}

\* All innocent messages together are charged at most one attempt for each
\* crash or outage, and none for a batchmate that kills the process (queue.py:
\* "an ordinary restart costs at most one attempt to one message").
InnocentCharges == UNION {{p} \X (1..faults[p]) : p \in Innocents}
RestartCostsOne == Cardinality(InnocentCharges) <= events

\* A message whose thread is committed but whose chunks are not, or are those
\* of older content, still has a job: a crash, an outage or a missing file
\* between the two phases loses no work.
IndexedWholeOrQueued ==
    \A p \in Paths : seen[p] # chunked[p] => jobs[p] # NoRow

\* Fresh intent is not blocked by an earlier pass: a dead row was tried since
\* it was last admitted (queue.py:29-33 and the docstring of enqueue).
DeadSinceAdmitted ==
    \A p \in Paths : jobs[p].status = "dead" => tried[p]

\* Without a message that fails on its own and without a crash, no outage of
\* the embedder leaves a dead row (queue.py:20-23, "no outage can dead-letter
\* mail").
NoOutageDeadLetters == \A p \in Paths : jobs[p].status # "dead"

\* What the queue promises the rest of the system (IndexPromise): between
\* Phase 1 and Phase 2c of a message its job exists, a job leaves the queue
\* only when nothing is owed, and a buried job returns only by a new admission.
Promise == INSTANCE IndexPromise WITH
    owed <- {p \in Paths : Queued(p)},
    dead <- {p \in Paths : jobs[p].status = "dead"}
KeepsThePromise == Promise!Spec

Indexed(p) == Fresh(p) /\ chunked[p] = seen[p] /\ jobs[p] = NoRow

\* Once the world is quiet every live file is indexed whole, or dead after
\* its own failures: nothing waits forever behind poison, outages or lost events.
EverythingSettles ==
    \A p \in Paths \ Trashed :
        <>[](disk[p] = 0 \/ Indexed(p) \/ jobs[p].status = "dead")

\* An innocent message is indexed in the end, whatever its batchmates do.
InnocentsIndexed ==
    \A p \in Innocents \ Trashed : <>[](disk[p] = 0 \/ Indexed(p))
=============================================================================
