------------------------------- MODULE JobRow -------------------------------
(***************************************************************************)
(* One row of the indexing_jobs table and the SQL statements that change   *)
(* it (the queue_ methods of indexer/src/database.py).  A path without a row is NoRow.  *)
(* Error text and timestamps are left out; the due time is kept by the     *)
(* module that EXTENDS this one, as an order.                              *)
(***************************************************************************)
EXTENDS Naturals

Statuses == {"none", "queued", "dead"}
Reasons  == {"none", "foreground", "reparse"}
\* last_stage, by what the worker tells apart: "interrupted" is the mark of a
\* step that is running, "extract" a continuation, "failed" any stage of
\* mark_failed or mark_dead_terminal, "deferred" any other stage of defer.
Stages   == {"none", "interrupted", "failed", "deferred", "extract"}
Classes  == {"none", "retryable", "permanent", "operator"}

Row == [status : Statuses, reason : Reasons, attempts : Nat,
        stage : Stages, class : Classes]

\* The columns, in the order they are declared above.
Columns(status, reason, attempts, stage, class) ==
    [status |-> status, reason |-> reason, attempts |-> attempts,
     stage |-> stage, class |-> class]

NoRow == Columns("none", "none", 0, "none", "none")

\* queue_enqueue: INSERT OR REPLACE, so whatever was there is reset.
Admitted(reason) == Columns("queued", reason, 0, "none", "none")

\* A slip: the budget is checked one attempt late.
ExhaustedLate(row, max) ==
    row.status = "queued" /\ row.stage = "interrupted" /\ row.attempts > max

\* queue_charge_attempt: a marked row with no attempt left dies instead.
Exhausted(row, max) ==
    /\ row.status = "queued"
    /\ row.stage = "interrupted"
    /\ row.attempts >= max

ExhaustedRow(row) ==
    Columns("dead", row.reason, row.attempts, row.stage, "retryable")

Charged(row) ==
    IF row.status = "queued"
    THEN Columns("queued", row.reason, row.attempts + 1, "interrupted", row.class)
    ELSE row

\* queue_mark_interrupted.
Interrupted(row) ==
    IF row.status = "queued"
    THEN Columns("queued", row.reason, row.attempts, "interrupted", row.class)
    ELSE row

\* A slip: the refund does not look for the mark.
RefundedBlindly(row) ==
    Columns(row.status, row.reason, row.attempts - 1, "none", row.class)

\* queue_refund_attempt: only while the mark is still on the row.
Refunded(row) ==
    IF row.stage = "interrupted" /\ row.attempts > 0
    THEN Columns(row.status, row.reason, row.attempts - 1, "none", row.class)
    ELSE row

\* queue_mark_failed (an UPDATE: a missing row stays missing), also how defer
\* writes; a row it finds dead returns to the queue.
Rewritten(row, attempts, stage, class) ==
    IF row.status = "none" THEN row
    ELSE Columns("queued", row.reason, attempts, stage, class)

\* queue_mark_dead.
Killed(row, attempts, class) ==
    IF row.status = "none" THEN row
    ELSE Columns("dead", row.reason, attempts, "failed", class)

\* queue_requeue_dead: last_stage is not among the columns it resets.
Requeued(row) == Columns("queued", row.reason, 0, row.stage, "none")
=============================================================================
