# A formal model of protonmail-local-ai

TLA+ modules for the parts of this repository where the order of steps matters:
the durable queue the indexer drains, the way a sync of the mbsync container is
turned into a claim about the index, the reconciliation of the index with a
Maildir whose files are renamed and deleted, the running sums behind the
threads' vectors, and the text of attachments extracted over several passes.
TLC checks them on small instances; TLAPS proves every safety invariant and
action property of theirs for all instances.
Paths below are relative to
`src/`; `I/` stands for `src/indexer/src/` and `M/` for `src/mcp-server/src/`.

Contents: 1 the system, 2 the plan, 3 the queue, 4 the sync acknowledgement,
5 deletion reconciliation, 6 thread vectors, 7 attachment slices, 8 runs and
bounds, 9 fairness, 10 what the code does that its text denies, 11 proofs,
12 what is not modelled, 13 how to run it.

## 1. The system

Four containers share two volumes.

    Proton Bridge --IMAP--> mbsync container --Maildir--> indexer --SQLite--> mcp-server --> client
      (external)            entrypoint.sh     (volume)    main.py  (volume)    (read only)
                               |  success stamp, repair marker, collection status  ^
                               +----------------- files in the Maildir ------------+

| Component | Source | State it keeps | Operations | What is hard in it |
|---|---|---|---|---|
| mbsync loop | `mbsync/entrypoint.sh` | the generation counter (state volume); success stamp and collection status (Maildir); the attempt's outcome (memory) | begin an attempt, run mbsync, repair permissions, signal, allocate a generation, stamp, publish; stop, load at start | stopped or killed between any two steps; the state volume recreated; a file that cannot be written |
| Maildir watch | `I/folder_watch.py`, the handler of `I/main.py` | kernel watches, the events not yet handled, which folders are known | refresh, re-schedule, answer an overflow | unwatched 0700 folders, lost and coalesced events, events lost by closing a watch |
| Ingestion recorder | `I/main.py` (`_IngestionStateRecorder`) | acknowledged and held stamps, overflow fence, the failure not yet followed by a delivery; `ingestion_state`, `account_collection_state`, `ingestion_walks` | acknowledge from the watcher, hold during an overflow, walk completed, observe a collection, record | three threads; the status file, the stamp and the deliveries are heard in no fixed order |
| Maildir walk | `I/main.py` (`_enqueue_unindexed_messages`, `_recovery_sweep`) | none | queue what is on disk and not indexed | runs between batches, against files that move |
| Durable queue | `I/queue.py`, `I/database.py` (`queue_*`) | `indexing_jobs`: status, reason, attempts, last stage, error class, due time | enqueue, claim, charge, refund, mark failed, dead or succeeded, defer, requeue, reparse | four writers, a crash between any two steps, two-step outcomes |
| Batched drain | `I/main.py` (`_drain_queue_batched`, phases 1, 2a, 2b, 2c) | the batch, the charged message, the breaker of the embedder | parse and commit the thread; extract and chunk; embed in bulk, probe, isolate; commit vectors | poison messages that kill the process, outages of the provider, half-indexed messages |
| Occurrences | `I/occurrences.py`, `I/occurrence_scan.py`, `I/file_evidence.py` | `message_occurrences`, `indexed_files`, the scan's byte budget | bind a file to a message, follow a rename, scan the Maildir, retire what vanished | files renamed between a look and a transaction; folders that cannot be read |
| Deletion reconciliation | `I/reconciler.py`, `I/database.py` | `pending_deletions` (tombstones) | detect a trashed message, grace, check the disk, brake, reap | a restore racing the reap; an outage that looks like a mass deletion |
| Threading | `I/threader.py`, `I/database.py` | `threads`, `message_thread_map` | join or merge threads | |
| Thread vectors | `I/vector_sums.py`, `I/database.py`, `I/main.py` | `thread_vector_sums`, `threads_vec`, the chunks | add and subtract a chunk's vector, fill, check; choose the vector of a thread without chunks | deltas against rows that are replaced or missing; plans made from what a batchmate then changes |
| Embedder client | `I/embedder.py` | identity of the provider | embed, classify a failure, probe | concurrent requests of one call |
| Extraction | `I/attachment_indexing.py`, `I/extractors/`, `I/main.py`, `I/database.py` | `attachments` rows, the chunks of each payload, the cache of extractions | extract within a budget, defer the rest and continue, settle a payload, drop what the parse no longer finds; sweep at startup | copies and messages that share text and cache; results refreshed, purged or outdated between a plan and its commit |
| Parsing, chunking, quoting | `I/parser.py`, `I/chunker.py`, `I/quoting.py` | none | pure functions | |
| Accounts and labels | `I/accounts.py`, `I/provider_*.py` | account identity, label generations | record labels in generations | an interrupted generation |
| mcp-server | `M/` | rate limits, inference budget | search, retrieval, mailbox status, briefs | limits under concurrency; predicates over unknown values |
| Operations | `scripts/` | none | backup, restore, requeue, reparse, configure | a failure half way |
| Evidence runs | `evidence-run/` | none | a measurement tool | |

`PROJECT.json` lists every component with its files and what is modelled of it.

### How they interact

* mbsync writes message files into folders (a folder it creates is 0700 until the
  permission repair), then the repair marker, then the success stamp, each by a
  rename. The status file tells the outcome of the last attempt and the last
  success.
* The indexer hears of these renames through one recursive inotify watch, whose
  events are handled in order by one thread. It queues each message delivered,
  and treats the stamp's rename as proof that the deliveries of that sync were
  handled before it. Where that proof fails (an overflow, a watch that was not
  there) a walk of the Maildir stands in for it.
* The main thread alternates: drain a batch, refresh the watch when signalled,
  answer an overflow, walk now and then, reap now and then, record its state.
* The mcp-server reads the recorded state and the queue and tells a client
  whether the index is `current`.

### What makes each part correct

* Queue: work is never lost between two phases, a message is charged only for
  its own failures, poison is buried and holds up nobody.
* Sync acknowledgement: an acknowledged sync leaves no mail that nobody will look
  for; `current` never hides a failure or undelivered mail; generations order the
  syncs whatever was lost.
* Deletion: nothing is reaped while the mailbox still holds it; grace starts anew
  after a restore; no pass removes more than the brake allows; a partial view of
  the Maildir retires nothing.
* Occurrences: one message per path and one path per message and slot; a row
  follows its file through renames, or is found again.
* Thread vectors: the sum is the sum of the chunks that are there, whatever failed
  in between, and the vector is the mean of those.
* Extraction: what is recorded as complete is in the chunks; a search rules out
  only what no attachment has; nothing put off is left behind.

## 2. Plan

In this order, the most consequential behaviour first:

1. **Queue and drain** (`JobRow`, `IndexingQueue`, abstract `IndexPromise`): done,
   with proofs.
2. **Sync acknowledgement** (`Maildir`, `MbsyncLoop`, `IngestionRecorder`,
   composed by `SyncAck`): done, with proofs.
3. **Deletion reconciliation** (`MailIndex`, `OccurrenceScan`, `RenameWatcher`,
   `Reaper`, composed by `Deletion`): done, with proofs.
4. **Thread vectors** (`ThreadVectors`): done, with proofs.
5. **Renames under the worker**: `_rename_rows` moves a job row with the charge the
   worker still holds under its old path; the queue model extended with names that
   change.
6. **Attachment slices** (`AttachmentSlices`): done, with proofs.
7. **Embedder**: the concurrent chunk requests of one call.
8. **Smaller protocols**: label generations, backup and restore with a failure
   at each step, the certificate pin, the request limiter and inference budget,
   predicates with unknown values and cursor pages.

No safety property a run checks is left without a proof (section 11); items 5, 7
and 8 will bring theirs.

## 3. The queue

`JobRow` is one row of `indexing_jobs` and the SQL statements on it.
`IndexingQueue` EXTENDS it with the table (`jobs`), the due rows in due order
(`dueq`), what Phase 1 and Phase 2c have committed of each path (`seen`,
`chunked`, as version numbers of the file's content), the worker, and the world
around it. `IndexPromise` is the abstract specification: a path is owed work, or
its work is buried, or nothing is owed and what the first phase published the
second completed.

| Code | Model |
|---|---|
| `queue_fetch_due_batch`, `claim_batch`, `_reparse_turn` | `Claim`, `ForegroundRows`, `ReparseRows`, `RunAlone` |
| `begin_attempt`, `_settle`, `end_attempt` | `Charge`, `Settled`, `Settling` |
| `mark_failed`, `defer` | `FailRead` or `DeferRead`, then `OutcomeWrite`: two lock acquisitions, so two steps |
| `mark_succeeded`, `mark_skipped`, `mark_dead_terminal` | `Drop`, `DeadTerminal` |
| Phase 1 | `ParkTrashed`, `BeginParse`, `ParseMissing`, `ParseTerminal`, `ParseFails`, `ParseNotPermitted`, `UpsertThread`, `EndParse` |
| Phase 2a | `CollectBatch`, `BeginCollect`, `EndCollect`, `CollectFails`, `EnterEmbed` |
| Phase 2b | `Bulk...`, `Probe...`, `EmbedAlone`, `EmbedRejected`, `EmbedUnavailable`, `EmbedUncertain`, `Reprobe...`, `DeferPaused` |
| Phase 2c | `CommitVectors`, `CommitPart`, `CommitFails`, `MarkSucceeded` |
| walk, reaper, watchdog, `make requeue-dead`, `make reparse` | `WalkQueues`, `Reap`, `WatcherEnqueues`, `RequeueDead`, `Reparse` |
| a step that kills the process; any other restart | `Die`, `Crash`, `Start` |

Messages differ by what they do to the pipeline: `Terminal` (can never be
indexed), `Flaky` (any step may raise), `Killers` (which step kills the process),
`Rejected` and `Uncertain` (what the provider answers to their text), `Textless`,
`Long` (extracted in two passes), `Trashed`.

Abstractions. Backoff is "not among the due rows" until `BackoffElapses`. A row
with an earlier due time comes earlier in `dueq`; the walk, which dates rows by
the message, inserts anywhere. The order within a batch is free, which includes
the code's. The refund and the write of `mark_succeeded` and
`mark_dead_terminal`, and `end_attempt` followed by a continuation's `defer`, are
one step each; those of `mark_failed` and `defer` are not. A permission error
before and after its deferral window is a choice of a `Flaky` message. Names of
files do not change here (section 5 has renames). `faults` and `tried`
are history: they are read by properties only. The `Exhausted` branches of
`BeginCollect` and `EnterEmbed` follow the code and cannot be reached, because a
row found exhausted at Phase 1 leaves the batch. `MarkSucceeded` may delete a row
re-admitted while the vectors were committed; the model keeps this, and
`EverythingSettles` holds because the walk queues the file again.

## 4. Sync acknowledgement

`Maildir` is what the two processes share: mail, folders, the stamp, the status
file, and the kernel's watch with its queued events. `MbsyncLoop` is the shell,
`IngestionRecorder` the indexer's watcher thread, main thread and recorder,
`SyncAck` their composition (interleaved steps over the shared variables) with
the properties.

| Code | Model |
|---|---|
| `run_sync`, the loop of `entrypoint.sh` | `BeginAttempt`, `CreateFolder`, `DeliverMail`, `EndMbsync` |
| `signal_perms_repaired` | `SignalRepair` |
| `next_success_generation`, `record_successful_sync`, `finish_collection_attempt` | `Allocate`, `WriteStamp`, `RecordSuccess`, and `AllocationFails`, `StampFails`, `RecordFailure` |
| `stop_on_signal`; docker's kill; a recreated volume; `load_collection_records` | `StopShell`, `KillShell`, `LoseState`, `StartShell` |
| the event handler | `HandleFile`, `HandleDir`, `HandleMarker`, `HandleStamp`, `OverflowSeen`, `ReadCollection` |
| `acknowledge_watched`, `walk_completed`, `_observe_collection` | `AcknowledgeWatched`, `WalkCompleted`, `Observed` |
| `_refresh_folder_watches`, `FolderWatchRefresher.refresh` | `AnswerSignal`, `AnswerOverflow`, `Keep`, `Reschedule`, `RescheduleFails`, `EndRefreshWalk` |
| `_recovery_sweep`, the startup walk | `PeriodicRescan`, `BeginWalk`, `EndWalk`, `WalkFails`, `RecordWalk` |
| `maybe_record` | `RecordState` |
| `collection_reasons`, `not_current_reasons` of the mcp-server | `Current` |
| the drain (section 3) | `Index`: a job ends |

Abstractions. An attempt is its ordinal: the boot token and counter of its ID
make it unique. Clock times are left out and count as fresh, so `Current` is the
weakest claim the server can make: what holds of it holds of the real one. The
kernel's queue and watchdog's are one sequence, in which an overflow may be seen
before the events ahead of it, and closing a watch loses a suffix. The rename of
the status file may be read at any time. A walk finds what is on disk in the
folders it can read when it begins; it queues it when it ends. The two reads of
the stamp of a rescan are one. An unknown or missing status file, the older stamp
format, and the folders withheld from a count are left out; a sync that withheld
folders is a success. A corrupt counter is the fault "generation". A watch that
cannot be scheduled at startup ends the process, which is the fault "restart".
Deleted folders whose inode is reused are left out.

## 5. Deletion reconciliation

`MailIndex` is what the parts share: the Maildir (`disk`, and for each folder
whether it can be read) and the tables about files (`db`). Every method of
`database.py` runs in one transaction under the connection lock, so each is an
operator from tables to tables. `OccurrenceScan` is the scan with the sweep and
the rescan around it, `RenameWatcher` the watcher thread's `on_moved`, `Reaper`
the reap, and `Deletion` composes them with the parser and with mbsync.

| Code | Model |
|---|---|
| `message_occurrences`, `indexed_files`, `indexing_jobs`, `pending_deletions` | `db.active` and `db.retired`, `db.marker`, `db.jobs`, `db.marks` |
| `_bind_occurrence`, `_move_occurrence`, `_rename_rows`, `retire_*` | `Bind`, `Carry` with `CarriedBy`, `RenameRows`, `Retire` |
| `mark_lost_messages`, `clear_live_tombstones` | `MarkLost`, `ClearLive` |
| `scan_occurrences` | `BeginScan`, `ListFolder`, `ReadEvidence`, then `SettleRow` for each occurrence and `SettleFile` for each file |
| the end of `sweep`, `sweep_paths`; the rescan's walk | `EndScan`, `MarkLostMessages`; `WalkMaildir`, `QueueUnindexed` |
| `on_moved`, `handle_moved` | `OnMoved`, `CarryRows`, `MarkTrashed`, `RetireSource`, `QueueDestination`: a step per call of the database |
| `reap`, `_reap_thread` | `BeginReap`, `ReadCopies`, `TakeThread`, `EndReap` |
| `_prepare_restore_evidence`; `_restored_on_disk` and the removal | `LookForRestores`; `CommitReap` |
| Phase 1 of a queued file, a trashed one, a missing one | `Take` and `CommitParse` or `FailParse`, `SkipTrashed`, `SkipMissing` |
| `FolderInventory` | `stale`: the folders whose listing of this pass proves nothing, since it failed or the folder changed after |
| mbsync and the mounts | `Deliver`, `Rename`, `Vanish`, `Replace`, `Close`, `Open` |

The reaper holds the connection lock from its evidence to its commit (`Unlocked`
keeps the watcher out), but mbsync does not wait for it, so the two are steps of
their own. The drain, the sweep, the reap and the rescan are one thread.

Abstractions. A message stands for its bytes: a digest read from a file is the
message it holds. A slot is a folder and a uniq, a tag the rest of the name, one
of them trashed. `Alike` says that the files agree in size and mtime, the harder
case: only a digest tells them apart. The marks of a message are one, its earliest:
`"grace"`, or `"ripe"` once the clock has passed, which `BeginReap` decides for any
of them. That the hashing budget runs out, for whichever files, is an event, and
so is each action of mbsync, so `MaxEvents` bounds them all. `Owners` allows any
occurrence recorded at a missing file's path where the code takes the newest. A job
is `"taken"` while it is parsed; what else can happen to a job is section 3's. One
account. A replaced file keeps its name and fires no event, which mbsync does not
do but a reused UID does. `pass` is history, read by properties only.

What the properties say, beyond the summary of section 1: `TombstonedIsLost` is the
rule every writer of `database.py` relies on, `OneHolderPerPath` what the unique
index demands (a violation is an exception in the middle of a pass), and
`IndexMirrorsMaildir` that scan, watcher, parser and reaper together end with the
messages on disk and no others, once mbsync is quiet and unless the brake holds.

## 6. Thread vectors

`ThreadVectors` follows the chunks of each message, the thread's row in
`thread_vector_sums` and its row in `threads_vec` through a batch.

| Code | Model |
|---|---|
| `thread_vector_sums`; a missing row; one that does not decode | `sums`; `Missing`; `Unreadable` |
| `_compute_thread_sums`, `_thread_sums`, `_apply_thread_sum_deltas` | `SumOf`, `Filled`, `ApplyDelta` |
| `replace_message_chunks`, `delete_attachment_occurrences` in Phase 2c's transaction | `Rewrite`, two `Edit`s and what is `Stale` |
| Phase 1: `get_phase1_seed_state`, the three choices of a seed, `upsert_thread` | `SeedSum`, `Seed`, `SeedFails` |
| Phase 2a | `Plan` with `ClearsChunks`, `KeepsVector`, `ReservesFallback`; `PlanFails` |
| Phase 2c | `Commit`, `CommitFails` |
| `delete_thread_completely`, `reap_thread_messages` | `ReapWhole`, `ReapPart` |
| `fill_missing_thread_vector_sums`, `reconcile_thread_vector_sums` | `Backfill`, `Check` |

A sum tells how often it counts each chunk, so it is exact exactly if it counts the
thread's chunks once each; a vector is of a kind (none, the zero placeholder, the
subject's, a mean) and a mean is of a sum. A parse is any choice of text per slice,
of attachments carried and of those left for a later pass.

Abstractions. A message stays in its thread, which is a constant. Attachments of a
message differ in content. A batch takes a message once. A `"defers"` payload is one
whose slice this pass leaves alone, be it deferred or resolved by an earlier pass.
The writes of all attachments of a message are one `Edit`, in the same transaction as the body's.
A failure of the embedder for one message is `CommitFails`. `Drift` and `Garble` are
not steps of this code: they stand for a write of another release, which the fill and
the check are there for.

## 7. Attachment slices

`AttachmentSlices` is one message with its attachments. A row per attachment says
whether its text is complete, by which version, or that it was put off; the text of
one payload is one slice of chunks that every copy of the payload in the message
shares, whatever label each has; the extraction cache is keyed by payload and module
and shared by all messages. `manifest` is what Phase 1 stored the message with.

| Code | Model |
|---|---|
| Phase 1 of the message | `Parse` |
| Phase 2a: the loop over attachments, `_resolve_extracted_text`, the budget | `Collect` with `Kept`, `Pending`, `PutOff`, `UpToDate` and `Settled`; `CollectNothing` with extraction off |
| the second loop, which settles payloads; the protected slices | `Shrunk`, `Settling`, `Prepared` |
| Phase 2c: `apply_attachment_writes`, `delete_attachment_occurrences`, `set_attachment_rows_current`, `defer` | `Commit` with `RowsAfter`, `SliceAfter`, `CacheAfter` |
| `mark_succeeded`; `mark_failed`; an admission | `Succeed`; `Fail`; `Enqueue` |
| other messages of this batch or of another | `PeerRefreshes`, `PeerDrops` |
| a restart as another release or with other settings; the startup sweep | `Restart` with `Swept`, `Outdated`, `Due`, `Requeued` |
| `_compile_attachment_text_words` of the mcp-server | `TextVerdict` |

Which attachments are put off is free but for what the budget ensures: at least one
was dispatched before, and they come last in the message's order. Which cached rows
are served is free between what must be (`Settled`) and what may be (`UpToDate`): a
partial result may be due again by age or by a raised limit.

Abstractions. Text is a set of words; which chunks it is cut into is left out, so two
texts share what they have in common. Other messages are what they do to the cache:
a refresh by one of the same batch is the result this batch extracted (`plan.fresh`),
and happens only before or after the batch's collecting. A whole message is removed
only between batches. An `-ocr` result kept while OCR is off, and a label that comes to
select another module, are left out. A purge is a row that is absent; whether another
message still uses a shared key is free.

## 8. Runs and bounds

| Run | Question | Instance |
|---|---|---|
| `MCQueueFaults` | do attempts stay in budget and blame only their own message, does no half-indexed message lose its job, do the reaper and parking leave batches alone | 4 messages: one fails anywhere and is extracted in two passes, one is refused or answered 5xx, one trashed, one terminal; every provider failure, 2 attempts, 2 versions, 2 events (crash, outage, delivery, vanishing, requeue, reparse) |
| `MCQueueProgress` | what does a poison message cost its batchmates, and does everything settle | a killer in the bulk embed beside an innocent of two passes, 4 attempts, 2 versions, 3 events |
| `MCQueueFreshIntent`, `MCQueueOutage` | section 10 | |
| `MCSyncAck` | is unqueued mail of an acknowledged sync always owed a walk; do generations order syncs, is what is published readable, does a failure outlive older syncs | three scenarios: one sync, one message into a watched folder and one into a folder it creates, 2 faults of overflow, watch, walk, restart; without mail, 2 attempts with 2 faults of publish, stamp, generation, stop, kill, lost state, mbsync, restart, and 3 attempts with 2 faults of publish, stamp, generation, mbsync |
| `MCSyncLive` | is every stamp acknowledged, all mail indexed and every recorded failure ended | three scenarios: one message in a folder the sync creates, one fault of overflow, walk, watch, repair, marker, restart; 2 attempts without mail, one fault of overflow, restart, publish, mbsync, or 2 of publish, mbsync |
| `MCSyncAckFolder` | section 10 | no fault at all |
| `MCDeletion` | what no interleaving of scan, watcher, parser and reaper with mbsync may do to the tables | 2 messages of one thread in 2 slots of 2 folders, 3 names each, 2 events of any of 11 kinds, brake at one message |
| `MCDeletionLive` | is a restored message kept, and does the index end as the Maildir | 2 messages that use one slot after each other, 2 names, 3 events of 6 kinds |
| `MCThreadVectors` | do sums and vectors stay exact, and is a thread sound again in the end | 2 messages of one thread, one from before the sums, that can carry the same attachment; one text per slice, batches of two, 3 events |
| `MCAttachmentSlices` | is what is recorded complete in the chunks, is a word ruled out only if it is nowhere, is the slice of a payload read whole exact, is nothing put off without a job | three copies of one payload under three labels, a parse with all or with the first only; two versions of extractors and identification; 3 troubles of failure, requeue, restart (five kinds), peer |
| `MCAttachmentSlicesLive` | is a message done in the end | the same with two labels, a parse with all, one or none, 2 troubles |

Why the bounds are enough. `MaxVersion = 2` lets content change once under a
path, which is what tells a stale completion from a fresh one; two messages make
a batch in which one can be blamed for the other; two attempts make the last
attempt differ from the first, four let `MCQueueProgress` tell one charge per crash
from one per batchmate; `MaxEvents` bounds what the world does, each event of any
kind, and three let a crash, a delivery and a rescue meet. Three sync attempts
let a success, a failure and a later success follow each other around a lost
counter. Two faults let the second strike while the first is being repaired (an
overflow during the recovery walk of another). `EventsLost` loses any suffix, so
a single message suffices to fall into the gap; a second is there to be in a
folder of the other kind.

In `MCDeletion` two events are a loss and what makes it false (a file gone and back
under another name, an outage and a lost event, a replacement during a rename); two
slots in two folders let one folder be out of reach while the other proves
something; one thread of two lets the second message survive the reap of the first,
or exceed the brake with it. `MCDeletionLive` has three events because a restore
that is trashed again during a reap takes three; one slot suffices since the second
message reuses it. In `MCThreadVectors` two messages are what a sum needs to be more
than its last write, and three events let a failure leave a placeholder or a
missing sum, and a reparse and a reap meet it. In `MCAttachmentSlices` three copies
are one resolved earlier, one put off and one the parse drops; two versions tell old
text from new; three troubles are a continuation interrupted by an upgrade whose
result another message brings first. No symmetry is used: the messages
differ.

The kinds of history of `MCSyncAck` and of `MCSyncLive` are chosen in the initial
state (`Scenarios`, `bounds`): faults of the shell and mail with faults of the
indexer are checked apart, which keeps three attempts within reach.

Where a cfg says so, deadlock is not checked: when the bounds are used up and the
queue is empty the system may rest for good, as the program does with no mail.

Every property has a mutant: a definition of the model replaced by a slip
somebody might write (the definitions marked "A slip"), with which TLC finds the
property violated on the same instance.

## 9. Fairness

* Queue: the worker's thread is never abandoned (weak fairness of `Drain` as a
  whole), docker restarts the process (`Start`), clocks go on (`BackoffElapses`,
  `BreakerElapses`), an outage ends (`EmbedderRecovers`), the watchdog handles
  what it heard. The walk runs between two batches, and the next batch may be
  ready first each time; the main loop's timer makes it run all the same, which
  is strong fairness of `WalkQueues`. Nothing is assumed of deliveries, crashes
  or the operator.
* Sync: the shell goes on with an attempt it began and is restarted, but need not
  begin another; the watcher handles its events; the main thread goes on with
  what it is doing. The periodic sweep, the recording of state and the drain
  compete with other work of the main loop and come round all the same: strong
  fairness. A fault is never forced.
* Deletion: the main thread goes on with a pass it began and the watcher with its
  events; the drain comes back to every due row, the sweep and the rescan come
  round, and the clock passes every grace window, each of which other work may
  delay but not for ever: strong fairness. A folder that is away comes back.
  Nothing is assumed of mbsync.
* Thread vectors: the drain goes on with the batch it has and takes every due
  message in the end, and the check comes to every thread between two batches,
  whatever batches come before it (strong fairness). Reparses, reaps and failures
  are never forced.
* Attachment slices: the drain comes back to a queued message and takes its pass on
  (section 3 shows that it does). Nothing is assumed of other messages.

## 10. What the code does that its text denies

* **A fresh delivery can be buried by an older failure** (`MCQueueFreshIntent`,
  `DeadSinceAdmitted`). `mark_failed` reads the attempts in one lock acquisition
  and buries the row in another (`I/queue.py` 512 and 521); the watchdog's
  `enqueue` may come in between. The re-delivered message is dead without having
  been tried since, and the walk skips dead rows. `I/queue.py` 29-31 says a new
  event is fresh intent that a dead letter should not block.
* **An outage can bury mail** (`MCQueueOutage`, `NoOutageDeadLetters`). A message
  answered 5xx while the next probe succeeds is charged (`I/main.py` 2792-2796);
  a provider that flaps for as long as the retries last buries messages that have
  nothing wrong. `I/queue.py` 20-22 says no outage can.
* **A stamp may be acknowledged before its mail is queued** (`MCSyncAckFolder`,
  `AckedIsQueued`). `I/main.py` 861-865 says a sync is acknowledged only once
  every message it delivered is queued. Mail delivered before the watch was
  scheduled, or into a folder the sync created, had no event. What does hold is
  `UnqueuedIsOwed`: a walk that will find it is on its way.
* **A thread can keep the vector of text it no longer has.** `I/main.py` 2090-2094
  says the subject's vector is reserved when this message's Phase 2c will delete
  chunks it committed earlier, which may be the thread's last. For an attachment
  that is gone from the parse the code asks another question (2327-2330): whether
  the thread holds any other chunk at the time of the plan. If a batchmate of the
  same thread holds the only other chunks and loses them in the same batch, neither
  the last commit nor anything after it replaces the vector: the check repairs
  sums and means of threads with chunks, and the recovery sweep looks for zero
  vectors. `LastChunkTakesVector` therefore excludes a thread a batchmate changed
  between plan and commit (`moved`); without that condition TLC gives the
  behaviour just described.

A gap no text denies, so no finding: a message the startup sweep
queued for a refresh may be taken by a pass with extraction switched off, after
another message refreshed the cached row. Nothing is due then when extraction is
switched on again; its rows stay unknown (no word is ruled out wrongly) and its
chunks old, until `make reparse`.

## 11. Proofs

### The queue

`IndexingQueueProofs` proves, for any set of paths, any batch size, any budget,
any classification of the messages and any bounds, from `QueueAssumption` alone
(the constants have the types the code gives them):

| Theorem | Statement |
|---|---|
| `TypeCorrect` | `Spec => []TypeOK` |
| `HeldRows` | no other thread removes or buries a row the worker holds |
| `BlameIsTrue` | attempts never exceed the message's own failures and its one open charge |
| `DeathIsEarned` | a dead row failed `MaxAttempts` times itself or can never be indexed |
| `Implements` | the queue implements `IndexPromise` |
| `WholeOrQueued` | a message between Phase 1 and Phase 2c has a job |
| `Budget` | `WithinBudget`: no row is charged past `MaxAttempts` |
| `CostsOne` | `RestartCostsOne`: events charge the innocent messages at most once each |

The argument. `HeldRowsAreQueued` is not inductive: whether another thread can
touch a held row depends on where the worker is, so `HeldInv` adds what each
place of the drain holds (the charged row is in the loop's set in the loops that
charge, nothing is charged while a batch is probed, an outcome waiting to be
written is of a row no longer in the set). `NoFalseBlame` is strengthened by
`WriteIsEarned` to `EarnedInv`: the outcome about to be written already counts
the failure that caused it, and one that buries has the failures for it; without
it the write could not be justified, since it does not look at the row again. It
also needs `MarkedBlame`: a charge counts as open only while its mark is on the
row, because a refund undoes nothing on a row admitted afresh meanwhile. For `Implements`, `DoneInv` says that what the commit loop has
stored is complete, so that each step is a step of the promise or a stutter:
`PromiseOwe`, `PromisePublish`, `PromiseComplete`, `PromiseFinish`, `PromiseBury`
and `PromiseForget` are one lemma each, and the refinement maps each action to
one of them. `WholeOrQueued` then follows from the invariant of the promise.

`WithinBudget` is not inductive either: a charge and a failure each add one to what
the row carries. `BudgetInv` says where an attempt is left. A row at its limit is
dead or still has the mark of the step that was running, so the next step to take it
buries it before it charges; a row that some step of this batch has settled
(`OnHand`) is below the limit, which is why the later phases may charge it without
looking; and a trashed message is never charged at all, which matters because it is
parked without a check of its attempts.

`RestartCostsOne` counts charges of all innocent messages against events, so it is
proved by an injection: `CostInv` gives each charge an event of its own. The
injection needs one element more. An outage is an event long before the message it
makes the probe charge, so while the embedder is down, or an innocent message is
being probed again, one event is held back (`Credit`) and handed to that charge. What
the proof turns on is that a restart finds at most one row charged.

### Sync acknowledgement

`SyncAckProofs` proves every safety property of section 4, for any messages, folders,
scenarios, attempts and faults, from `MaildirAssumption` (a message has a folder, and
a scenario is within its bounds):

| Theorem | Statement |
|---|---|
| `Invariant` | `Spec => []IInv`, the inductive invariant |
| `SyncTypeCorrect` | `TypeOK` |
| `Published` | `PublishedIsReadable` |
| `GenerationsOrder` | `GenerationsOrderSyncs` |
| `FailureOutlives` | `FailureOutlivesOldSyncs` |
| `WalkedQueued` | `WalkedIsQueued` |
| `UnqueuedOwed` | `UnqueuedIsOwed` |
| `CurrentHonest` | `CurrentIsHonest` |

`IInv` has three layers. `ShellInv` is about the shell's numbers. Which of its files
are up to date depends on where it was killed, so `NumbersBounded` bounds each by the
attempts that can have written it, `RecordsAgree` relates the shell's memory to the
status file it last managed to write, and `Allocated` says that a generation just
taken is above every one that is named anywhere. `GenerationsOrderSyncs` speaks of
the syncs now known; to keep it, every stamp and success that any part still holds,
in memory, in a row or in the queue of events, must be ordered (`Past`), the stamp on
disk must be the latest of them, and a failure's floor must separate what came before
it from what comes after (`FloorsHold`): that is what makes a lost counter harmless.

`FailuresTracked` and `RowIsHonest` are about the recorder: a failure that is in the
row is in memory too, or a later one is, or a later sync is acknowledged. A restart
takes up what the row recorded and looks at the file again, so a failure is forgotten
only if the row forgot it, which it does with the acknowledgement of a later sync.

`MailInv` is about each message delivered that is neither queued nor indexed. Its
event, or an overflow that stands for it, is among those not yet handled (`Ahead`), or
it is `Excused`: a recovery will find it, a walk is owed, or its folder is not watched
yet. A stamp's event comes after the mail of its sync (`StampsFollowMail`), so that
when it is handled the mail was heard or is excused, and once it is acknowledged what
excuses it must be a walk that will certainly come (`Owes`), which `AckedIsOwed` keeps
while walks begin, fail and end, watches are closed and the process restarts. The
delicate part is a walk under way: it looked at the disk when it began, so a message
may be in a folder it covered and not in what it `found`; `WalkFinds` and
`HeldIsFound` say that it found all mail of the stamp read before it began and, when no
overflow came since, that of the stamp held for the recovery, or another walk is owed. `FaultsCounted` bounds the overflows, which
`TypeOK` needs since the fence counts them.

### Thread vectors

`ThreadVectorsProofs` proves, for any messages, threads, payloads, texts and batch
size, from `MailAssumption`, `BoundsAssumption` and `ChunksAssumption` (the chunks a
thread can hold are finitely many, since their number is counted):

| Theorem | Statement |
|---|---|
| `TypeCorrect` | `Spec => []TypeOK`, with it that no chunk outlives its message or its attachment |
| `SumsStayExact` | `ExactStaysExact`: no step but a foreign write makes an exact sum or mean inexact |
| `LastChunk` | `LastChunkTakesVector` |

The heart is a lemma on `Edit`: chunks added that were not there and dropped that
were, applied to a readable exact row, give the exact row of what is left, and an
unreadable or missing row is recomputed; the counts follow from the cardinality of
disjoint unions. Its hypotheses must hold of Phase 2c's two writes, so the invariant
has, beside `TypeOK`, that the messages of a batch have rows (`Batches`). What is new
and what is gone is computed in Phase 2c's own transaction, which is why no plan,
however old, can break them. For `LastChunk` a second invariant, `Plans`, says that each plan
waiting is still what Phase 2a would plan now, unless its thread is in `moved`: the
fallback was reserved if this commit empties the thread.

### Deletion reconciliation

`DeletionProofs` proves every safety property of section 5, for any messages,
folders, slots, names, threads and bounds, from the assumptions of `MailIndex` and
`Deletion` about their constants:

| Theorem | Statement |
|---|---|
| `TypeCorrect` | `Spec => []TypeOK` |
| `HoldersUnique` | `OneHolderPerPath` |
| `TombstonesLost` | `TombstonedIsLost` |
| `GraceIsRestarted` | `GraceRestarts` |
| `BrakeKeeps` | `BrakeHolds`, if the messages are finitely many (the brake counts them) |
| `RestoredKept` | `RestoredIsKept` |
| `PartialViewKept` | `PartialViewRetiresNothing` |

The argument has four layers. `Sane` says of the tables alone that holders are unique,
tombstones lost and active occurrences of indexed messages; there is one lemma for each
statement (`Bind`, `Carry`, `RenameRows`, `Retire`, ...) that it keeps `Sane`, and `Core`
adds the variables' shapes, so every interleaving keeps it. For the reap, `History`
says that a message that came back since the reap began has no ripe mark of the batch
left, and `Brake` that what was removed is within what was allowed of the batch.
For the restored message, `Evidence` says what the look on disk found still holds of
every folder not in `stale`, as long as the lock is held. For the scan, `Listing` says
the same of the folders listed in this pass; with `OneFile` (a slot has one file) a row
is given up only for lack of a file. Neither survives a lock released or a folder
touched, which is where the code looks again.

### Attachment slices

`AttachmentSlicesProofs` proves the five safety properties of section 7, for any
attachments, labels, releases and bounds, from `SlicesAssumption`:

| Theorem | Statement |
|---|---|
| `TypeCorrect` | `Spec => []TypeOK` |
| `CompleteIsIndexed` | `CompleteMeansIndexed` |
| `AbsenceTrue` | `AbsenceIsTrue` |
| `DeferralsQueued` | `DeferralsAreQueued` |
| `SlicesExact` | `SettledSlicesAreExact` |

`CompleteMeansIndexed` looks only at rows and slices, but what keeps it true is in the
cache. `Vouched` says that a complete row has a complete cached row of the running
version (and, with extraction enabled, identification): no pass extracts that key
again, since it would find the row settled (`PassesOver`). `CacheHonest` says that a complete
cached row holds what its version reads and that no row has an identification later
than the release's.
A plan waits for its commit while other messages refresh and purge, so `PlanOK` says
what it may still rely on: each result is of this batch, or of a cached row that is as
it was or gone; a kept copy that is complete has its cached row left alone, and where its
slice is rewritten its text is in the plan. What the commit leaves of rows and cache are lemmas of their own
(`RowsCommitted`, `CacheCommitted`). A restart is where a version moves: the sweep
clears exactly the rows for which `Vouched` would fail. For the absence, `CurrentIsParsed`
says that rows certified as current are those of the manifest, and nothing has to be
said of attachments the parse no longer finds.

`SlicesExact` has its own invariant, `ExactInv`. Nothing bounds what a slice holds of
old text while a copy of its payload waits, but a slice each of whose keys some copy
has read whole has no more than the copies' text (`ExactNow`), and a pass that was
planned would leave it so (`ExactAfter`). The second part is what a pass that keeps a
slice must justify: if it leaves a copy off, that copy's key is read whole by none,
and if the last copy of a module is dropped the payload is settled anew. The proof
uses neither that the job is over nor that the message is parsed, so the property
does not ask for them: a payload read whole is exact at any time.

### Only model-checked

Every invariant and action property that a passing run checks is proved. What stays
with TLC is liveness (`EverythingSettles`, `InnocentsIndexed`, `StampsAreAcked`,
`MailIsIndexed`, `FailuresEnd`, `IndexMirrorsMaildir`, `SoundAgain`, `DeferralsEnd`):
it needs fairness, hence ENABLED, and an induction over what is left to do, which the
provers used cannot do. The properties of section 10 are false, and TLC shows how.

## 12. Not modelled

* Still to come: section 2, items 5, 7 and 8.
* In the queue: the redating of rows never tried, the re-extraction and
  stale-content admissions.
* In the sync: clocks and ages, the older stamp format, the startup checks of the
  container (certificate pin, layout).
* In the reconciliation: a second account and the brake of each, the process of
  `make force-deletion` (only that it has no brake), the counters of blocked
  threads, the cursors that rotate the hashing budget and the thread a pass begins
  with, the record of reaped messages.
* In the thread vectors: the encoding of a sum and its rounding, threads that are
  merged, two files of one message in a batch, the recovery sweep of zero vectors.
* Threading: which thread a message joins is a function of its headers and of the
  rows; it is a constant in both models that need it.
* Left out for good: format extractors, parsing, quoting and entity extraction
  (functions of bytes through third-party libraries, in which only success or
  failure matters to the rest); schema migrations (one transaction before
  anything else runs); the transport and the language-model calls of the
  mcp-server; evidence runs. Proton Bridge and mbsync are external: the model has
  of them what the scripts and the indexer rely on.

## 13. Running

    tlc -workers 2 -config MCQueueFaults.cfg MCIndexingQueue
    tlc -workers 2 -config MCSyncAck.cfg MCSyncAck
    tlc -workers 2 -config MCDeletion.cfg MCDeletion
    tlc -workers 2 -config MCThreadVectors.cfg MCThreadVectors
    tlc -workers 2 -config MCAttachmentSlices.cfg MCAttachmentSlices
    tlapm IndexingQueueProofs.tla
    tlapm SyncAckProofs.tla
    tlapm DeletionProofs.tla
    tlapm ThreadVectorsProofs.tla
    tlapm AttachmentSlicesProofs.tla

The cfgs named `MCQueue*` belong to `MCIndexingQueue`, those named `MCSync*` to
`MCSyncAck`, those named `MCDeletion*` to `MCDeletion`, those named
`MCAttachmentSlices*` to `MCAttachmentSlices`.
