------------------------------- MODULE SyncAck -------------------------------
(***************************************************************************)
(* The mbsync container and the indexer together: when a sync is           *)
(* acknowledged, what that says of the mail it delivered, and what         *)
(* get_mailbox_status may conclude from the row the indexer writes.        *)
(***************************************************************************)
EXTENDS MbsyncLoop, IngestionRecorder

vars == <<maildir, kernel, bounds, mbsync, indexer>>

Init == MaildirInit /\ MbsyncInit /\ RecorderInit

Next ==
    \/ Sync /\ UNCHANGED indexer
    \/ (Watcher \/ MainThread) /\ UNCHANGED mbsync

Spec == Init /\ [][Next]_vars

TypeOK == MaildirType /\ MbsyncType /\ RecorderType

-----------------------------------------------------------------------------

\* What an acknowledged sync says is queued: its mail and all mail before it.
Covers(s) == {m \in Messages : delivered[m] \in 1..s.attempt}
Lagging == Covers(acked) \ (queued \cup indexed)

\* "A sync is acknowledged only once every message it delivered is queued"
\* (_IngestionStateRecorder, indexer/src/main.py:861): an acknowledged sync has
\* no message that is neither queued nor indexed.
AckedIsQueued == Lagging = {}

\* A walk is on its way: a watch refresh is signalled or under way, its walk is
\* owed, the watch is gone and the next refresh starts it anew, or the process
\* has not yet made its startup walk.
WalkOwed ==
    \/ completed \/ rewatched \/ pc = "refresh"
    \/ ~watching
    \/ why = "startup" /\ pc # "loop"

\* A message that is not queued when its sync is acknowledged has a walk on its
\* way that will find it.
UnqueuedIsOwed == Lagging # {} => WalkOwed

\* The sync named by the last recorded Maildir walk (enumerated_latest_sync) had
\* delivered nothing that walk left out.
WalkedIsQueued == Covers(walked) \subseteq queued \cup indexed

\* Every sync the two processes know of, wherever it is written down.
Successes ==
    {r \in {mem.terminal, mem.success, status.terminal, status.success} :
        r.ok /\ r.gen # NoGen}
Known ==
    {s \in {stamp, walkStamp, held, acked, row.acked, walked} : s # NoStamp}
    \cup {events[i].of : i \in {j \in DOMAIN events : events[j].kind = "stamp"}}
    \cup {[attempt |-> r.attempt, gen |-> r.gen] : r \in Successes}

\* Generations order the syncs as they happened and name one sync each, though
\* the state volume is lost, a stamp is not written or the shell is killed
\* between allocating a generation and publishing it.
GenerationsOrderSyncs ==
    \A s, t \in Known : s.gen < t.gen <=> s.attempt < t.attempt

\* What the shell publishes is what the indexer's parser accepts: a floor is
\* never below a success published beside it.
PublishedIsReadable == WellFormed(status)

\* collection_reasons and not_current_reasons (mcp-server's system.py), with the
\* times fresh: nothing in the row, nor in the queue, denies it.
Current ==
    /\ row.acked # NoStamp /\ row.unrecovered = 0 /\ ~row.undelivered
    /\ queued = {}

\* An index reported current has acknowledged a sync as late as the last outcome
\* recorded with it, so a failure or an undelivered success never hides behind
\* an older stamp; and its mail is indexed, or a refresh owes it (as above).
CurrentIsHonest ==
    Current =>
        /\ row.terminal <= row.acked.attempt
        /\ Covers(row.acked) \subseteq indexed \/ WalkOwed

\* A recorded failure is cleared only by a sync later than it.
FailureOutlivesOldSyncs ==
    [][row.unrecovered # 0 /\ row'.unrecovered = 0
        => row'.acked.attempt > row.unrecovered]_row

-----------------------------------------------------------------------------
\* The shell goes on by itself (docker restarts it), the watcher handles what is
\* queued for it, and the main loop comes round to every pass it makes.
Fairness ==
    /\ WF_vars((StartShell \/ EndMbsync \/ SignalRepair \/ RecordFailure
                  \/ Allocate \/ WriteStamp \/ RecordSuccess) /\ UNCHANGED indexer)
    /\ WF_vars((HandleFile \/ HandleDir \/ HandleMarker \/ HandleStamp
                  \/ OverflowSeen) /\ UNCHANGED mbsync)
    /\ WF_vars((StartIndexer \/ Keep \/ Reschedule \/ BeginWalk \/ EndRefreshWalk
                  \/ EndWalk) /\ UNCHANGED mbsync)
    /\ SF_vars(PeriodicRescan /\ UNCHANGED mbsync)
    /\ SF_vars(RecordState /\ UNCHANGED mbsync)
    /\ \A m \in Messages : SF_vars(Index(m) /\ UNCHANGED mbsync)

FairSpec == Spec /\ Fairness

\* Every sync stamped is acknowledged, or a later one, in the end: an overflow, a
\* failed walk or a restart only delays it.
StampsAreAcked ==
    \A g \in Generations \ {0} : stamp.gen = g ~> acked.gen >= g

\* Mail in a folder the indexer can read is indexed in the end, whether or not
\* its event was heard.
MailIsIndexed ==
    \A m \in Messages :
        delivered[m] # 0 /\ FolderOf[m] \in open ~> m \in indexed

\* A failed collection is over once a later sync is stamped, even if the status
\* file never said that it succeeded.
FailuresEnd ==
    \A k \in Attempts \ {0} :
        row.unrecovered = k /\ stamp.attempt > k ~> row.unrecovered # k
=============================================================================
