-------------------------- MODULE IngestionRecorder --------------------------
(***************************************************************************)
(* The indexer's side of a sync: the watcher thread that handles the       *)
(* Maildir's events, the main thread's watch refreshes and walks, and the  *)
(* recorder they share (_IngestionStateRecorder of indexer/src/main.py),   *)
(* which decides when a sync is acknowledged and when a failed collection  *)
(* is over.  A message is queued once its job is committed and indexed     *)
(* once the job is gone or dead (IndexingQueue has what lies between).     *)
(***************************************************************************)
EXTENDS Maildir

VARIABLES
    pc,           \* where the main thread is
    why,          \* what its refresh or walk is for
    found,        \* what the walk under way queues
    walkStamp,    \* the stamp read before it
    walkFrom,     \* the overflows seen before it
    known,        \* FolderWatchRefresher._watched
    created,      \* the event directory_created
    completed,    \* the event sync_completed
    rewatched,    \* FolderWatchRefresher.recovery_pending
    overflows, covered,         \* of the recorder, as the next three
    held, acked, unrecovered,
    row,          \* ingestion_state and account_collection_state
    walked,       \* the sync the last row of ingestion_walks names
    queued, indexed

main     == <<pc, why, found, walkStamp, walkFrom>>
refresher == <<known, created, rewatched>>
recorder == <<overflows, covered, held, acked, unrecovered>>
tables   == <<row, walked>>
mail     == <<queued, indexed>>
indexer  == <<main, refresher, completed, recorder, tables, mail>>

Up == pc # "down"
RecoveryPending == overflows > covered

\* _acknowledge: forward only, by generation.
Newer(s, t) == IF s.gen > t.gen THEN s ELSE t

\* A slip: what is indexed already is queued again.
EnqueueAgain(messages) == queued' = queued \cup messages

Enqueue(messages) == queued' = queued \cup (messages \ indexed)

\* A slip: any acknowledged sync proves the success delivered.
DeliveredByAny == status.success.attempt # 0 /\ acked # NoStamp

\* _success_delivered and _failure_recovered, for the records read now.
SuccessDelivered ==
    LET s == status.success
    IN  /\ s.attempt # 0 /\ acked # NoStamp
        /\ IF s.gen # NoGen
           THEN acked.gen > s.gen \/ (acked.gen = s.gen /\ acked.attempt = s.attempt)
           ELSE acked.attempt = s.attempt

\* A slip: an acknowledged sync as old as the floor ends the failure.
RecoveredAtFloor ==
    LET t == status.terminal
    IN  /\ t.attempt # 0 /\ t.gen # NoGen
        /\ acked # NoStamp /\ acked.gen >= t.gen

FailureRecovered ==
    LET t == status.terminal
    IN  /\ t.attempt # 0 /\ t.gen # NoGen
        /\ acked # NoStamp /\ acked.gen > t.gen

\* A slip: only the status file can say that a failure is over.
ObservedByRecord(failed) ==
    LET t == status.terminal
    IN  IF ~WellFormed(status) \/ t.attempt = 0 THEN failed
        ELSE IF ~t.ok THEN t.attempt
        ELSE IF SuccessDelivered THEN 0
        ELSE failed

\* _observe_collection: the failed attempt not yet followed by a delivered
\* success, after a read of the status file.
Observed(failed) ==
    LET t == status.terminal
    IN  IF ~WellFormed(status) \/ t.attempt = 0 THEN failed
        ELSE IF ~t.ok /\ ~FailureRecovered THEN t.attempt
        ELSE IF FailureRecovered \/ (t.ok /\ SuccessDelivered) THEN 0
        ELSE failed

-----------------------------------------------------------------------------
(* The watcher thread.                                                     *)

AtHead(kind) == Up /\ events # <<>> /\ Head(events).kind = kind
Handled == events' = Tail(events)

\* on_moved, case 2 (a delivery).
HandleFile ==
    /\ AtHead("file") /\ Handled
    /\ Enqueue({Head(events).of})
    /\ UNCHANGED <<main, refresher, completed, recorder, tables, indexed>>
    /\ UNCHANGED <<maildir, watching, watched, bounds>>

\* The emitter adds a watch if it can read the folder by then; on_created
\* makes the next refresh re-schedule.
HandleDir ==
    /\ AtHead("dir") /\ Handled
    /\ created' = TRUE
    /\ \/ UNCHANGED watched
       \/ Head(events).of \in open /\ watched' = watched \cup {Head(events).of}
    /\ UNCHANGED <<main, known, rewatched, completed, recorder, tables, mail>>
    /\ UNCHANGED <<maildir, watching, bounds>>

HandleMarker ==
    /\ AtHead("marker") /\ Handled
    /\ completed' = TRUE
    /\ UNCHANGED <<main, refresher, recorder, tables, mail>>
    /\ UNCHANGED <<maildir, watching, watched, bounds>>

\* A slip: a stamp is acknowledged whatever the overflows dropped.
AcknowledgeAnyway(s) == acked' = Newer(s, acked) /\ UNCHANGED held

\* acknowledge_watched.
AcknowledgeWatched(s) ==
    IF RecoveryPending
    THEN held' = s /\ UNCHANGED acked
    ELSE acked' = Newer(s, acked) /\ UNCHANGED held

HandleStamp ==
    /\ AtHead("stamp") /\ Handled
    /\ AcknowledgeWatched(Head(events).of)
    /\ completed' = TRUE
    /\ UNCHANGED <<main, refresher, overflows, covered, unrecovered, tables, mail>>
    /\ UNCHANGED <<maildir, watching, watched, bounds>>

\* overflow_seen, on the emitter thread: before the events ahead of the
\* record are handled, or after them.
OverflowSeen ==
    /\ Up
    /\ \E i \in DOMAIN events :
          /\ events[i] = Overflow
          /\ events' = SubSeq(events, 1, i - 1) \o SubSeq(events, i + 1, Len(events))
    /\ overflows' = overflows + 1
    /\ UNCHANGED <<main, refresher, completed, covered, held, acked, unrecovered>>
    /\ UNCHANGED <<tables, mail, maildir, watching, watched, bounds>>

\* read_collection outside a write: a rename onto the status file, or a
\* heartbeat whose write fails.
ReadCollection ==
    /\ Up
    /\ unrecovered' = Observed(unrecovered)
    /\ UNCHANGED <<main, refresher, completed, overflows, covered, held, acked>>
    /\ UNCHANGED <<tables, mail, maildir, kernel, bounds>>

-----------------------------------------------------------------------------
(* The main thread.                                                        *)

Goto(place, reason) == pc' = place /\ why' = reason

\* maybe_record: the read, then one snapshot.
RecordState ==
    LET t == status.terminal IN
    /\ pc = "loop"
    /\ unrecovered' = Observed(unrecovered)
    /\ row' = [acked |-> acked, unrecovered |-> unrecovered', terminal |-> t.attempt,
               undelivered |-> WellFormed(status) /\ t.ok /\ ~SuccessDelivered]
    /\ UNCHANGED <<main, refresher, completed, overflows, covered, held, acked>>
    /\ UNCHANGED <<walked, mail, maildir, kernel, bounds>>

\* The drain ends a job, one way or the other.
Index(m) ==
    /\ pc = "loop" /\ m \in queued
    /\ queued' = queued \ {m}
    /\ indexed' = indexed \cup {m}
    /\ UNCHANGED <<main, refresher, completed, recorder, tables>>
    /\ UNCHANGED <<maildir, kernel, bounds>>

\* The signal is cleared before the refresh it asks for.
AnswerSignal ==
    /\ pc = "loop" /\ completed
    /\ completed' = FALSE
    /\ Goto("refresh", "signal")
    /\ UNCHANGED <<found, walkStamp, walkFrom, refresher, recorder, tables, mail>>
    /\ UNCHANGED <<maildir, kernel, bounds>>

\* An overflow not yet covered: a re-schedule is forced, and walks follow.
AnswerOverflow ==
    /\ pc = "loop" /\ RecoveryPending
    /\ created' = TRUE
    /\ Goto("refresh", "overflow")
    /\ UNCHANGED <<found, walkStamp, walkFrom, known, rewatched, completed>>
    /\ UNCHANGED <<recorder, tables, mail, maildir, kernel, bounds>>

\* The watch is closed: events the emitter has not read yet are lost.
EventsLost == \E n \in 0..Len(events) : events' = SubSeq(events, 1, n)

\* FolderWatchRefresher.refresh and what _refresh_folder_watches does next.
NothingToWatch == open \subseteq known /\ ~created /\ watching

Keep ==
    /\ pc = "refresh" /\ NothingToWatch
    /\ IF rewatched THEN pc' = "walk" /\ UNCHANGED why ELSE Goto("loop", "none")
    /\ UNCHANGED <<found, walkStamp, walkFrom, refresher, completed, recorder>>
    /\ UNCHANGED <<tables, mail, maildir, kernel, bounds>>

Reschedule ==
    /\ pc = "refresh" /\ ~NothingToWatch
    /\ created' = FALSE
    /\ known' = open /\ watched' = open /\ watching' = TRUE
    /\ EventsLost
    /\ rewatched' = TRUE
    /\ pc' = "walk"
    /\ UNCHANGED <<why, found, walkStamp, walkFrom, completed, recorder, tables>>
    /\ UNCHANGED <<mail, maildir, bounds>>

\* The watch cannot be scheduled: none is left until the next refresh.
RescheduleFails ==
    /\ pc = "refresh" /\ ~NothingToWatch /\ Trouble("watch")
    /\ created' = FALSE
    /\ watched' = {} /\ watching' = FALSE
    /\ EventsLost
    /\ Goto("loop", "none")
    /\ UNCHANGED <<found, walkStamp, walkFrom, known, rewatched, completed>>
    /\ UNCHANGED <<recorder, tables, mail, maildir>>

\* The main loop's recovery sweep comes due.
PeriodicRescan ==
    /\ pc = "loop"
    /\ Goto("walk", "rescan")
    /\ UNCHANGED <<found, walkStamp, walkFrom, refresher, completed, recorder>>
    /\ UNCHANGED <<tables, mail, maildir, kernel, bounds>>

\* A slip: a walk looks only at the mail since the acknowledged sync.
BeginIncrementalWalk ==
    /\ pc = "walk"
    /\ walkStamp' = stamp /\ walkFrom' = overflows
    /\ found' = {m \in Messages : delivered[m] > acked.attempt /\ FolderOf[m] \in open}
    /\ pc' = "walking"
    /\ UNCHANGED <<why, refresher, completed, recorder, tables, mail>>
    /\ UNCHANGED <<maildir, kernel, bounds>>

\* _enqueue_unindexed_messages begins, after the stamp is read: it will find
\* what is on disk now in a folder it can read.
BeginWalk ==
    /\ pc = "walk"
    /\ walkStamp' = stamp /\ walkFrom' = overflows
    /\ found' = {m \in Messages : delivered[m] # 0 /\ FolderOf[m] \in open}
    /\ pc' = "walking"
    /\ UNCHANGED <<why, refresher, completed, recorder, tables, mail>>
    /\ UNCHANGED <<maildir, kernel, bounds>>

\* A slip: only the watcher acknowledges.
WalkAcknowledgesNothing == UNCHANGED <<covered, held, acked>>

\* A slip: the recovery walk covers the overflows that came while it ran.
CompletedLate ==
    /\ covered' = overflows
    /\ held' = NoStamp
    /\ acked' = Newer(held, Newer(walkStamp, acked))

\* The acknowledgement a finished rescan makes, then walk_completed.
WalkCompleted ==
    IF why = "recovery" /\ walkFrom > covered
    THEN /\ covered' = walkFrom
         /\ IF overflows > walkFrom
            THEN acked' = Newer(walkStamp, acked) /\ UNCHANGED held
            ELSE acked' = Newer(held, Newer(walkStamp, acked)) /\ held' = NoStamp
    ELSE acked' = Newer(walkStamp, acked) /\ UNCHANGED <<covered, held>>

\* A slip: the walk is recorded under the stamp there is when it ends.
RecordStampNow == walked' = stamp

\* record_ingestion_walk: under the stamp there was when it began.
RecordWalk == walked' = walkStamp

WalkOver == found' = {} /\ walkStamp' = NoStamp /\ walkFrom' = 0

\* The walk of _refresh_folder_watches acknowledges nothing.
EndRefreshWalk ==
    /\ pc = "walking" /\ why \in {"signal", "periodic", "overflow"}
    /\ Enqueue(found)
    /\ RecordWalk
    /\ rewatched' = FALSE
    /\ IF why = "overflow" THEN Goto("walk", "recovery") ELSE Goto("loop", "none")
    /\ WalkOver
    /\ UNCHANGED <<known, created, completed, recorder>>
    /\ UNCHANGED <<row, indexed, maildir, kernel, bounds>>

\* The periodic pass refreshes the watch after its rescan, with or without a
\* signal; every other walk goes back to the loop.
AfterWalk ==
    IF why = "rescan" THEN Goto("refresh", "periodic") ELSE Goto("loop", "none")

EndWalk ==
    /\ pc = "walking" /\ why \in {"startup", "rescan", "recovery"}
    /\ Enqueue(found)
    /\ RecordWalk
    /\ WalkCompleted
    /\ AfterWalk
    /\ WalkOver
    /\ UNCHANGED <<refresher, completed>>
    /\ UNCHANGED <<overflows, unrecovered, row, indexed, maildir, kernel, bounds>>

\* A walk that raises: the main loop goes on, what was owed stays owed.
WalkFails ==
    /\ pc = "walking" /\ why # "startup" /\ Trouble("walk")
    /\ AfterWalk
    /\ WalkOver
    /\ UNCHANGED <<refresher, completed, recorder>>
    /\ UNCHANGED <<tables, mail, maildir, kernel>>

\* main: the recorder's first read, the watch, then the startup walk.
StartIndexer ==
    /\ pc = "down"
    /\ unrecovered' = Observed(row.unrecovered)
    /\ known' = open /\ watched' = open /\ watching' = TRUE
    /\ Goto("walk", "startup")
    /\ UNCHANGED <<found, walkStamp, walkFrom, created, rewatched, completed>>
    /\ UNCHANGED <<overflows, covered, held, acked, tables, mail>>
    /\ UNCHANGED <<maildir, events, bounds>>

\* The process ends: its memory and the kernel's watch with it.
CrashIndexer ==
    /\ Up /\ Trouble("restart")
    /\ Goto("down", "startup")
    /\ found' = {} /\ walkStamp' = NoStamp /\ walkFrom' = 0
    /\ known' = {} /\ created' = FALSE /\ rewatched' = FALSE /\ completed' = FALSE
    /\ overflows' = 0 /\ covered' = 0
    /\ held' = NoStamp /\ acked' = NoStamp /\ unrecovered' = 0
    /\ watching' = FALSE /\ watched' = {} /\ events' = <<>>
    /\ UNCHANGED <<tables, mail, maildir>>

RecorderType ==
    /\ pc \in {"down", "loop", "refresh", "walk", "walking"}
    /\ why \in {"none", "startup", "signal", "periodic", "overflow", "rescan", "recovery"}
    /\ found \subseteq Messages
    /\ walkStamp \in Stamp /\ walkFrom \in 0..overflows
    /\ known \subseteq Folders
    /\ created \in BOOLEAN /\ completed \in BOOLEAN /\ rewatched \in BOOLEAN
    /\ covered \in 0..overflows /\ overflows \in 0..MaxFaults
    /\ held \in Stamp /\ acked \in Stamp
    /\ unrecovered \in Attempts
    /\ row \in [acked : Stamp, unrecovered : Attempts, terminal : Attempts,
                undelivered : BOOLEAN]
    /\ walked \in Stamp
    /\ queued \cup indexed \subseteq Messages
    /\ queued \cap indexed = {}

RecorderInit ==
    /\ pc = "down" /\ why = "startup"
    /\ found = {} /\ walkStamp = NoStamp /\ walkFrom = 0
    /\ known = {} /\ created = FALSE /\ rewatched = FALSE /\ completed = FALSE
    /\ overflows = 0 /\ covered = 0
    /\ held = NoStamp /\ acked = NoStamp /\ unrecovered = 0
    /\ row = [acked |-> NoStamp, unrecovered |-> 0, terminal |-> 0,
              undelivered |-> FALSE]
    /\ walked = NoStamp
    /\ queued = {} /\ indexed = {}

Watcher ==
    HandleFile \/ HandleDir \/ HandleMarker \/ HandleStamp \/ OverflowSeen \/ ReadCollection

MainThread ==
    \/ RecordState \/ AnswerSignal \/ AnswerOverflow
    \/ Keep \/ Reschedule \/ RescheduleFails \/ PeriodicRescan
    \/ BeginWalk \/ EndRefreshWalk \/ EndWalk \/ WalkFails
    \/ StartIndexer \/ CrashIndexer
    \/ \E m \in Messages : Index(m)
=============================================================================
