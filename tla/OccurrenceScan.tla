--------------------------- MODULE OccurrenceScan ---------------------------
(***************************************************************************)
(* The reconciliation scan of the main thread                              *)
(* (indexer/src/occurrence_scan.py): it lists the folders one after the    *)
(* other, hashes what it may have to verify and then settles each active   *)
(* occurrence and each file no occurrence holds, in a transaction of its   *)
(* own, while mbsync and the watcher go on.  A sweep (reconciler.py)       *)
(* tombstones after it; a rescan (main.py) walks the Maildir for new mail. *)
(***************************************************************************)
EXTENDS MailIndex

VARIABLES
    pc,         \* where the main thread is
    scan,       \* the scan's locals
    stale       \* folders whose listing of this pass proves nothing any more:
                \* they could not be read, or changed since

Sight == [Paths -> Messages \cup {None}]
NoSight == [p \in Paths |-> None]

ScanType ==
    [sweeping : BOOLEAN,                    \* a sweep, or a rescan's sweep_paths
     unlisted : SUBSET Folders,
     files : SUBSET Paths,                  \* what the listings named
     partial : BOOLEAN,                     \* a folder could not be read
     sight : Sight,                         \* digests, by what was read
     held : SUBSET Paths,                   \* paths of active occurrences
     todo : SUBSET (Occurrence \cup Paths)] \* occurrences, files or new mail left

NoScan ==
    [sweeping |-> FALSE, unlisted |-> {}, files |-> {}, partial |-> FALSE,
     sight |-> NoSight, held |-> {}, todo |-> {}]

BeginScan(sweeping) ==
    /\ pc = "idle"
    /\ sweeping => Mirror
    /\ scan' = [NoScan EXCEPT !.sweeping = sweeping, !.unlisted = Folders]
    /\ pc' = "list"
    /\ UNCHANGED <<db, stale>>

\* _walk, one directory.  A folder that is gone is no failure.
ListFolder(f) ==
    /\ pc = "list" /\ f \in scan.unlisted
    /\ scan' = [scan EXCEPT
            !.unlisted = @ \ {f},
            !.files = @ \cup {p \in Found : Home(p) = f},
            !.partial = @ \/ folder[f] = "shut"]
    /\ stale' = IF folder[f] = "shut" THEN stale \cup {f} ELSE stale \ {f}
    /\ UNCHANGED <<db, pc>>

\* What the scan hashes: held files, the candidates of occurrences whose file is
\* missing, and unheld files that are marked, trashed or dead-lettered.
Wanted ==
    LET missing == {o \in db.active : o.at \notin scan.files}
    IN  {p \in scan.files :
            \/ HeldBy(db, p) # {}
            \/ \E o \in missing : SameSlot(o.at, p)
            \/ db.marker[p] # None \/ ~Untrashed(p) \/ db.jobs[p] = "dead"}

\* active_occurrences and the hashing; the budget may leave some of it for later.
ReadEvidence(unhashed) ==
    /\ pc = "list" /\ scan.unlisted = {}
    /\ unhashed \subseteq Wanted
    /\ scan' = [scan EXCEPT
            !.sight = [p \in Paths |-> IF p \in Wanted \ unhashed THEN Look(p) ELSE None],
            !.held = {o.at : o \in db.active},
            !.todo = db.active]
    /\ pc' = "rows"
    /\ UNCHANGED <<db, stale>>
----------------------------------------------------------------------------
(* One active occurrence as it was read.  A digest counts only for the     *)
(* file that was hashed; another size proves a mismatch without one.       *)

Digest(p) == IF scan.sight[p] = Look(p) THEN scan.sight[p] ELSE None
Proves(p, m) == Look(p) \notin {None, m} /\ (Alike => Digest(p) = Look(p))

\* A slip: listings that failed or changed are believed.
TrustedAnyway(f) == TRUE
Trusted(f) == f \notin stale

SlotFiles(o) == {p \in scan.files : SameSlot(p, o.at)}

\* Held, but its bytes are another message's.
Changed(o) == o.at \in scan.files /\ Proves(o.at, o.msg) /\ o \in db.active

\* Gone from its path, and a file of its slot that nothing holds has its bytes.
FollowedTo(o) ==
    {p \in SlotFiles(o) \ scan.held :
        o.at \notin scan.files /\ o \in db.active
        /\ HeldBy(db, p) = {} /\ Digest(p) = o.msg}

\* Gone, and every file of its slot is proven to be another message.
Mistaken(o) ==
    /\ o.at \notin scan.files /\ SlotFiles(o) # {}
    /\ \A p \in SlotFiles(o) : Proves(p, o.msg)
    /\ Trusted(Home(o.at)) /\ o \in db.active

\* Gone, with no file in its slot, by a complete scan and a listing that stands.
Vanished(o) ==
    /\ o.at \notin scan.files /\ SlotFiles(o) = {}
    /\ ~scan.partial
    /\ Trusted(Home(o.at)) /\ o \in db.active

\* retire_mismatched_occurrence queues the path in its transaction.
SettleRow(o) ==
    /\ pc = "rows" /\ o \in scan.todo
    /\ \/ /\ Changed(o)
          /\ db' = EnqueueIfAbsent(Retire(db, {o}), o.at)
          /\ scan' = [scan EXCEPT !.todo = @ \ {o}]
       \/ \E p \in FollowedTo(o) :
            /\ db' = RenameRows(db, o.at, p, o.msg)
            /\ scan' = [scan EXCEPT !.todo = @ \ {o}, !.held = @ \cup {p}]
       \/ /\ ~Changed(o) /\ FollowedTo(o) = {}
          /\ db' = IF Mistaken(o) \/ Vanished(o) THEN Retire(db, {o}) ELSE db
          /\ scan' = [scan EXCEPT !.todo = @ \ {o}]
    /\ UNCHANGED <<pc, stale>>

RowsDone ==
    /\ pc = "rows" /\ scan.todo = {}
    /\ pc' = "copies"
    /\ scan' = [scan EXCEPT !.todo = scan.files \ scan.held]
    /\ UNCHANGED <<db, stale>>

\* A slip: a file left unhashed for the budget is bound all the same.
IsCopyUnread(p) ==
    /\ Look(p) # None /\ HeldBy(db, p) = {}
    /\ db.marker[p] # None \/ ~Untrashed(p) \/ db.jobs[p] = "dead"
    /\ Digest(p) # None => Known(db, Digest(p))

\* A copy of an indexed message, marked, trashed or dead-lettered (other new
\* files are the walk's): bind_found_copy.
IsCopy(p) ==
    /\ Look(p) # None /\ HeldBy(db, p) = {}
    /\ db.marker[p] # None \/ ~Untrashed(p) \/ db.jobs[p] = "dead"
    /\ Digest(p) # None /\ Known(db, Digest(p))

SettleFile(p) ==
    /\ pc = "copies" /\ p \in scan.todo
    /\ db' = IF IsCopy(p) THEN Bind(db, Digest(p), p) ELSE db
    /\ scan' = [scan EXCEPT !.todo = @ \ {p}]
    /\ UNCHANGED <<pc, stale>>

\* clear_live_tombstones, for the sweep and for the rescan.
EndScan ==
    /\ pc = "copies" /\ scan.todo = {}
    /\ db' = ClearLive(db)
    /\ pc' = IF scan.sweeping THEN "mark" ELSE "walk"
    /\ scan' = NoScan /\ stale' = {}

\* Reconciler.sweep ends: mark_lost_messages.
MarkLostMessages ==
    /\ pc = "mark"
    /\ db' = MarkLost(db, Messages)
    /\ pc' = "reap"
    /\ UNCHANGED <<scan, stale>>
----------------------------------------------------------------------------
(* _enqueue_unindexed_messages: look at every file, then queue.            *)

Unindexed ==
    {p \in Found : /\ ~IndexedAndFresh(db, p) /\ (Mirror => Untrashed(p))
                   /\ db.jobs[p] # "dead" /\ ~Pending(db, p)}

WalkMaildir ==
    /\ pc = "walk"
    /\ scan' = [NoScan EXCEPT !.todo = Unindexed]
    /\ pc' = "queue"
    /\ UNCHANGED <<db, stale>>

QueueUnindexed ==
    /\ pc = "queue"
    /\ db' = [db EXCEPT !.jobs = [p \in Paths |-> IF p \in scan.todo THEN "queued" ELSE @[p]]]
    /\ scan' = NoScan
    /\ pc' = "idle"
    /\ UNCHANGED stale
=============================================================================
