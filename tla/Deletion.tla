------------------------------ MODULE Deletion ------------------------------
(***************************************************************************)
(* Deletion reconciliation as a whole: mbsync and the operator's outages   *)
(* change the Maildir, the watcher follows renames, and the main thread    *)
(* parses, sweeps, reaps and rescans, one at a time.                       *)
(***************************************************************************)
EXTENDS RenameWatcher, Reaper

CONSTANTS
    Initial,        \* [Slots -> Messages \cup {None}]: mail indexed at the start
    Delivered,      \* the name of new mail
    Events,         \* the kinds of trouble that may come
    MaxEvents       \* bound: how many of them

ASSUME DeletionAssumption ==
    /\ Initial \in [Slots -> Messages \cup {None}]
    /\ Delivered \in Tags \ {Trash}
    /\ MaxEvents \in Nat

VARIABLES
    parse,      \* the file being parsed and the message read there, or None
    count,      \* events so far
    pass        \* history of the reap: who was live in it, whom it removed

vars == <<disk, folder, db, pc, scan, stale, events, watch, reap, parse, count, pass>>

NoPass == [live |-> {}, removed |-> {}]

Trouble(kind) == kind \in Events /\ count < MaxEvents /\ count' = count + 1
----------------------------------------------------------------------------
(* Phase 1 of a queued file (main.py); the drain is IndexingQueue's.       *)

Take(p) ==
    /\ pc = "idle" /\ db.jobs[p] = "queued"
    /\ ~(Mirror /\ ~Untrashed(p)) /\ Look(p) # None
    /\ db' = [db EXCEPT !.jobs[p] = "taken"]
    /\ parse' = [msg |-> Look(p), at |-> p]
    /\ pc' = "parse"

\* A trashed file's job is parked while an occurrence holds the file.
SkipTrashed(p) ==
    /\ pc = "idle" /\ db.jobs[p] = "queued" /\ Mirror /\ ~Untrashed(p)
    /\ db' = [db EXCEPT !.jobs[p] = IF HeldBy(db, p) = {} THEN "none" ELSE "parked"]
    /\ UNCHANGED <<pc, parse>>

\* Whose work the job of a missing file is (retain_or_retarget_missing_job).
Owners(p) ==
    IF db.marker[p] # None THEN {m \in {db.marker[p]} : Known(db, m)}
    ELSE {o.msg : o \in {r \in db.active \cup db.retired : r.at = p}}

\* It moves to a verified live copy when no occurrence holds the path, waits
\* while the path has a record, and is dropped otherwise.
SkipMissing(p) ==
    /\ pc = "idle" /\ db.jobs[p] = "queued"
    /\ ~(Mirror /\ ~Untrashed(p))
    /\ Look(p) = None /\ folder[Home(p)] # "shut"
    /\ LET copies == IF HeldBy(db, p) # {} THEN {}
                     ELSE {o \in db.active : o.msg \in Owners(p) /\ Untrashed(o.at)
                                             /\ Look(o.at) = o.msg}
           recorded == HeldBy(db, p) # {} \/ db.marker[p] # None \/ Owners(p) # {}
       IN  IF copies # {}
           THEN \E o \in copies :
                db' = [EnqueueIfAbsent(db, o.at) EXCEPT !.jobs[p] = "none", !.marker[p] = None]
           ELSE db' = IF recorded THEN db ELSE [db EXCEPT !.jobs[p] = "none"]
    /\ UNCHANGED <<pc, parse>>

Work(p) == Take(p) \/ SkipTrashed(p) \/ SkipMissing(p)

Settled(p) == IF db.jobs[p] = "taken" THEN "none" ELSE db.jobs[p]

\* upsert_thread: the message, its occurrence and its marker in one transaction,
\* by the bytes that were parsed and the path they were parsed at.
CommitParse ==
    /\ pc = "parse"
    /\ LET m == parse.msg
           p == parse.at
       IN  db' = [Bind(db, m, p) EXCEPT !.marker[p] = m, !.present = @ \cup {m},
                                        !.jobs[p] = Settled(p)]
    /\ parse' = None /\ pc' = "idle"

\* The message cannot be parsed: its job is dead-lettered.
FailParse ==
    /\ pc = "parse" /\ Trouble("fail")
    /\ db' = [db EXCEPT !.jobs[parse.at] = IF @ = "taken" THEN "dead" ELSE @]
    /\ parse' = None /\ pc' = "idle"

Worker ==
    /\ \/ (\E p \in Paths : Work(p)) /\ UNCHANGED count
       \/ CommitParse /\ UNCHANGED count
       \/ FailParse
    /\ UNCHANGED <<disk, folder, scan, stale, events, watch, reap, pass>>
----------------------------------------------------------------------------
(* mbsync and outages.                                                     *)

\* A pass that relies on its listings holds stale ones of these folders now.
Touched(fs) ==
    stale' = IF pc \in {"list", "rows", "threads", "look", "verify"}
             THEN stale \cup fs ELSE stale
Quiet == UNCHANGED <<db, pc, scan, watch, reap, parse, pass>>

Deliver(m, s) ==
    LET p == [slot |-> s, tag |-> Delivered]
    IN  /\ Trouble("deliver") /\ folder[FolderOf[s]] # "away"
        /\ \A q \in Paths : q.slot = s => disk[q] = None
        /\ disk' = [disk EXCEPT ![p] = m]
        /\ events' = Append(events, [src |-> None, dest |-> p])
        /\ Touched({FolderOf[s]}) /\ Quiet /\ UNCHANGED folder

\* A change of flags, or (transfer) a rename to another slot.
Rename(p, q) ==
    /\ Trouble(IF SameSlot(p, q) THEN "retag" ELSE "transfer")
    /\ disk[p] # None /\ p # q
    /\ \A r \in Paths \ {p} : SameSlot(r, q) => disk[r] = None
    /\ folder[Home(p)] # "away" /\ folder[Home(q)] # "away"
    /\ disk' = [disk EXCEPT ![q] = disk[p], ![p] = None]
    /\ events' = Append(events, [src |-> p, dest |-> q])
    /\ Touched({Home(p), Home(q)}) /\ Quiet /\ UNCHANGED folder

\* Expunged: no event the watcher handles.
Vanish(p) ==
    /\ Trouble("vanish") /\ disk[p] # None /\ folder[Home(p)] # "away"
    /\ disk' = [disk EXCEPT ![p] = None]
    /\ Touched({Home(p)}) /\ Quiet /\ UNCHANGED <<folder, events>>

\* The path holds another message's bytes, with no event; the directory does
\* not change.
Replace(p, m) ==
    /\ Trouble("replace") /\ disk[p] \notin {None, m} /\ folder[Home(p)] # "away"
    /\ disk' = [disk EXCEPT ![p] = m]
    /\ Quiet /\ UNCHANGED <<folder, events, stale>>

Close(f, how) ==
    /\ Trouble(how) /\ folder[f] = "open"
    /\ folder' = [folder EXCEPT ![f] = how]
    /\ Touched({f}) /\ Quiet /\ UNCHANGED <<disk, events>>

Open(f) ==
    /\ folder[f] # "open"
    /\ folder' = [folder EXCEPT ![f] = "open"]
    /\ Touched({f}) /\ Quiet /\ UNCHANGED <<disk, events, count>>

\* inotify's queue overflows, or the watches are set anew.
LoseEvents ==
    /\ Trouble("lose") /\ events # <<>>
    /\ events' = <<>>
    /\ Quiet /\ UNCHANGED <<disk, folder, stale>>

\* A kill and a restart: the tables stay.
Crash ==
    /\ Trouble("crash")
    /\ db' = [db EXCEPT !.jobs = [p \in Paths |-> IF @[p] = "taken" THEN "queued" ELSE @[p]]]
    /\ pc' = "idle" /\ scan' = NoScan /\ reap' = NoReap /\ parse' = None
    /\ events' = <<>> /\ watch' = NoWatch /\ pass' = NoPass
    /\ stale' = {}
    /\ UNCHANGED <<disk, folder>>

Environment ==
    \/ \E m \in Messages, s \in Slots : Deliver(m, s)
    \/ \E p, q \in Paths : Rename(p, q)
    \/ \E p \in Paths : Vanish(p) \/ \E m \in Messages : Replace(p, m)
    \/ \E f \in Folders : Close(f, "shut") \/ Close(f, "away") \/ Open(f)
    \/ LoseEvents \/ Crash
----------------------------------------------------------------------------
(* The threads together.                                                   *)

\* History: who has had a live occurrence since the reap began, and whom it
\* removed.
Observe ==
    LET live == {m \in Messages : HasLive(db', m)}
    IN  pass' = IF reap' = NoReap THEN NoPass
                ELSE [live    |-> live \cup pass.live,
                      removed |-> pass.removed \cup (db.present \ db'.present)]

Budget(wanted) ==
    \/ wanted = {} /\ UNCHANGED count
    \/ wanted # {} /\ Trouble("budget")

MainStep ==
    \/ /\ \/ BeginScan(TRUE) \/ BeginScan(FALSE)
          \/ \E f \in Folders : ListFolder(f)
          \/ \E o \in scan.todo : o \in Occurrence /\ SettleRow(o)
          \/ RowsDone
          \/ \E p \in scan.todo : p \in Paths /\ SettleFile(p)
          \/ EndScan \/ MarkLostMessages \/ WalkMaildir \/ QueueUnindexed
       /\ UNCHANGED <<reap, count>>
    \/ \E unhashed \in SUBSET Paths :
          ReadEvidence(unhashed) /\ Budget(unhashed) /\ UNCHANGED reap
    \/ /\ \/ \E aged \in SUBSET Messages : BeginReap(aged)
          \/ ReadCopies \/ \E t \in Threads : TakeThread(t)
          \/ CommitReap \/ EndReap
       /\ UNCHANGED count
    \/ \E unhashed \in SUBSET Paths : LookForRestores(unhashed) /\ Budget(unhashed)

Main == MainStep /\ UNCHANGED <<disk, folder, events, watch, parse>> /\ Observe
Watch == Watcher /\ UNCHANGED <<reap, parse, count>> /\ Observe

TypeOK ==
    /\ disk \in Sight /\ folder \in [Folders -> {"open", "shut", "away"}]
    /\ db \in Tables
    /\ pc \in {"idle", "list", "rows", "copies", "mark", "walk", "queue", "reap",
               "content", "threads", "look", "verify", "parse"}
    /\ scan \in ScanType /\ stale \subseteq Folders
    /\ events \in Seq(Event) /\ watch \in WatchType /\ reap \in ReapType
    /\ parse \in [msg : Messages, at : Paths] \cup {None}
    /\ count \in 0..MaxEvents
    /\ pass \in [live : SUBSET Messages, removed : SUBSET Messages]

\* A mailbox indexed whole, nothing on its way.
Init ==
    /\ disk = [p \in Paths |-> IF p.tag = Delivered THEN Initial[p.slot] ELSE None]
    /\ folder = [f \in Folders |-> "open"]
    /\ LET filed == {o \in Occurrence : o.msg = disk[o.at]}
       IN  db = [NoTables EXCEPT !.active = filed, !.marker = disk,
                                 !.present = {o.msg : o \in filed}]
    /\ pc = "idle" /\ scan = NoScan /\ stale = {}
    /\ events = <<>> /\ watch = NoWatch /\ reap = NoReap
    /\ parse = None /\ count = 0 /\ pass = NoPass

Next == Worker \/ Main \/ Watch \/ Environment

Spec == Init /\ [][Next]_vars

\* The loops go on: the drain comes back to every row, the sweep and the rescan
\* come round, the clock passes every grace window, and an outage ends.
WorkOn(p) == Work(p) /\ UNCHANGED <<disk, folder, scan, stale, events, watch, reap, count, pass>>
Ripen == BeginReap({m \in Messages : db.marks[m] = "grace"})
Busy == pc \notin {"idle", "reap"}

Fairness ==
    /\ WF_vars(Main /\ Busy) /\ WF_vars(Worker /\ pc = "parse") /\ WF_vars(Watch)
    /\ \A p \in Paths : SF_vars(WorkOn(p))
    /\ \A sweeping \in BOOLEAN : SF_vars(Main /\ BeginScan(sweeping))
    /\ SF_vars(Main /\ Ripen)
    /\ \A f \in Folders : WF_vars(Open(f))

FairSpec == Spec /\ Fairness
----------------------------------------------------------------------------
\* The unique indexes of message_occurrences are never run into: an active row
\* has its path, and its message has its slot, for itself.
OneHolderPerPath ==
    \A o, k \in db.active : o.at = k.at \/ (o.msg = k.msg /\ SameSlot(o.at, k.at)) => o = k

\* A tombstone beside a live occurrence does not exist, whichever of the scan,
\* the watcher, the parser and the sweep found the message again
\* (mark_lost_messages, indexer/src/database.py:5056).
TombstonedIsLost == \A m \in Messages : db.marks[m] # "none" => ~HasLive(db, m)

\* A message that had a live occurrence at any moment since the reap began is
\* not removed by it, though its tombstones were read before.
GraceRestarts == pass.removed \cap pass.live = {}

\* Without force no pass removes more than the brake allows of what it began
\* with, whatever joins its threads meanwhile.
BrakeHolds ==
    ~Forced => Cardinality(pass.removed) <= Allowed(Cardinality(db.present \cup pass.removed))

\* The scan gives up an occurrence only if no file of its slot has its bytes, a
\* folder it could not read or that changed since included.
PartialViewRetiresNothing ==
    [][scan.todo # scan'.todo =>
        \A o \in db'.retired \ db.retired : \A p \in Paths :
            SameSlot(p, o.at) /\ folder[Home(p)] # "away" => disk[p] # o.msg]_vars

\* A message is not removed while an untrashed file with its bytes is back in a
\* slot it has or had.
RestoredIsKept ==
    [][\A m \in db.present \ db'.present :
        \A o \in db.active \cup db.retired : \A p \in Paths :
            o.msg = m /\ SameSlot(p, o.at) /\ Untrashed(p) /\ folder[Home(p)] # "away"
            => disk[p] # m]_vars

\* Once the Maildir is left alone the index has a live occurrence of exactly the
\* messages with an untrashed file, and in mirror mode no message besides, unless
\* the brake holds the removal back for the operator.
Mirrored ==
    LET live == {m \in Messages : HasLive(db, m)}
    IN  /\ live = {disk[p] : p \in {q \in Found : Untrashed(q)}}
        /\ Mirror => db.present = live \/ OverBrake(db.present \ live)
IndexMirrorsMaildir == <>[]Mirrored
=============================================================================
