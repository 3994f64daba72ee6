---------------------------- MODULE RenameWatcher ----------------------------
(***************************************************************************)
(* The watcher thread and renames (on_moved, indexer/src/main.py): one     *)
(* event after the other, each in several calls to the database, which the *)
(* main thread's and mbsync's steps come between.                          *)
(***************************************************************************)
EXTENDS OccurrenceScan, Sequences

VARIABLES
    events,     \* renames not handled yet; a delivery comes from tmp (None)
    watch       \* on_moved's locals

Event == [src : Paths \cup {None}, dest : Paths]

WatchType ==
    [stage : {"none", "move", "mark", "retire", "queue"},
     src : Paths \cup {None}, dest : Paths \cup {None},
     msg : Messages \cup {None},        \* claimant of the source's occurrence
     saw : Messages \cup {None}]        \* what the destination was read to hold

NoWatch == [stage |-> "none", src |-> None, dest |-> None, msg |-> None, saw |-> None]

\* The connection lock is free: a reap holds it from its evidence to its commit.
Unlocked == pc # "verify"

NewMail(p) == [NoWatch EXCEPT !.stage = "queue", !.dest = p]

\* find_active_occurrence and verify_rename_bytes.  A source no occurrence holds
\* is a rename only if it is marked (is_indexed).
OnMoved ==
    /\ Unlocked /\ watch.stage = "none" /\ events # <<>>
    /\ LET e      == Head(events)
           holder == IF e.src = None THEN {} ELSE {o.msg : o \in HeldBy(db, e.src)}
           saw    == IF holder = {} THEN None ELSE Look(e.dest)
           known  == IF holder = {} THEN e.src # None /\ db.marker[e.src] # None
                     ELSE saw \in holder
           stage  == CASE known -> "move"
                       [] ~known /\ holder # {} /\ saw # None -> "retire"
                       [] OTHER -> "queue"
       IN  \E m \in (IF holder = {} THEN {None} ELSE holder) :
            watch' = IF stage = "queue" THEN NewMail(e.dest)
                     ELSE [stage |-> stage, src |-> e.src, dest |-> e.dest,
                           msg |-> m, saw |-> saw]
    /\ events' = Tail(events)
    /\ UNCHANGED db

\* handle_moved, or archive mode's update_filepath: the rows are carried, or an
\* occurrence found at the destination already; else it is new mail.
CarryRows ==
    /\ Unlocked /\ watch.stage = "move"
    /\ LET moved == RenameRows(db, watch.src, watch.dest, watch.saw)
           there == {o.msg : o \in HeldBy(moved, watch.dest)}
       IN  /\ db' = moved
           /\ IF there = {} THEN watch' = NewMail(watch.dest)
              ELSE IF Mirror /\ ~Untrashed(watch.dest)
              THEN \E m \in there : watch' = [watch EXCEPT !.stage = "mark", !.msg = m]
              ELSE watch' = NoWatch
    /\ UNCHANGED events

\* handle_moved ends: the rename added T, and the message may be lost.
MarkTrashed ==
    /\ Unlocked /\ watch.stage = "mark"
    /\ db' = MarkLost(db, {watch.msg})
    /\ watch' = NoWatch
    /\ UNCHANGED events

\* retire_mismatched_rename, with a listing of its own, and the message's
\* tombstone in the same transaction.
RetireSource ==
    /\ Unlocked /\ watch.stage = "retire"
    /\ LET stray == [msg |-> watch.msg, at |-> watch.src]
           proven ==
              /\ folder[Home(watch.src)] # "shut"
              /\ Look(watch.src) = None /\ Look(watch.dest) = watch.saw
              /\ \A p \in Found : SameSlot(p, watch.src) => p = watch.dest
              /\ stray \in db.active
           retired == Retire(db, {stray})
       IN  db' = IF ~proven THEN db
                 ELSE IF Mirror THEN MarkLost(retired, {watch.msg}) ELSE retired
    /\ watch' = NewMail(watch.dest)
    /\ UNCHANGED events

\* New mail, unless it is marked already or upstream deleted it.
QueueDestination ==
    /\ Unlocked /\ watch.stage = "queue"
    /\ db' = IF ~IndexedAndFresh(db, watch.dest) /\ (Mirror => Untrashed(watch.dest))
             THEN Enqueue(db, watch.dest) ELSE db
    /\ watch' = NoWatch
    /\ UNCHANGED events

Watcher ==
    /\ OnMoved \/ CarryRows \/ MarkTrashed \/ RetireSource \/ QueueDestination
    /\ UNCHANGED <<disk, folder, pc, scan, stale>>
=============================================================================
