------------------------------ MODULE MailIndex ------------------------------
(***************************************************************************)
(* What deletion reconciliation shares: the Maildir as the indexer sees it *)
(* and the rows about files and messages (indexer/src/database.py): the    *)
(* occurrences that bind a file to a message, the indexed_files markers,   *)
(* the indexing jobs and the tombstones.  Every database method runs under *)
(* the connection lock in one transaction, so it is an operator from the   *)
(* tables to the tables, and a transaction of several is a composition.    *)
(*                                                                         *)
(* A message stands for its bytes: the content hash names one claimant.  A *)
(* slot is a folder and a Maildir uniq, a tag the rest of the file name.   *)
(***************************************************************************)
EXTENDS FiniteSets, Naturals

CONSTANTS
    Messages,       \* claimant IDs
    None,           \* no message, no row, no path
    Slots,          \* (folder, uniq)
    Folders,        \* folders of the Maildir
    FolderOf,       \* [Slots -> Folders]
    Threads,        \* thread IDs
    ThreadOf,       \* [Messages -> Threads]
    Tags,           \* the names a file of a slot may have
    Trash,          \* the one of them with the T flag
    Mirror,         \* deletion reconciliation is on (archive mode otherwise)
    Alike           \* the contents agree in size and mtime

Paths == [slot : Slots, tag : Tags]
Occurrence == [msg : Messages, at : Paths]

ASSUME IndexAssumption ==
    /\ None \notin Messages /\ None \notin Paths
    /\ FolderOf \in [Slots -> Folders]
    /\ ThreadOf \in [Messages -> Threads]
    /\ Trash \in Tags
    /\ Mirror \in BOOLEAN /\ Alike \in BOOLEAN

VARIABLES
    disk,       \* environment: the content of each path, or None
    folder,     \* environment: "open", "shut" (unreadable) or "away" (not there)
    db          \* durable: the tables

\* is_trashed; a live occurrence is an active one of an untrashed path.
Untrashed(p) == p.tag # Trash
Home(p) == FolderOf[p.slot]
SameSlot(p, q) == p.slot = q.slot

\* What stat and read find at a path now.
Look(p) == IF folder[Home(p)] = "open" THEN disk[p] ELSE None
Found == {p \in Paths : Look(p) # None}
----------------------------------------------------------------------------
(* The tables and the questions asked of them.                             *)

JobStates  == {"none", "queued", "taken", "parked", "dead"}
MarkStates == {"none", "grace", "ripe"}     \* a tombstone, within grace or past it

Tables ==
    [active  : SUBSET Occurrence,           \* message_occurrences, state 'active'
     retired : SUBSET Occurrence,           \* and 'retired'
     marker  : [Paths -> Messages \cup {None}],     \* indexed_files, by content
     jobs    : [Paths -> JobStates],        \* indexing_jobs; taken: being parsed,
                                            \* parked: T-flagged, deferred
     present : SUBSET Messages,             \* messages, message_thread_map
     marks   : [Messages -> MarkStates]]    \* pending_deletions, the earliest of each

NoTables ==
    [active |-> {}, retired |-> {}, marker |-> [p \in Paths |-> None],
     jobs |-> [p \in Paths |-> "none"], present |-> {},
     marks |-> [m \in Messages |-> "none"]]

HeldBy(d, p) == {o \in d.active : o.at = p}
HasLive(d, m) == \E o \in d.active : o.msg = m /\ Untrashed(o.at)
Pending(d, p) == d.jobs[p] \in {"queued", "taken", "parked"}

\* is_indexed_and_fresh: size and mtime only.
IndexedAndFresh(d, p) ==
    /\ Look(p) # None /\ d.marker[p] # None
    /\ Alike \/ d.marker[p] = Look(p)

\* claimant_for_content of the bytes recorded or read.
Known(d, content) == content \in d.present
----------------------------------------------------------------------------
(* The statements, from tables to tables.                                  *)

Retire(d, gone) ==
    [d EXCEPT !.active = @ \ gone, !.retired = @ \cup (gone \cap d.active)]

Unmark(d, m) == [d EXCEPT !.marks[m] = "none"]
ClearIfLive(d, m) == IF HasLive(d, m) THEN Unmark(d, m) ELSE d

\* A slip: the row that held the path before stays active.
BindBeside(d, m, p) ==
    LET own == {o \in d.active : o.msg = m /\ SameSlot(o.at, p)}
    IN  ClearIfLive([d EXCEPT !.active = (@ \ own) \cup {[msg |-> m, at |-> p]}], m)

\* _bind_occurrence: whoever else holds the path is retired; the message's own
\* row of the slot takes the path, or a new row is made.
Bind(d, m, p) ==
    LET own   == {o \in d.active : o.msg = m /\ SameSlot(o.at, p)}
        freed == Retire(d, HeldBy(d, p) \ own)
        bound == [freed EXCEPT !.active = (@ \ own) \cup {[msg |-> m, at |-> p]}]
    IN  IF Untrashed(p) THEN Unmark(bound, m) ELSE bound

\* The message a rename from p carries (_move_occurrence), or None: that of
\* the occurrence at p if the bytes were verified, else that of p's marker if
\* the destination holds its bytes.
CarriedBy(d, p, q, saw) ==
    LET verified == {o.msg : o \in {h \in HeldBy(d, p) : saw = h.msg /\ Look(q) = saw}}
        recorded == IF HeldBy(d, p) = {} /\ Known(d, d.marker[p]) /\ Look(q) = d.marker[p]
                    THEN {d.marker[p]} ELSE {}
    IN  IF verified \cup recorded = {} THEN None
        ELSE CHOOSE m \in verified \cup recorded : TRUE

\* A record that was consulted disagreed with the destination.
Mismatched(d, p, q, saw) ==
    /\ CarriedBy(d, p, q, saw) = None
    /\ HeldBy(d, p) # {} \/ Known(d, d.marker[p])

\* The row of the slot takes the path q (a change of tag: the same occurrence)
\* or is retired and q bound to its message.
Carry(d, m, p, q) ==
    IF HeldBy(d, p) # {} /\ SameSlot(p, q)
    THEN LET freed == Retire(d, HeldBy(d, q))
         IN  [freed EXCEPT !.active = (@ \ HeldBy(d, p)) \cup {[msg |-> m, at |-> q]}]
    ELSE Bind(Retire(d, HeldBy(d, p)), m, q)

\* The marker goes along unless a record disagreed; the job always does.  A
\* parked job is due at once under its new name, one being parsed is due again.
CarryMarker(d, p, q) ==
    IF d.marker[p] = None THEN d
    ELSE [d EXCEPT !.marker[q] = d.marker[p], !.marker[p] = None]

CarryJob(d, p, q) ==
    LET job == IF d.jobs[p] = "none" THEN d.jobs[q] ELSE d.jobs[p]
    IN  [d EXCEPT !.jobs[p] = "none",
                  !.jobs[q] = IF job \in {"parked", "taken"} THEN "queued" ELSE job]

\* A slip: the message's tombstones outlive the restore.
RenameRowsKeepsMarks(d, p, q, saw) ==
    LET m     == CarriedBy(d, p, q, saw)
        moved == IF m = None THEN d ELSE Carry(d, m, p, q)
    IN  CarryJob(IF Mismatched(d, p, q, saw) THEN moved ELSE CarryMarker(moved, p, q), p, q)

\* _rename_rows: occurrence, tombstones, marker and job, in one transaction.
RenameRows(d, p, q, saw) ==
    LET m     == CarriedBy(d, p, q, saw)
        moved == IF m = None THEN d ELSE ClearIfLive(Carry(d, m, p, q), m)
    IN  CarryJob(IF Mismatched(d, p, q, saw) THEN moved ELSE CarryMarker(moved, p, q), p, q)

\* mark_lost_messages: those of S without a live occurrence; a mark that is
\* there keeps its time.
MarkLost(d, S) ==
    [d EXCEPT !.marks = [m \in Messages |->
        IF m \in S /\ ~HasLive(d, m) /\ @[m] = "none"
           /\ \E o \in d.active \cup d.retired : o.msg = m
        THEN "grace" ELSE @[m]]]

\* clear_live_tombstones.
ClearLive(d) ==
    [d EXCEPT !.marks = [m \in Messages |-> IF HasLive(d, m) THEN "none" ELSE @[m]]]

Enqueue(d, p) == [d EXCEPT !.jobs[p] = "queued"]
EnqueueIfAbsent(d, p) == IF d.jobs[p] = "none" THEN Enqueue(d, p) ELSE d

\* paths_with_content.
CopiesOf(d, S) == {c \in Occurrence : c.msg \in S /\ d.marker[c.at] = c.msg}

\* _occurrence_paths: a retired path only while its bytes are on record there.
OccurrencePaths(d, S) ==
    {o.at : o \in {a \in d.active : a.msg \in S}}
    \cup {o.at : o \in {r \in d.retired : r.msg \in S /\ d.marker[r.at] = r.msg}}

\* A slip: the jobs go, the markers stay.
UnmarkJobsOnly(d, gone) ==
    [d EXCEPT !.jobs = [p \in Paths |-> IF p \in gone THEN "none" ELSE @[p]]]

\* _unmark_paths.
UnmarkPaths(d, gone) ==
    [d EXCEPT !.marker = [p \in Paths |-> IF p \in gone THEN None ELSE @[p]],
              !.jobs   = [p \in Paths |-> IF p \in gone THEN "none" ELSE @[p]]]

\* What delete_thread_completely and reap_thread_messages remove: the rows of
\* S and, by cascade, their occurrences and tombstones.
RemoveMessages(d, S, copies) ==
    LET unmarked == UnmarkPaths(d, OccurrencePaths(d, S) \cup copies)
    IN  [unmarked EXCEPT
            !.active  = {o \in @ : o.msg \notin S},
            !.retired = {o \in @ : o.msg \notin S},
            !.present = @ \ S,
            !.marks   = [m \in Messages |-> IF m \in S THEN "none" ELSE @[m]]]
=============================================================================
