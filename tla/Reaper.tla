------------------------------- MODULE Reaper -------------------------------
(***************************************************************************)
(* The reaper (Reconciler.reap, indexer/src/reconciler.py) after a sweep:  *)
(* it takes the messages whose grace is over, brakes a mass deletion, and  *)
(* removes them thread by thread.  A removal gathers its evidence and      *)
(* commits under the connection lock, so only mbsync comes between.        *)
(***************************************************************************)
EXTENDS OccurrenceScan

CONSTANTS
    Floor,          \* _REAP_ABSOLUTE_FLOOR
    Percent,        \* INDEXER_DELETION_MAX_BATCH_PCT
    Forced          \* make force-deletion: no brake

ASSUME ReaperAssumption ==
    Floor \in Nat /\ Percent \in 0..100 /\ Forced \in BOOLEAN

VARIABLE reap       \* the pass's locals

Source == [msg : Messages \cup {None}, at : Paths]

ReapType ==
    [batch : SUBSET Messages,           \* candidates of the pass
     copies : SUBSET Occurrence,        \* other marked paths with their bytes
     left : SUBSET Threads,
     listed : SUBSET Folders,           \* one listing per folder and pass
     thread : Threads \cup {None}, whole : BOOLEAN,
     sources : SUBSET Source,           \* paths the restore check looks at
     saw : Sight]                       \* and what it read there

NoReap ==
    [batch |-> {}, copies |-> {}, left |-> {}, listed |-> {}, thread |-> None,
     whole |-> FALSE, sources |-> {}, saw |-> NoSight]

ThreadMessages(t) == {m \in db.present : ThreadOf[m] = t}
Dead == {m \in reap.batch : ThreadOf[m] = reap.thread}
CopyPaths == {c.at : c \in {k \in reap.copies : k.msg \in Dead}}

Larger(i, j) == IF i > j THEN i ELSE j
Allowed(n) == Larger(Floor, (n * Percent) \div 100)

\* A slip: the brake counts threads.
OverBrakeByThread(batch) ==
    ~Forced /\ Cardinality({ThreadOf[m] : m \in batch}) > Allowed(Cardinality(db.present))
OverBrake(batch) == ~Forced /\ Cardinality(batch) > Allowed(Cardinality(db.present))

\* Time has passed: the marks of "aged" are now past the grace window.
\* reapable_messages, and the brake.
BeginReap(aged) ==
    /\ pc = "reap"
    /\ \A m \in aged : db.marks[m] = "grace"
    /\ LET d     == [db EXCEPT !.marks = [m \in Messages |->
                                            IF m \in aged THEN "ripe" ELSE @[m]]]
           batch == {m \in d.present : d.marks[m] = "ripe" /\ ~HasLive(d, m)}
       IN  /\ db' = d
           /\ IF batch = {} \/ OverBrake(batch)
              THEN pc' = "idle" /\ UNCHANGED reap
              ELSE pc' = "content" /\ reap' = [NoReap EXCEPT !.batch = batch]
    /\ UNCHANGED <<scan, stale>>

ReadCopies ==
    /\ pc = "content"
    /\ reap' = [reap EXCEPT !.copies = CopiesOf(db, reap.batch),
                            !.left = {ThreadOf[m] : m \in reap.batch}]
    /\ pc' = "threads"
    /\ UNCHANGED <<db, scan, stale>>

\* The file a survivor is parsed from: an active occurrence's, a live one first.
Readable(m) ==
    \E o \in db.active : o.msg = m /\ (HasLive(db, m) => Untrashed(o.at)) /\ Look(o.at) # None

\* get_thread_messages and the survivors' parse: one that cannot be read blocks
\* the thread for this pass.
TakeThread(t) ==
    /\ pc = "threads" /\ t \in reap.left
    /\ LET dead      == {m \in reap.batch : ThreadOf[m] = t}
           survivors == ThreadMessages(t) \ dead
       IN  IF \A m \in survivors : Readable(m)
           THEN /\ reap' = [reap EXCEPT !.left = @ \ {t}, !.thread = t,
                                        !.whole = survivors = {}]
                /\ pc' = "look"
           ELSE reap' = [reap EXCEPT !.left = @ \ {t}] /\ UNCHANGED pc
    /\ UNCHANGED <<db, scan, stale>>

\* _prepare_restore_evidence: the slot of every occurrence the messages have or
\* had and of every copy, with the bytes of the untrashed files there.
Sources(ids) ==
    {o \in db.active \cup db.retired : o.msg \in ids}
    \cup {[msg |-> db.marker[p], at |-> p] : p \in CopyPaths}

Candidates(at) == {p \in Found : SameSlot(p, at) /\ Untrashed(p)}

LookForRestores(unhashed) ==
    /\ pc = "look"
    /\ LET ids     == IF reap.whole THEN ThreadMessages(reap.thread) ELSE Dead
           sources == Sources(ids)
           needed  == {Home(s.at) : s \in sources} \ reap.listed
           near    == UNION {Candidates(s.at) : s \in sources}
       IN  /\ unhashed \subseteq near
           /\ reap' = [reap EXCEPT
                !.sources = sources,
                !.listed = @ \cup needed,
                !.saw = [p \in Paths |-> IF p \in near \ unhashed THEN Look(p) ELSE None]]
           /\ stale' = (stale \ needed) \cup {f \in needed : folder[f] = "shut"}
    /\ pc' = "verify"
    /\ UNCHANGED <<db, scan>>

\* A slip: the files are not looked at again, nor their listings.
RestoredWhenRead ==
    \E s \in reap.sources : \E p \in Paths :
        SameSlot(p, s.at) /\ Untrashed(p) /\ reap.saw[p] # None /\ reap.saw[p] = s.msg

\* _restored_on_disk, in the transaction: a listing that failed or changed, a
\* file whose bytes are unknown or no longer those read, or a match.
Restored ==
    \E s \in reap.sources :
        \/ Home(s.at) \in stale
        \/ \E p \in Candidates(s.at) :
            \/ reap.saw[p] = None \/ reap.saw[p] # Look(p)
            \/ s.msg \in {None, reap.saw[p]}

\* A slip: any tombstone will do, whenever it was set.
UnreapableUnaged(ids) == \E m \in ids : HasLive(db, m) \/ db.marks[m] = "none"

\* _has_unreapable_messages.
Unreapable(ids) == \E m \in ids : HasLive(db, m) \/ db.marks[m] # "ripe"

\* delete_thread_completely, or reap_thread_messages when some survive.
CommitReap ==
    /\ pc = "verify"
    /\ LET ids == IF reap.whole THEN ThreadMessages(reap.thread) ELSE Dead
       IN  db' = IF Unreapable(ids) \/ Restored THEN db
                 ELSE RemoveMessages(db, ids, CopyPaths)
    /\ reap' = [reap EXCEPT !.thread = None, !.whole = FALSE, !.sources = {}, !.saw = NoSight]
    /\ pc' = "threads"
    /\ UNCHANGED <<scan, stale>>

EndReap ==
    /\ pc = "threads" /\ reap.left = {}
    /\ reap' = NoReap /\ stale' = {}
    /\ pc' = "idle"
    /\ UNCHANGED <<db, scan>>
=============================================================================
