---------------------------- MODULE DeletionProofs ----------------------------
(***************************************************************************)
(* Proofs about Deletion, for every value of its constants: the tables     *)
(* stay sane through every statement, and with what the reaper and the     *)
(* scan know of the past and of the disk that gives all of the module's    *)
(* safety properties.                                                      *)
(***************************************************************************)
EXTENDS Deletion, FiniteSetTheorems, SequenceTheorems, TLAPS

\* What the tables keep through every statement.
Holders(d) ==
    \A o, k \in d.active : o.at = k.at \/ (o.msg = k.msg /\ SameSlot(o.at, k.at)) => o = k
Lost(d) == \A m \in Messages : d.marks[m] # "none" => ~HasLive(d, m)
Rooted(d) == \A o \in d.active : o.msg \in d.present
Sane(d) == d \in Tables /\ Holders(d) /\ Lost(d) /\ Rooted(d)

\* Retiring occurrences keeps the tables sane.
LEMMA RetireSane ==
    ASSUME NEW d, Sane(d), NEW gone \in SUBSET Occurrence
    PROVE  Sane(Retire(d, gone))
<1> DEFINE r == Retire(d, gone)
<1>1. r \in Tables
    BY DEF Sane, Tables, Retire
<1>2. r.active = d.active \ gone /\ r.marks = d.marks /\ r.present = d.present
    BY DEF Sane, Tables, Retire
<1>3. QED  BY <1>1, <1>2 DEF Sane, Holders, Lost, Rooted, HasLive

\* _bind_occurrence leaves one holder of the path and of the message's slot, and
\* no tombstone beside a live occurrence; the message may be new to the tables.
LEMMA BindSane ==
    ASSUME NEW d, Sane(d), NEW m \in Messages, NEW p \in Paths
    PROVE  LET b == Bind(d, m, p)
           IN  /\ b \in Tables /\ Holders(b) /\ Lost(b)
               /\ b.present = d.present
               /\ \A o \in b.active : o.msg \in d.present \cup {m}
<1> DEFINE b == Bind(d, m, p)
           own == {o \in d.active : o.msg = m /\ SameSlot(o.at, p)}
           held == HeldBy(d, p)
           new == [msg |-> m, at |-> p]
<1>1. new \in Occurrence
    BY DEF Occurrence
<1>2. d.active \subseteq Occurrence /\ own \subseteq Occurrence /\ held \subseteq d.active
    BY DEF Sane, Tables, HeldBy
<1>3. b \in Tables
    <2> DEFINE freed == Retire(d, held \ own)
               bound == [freed EXCEPT !.active = (@ \ own) \cup {new}]
    <2>1. freed \in Tables
        BY <1>2, RetireSane DEF Sane, Tables
    <2>2. bound \in Tables
        BY <1>1, <2>1 DEF Tables
    <2>3. Unmark(bound, m) \in Tables
        BY <2>2 DEF Tables, Unmark, MarkStates
    <2>4. QED  BY <2>2, <2>3 DEF Bind
<1>4. /\ b.active = ((d.active \ (held \ own)) \ own) \cup {new}
      /\ b.present = d.present
      /\ b.marks = IF Untrashed(p) THEN [d.marks EXCEPT ![m] = "none"] ELSE d.marks
    BY DEF Sane, Tables, Bind, Retire, Unmark
<1>5. Holders(b)
    BY <1>4 DEF Sane, Holders, HeldBy, SameSlot
<1>6. Lost(b)
    BY <1>4 DEF Sane, Lost, HasLive, Tables
<1>7. \A o \in b.active : o.msg \in d.present \cup {m}
    BY <1>4 DEF Sane, Rooted
<1>8. QED  BY <1>3, <1>4, <1>5, <1>6, <1>7

\* A rename carries a message of the tables, or none; the holder of its source first.
LEMMA Carried ==
    ASSUME NEW d, Sane(d), NEW p \in Paths, NEW q \in Paths, NEW saw,
           CarriedBy(d, p, q, saw) # None
    PROVE  /\ CarriedBy(d, p, q, saw) \in Messages \cap d.present
           /\ HeldBy(d, p) # {} =>
                \E o \in HeldBy(d, p) : o.msg = CarriedBy(d, p, q, saw)
<1> DEFINE verified == {o.msg : o \in {h \in HeldBy(d, p) : saw = h.msg /\ Look(q) = saw}}
           recorded == IF HeldBy(d, p) = {} /\ Known(d, d.marker[p]) /\ Look(q) = d.marker[p]
                       THEN {d.marker[p]} ELSE {}
           m == CHOOSE x \in verified \cup recorded : TRUE
<1>1. verified \cup recorded # {} /\ CarriedBy(d, p, q, saw) = m
    BY DEF CarriedBy
<1>2. m \in verified \cup recorded
    BY <1>1
<1>3. CASE m \in verified
    BY <1>1, <1>3 DEF HeldBy, Sane, Rooted, Tables, Occurrence
<1>4. CASE m \in recorded
    BY <1>1, <1>4 DEF Known, Sane, Tables
<1>5. QED  BY <1>2, <1>3, <1>4

\* Carrying a row keeps its holders single; its tombstones go in the same transaction.
LEMMA CarrySane ==
    ASSUME NEW d, Sane(d), NEW p \in Paths, NEW q \in Paths,
           NEW m \in Messages \cap d.present,
           HeldBy(d, p) # {} => \E o \in HeldBy(d, p) : o.msg = m
    PROVE  LET c == Carry(d, m, p, q)
           IN  /\ c \in Tables /\ Holders(c) /\ Rooted(c)
               /\ Lost(ClearIfLive(c, m))
<1> DEFINE c == Carry(d, m, p, q)
           new == [msg |-> m, at |-> q]
           held == HeldBy(d, p)
<1>0. held \in SUBSET Occurrence /\ HeldBy(d, q) \in SUBSET Occurrence /\ new \in Occurrence
    BY DEF HeldBy, Sane, Tables, Occurrence
<1>1. CASE held # {} /\ SameSlot(p, q)
    <2> DEFINE r == Retire(d, HeldBy(d, q))
    <2>1. Sane(r)
        BY <1>0, RetireSane
    <2>2. c = [r EXCEPT !.active = (@ \ held) \cup {new}]
        BY <1>1 DEF Carry
    <2>3. c \in Tables
        BY <1>0, <2>1, <2>2 DEF Sane, Tables
    <2>4. /\ c.active = ((d.active \ HeldBy(d, q)) \ held) \cup {new}
          /\ c.present = d.present /\ c.marks = d.marks
        BY <2>2 DEF Sane, Tables, Retire
    <2>5. PICK k \in held : k.msg = m
        BY <1>1
    <2>6. k \in d.active /\ k.at = p
        BY DEF HeldBy
    <2>7. \A o \in d.active : o.msg = m /\ SameSlot(o.at, q) => o = k
        BY <1>1, <2>5, <2>6 DEF Sane, Holders, SameSlot
    <2>8. Holders(c)
        BY <2>4, <2>5, <2>7 DEF Sane, Holders, HeldBy, SameSlot
    <2>9. Rooted(c)
        BY <2>4 DEF Sane, Rooted
    <2>10. Lost(ClearIfLive(c, m))
        <3>1. \A n \in Messages \ {m} : c.marks[n] # "none" => ~HasLive(c, n)
            BY <2>4 DEF Sane, Lost, HasLive
        <3>2. CASE HasLive(c, m)
            BY <2>3, <3>1, <3>2 DEF ClearIfLive, Unmark, Lost, Tables, HasLive
        <3>3. CASE ~HasLive(c, m)
            BY <3>1, <3>3 DEF ClearIfLive, Lost
        <3>4. QED  BY <3>2, <3>3
    <2>11. QED  BY <2>3, <2>8, <2>9, <2>10
<1>2. CASE ~(held # {} /\ SameSlot(p, q))
    <2> DEFINE r == Retire(d, held)
    <2>1. Sane(r) /\ r.present = d.present
        BY <1>0, RetireSane DEF Retire, Sane, Tables
    <2>2. c = Bind(r, m, q)
        BY <1>2 DEF Carry
    <2>3. c \in Tables /\ Holders(c) /\ Lost(c) /\ Rooted(c)
        BY <2>1, <2>2, BindSane DEF Rooted
    <2>4. Lost(ClearIfLive(c, m))
        BY <2>3 DEF ClearIfLive, Unmark, Lost, Tables, HasLive
    <2>5. QED  BY <2>3, <2>4
<1>3. QED  BY <1>1, <1>2

\* Statements that touch markers and jobs only.
LEMMA SameRowsSane ==
    ASSUME NEW d, Sane(d), NEW e \in Tables,
           e.active = d.active, e.marks = d.marks, e.present = d.present
    PROVE  Sane(e)
BY DEF Sane, Holders, Lost, Rooted, HasLive

\* A statement about one job.
LEMMA JobSane ==
    ASSUME NEW d, Sane(d), NEW p \in Paths, NEW s \in JobStates
    PROVE  Sane([d EXCEPT !.jobs[p] = s])
<1>1. [d EXCEPT !.jobs[p] = s] \in Tables
    BY DEF Sane, Tables
<1>2. QED  BY <1>1, SameRowsSane DEF Sane, Tables

LEMMA EnqueueSane ==
    ASSUME NEW d, Sane(d), NEW p \in Paths
    PROVE  Sane(Enqueue(d, p)) /\ Sane(EnqueueIfAbsent(d, p))
BY JobSane DEF Enqueue, EnqueueIfAbsent, JobStates

\* mark_lost_messages marks nobody who has a live occurrence.
LEMMA MarkLostSane ==
    ASSUME NEW d, Sane(d), NEW S
    PROVE  Sane(MarkLost(d, S))
<1> DEFINE e == MarkLost(d, S)
<1>1. e.active = d.active /\ e.present = d.present
    BY DEF Sane, Tables, MarkLost
<1>2. \A m \in Messages : e.marks[m] \in {"grace", d.marks[m]}
    BY DEF Sane, Tables, MarkLost
<1>3. \A m \in Messages : e.marks[m] # d.marks[m] => ~HasLive(d, m)
    BY DEF Sane, Tables, MarkLost
<1>4. e \in Tables
    BY DEF Sane, Tables, MarkLost, MarkStates
<1>5. QED  BY <1>1, <1>2, <1>3, <1>4 DEF Sane, Holders, Lost, Rooted, HasLive

\* clear_live_tombstones.
LEMMA ClearLiveSane ==
    ASSUME NEW d, Sane(d)
    PROVE  Sane(ClearLive(d))
<1> DEFINE e == ClearLive(d)
<1>1. e.active = d.active /\ e.present = d.present
    BY DEF Sane, Tables, ClearLive
<1>2. \A m \in Messages : e.marks[m] # "none" => ~HasLive(d, m)
    BY DEF Sane, Tables, ClearLive
<1>3. e \in Tables
    BY DEF Sane, Tables, ClearLive, MarkStates
<1>4. QED  BY <1>1, <1>2, <1>3 DEF Sane, Holders, Lost, Rooted, HasLive

\* A removal takes the occurrences and the tombstones along.
LEMMA RemoveSane ==
    ASSUME NEW d, Sane(d), NEW S, NEW copies
    PROVE  Sane(RemoveMessages(d, S, copies))
<1> DEFINE e == RemoveMessages(d, S, copies)
<1>1. /\ e.active = {o \in d.active : o.msg \notin S}
      /\ e.present = d.present \ S
      /\ e.marks = [m \in Messages |-> IF m \in S THEN "none" ELSE d.marks[m]]
    BY DEF Sane, Tables, RemoveMessages, UnmarkPaths
<1>2. e \in Tables
    BY DEF Sane, Tables, RemoveMessages, UnmarkPaths, MarkStates, JobStates
<1>3. QED  BY <1>1, <1>2 DEF Sane, Holders, Lost, Rooted, HasLive

\* The marker goes along.
LEMMA CarryMarkerSane ==
    ASSUME NEW d, Sane(d), NEW p \in Paths, NEW q \in Paths
    PROVE  Sane(CarryMarker(d, p, q))
<1> DEFINE e == CarryMarker(d, p, q)
<1>1. e \in Tables
    BY DEF Sane, Tables, CarryMarker
<1>2. e.active = d.active /\ e.marks = d.marks /\ e.present = d.present
    BY DEF Sane, Tables, CarryMarker
<1>3. QED  BY <1>1, <1>2, SameRowsSane

\* The job goes along.
LEMMA CarryJobSane ==
    ASSUME NEW d, Sane(d), NEW p \in Paths, NEW q \in Paths
    PROVE  Sane(CarryJob(d, p, q))
<1> DEFINE job == IF d.jobs[p] = "none" THEN d.jobs[q] ELSE d.jobs[p]
           due == IF job \in {"parked", "taken"} THEN "queued" ELSE job
           e == [d EXCEPT !.jobs[p] = "none", !.jobs[q] = due]
<1>1. due \in JobStates
    BY DEF Sane, Tables, JobStates
<1>2. CarryJob(d, p, q) = e
    BY DEF CarryJob
<1>3. e \in Tables
    BY <1>1 DEF Sane, Tables, JobStates
<1>4. e.active = d.active /\ e.marks = d.marks /\ e.present = d.present
    BY DEF Sane, Tables
<1>5. QED  BY <1>2, <1>3, <1>4, SameRowsSane

\* _rename_rows as a whole.
LEMMA RenameSane ==
    ASSUME NEW d, Sane(d), NEW p \in Paths, NEW q \in Paths, NEW saw
    PROVE  Sane(RenameRows(d, p, q, saw))
<1> DEFINE m == CarriedBy(d, p, q, saw)
           moved == IF m = None THEN d ELSE ClearIfLive(Carry(d, m, p, q), m)
           along == IF Mismatched(d, p, q, saw) THEN moved ELSE CarryMarker(moved, p, q)
<1>1. Sane(moved)
    <2>1. CASE m # None
        <3> DEFINE c == Carry(d, m, p, q)
        <3>1. m \in Messages \cap d.present
            BY <2>1, Carried
        <3>2. HeldBy(d, p) # {} => \E o \in HeldBy(d, p) : o.msg = m
            BY <2>1, Carried
        <3>3. c \in Tables /\ Holders(c) /\ Rooted(c) /\ Lost(ClearIfLive(c, m))
            BY <3>1, <3>2, CarrySane
        <3>4. ClearIfLive(c, m) \in Tables
            BY <3>1, <3>3 DEF ClearIfLive, Unmark, Tables, MarkStates
        <3>5. ClearIfLive(c, m).active = c.active /\ ClearIfLive(c, m).present = c.present
            BY <3>3 DEF ClearIfLive, Unmark, Tables
        <3>6. QED  BY <2>1, <3>3, <3>4, <3>5 DEF Sane, Holders, Rooted
    <2>2. CASE m = None
        <3>1. moved = d
            BY <2>2
        <3>2. QED  BY <3>1
    <2>3. QED  BY <2>1, <2>2
<1>2. Sane(along)
    BY <1>1, CarryMarkerSane
<1>3. Sane(CarryJob(along, p, q))
    BY <1>2, CarryJobSane
<1>4. QED  BY <1>3 DEF RenameRows
----------------------------------------------------------------------------
(* The core of the inductive invariant: types, sane tables, and what the   *)
(* watcher and the parser hold.                                            *)

WatchShape ==
    /\ watch.stage = "move" => watch.src \in Paths
    /\ watch.stage \in {"move", "retire", "queue"} => watch.dest \in Paths
ParseShape == pc = "parse" => parse \in [msg : Messages, at : Paths]
Core == TypeOK /\ Sane(db) /\ WatchShape /\ ParseShape

\* A path has a slot, a tag and a folder.
LEMMA PathShape ==
    \A p \in Paths : p.slot \in Slots /\ p.tag \in Tags /\ Home(p) \in Folders
BY IndexAssumption DEF Paths, Home

\* A mailbox indexed whole.
LEMMA InitCore == Init => Core
<1> SUFFICES ASSUME Init  PROVE Core
    OBVIOUS
<1>1. disk \in Sight
    BY DeletionAssumption, PathShape DEF Init, Sight
<1>2. db \in Tables
    BY <1>1 DEF Init, Tables, NoTables, Sight, Occurrence, JobStates, MarkStates
<1>3. /\ db.active = {o \in Occurrence : o.msg = disk[o.at]}
      /\ db.marks = [m \in Messages |-> "none"]
      /\ db.present = {o.msg : o \in db.active}
    BY DEF Init, NoTables
<1>4. Holders(db)
    <2> SUFFICES ASSUME NEW o \in db.active, NEW k \in db.active,
                        o.at = k.at \/ (o.msg = k.msg /\ SameSlot(o.at, k.at))
                 PROVE  o = k
        BY DEF Holders
    <2>1. o \in Occurrence /\ k \in Occurrence /\ o.msg # None /\ k.msg # None
        BY <1>3, IndexAssumption DEF Occurrence
    <2>2. disk[o.at] # None /\ disk[k.at] # None
        BY <1>3, <2>1
    <2>3. o.at.tag = Delivered /\ k.at.tag = Delivered
        BY <2>1, <2>2 DEF Init, Occurrence
    <2>4. o.at = k.at
        BY <2>1, <2>3 DEF Occurrence, Paths, SameSlot
    <2>5. QED  BY <1>3, <2>1, <2>4 DEF Occurrence
<1>5. Sane(db)
    BY <1>2, <1>3, <1>4 DEF Sane, Lost, Rooted
<1>6. scan \in ScanType /\ watch \in WatchType /\ reap \in ReapType
    BY DEF Init, NoScan, ScanType, Sight, NoSight, NoWatch, WatchType, NoReap, ReapType
<1>7. TypeOK
    BY <1>1, <1>2, <1>6, DeletionAssumption DEF Init, TypeOK, NoPass
<1>8. QED  BY <1>5, <1>7 DEF Core, Init, WatchShape, ParseShape, NoWatch

\* The drain's steps.
LEMMA WorkerCore == Core /\ Worker => Core'
<1> SUFFICES ASSUME Core, Worker  PROVE Core'
    OBVIOUS
<1> USE DEF Core
<1>1. UNCHANGED <<disk, folder, scan, stale, events, watch, reap, pass>>
    BY DEF Worker
<1>2. ASSUME NEW p \in Paths, Take(p), UNCHANGED count
      PROVE  Sane(db') /\ pc' = "parse" /\ parse' \in [msg : Messages, at : Paths]
    <2>1. Look(p) \in Messages
        BY <1>2 DEF Take, Look, TypeOK, Sight
    <2>2. QED  BY <1>2, <2>1, JobSane DEF Take, JobStates
<1>3. ASSUME NEW p \in Paths, SkipTrashed(p), UNCHANGED count
      PROVE  Sane(db') /\ UNCHANGED <<pc, parse>>
    BY <1>3, JobSane DEF SkipTrashed, JobStates
<1>4. ASSUME NEW p \in Paths, SkipMissing(p), UNCHANGED count
      PROVE  Sane(db') /\ UNCHANGED <<pc, parse>>
    <2>1. ASSUME NEW o \in db.active,
                 db' = [EnqueueIfAbsent(db, o.at) EXCEPT !.jobs[p] = "none", !.marker[p] = None]
          PROVE  Sane(db')
        <3>1. Sane(EnqueueIfAbsent(db, o.at))
            BY EnqueueSane DEF Sane, Tables, Occurrence
        <3>2. db' \in Tables
            BY <2>1, <3>1 DEF Sane, Tables, JobStates
        <3>3. /\ db'.active = EnqueueIfAbsent(db, o.at).active
              /\ db'.marks = EnqueueIfAbsent(db, o.at).marks
              /\ db'.present = EnqueueIfAbsent(db, o.at).present
            BY <2>1, <3>1 DEF Sane, Tables
        <3>4. QED  BY <3>1, <3>2, <3>3, SameRowsSane
    <2>2. Sane([db EXCEPT !.jobs[p] = "none"])
        BY JobSane DEF JobStates
    <2>3. QED  BY <1>4, <2>1, <2>2 DEF SkipMissing
<1>5. ASSUME CommitParse, UNCHANGED count
      PROVE  Sane(db') /\ pc' = "idle" /\ parse' = None
    <2> DEFINE m == parse.msg
               p == parse.at
               b == Bind(db, m, p)
    <2>1. m \in Messages /\ p \in Paths
        BY <1>5 DEF CommitParse, ParseShape, TypeOK
    <2>2. /\ b \in Tables /\ Holders(b) /\ Lost(b) /\ b.present = db.present
          /\ \A o \in b.active : o.msg \in db.present \cup {m}
        BY <2>1, BindSane
    <2>3. Settled(p) \in JobStates
        BY <2>1 DEF Settled, Sane, Tables, JobStates
    <2>4. db' = [b EXCEPT !.marker[p] = m, !.present = @ \cup {m}, !.jobs[p] = Settled(p)]
        BY <1>5 DEF CommitParse
    <2>5. db' \in Tables
        BY <2>1, <2>2, <2>3, <2>4 DEF Tables
    <2>6. db'.active = b.active /\ db'.marks = b.marks /\ db'.present = b.present \cup {m}
        BY <2>2, <2>4 DEF Tables
    <2>7. QED  BY <1>5, <2>2, <2>5, <2>6 DEF CommitParse, Sane, Holders, Lost, Rooted, HasLive
<1>6. ASSUME FailParse
      PROVE  Sane(db') /\ pc' = "idle" /\ parse' = None /\ count' \in 0..MaxEvents
    <2>1. parse.at \in Paths
        BY <1>6 DEF FailParse, ParseShape, TypeOK
    <2>2. Sane([db EXCEPT !.jobs[parse.at] = IF @ = "taken" THEN "dead" ELSE @])
        <3> DEFINE s == IF db.jobs[parse.at] = "taken" THEN "dead" ELSE db.jobs[parse.at]
        <3>1. s \in JobStates
            BY <2>1 DEF Sane, Tables, JobStates
        <3>2. Sane([db EXCEPT !.jobs[parse.at] = s])
            BY <2>1, <3>1, JobSane
        <3>3. QED  BY <3>2
    <2>3. QED  BY <1>6, <2>2, DeletionAssumption DEF FailParse, Trouble, TypeOK
<1>7. Sane(db') /\ ParseShape' /\ count' \in 0..MaxEvents
      /\ (pc' \in {"parse", "idle"} \/ pc' = pc)
      /\ parse' \in [msg : Messages, at : Paths] \cup {None}
    BY <1>2, <1>3, <1>4, <1>5, <1>6, IndexAssumption DEF Worker, Work, ParseShape, TypeOK
<1>8. QED  BY <1>1, <1>7 DEF TypeOK, Sane, WatchShape

\* mbsync's, the outages and the kill.
LEMMA EnvironmentCore == Core /\ Environment => Core'
<1> SUFFICES ASSUME Core, Environment  PROVE Core'
    OBVIOUS
<1> USE DEF Core
<1>1. \A kind : Trouble(kind) => count' \in 0..MaxEvents
    BY DeletionAssumption DEF Trouble, TypeOK
<1>2. \A fs \in SUBSET Folders : Touched(fs) => stale' \subseteq Folders
    BY DEF Touched, TypeOK
<1>3. CASE UNCHANGED <<db, pc, scan, watch, reap, parse, pass>>
           /\ disk' \in Sight /\ folder' \in [Folders -> {"open", "shut", "away"}]
           /\ stale' \subseteq Folders /\ events' \in Seq(Event) /\ count' \in 0..MaxEvents
    BY <1>3 DEF TypeOK, Sane, WatchShape, ParseShape
<1>4. ASSUME NEW m \in Messages, NEW s \in Slots, Deliver(m, s)  PROVE Core'
    <2> DEFINE p == [slot |-> s, tag |-> Delivered]
               e == [src |-> None, dest |-> p]
    <2>1. p \in Paths /\ FolderOf[s] \in Folders
        BY DeletionAssumption, IndexAssumption DEF Paths
    <2>2. disk' \in Sight
        BY <1>4, <2>1 DEF Deliver, TypeOK, Sight
    <2>3. events' \in Seq(Event)
        <3>1. e \in Event
            BY <2>1 DEF Event
        <3>2. events' = Append(events, e)
            BY <1>4 DEF Deliver
        <3>3. QED  BY <3>1, <3>2, AppendProperties DEF TypeOK
    <2>4. stale' \subseteq Folders
        BY <1>2, <1>4, <2>1 DEF Deliver
    <2>5. QED  BY <1>1, <1>3, <1>4, <2>2, <2>3, <2>4 DEF Deliver, Quiet, TypeOK
<1>5. ASSUME NEW p \in Paths, NEW q \in Paths, Rename(p, q)  PROVE Core'
    <2> DEFINE e == [src |-> p, dest |-> q]
    <2>1. disk' \in Sight
        BY <1>5 DEF Rename, TypeOK, Sight
    <2>2. events' \in Seq(Event)
        <3>1. e \in Event
            BY DEF Event
        <3>2. events' = Append(events, e)
            BY <1>5 DEF Rename
        <3>3. QED  BY <3>1, <3>2, AppendProperties DEF TypeOK
    <2>3. stale' \subseteq Folders
        BY <1>2, <1>5, PathShape DEF Rename
    <2>4. QED  BY <1>1, <1>3, <1>5, <2>1, <2>2, <2>3 DEF Rename, Quiet, TypeOK
<1>6. ASSUME NEW p \in Paths, Vanish(p)  PROVE Core'
    <2>1. disk' \in Sight
        BY <1>6 DEF Vanish, TypeOK, Sight
    <2>2. stale' \subseteq Folders
        BY <1>2, <1>6, PathShape DEF Vanish
    <2>3. QED  BY <1>1, <1>3, <1>6, <2>1, <2>2 DEF Vanish, Quiet, TypeOK
<1>7. ASSUME NEW p \in Paths, NEW m \in Messages, Replace(p, m)  PROVE Core'
    <2>1. disk' \in Sight
        BY <1>7 DEF Replace, TypeOK, Sight
    <2>2. QED  BY <1>1, <1>3, <1>7, <2>1 DEF Replace, Quiet, TypeOK
<1>8. ASSUME NEW f \in Folders, NEW how \in {"shut", "away"}, Close(f, how)  PROVE Core'
    <2>1. folder' \in [Folders -> {"open", "shut", "away"}]
        BY <1>8 DEF Close, TypeOK
    <2>2. stale' \subseteq Folders
        BY <1>2, <1>8 DEF Close
    <2>3. QED  BY <1>1, <1>3, <1>8, <2>1, <2>2 DEF Close, Quiet, TypeOK
<1>9. ASSUME NEW f \in Folders, Open(f)  PROVE Core'
    <2>1. folder' \in [Folders -> {"open", "shut", "away"}]
        BY <1>9 DEF Open, TypeOK
    <2>2. stale' \subseteq Folders
        BY <1>2, <1>9 DEF Open
    <2>3. QED  BY <1>3, <1>9, <2>1, <2>2 DEF Open, Quiet, TypeOK
<1>10. ASSUME LoseEvents  PROVE Core'
    <2>1. events' \in Seq(Event)
        BY <1>10 DEF LoseEvents
    <2>2. QED  BY <1>1, <1>3, <1>10, <2>1 DEF LoseEvents, Quiet, TypeOK
<1>11. ASSUME Crash  PROVE Core'
    <2>1. db' \in Tables
        BY <1>11 DEF Crash, Sane, Tables, JobStates
    <2>2. db'.active = db.active /\ db'.marks = db.marks /\ db'.present = db.present
        BY <1>11 DEF Crash, Sane, Tables
    <2>3. Sane(db')
        BY <2>1, <2>2, SameRowsSane
    <2>4. /\ scan' \in ScanType /\ reap' \in ReapType /\ watch' \in WatchType
          /\ pass' \in [live : SUBSET Messages, removed : SUBSET Messages]
        BY <1>11 DEF Crash, NoScan, ScanType, Sight, NoSight, NoWatch, WatchType,
                     NoReap, ReapType, NoPass
    <2>5. events' \in Seq(Event)
        BY <1>11 DEF Crash
    <2>6. QED  BY <1>1, <1>11, <2>3, <2>4, <2>5
               DEF Crash, TypeOK, Sane, WatchShape, ParseShape, NoWatch
<1>12. QED  BY <1>4, <1>5, <1>6, <1>7, <1>8, <1>9, <1>10, <1>11 DEF Environment

\* The watcher's.
LEMMA WatcherCore == Core /\ Watcher => /\ Sane(db') /\ WatchShape'
                                        /\ watch' \in WatchType /\ events' \in Seq(Event)
<1> SUFFICES ASSUME Core, Watcher
             PROVE  /\ Sane(db') /\ WatchShape'
                    /\ watch' \in WatchType /\ events' \in Seq(Event)
    OBVIOUS
<1> USE DEF Core
<1>1. \A p \in Paths : NewMail(p) \in WatchType
                       /\ NewMail(p).stage = "queue" /\ NewMail(p).dest = p
    BY DEF NewMail, NoWatch, WatchType
<1>2. NoWatch \in WatchType /\ NoWatch.stage = "none"
    BY DEF NoWatch, WatchType
<1>3. CASE OnMoved
    <2> DEFINE e == Head(events)
    <2>1. e \in Event /\ events' \in Seq(Event)
        BY <1>3, HeadTailProperties DEF OnMoved, TypeOK
    <2>2. Sane(db')
        BY <1>3 DEF OnMoved
    <2>3. Look(e.dest) \in Messages \cup {None}
        BY <2>1 DEF Event, Look, TypeOK, Sight
    <2>4. e.src # None => {o.msg : o \in HeldBy(db, e.src)} \subseteq Messages
        BY DEF HeldBy, Sane, Tables, Occurrence
    <2>5. e.dest \in Paths /\ e.src \in Paths \cup {None}
        BY <2>1 DEF Event
    <2> DEFINE holder == IF e.src = None THEN {} ELSE {o.msg : o \in HeldBy(db, e.src)}
               saw == IF holder = {} THEN None ELSE Look(e.dest)
               shape(stage, m) == [stage |-> stage, src |-> e.src, dest |-> e.dest,
                                   msg |-> m, saw |-> saw]
    <2>6. PICK stage \in {"move", "retire", "queue"}, m \in Messages \cup {None} :
                 /\ watch' = IF stage = "queue" THEN NewMail(e.dest) ELSE shape(stage, m)
                 /\ stage = "move" => e.src # None
        BY <1>3, <2>4 DEF OnMoved
    <2>7. CASE stage = "queue"
        BY <1>1, <2>2, <2>1, <2>5, <2>6, <2>7 DEF WatchShape
    <2>8. CASE stage # "queue"
        <3>1. shape(stage, m) \in WatchType
            BY <2>3, <2>5, <2>6, <2>8 DEF WatchType
        <3>2. watch' = shape(stage, m)
            BY <2>6, <2>8
        <3>3. watch'.stage = stage /\ watch'.src = e.src /\ watch'.dest = e.dest
            BY <3>2
        <3>4. WatchShape'
            BY <2>5, <2>6, <3>3 DEF WatchShape
        <3>5. QED  BY <2>1, <2>2, <3>1, <3>2, <3>4
    <2>9. QED  BY <2>7, <2>8
<1>4. CASE CarryRows
    <2> DEFINE moved == RenameRows(db, watch.src, watch.dest, watch.saw)
    <2>1. watch.src \in Paths /\ watch.dest \in Paths
        BY <1>4 DEF CarryRows, WatchShape
    <2>2. Sane(moved) /\ db' = moved
        BY <1>4, <2>1, RenameSane DEF CarryRows
    <2>3. {o.msg : o \in HeldBy(moved, watch.dest)} \subseteq Messages
        BY <2>2 DEF HeldBy, Sane, Tables, Occurrence
    <2>4. \/ watch' = NewMail(watch.dest) \/ watch' = NoWatch
          \/ \E m \in Messages : watch' = [watch EXCEPT !.stage = "mark", !.msg = m]
        BY <1>4, <2>3 DEF CarryRows
    <2>5. watch' \in WatchType /\ WatchShape'
        <3>1. ASSUME NEW m \in Messages, watch' = [watch EXCEPT !.stage = "mark", !.msg = m]
              PROVE  watch' \in WatchType /\ watch'.stage = "mark"
            BY <3>1 DEF TypeOK, WatchType
        <3>2. QED  BY <1>1, <1>2, <2>1, <2>4, <3>1 DEF WatchShape
    <2>6. QED  BY <1>4, <2>2, <2>5 DEF CarryRows, TypeOK
<1>5. CASE MarkTrashed
    BY <1>2, <1>5, MarkLostSane DEF MarkTrashed, TypeOK, WatchShape
<1>6. CASE RetireSource
    <2> DEFINE stray == [msg |-> watch.msg, at |-> watch.src]
    <2>1. stray \in db.active => Sane(Retire(db, {stray}))
        BY RetireSane DEF Sane, Tables
    <2>2. Sane(db')
        BY <1>6, <2>1, MarkLostSane DEF RetireSource
    <2>3. watch.dest \in Paths
        BY <1>6 DEF RetireSource, WatchShape
    <2>4. QED  BY <1>1, <1>6, <2>2, <2>3 DEF RetireSource, TypeOK, WatchShape
<1>7. CASE QueueDestination
    <2>1. watch.dest \in Paths
        BY <1>7 DEF QueueDestination, WatchShape
    <2>2. Sane(db')
        BY <1>7, <2>1, EnqueueSane DEF QueueDestination
    <2>3. QED  BY <1>2, <1>7, <2>2 DEF QueueDestination, TypeOK, WatchShape
<1>8. QED  BY <1>3, <1>4, <1>5, <1>6, <1>7 DEF Watcher

\* The main thread's steps outside a reap, and in one.
ScanStep ==
    \/ BeginScan(TRUE) \/ BeginScan(FALSE)
    \/ \E f \in Folders : ListFolder(f)
    \/ \E o \in scan.todo : o \in Occurrence /\ SettleRow(o)
    \/ RowsDone
    \/ \E p \in scan.todo : p \in Paths /\ SettleFile(p)
    \/ EndScan \/ MarkLostMessages \/ WalkMaildir \/ QueueUnindexed
    \/ \E unhashed \in SUBSET Paths : ReadEvidence(unhashed)
ReapStep ==
    \/ \E aged \in SUBSET Messages : BeginReap(aged)
    \/ ReadCopies \/ \E t \in Threads : TakeThread(t)
    \/ CommitReap \/ EndReap
    \/ \E unhashed \in SUBSET Paths : LookForRestores(unhashed)

Places == {"list", "rows", "copies", "mark", "walk", "queue", "reap", "idle",
           "content", "threads", "look", "verify"}

\* The main thread scans or reaps.
LEMMA MainSplit ==
    MainStep => \/ ScanStep /\ UNCHANGED reap
                \/ ReapStep
BY DEF MainStep, ScanStep, ReapStep

\* The settling of one occurrence.
LEMMA SettleRowSane ==
    ASSUME Core, NEW o \in scan.todo, o \in Occurrence, SettleRow(o)
    PROVE  Sane(db')
<1> USE DEF Core
<1>1. o.at \in Paths
    BY DEF Occurrence
<1>2. Sane(Retire(db, {o}))
    BY RetireSane
<1>3. CASE Changed(o) /\ db' = EnqueueIfAbsent(Retire(db, {o}), o.at)
    BY <1>1, <1>2, <1>3, EnqueueSane
<1>4. ASSUME NEW p \in FollowedTo(o), db' = RenameRows(db, o.at, p, o.msg)
      PROVE  Sane(db')
    <2>1. p \in Paths
        BY DEF FollowedTo, SlotFiles, TypeOK, ScanType
    <2>2. QED  BY <1>1, <1>4, <2>1, RenameSane
<1>5. CASE db' = IF Mistaken(o) \/ Vanished(o) THEN Retire(db, {o}) ELSE db
    BY <1>2, <1>5
<1>6. QED  BY <1>3, <1>4, <1>5 DEF SettleRow

\* The scan's steps.
LEMMA ScanCore ==
    Core /\ ScanStep => /\ Sane(db') /\ scan' \in ScanType
                        /\ stale' \subseteq Folders /\ pc' \in Places
<1> SUFFICES ASSUME Core, ScanStep
             PROVE  /\ Sane(db') /\ scan' \in ScanType
                    /\ stale' \subseteq Folders /\ pc' \in Places
    OBVIOUS
<1>0. TypeOK /\ Sane(db)
    BY DEF Core
<1> USE <1>0 DEF Places
<1>1. NoScan \in ScanType
    BY DEF NoScan, ScanType, Sight, NoSight
<1>2. \A p \in Paths : Look(p) \in Messages \cup {None}
    BY DEF Look, TypeOK, Sight
<1>3. ASSUME NEW sweeping \in BOOLEAN, BeginScan(sweeping)
      PROVE  Sane(db') /\ scan' \in ScanType /\ stale' \subseteq Folders /\ pc' \in Places
    BY <1>1, <1>3 DEF BeginScan, TypeOK, ScanType
<1>4. ASSUME NEW f \in Folders, ListFolder(f)
      PROVE  Sane(db') /\ scan' \in ScanType /\ stale' \subseteq Folders /\ pc' \in Places
    BY <1>4 DEF ListFolder, TypeOK, ScanType, Found
<1>5. ASSUME NEW o \in scan.todo, o \in Occurrence, SettleRow(o)
      PROVE  Sane(db') /\ scan' \in ScanType /\ stale' \subseteq Folders /\ pc' \in Places
    <2>1. FollowedTo(o) \subseteq Paths
        BY DEF FollowedTo, SlotFiles, TypeOK, ScanType
    <2>2. \E held \in SUBSET Paths :
            scan' = [scan EXCEPT !.todo = @ \ {o}, !.held = held]
        <3>1. scan.held \in SUBSET Paths
            BY DEF TypeOK, ScanType
        <3>2. CASE scan' = [scan EXCEPT !.todo = @ \ {o}]
            <4>1. scan' = [scan EXCEPT !.todo = @ \ {o}, !.held = scan.held]
                BY <3>2 DEF TypeOK, ScanType
            <4>2. QED  BY <3>1, <4>1
        <3>3. ASSUME NEW p \in FollowedTo(o),
                     scan' = [scan EXCEPT !.todo = @ \ {o}, !.held = @ \cup {p}]
              PROVE  scan' = [scan EXCEPT !.todo = @ \ {o}, !.held = scan.held \cup {p}]
            BY <3>3
        <3>4. QED  BY <1>5, <2>1, <3>1, <3>2, <3>3 DEF SettleRow
    <2>3. scan' \in ScanType
        <3>1. PICK held \in SUBSET Paths :
                    scan' = [scan EXCEPT !.todo = @ \ {o}, !.held = held]
            BY <2>2
        <3>2. scan \in ScanType /\ scan.todo \ {o} \in SUBSET (Occurrence \cup Paths)
            BY DEF TypeOK, ScanType
        <3>3. QED  BY <3>1, <3>2 DEF ScanType
    <2>4. Sane(db')
        BY <1>5, SettleRowSane
    <2>5. pc' = "rows" /\ stale' = stale
        BY <1>5 DEF SettleRow
    <2>6. stale' \subseteq Folders
        BY <2>5 DEF TypeOK
    <2>7. QED  BY <2>3, <2>4, <2>5, <2>6
<1>6. CASE RowsDone
    BY <1>6 DEF RowsDone, TypeOK, ScanType
<1>7. ASSUME NEW p \in scan.todo, p \in Paths, SettleFile(p)
      PROVE  Sane(db') /\ scan' \in ScanType /\ stale' \subseteq Folders /\ pc' \in Places
    <2>1. ASSUME IsCopy(p)  PROVE Sane(Bind(db, Digest(p), p))
        <3>1. Digest(p) \in db.present /\ Digest(p) \in Messages
            BY <2>1 DEF IsCopy, Known, Sane, Tables
        <3>2. QED  BY <1>7, <3>1, BindSane DEF Sane, Rooted
    <2>2. Sane(db')
        BY <1>7, <2>1 DEF SettleFile
    <2>3. scan' \in ScanType
        BY <1>7 DEF SettleFile, TypeOK, ScanType
    <2>4. QED  BY <1>7, <2>2, <2>3 DEF SettleFile, TypeOK
<1>8. CASE EndScan
    BY <1>1, <1>8, ClearLiveSane DEF EndScan
<1>9. CASE MarkLostMessages
    BY <1>9, MarkLostSane DEF MarkLostMessages, TypeOK
<1>10. CASE WalkMaildir
    <2>1. Unindexed \subseteq Paths
        BY DEF Unindexed, Found
    <2>2. scan' \in ScanType
        BY <1>1, <1>10, <2>1 DEF WalkMaildir, ScanType
    <2>3. QED  BY <1>10, <2>2 DEF WalkMaildir, TypeOK
<1>11. CASE QueueUnindexed
    <2>1. db' \in Tables
        BY <1>11 DEF QueueUnindexed, Sane, Tables, JobStates
    <2>2. db'.active = db.active /\ db'.marks = db.marks /\ db'.present = db.present
        BY <1>11 DEF QueueUnindexed, Sane, Tables
    <2>3. QED  BY <1>1, <1>11, <2>1, <2>2, SameRowsSane DEF QueueUnindexed, TypeOK
<1>12. ASSUME NEW unhashed \in SUBSET Paths, ReadEvidence(unhashed)
       PROVE  Sane(db') /\ scan' \in ScanType /\ stale' \subseteq Folders /\ pc' \in Places
    <2>1. {o.at : o \in db.active} \subseteq Paths /\ db.active \subseteq Occurrence
        BY DEF Sane, Tables, Occurrence
    <2>2. scan' \in ScanType
        BY <1>2, <1>12, <2>1 DEF ReadEvidence, TypeOK, ScanType, Sight
    <2>3. QED  BY <1>12, <2>2 DEF ReadEvidence, TypeOK
<1>13. QED  BY <1>3, <1>4, <1>5, <1>6, <1>7, <1>8, <1>9, <1>10, <1>11, <1>12 DEF ScanStep

\* The reaper's.
LEMMA ReapCore ==
    Core /\ ReapStep => /\ Sane(db') /\ reap' \in ReapType /\ scan' = scan
                        /\ stale' \subseteq Folders /\ pc' \in Places
<1> SUFFICES ASSUME Core, ReapStep
             PROVE  /\ Sane(db') /\ reap' \in ReapType /\ scan' = scan
                    /\ stale' \subseteq Folders /\ pc' \in Places
    OBVIOUS
<1>0. TypeOK /\ Sane(db)
    BY DEF Core
<1> USE <1>0 DEF Places
<1>1. NoReap \in ReapType
    BY DEF NoReap, ReapType, Sight, NoSight
<1>2. \A p \in Paths : Look(p) \in Messages \cup {None}
    BY DEF Look, TypeOK, Sight
<1>3. ASSUME NEW aged \in SUBSET Messages, BeginReap(aged)
      PROVE  Sane(db') /\ reap' \in ReapType /\ stale' \subseteq Folders /\ pc' \in Places
    <2>1. db' = [db EXCEPT !.marks = [m \in Messages |-> IF m \in aged THEN "ripe" ELSE @[m]]]
        BY <1>3 DEF BeginReap
    <2>2. db' \in Tables /\ db'.active = db.active /\ db'.present = db.present
        BY <2>1 DEF Sane, Tables, MarkStates
    <2>3. \A m \in Messages : db'.marks[m] # "none" => db.marks[m] # "none"
        BY <1>3, <2>1 DEF BeginReap, Sane, Tables
    <2>4. Sane(db')
        BY <2>2, <2>3 DEF Sane, Holders, Lost, Rooted, HasLive
    <2>5. db'.present \subseteq Messages
        BY <2>2 DEF Tables
    <2>6. reap' = reap \/ \E batch \in SUBSET Messages : reap' = [NoReap EXCEPT !.batch = batch]
        BY <1>3, <2>1, <2>5 DEF BeginReap
    <2>7. reap' \in ReapType
        BY <1>1, <2>6 DEF ReapType, TypeOK
    <2>8. QED  BY <1>3, <2>4, <2>7 DEF BeginReap, TypeOK
<1>4. CASE ReadCopies
    <2>1. CopiesOf(db, reap.batch) \subseteq Occurrence
        BY DEF CopiesOf
    <2>2. {ThreadOf[m] : m \in reap.batch} \subseteq Threads
        BY IndexAssumption DEF TypeOK, ReapType
    <2>3. reap' \in ReapType
        BY <1>4, <2>1, <2>2 DEF ReadCopies, TypeOK, ReapType
    <2>4. QED  BY <1>4, <2>3 DEF ReadCopies, TypeOK
<1>5. ASSUME NEW t \in Threads, TakeThread(t)
      PROVE  Sane(db') /\ reap' \in ReapType /\ stale' \subseteq Folders /\ pc' \in Places
    <2>1. \/ reap' = [reap EXCEPT !.left = @ \ {t}]
          \/ \E whole \in BOOLEAN :
                reap' = [reap EXCEPT !.left = @ \ {t}, !.thread = t, !.whole = whole]
        BY <1>5 DEF TakeThread
    <2>2. reap' \in ReapType
        <3>1. reap \in ReapType /\ reap.left \ {t} \in SUBSET Threads
            BY DEF TypeOK, ReapType
        <3>2. CASE reap' = [reap EXCEPT !.left = @ \ {t}]
            BY <3>1, <3>2 DEF ReapType
        <3>3. ASSUME NEW whole \in BOOLEAN,
                     reap' = [reap EXCEPT !.left = @ \ {t}, !.thread = t, !.whole = whole]
              PROVE  reap' \in ReapType
            BY <3>1, <3>3 DEF ReapType
        <3>4. QED  BY <2>1, <3>2, <3>3
    <2>3. pc' \in {"look", "threads"} /\ db' = db /\ stale' = stale
        BY <1>5 DEF TakeThread
    <2>4. QED  BY <2>2, <2>3 DEF TypeOK
<1>6. CASE CommitReap
    <2>1. Sane(db')
        BY <1>6, RemoveSane DEF CommitReap
    <2>2. reap' \in ReapType
        BY <1>6 DEF CommitReap, TypeOK, ReapType, Sight, NoSight
    <2>3. QED  BY <1>6, <2>1, <2>2 DEF CommitReap, TypeOK
<1>7. CASE EndReap
    BY <1>1, <1>7 DEF EndReap, TypeOK
<1>8. ASSUME NEW unhashed \in SUBSET Paths, LookForRestores(unhashed)
      PROVE  Sane(db') /\ reap' \in ReapType /\ stale' \subseteq Folders /\ pc' \in Places
    <2> DEFINE ids == IF reap.whole THEN ThreadMessages(reap.thread) ELSE Dead
               sources == Sources(ids)
               needed == {Home(s.at) : s \in sources} \ reap.listed
               near == UNION {Candidates(s.at) : s \in sources}
               saw == [p \in Paths |-> IF p \in near \ unhashed THEN Look(p) ELSE None]
    <2>1. sources \subseteq Source
        BY DEF Sources, Source, CopyPaths, Sane, Tables, Occurrence, TypeOK, ReapType
    <2>2. needed \subseteq Folders
        BY <2>1, PathShape DEF Source
    <2>3. saw \in Sight
        BY <1>2 DEF Sight
    <2>4. reap' = [reap EXCEPT !.sources = sources, !.listed = @ \cup needed, !.saw = saw]
        BY <1>8 DEF LookForRestores
    <2>5. reap' \in ReapType
        BY <2>1, <2>2, <2>3, <2>4 DEF TypeOK, ReapType
    <2>6. stale' \subseteq Folders
        BY <1>8, <2>2 DEF LookForRestores, TypeOK
    <2>7. QED  BY <1>8, <2>5, <2>6 DEF LookForRestores, TypeOK
<1>9. scan' = scan
    BY DEF ReapStep, BeginReap, ReadCopies, TakeThread, CommitReap, EndReap, LookForRestores
<1>10. QED  BY <1>3, <1>4, <1>5, <1>6, <1>7, <1>8, <1>9 DEF ReapStep

\* The history variable keeps its type.
LEMMA ObserveType ==
    ASSUME Core, db' \in Tables, Observe
    PROVE  pass' \in [live : SUBSET Messages, removed : SUBSET Messages]
<1>1. db.present \subseteq Messages
    BY DEF Core, Sane, Tables
<1>2. NoPass \in [live : SUBSET Messages, removed : SUBSET Messages]
    BY DEF NoPass
<1>3. pass.live \subseteq Messages /\ pass.removed \subseteq Messages
    BY DEF Core, TypeOK
<1>4. QED  BY <1>1, <1>2, <1>3 DEF Observe

\* Every step keeps the core.
LEMMA CoreStep == Core /\ [Next]_vars => Core'
<1> SUFFICES ASSUME Core, [Next]_vars  PROVE Core'
    OBVIOUS
<1>1. CASE Worker
    BY <1>1, WorkerCore
<1>2. CASE Environment
    BY <1>2, EnvironmentCore
<1>3. CASE Watch
    <2>1. Sane(db') /\ WatchShape' /\ watch' \in WatchType /\ events' \in Seq(Event)
        BY <1>3, WatcherCore DEF Watch
    <2>2. db' \in Tables
        BY <2>1 DEF Sane
    <2>3. pass' \in [live : SUBSET Messages, removed : SUBSET Messages]
        BY <1>3, <2>2, ObserveType DEF Watch
    <2>4. UNCHANGED <<disk, folder, pc, scan, stale, reap, parse, count>>
        BY <1>3 DEF Watch, Watcher
    <2>5. QED  BY <2>1, <2>2, <2>3, <2>4 DEF Core, TypeOK, ParseShape
<1>4. CASE Main
    <2>1. /\ Sane(db') /\ scan' \in ScanType /\ reap' \in ReapType
          /\ stale' \subseteq Folders /\ pc' \in Places
        BY <1>4, MainSplit, ScanCore, ReapCore DEF Main, Core, TypeOK
    <2>2. db' \in Tables
        BY <2>1 DEF Sane
    <2>3. pass' \in [live : SUBSET Messages, removed : SUBSET Messages]
        BY <1>4, <2>2, ObserveType DEF Main
    <2>4. count' \in 0..MaxEvents
        <3>1. UNCHANGED count \/ Trouble("budget")
            BY <1>4 DEF Main, MainStep, Budget
        <3>2. QED  BY <3>1, DeletionAssumption DEF Trouble, Core, TypeOK
    <2>5. UNCHANGED <<disk, folder, events, watch, parse>>
        BY <1>4 DEF Main
    <2>6. QED  BY <2>1, <2>2, <2>3, <2>4, <2>5 DEF Core, TypeOK, WatchShape, ParseShape, Places
<1>5. CASE UNCHANGED vars
    BY <1>5 DEF vars, Core, TypeOK, Sane, WatchShape, ParseShape
<1>6. QED  BY <1>1, <1>2, <1>3, <1>4, <1>5 DEF Next

\* The core is an invariant of every interleaving.
THEOREM CoreHolds == Spec => []Core
BY InitCore, CoreStep, PTL DEF Spec

\* Every step of the drain, the scan, the watcher, the reaper and mbsync keeps
\* the variables and the tables within their types.
THEOREM TypeCorrect == Spec => []TypeOK
<1>1. Core => TypeOK
    BY DEF Core
<1>2. QED  BY <1>1, CoreHolds, PTL

\* No interleaving of the watcher's renames, the scan's corrections and the
\* parser's bindings gives a path or a message's slot two active occurrences.
THEOREM HoldersUnique == Spec => []OneHolderPerPath
<1>1. Core => OneHolderPerPath
    BY DEF Core, Sane, Holders, OneHolderPerPath
<1>2. QED  BY <1>1, CoreHolds, PTL

\* Whoever finds a live occurrence of a message clears its tombstones in the
\* same transaction, and nobody sets one beside a live occurrence.
THEOREM TombstonesLost == Spec => []TombstonedIsLost
<1>1. Core => TombstonedIsLost
    BY DEF Core, Sane, Lost, TombstonedIsLost
<1>2. QED  BY <1>1, CoreHolds, PTL
----------------------------------------------------------------------------
(* What a reap knows of its batch and of its past.                         *)

Reaping == {"content", "threads", "look", "verify"}

\* The past of the reap: the removed are of the batch and gone for good, and who
\* was live is not ripe, whatever was read before.
Past ==
    /\ \A m \in pass.live : db.marks[m] # "ripe"
    /\ pass.removed \cap pass.live = {}
    /\ pass.removed \cap db.present = {}

History ==
    /\ pc \notin Reaping => reap = NoReap
    /\ pc \in Reaping => reap.batch # {}
    /\ reap = NoReap => pass = NoPass
    /\ pass.removed \subseteq reap.batch
    /\ pc \in {"look", "verify"} /\ reap.whole => ThreadMessages(reap.thread) \subseteq reap.batch
    /\ Past

\* A step of the reap that removes only who was never live keeps its past.
LEMMA PastKept ==
    ASSUME Core, Core', Past, Observe,
           db'.present \subseteq db.present,
           \A m \in pass.live : db'.marks[m] # "ripe",
           (db.present \ db'.present) \cap pass.live = {}
    PROVE  /\ Past'
           /\ reap' = NoReap => pass' = NoPass
           /\ pass'.removed \subseteq pass.removed \cup (db.present \ db'.present)
           /\ reap' # NoReap => pass'.removed = pass.removed \cup (db.present \ db'.present)
<1> DEFINE live == {m \in Messages : HasLive(db', m)}
<1>1. \A m \in live : db'.marks[m] = "none" /\ m \in db'.present
    BY DEF Core, Sane, Lost, Rooted, HasLive
<1>2. CASE reap' = NoReap
    <2>1. pass' = NoPass
        BY <1>2 DEF Observe
    <2>2. QED  BY <1>2, <2>1 DEF NoPass, Past
<1>3. CASE reap' # NoReap
    <2>1. /\ pass'.live = live \cup pass.live
          /\ pass'.removed = pass.removed \cup (db.present \ db'.present)
        BY <1>3 DEF Observe
    <2>2. QED  BY <1>1, <1>3, <2>1 DEF Past
<1>4. QED  BY <1>2, <1>3

\* Neither the watcher nor a statement it runs removes a message or ends a grace
\* window.
Calm(d, e) ==
    e.present = d.present /\ \A m \in Messages : e.marks[m] = "ripe" => d.marks[m] = "ripe"

\* The statements the watcher's steps are made of.
LEMMA BindCalm ==
    ASSUME NEW d, Sane(d), NEW m \in Messages, NEW p \in Paths
    PROVE  Calm(d, Bind(d, m, p))
<1>1. Bind(d, m, p).present = d.present
    BY BindSane
<1>2. Bind(d, m, p).marks = IF Untrashed(p) THEN [d.marks EXCEPT ![m] = "none"] ELSE d.marks
    BY DEF Sane, Tables, Bind, Retire, Unmark
<1>3. QED  BY <1>1, <1>2 DEF Calm, Sane, Tables

LEMMA RetireCalm ==
    ASSUME NEW d, Sane(d), NEW gone
    PROVE  Calm(d, Retire(d, gone))
BY DEF Calm, Retire, Sane, Tables

LEMMA MarkLostCalm ==
    ASSUME NEW d, Sane(d), NEW S
    PROVE  Calm(d, MarkLost(d, S))
BY DEF Calm, MarkLost, Sane, Tables

LEMMA CarryCalm ==
    ASSUME NEW d, Sane(d), NEW p \in Paths, NEW q \in Paths, NEW m \in Messages
    PROVE  Calm(d, Carry(d, m, p, q))
<1>1. HeldBy(d, p) \in SUBSET Occurrence /\ HeldBy(d, q) \in SUBSET Occurrence
    BY DEF HeldBy, Sane, Tables
<1>2. CASE HeldBy(d, p) # {} /\ SameSlot(p, q)
    BY <1>2 DEF Carry, Calm, Retire, Sane, Tables
<1>3. CASE ~(HeldBy(d, p) # {} /\ SameSlot(p, q))
    <2> DEFINE r == Retire(d, HeldBy(d, p))
    <2>1. Sane(r) /\ Calm(d, r)
        BY <1>1, RetireSane, RetireCalm
    <2>2. Calm(r, Bind(r, m, q))
        BY <2>1, BindCalm
    <2>3. QED  BY <1>3, <2>1, <2>2 DEF Carry, Calm
<1>4. QED  BY <1>2, <1>3

LEMMA RenameCalm ==
    ASSUME NEW d, Sane(d), NEW p \in Paths, NEW q \in Paths, NEW saw
    PROVE  Calm(d, RenameRows(d, p, q, saw))
<1> DEFINE m == CarriedBy(d, p, q, saw)
           c == Carry(d, m, p, q)
           moved == IF m = None THEN d ELSE ClearIfLive(c, m)
           along == IF Mismatched(d, p, q, saw) THEN moved ELSE CarryMarker(moved, p, q)
<1>1. Calm(d, moved) /\ moved \in Tables
    <2>1. CASE m # None
        <3>1. m \in Messages \cap d.present
            BY <2>1, Carried
        <3>2. Calm(d, c)
            BY <3>1, CarryCalm
        <3>3. c \in Tables
            BY <2>1, <3>1, Carried, CarrySane
        <3>4. Calm(c, ClearIfLive(c, m)) /\ ClearIfLive(c, m) \in Tables
            BY <3>1, <3>3 DEF Calm, ClearIfLive, Unmark, Tables, MarkStates
        <3>5. moved = ClearIfLive(c, m)
            BY <2>1
        <3>6. QED  BY <3>2, <3>4, <3>5 DEF Calm
    <2>2. CASE m = None
        <3>1. moved = d
            BY <2>2
        <3>2. QED  BY <3>1 DEF Calm, Sane
    <2>3. QED  BY <2>1, <2>2
<1>2. Calm(moved, along) /\ along \in Tables
    <2> HIDE DEF moved
    <2>1. CarryMarker(moved, p, q) \in Tables /\ Calm(moved, CarryMarker(moved, p, q))
        BY <1>1 DEF Calm, CarryMarker, Tables
    <2>2. QED  BY <1>1, <2>1 DEF Calm
<1>3. Calm(along, CarryJob(along, p, q))
    <2> HIDE DEF along
    <2>1. QED  BY <1>2 DEF Calm, CarryJob, Tables
<1>4. QED  BY <1>1, <1>2, <1>3 DEF RenameRows, Calm

\* Hence the watcher's steps.
LEMMA WatcherCalm == Core /\ Watcher => Calm(db, db')
<1> SUFFICES ASSUME Core, Watcher  PROVE Calm(db, db')
    OBVIOUS
<1>0. Sane(db) /\ WatchShape
    BY DEF Core
<1>1. CASE OnMoved
    BY <1>1 DEF OnMoved, Calm
<1>2. CASE CarryRows
    BY <1>0, <1>2, RenameCalm DEF CarryRows, WatchShape
<1>3. CASE MarkTrashed
    BY <1>0, <1>3, MarkLostCalm DEF MarkTrashed
<1>4. CASE RetireSource
    <2> DEFINE stray == [msg |-> watch.msg, at |-> watch.src]
               r == Retire(db, {stray})
    <2>1. CASE stray \in db.active
        <3>1. Sane(r) /\ Calm(db, r)
            BY <1>0, <2>1, RetireSane, RetireCalm DEF Sane, Tables
        <3>2. Calm(r, MarkLost(r, {watch.msg}))
            BY <3>1, MarkLostCalm
        <3>3. db' \in {db, r, MarkLost(r, {watch.msg})}
            BY <1>4 DEF RetireSource
        <3>4. QED  BY <3>1, <3>2, <3>3 DEF Calm
    <2>2. CASE stray \notin db.active
        BY <1>4, <2>2 DEF RetireSource, Calm
    <2>3. QED  BY <2>1, <2>2
<1>5. CASE QueueDestination
    <2>1. Calm(db, Enqueue(db, watch.dest))
        BY <1>0 DEF Calm, Enqueue, Sane, Tables
    <2>2. QED  BY <1>5, <2>1 DEF QueueDestination, Calm
<1>6. QED  BY <1>1, <1>2, <1>3, <1>4, <1>5 DEF Watcher

\* The steps that are not of a reap leave its batch and its past alone.
LEMMA NoReapSteps ==
    /\ Worker => pc \notin Reaping /\ pc' \notin Reaping /\ UNCHANGED <<reap, pass>>
    /\ ScanStep => pc \notin Reaping /\ pc' \notin Reaping
    /\ Environment => \/ UNCHANGED <<db, pc, reap, pass>>
                      \/ reap' = NoReap /\ pass' = NoPass /\ pc' = "idle"
<1>1. Worker => pc \notin Reaping /\ pc' \notin Reaping /\ UNCHANGED <<reap, pass>>
    BY DEF Worker, Work, Take, SkipTrashed, SkipMissing, CommitParse, FailParse, Reaping
<1>2. ScanStep => pc \notin Reaping /\ pc' \notin Reaping
    BY DEF ScanStep, BeginScan, ListFolder, SettleRow, RowsDone, SettleFile, EndScan,
           MarkLostMessages, WalkMaildir, QueueUnindexed, ReadEvidence, Reaping
<1>3. Environment => \/ UNCHANGED <<db, pc, reap, pass>>
                     \/ reap' = NoReap /\ pass' = NoPass /\ pc' = "idle"
    BY DEF Environment, Deliver, Rename, Vanish, Replace, Close, Open, LoseEvents, Crash, Quiet
<1>4. QED  BY <1>1, <1>2, <1>3

\* Without a reap there is no past.
LEMMA BlankHistory ==
    ASSUME pc' \notin Reaping, reap' = NoReap, pass' = NoPass
    PROVE  History'
BY DEF History, Past, Reaping, NoReap, NoPass

\* What CommitReap removes is of the batch, and ripe.
LEMMA CommitRemoves ==
    ASSUME Core, History, CommitReap
    PROVE  /\ db'.present \subseteq db.present
           /\ db.present \ db'.present \subseteq reap.batch
           /\ \A m \in db.present \ db'.present : db.marks[m] = "ripe"
           /\ \A m \in Messages : db'.marks[m] = "ripe" => db.marks[m] = "ripe"
<1> DEFINE ids == IF reap.whole THEN ThreadMessages(reap.thread) ELSE Dead
<1>0. Sane(db) /\ db \in Tables
    BY DEF Core, Sane
<1>1. ids \subseteq reap.batch
    BY DEF CommitReap, History, Dead
<1>2. CASE db' = db
    BY <1>2
<1>3. CASE ~Unreapable(ids) /\ db' = RemoveMessages(db, ids, CopyPaths)
    <2>1. /\ db'.present = db.present \ ids
          /\ db'.marks = [m \in Messages |-> IF m \in ids THEN "none" ELSE db.marks[m]]
        BY <1>0, <1>3 DEF Tables, RemoveMessages, UnmarkPaths
    <2>2. \A m \in ids : db.marks[m] = "ripe"
        BY <1>3 DEF Unreapable
    <2>3. QED  BY <1>1, <2>1, <2>2
<1>4. QED  BY <1>2, <1>3 DEF CommitReap

\* Every step keeps the history.
LEMMA HistoryStep == Core /\ Core' /\ History /\ [Next]_vars => History'
<1> SUFFICES ASSUME Core, Core', History, [Next]_vars  PROVE History'
    OBVIOUS
<1>0. db.present \subseteq Messages /\ pass.live \subseteq Messages
      /\ reap.batch \subseteq Messages /\ Past
    BY DEF Core, Sane, Tables, TypeOK, ReapType, History
<1>1. CASE Worker
    BY <1>1, NoReapSteps, BlankHistory DEF History
<1>2. CASE Environment
    <2>1. CASE UNCHANGED <<db, pc, reap, pass>>
        BY <2>1 DEF History, Past, ThreadMessages
    <2>2. CASE reap' = NoReap /\ pass' = NoPass /\ pc' = "idle"
        BY <2>2, BlankHistory DEF Reaping
    <2>3. QED  BY <1>2, <2>1, <2>2, NoReapSteps
<1>3. CASE Watch
    <2>1. UNCHANGED <<pc, reap>> /\ Observe /\ Calm(db, db')
        BY <1>3, WatcherCalm DEF Watch, Watcher
    <2>2. db'.present = db.present
        BY <2>1 DEF Calm
    <2>3. /\ Past' /\ (reap' = NoReap => pass' = NoPass)
          /\ pass'.removed \subseteq pass.removed
        BY <1>0, <2>1, <2>2, PastKept DEF Calm, Past
    <2>4. QED  BY <2>1, <2>2, <2>3 DEF History, ThreadMessages
<1>4. CASE Main /\ ScanStep /\ UNCHANGED reap
    <2>1. reap' = NoReap /\ pc' \notin Reaping
        BY <1>4, NoReapSteps DEF History
    <2>2. pass' = NoPass
        BY <1>4, <2>1 DEF Main, Observe
    <2>3. QED  BY <2>1, <2>2, BlankHistory
<1>5. ASSUME Main, NEW aged \in SUBSET Messages, BeginReap(aged)  PROVE History'
    <2>1. reap = NoReap /\ pass = NoPass /\ db'.present = db.present
        BY <1>5 DEF BeginReap, History, Reaping, Core, Sane, Tables
    <2>2. /\ Past' /\ (reap' = NoReap => pass' = NoPass) /\ pass'.removed = {}
        BY <1>0, <1>5, <2>1, PastKept DEF Main, NoPass
    <2>3. \/ pc' = "idle" /\ reap' = NoReap
          \/ pc' = "content" /\ reap'.batch # {}
        BY <1>5, <2>1 DEF BeginReap, NoReap
    <2>4. QED  BY <2>2, <2>3 DEF History, Reaping, NoReap
<1>6. CASE Main /\ ReadCopies
    <2>1. /\ Past' /\ (reap' = NoReap => pass' = NoPass) /\ pass'.removed \subseteq pass.removed
        BY <1>0, <1>6, PastKept DEF Main, Past, ReadCopies
    <2>2. reap'.batch = reap.batch /\ pc = "content" /\ pc' = "threads"
        BY <1>6 DEF ReadCopies, Core, TypeOK, ReapType
    <2>3. QED  BY <2>1, <2>2 DEF History, Reaping
<1>7. ASSUME Main, NEW t \in Threads, TakeThread(t)  PROVE History'
    <2>1. /\ Past' /\ (reap' = NoReap => pass' = NoPass) /\ pass'.removed \subseteq pass.removed
        BY <1>0, <1>7, PastKept DEF Main, Past, TakeThread
    <2> DEFINE dead == {m \in reap.batch : ThreadOf[m] = t}
               survivors == ThreadMessages(t) \ dead
    <2>2. /\ reap'.batch = reap.batch /\ pc = "threads" /\ db' = db
          /\ \/ pc' = "threads"
             \/ pc' = "look" /\ reap'.thread = t /\ (reap'.whole = (survivors = {}))
        BY <1>7 DEF TakeThread, Core, TypeOK, ReapType
    <2>3. pc' = "look" /\ reap'.whole => ThreadMessages(t) \subseteq reap.batch
        BY <2>2
    <2>4. QED  BY <2>1, <2>2, <2>3 DEF History, Reaping, ThreadMessages
<1>8. CASE Main /\ CommitReap
    <2>1. /\ db'.present \subseteq db.present
          /\ db.present \ db'.present \subseteq reap.batch
          /\ \A m \in db.present \ db'.present : db.marks[m] = "ripe"
          /\ \A m \in Messages : db'.marks[m] = "ripe" => db.marks[m] = "ripe"
        BY <1>8, CommitRemoves
    <2>2. /\ Past' /\ (reap' = NoReap => pass' = NoPass)
          /\ pass'.removed \subseteq pass.removed \cup (db.present \ db'.present)
        BY <1>0, <1>8, <2>1, PastKept DEF Main, Past
    <2>3. reap'.batch = reap.batch /\ pc = "verify" /\ pc' = "threads"
        BY <1>8 DEF CommitReap, Core, TypeOK, ReapType
    <2>4. QED  BY <2>1, <2>2, <2>3 DEF History, Reaping
<1>9. CASE Main /\ EndReap
    <2>1. reap' = NoReap /\ pc' = "idle"
        BY <1>9 DEF EndReap
    <2>2. pass' = NoPass
        BY <1>9, <2>1 DEF Main, Observe
    <2>3. QED  BY <2>1, <2>2, BlankHistory DEF Reaping
<1>10. ASSUME Main, NEW unhashed \in SUBSET Paths, LookForRestores(unhashed)  PROVE History'
    <2>1. /\ Past' /\ (reap' = NoReap => pass' = NoPass) /\ pass'.removed \subseteq pass.removed
        BY <1>0, <1>10, PastKept DEF Main, Past, LookForRestores
    <2>2. /\ reap'.batch = reap.batch /\ reap'.whole = reap.whole /\ reap'.thread = reap.thread
          /\ pc = "look" /\ pc' = "verify" /\ db' = db
        BY <1>10 DEF LookForRestores, Core, TypeOK, ReapType
    <2>3. QED  BY <2>1, <2>2 DEF History, Reaping, ThreadMessages
<1>11. CASE Main
    BY <1>11, <1>4, <1>5, <1>6, <1>7, <1>8, <1>9, <1>10, MainSplit DEF Main, ReapStep
<1>12. CASE UNCHANGED vars
    BY <1>12 DEF vars, History, Past, ThreadMessages
<1>13. QED  BY <1>1, <1>2, <1>3, <1>11, <1>12 DEF Next

\* The batch of a reap passed the brake, by what there was when it began.
Brake ==
    reap # NoReap /\ ~Forced =>
        ~(Cardinality(reap.batch) > Allowed(Cardinality(db.present \cup pass.removed)))

\* What was there when the reap began is there or removed by it.
LEMMA BrakeStep == Core /\ Core' /\ History /\ History' /\ Brake /\ [Next]_vars => Brake'
<1> SUFFICES ASSUME Core, Core', History, History', Brake, [Next]_vars,
                    reap' # NoReap, ~Forced
             PROVE  Brake'
    BY DEF Brake
<1>0. db.present \subseteq Messages /\ pass.live \subseteq Messages
      /\ reap.batch \subseteq Messages /\ Past
    BY DEF Core, Sane, Tables, TypeOK, ReapType, History
<1>1. ASSUME reap # NoReap, reap'.batch = reap.batch,
             db'.present \cup pass'.removed = db.present \cup pass.removed
      PROVE  Brake'
    BY <1>1 DEF Brake
<1>2. CASE Worker
    BY <1>2, NoReapSteps DEF History
<1>3. CASE Environment
    BY <1>1, <1>3, NoReapSteps
<1>4. CASE Watch
    <2>1. reap' = reap /\ db'.present = db.present /\ Observe
        BY <1>4, WatcherCalm DEF Watch, Calm
    <2>2. pass'.removed = pass.removed
        BY <2>1 DEF Observe
    <2>3. QED  BY <1>1, <2>1, <2>2
<1>5. CASE ScanStep /\ UNCHANGED reap
    BY <1>5, NoReapSteps DEF History
<1>6. ASSUME Main, NEW aged \in SUBSET Messages, BeginReap(aged)
      PROVE  Brake'
    <2>1. reap = NoReap /\ pass = NoPass /\ db'.present = db.present
        BY <1>6 DEF BeginReap, History, Reaping, Core, Sane, Tables
    <2>2. PICK batch \in SUBSET Messages :
                reap' = [NoReap EXCEPT !.batch = batch] /\ ~OverBrake(batch)
        <3> DEFINE d == [db EXCEPT !.marks = [m \in Messages |->
                                               IF m \in aged THEN "ripe" ELSE @[m]]]
        <3>1. d.present \subseteq Messages
            BY <1>0 DEF Core, Sane, Tables
        <3>2. QED  BY <1>6, <2>1, <3>1 DEF BeginReap
    <2>3. reap'.batch = batch /\ pass'.removed = {}
        BY <1>6, <2>1, <2>2 DEF NoReap, NoPass, Main, Observe
    <2>4. ~(Cardinality(batch) > Allowed(Cardinality(db.present)))
        BY <2>2 DEF OverBrake
    <2>5. db'.present \cup pass'.removed = db.present
        BY <2>1, <2>3
    <2>6. QED  BY <2>3, <2>4, <2>5 DEF Brake
<1>7. ASSUME Main, ReadCopies \/ CommitReap \/ (\E t \in Threads : TakeThread(t))
                   \/ (\E unhashed \in SUBSET Paths : LookForRestores(unhashed))
      PROVE  Brake'
    <2>1. pc \in Reaping
        BY <1>7 DEF ReadCopies, CommitReap, TakeThread, LookForRestores, Reaping
    <2>2. reap'.batch = reap.batch
        BY <1>7 DEF ReadCopies, CommitReap, TakeThread, LookForRestores, Core, TypeOK, ReapType
    <2>3. db'.present \subseteq db.present
        BY <1>7, CommitRemoves DEF ReadCopies, TakeThread, LookForRestores
    <2>4. pass'.removed = pass.removed \cup (db.present \ db'.present)
        BY <1>7 DEF Main, Observe
    <2>5. reap # NoReap
        BY <2>1 DEF History, NoReap
    <2>6. db'.present \cup pass'.removed = db.present \cup pass.removed
        BY <2>3, <2>4
    <2>7. QED  BY <1>1, <2>2, <2>5, <2>6
<1>8. CASE EndReap
    BY <1>8 DEF EndReap
<1>9. CASE Main
    BY <1>9, <1>5, <1>6, <1>7, <1>8, MainSplit DEF Main, ReapStep
<1>10. CASE UNCHANGED vars
    BY <1>1, <1>10 DEF vars, Brake
<1>11. QED  BY <1>2, <1>3, <1>4, <1>9, <1>10 DEF Next

\* The reap's batch, past and brake are invariants of every interleaving.
THEOREM PastHolds == Spec => [](Core /\ History /\ Brake)
<1>1. Init => Core /\ History /\ Brake
    <2>1. Init => History /\ Brake
        BY DEF Init, History, Past, Brake, Reaping, NoReap, NoPass
    <2>2. QED  BY <2>1, InitCore
<1>2. Core /\ History /\ Brake /\ [Next]_vars => (Core /\ History /\ Brake)'
    BY CoreStep, HistoryStep, BrakeStep
<1>3. QED  BY <1>1, <1>2, PTL DEF Spec

\* A message the scan, the watcher or the parser found live while the reap was
\* under way is not removed by it, although it was ripe when the batch was read.
THEOREM GraceIsRestarted == Spec => []GraceRestarts
<1>1. History => GraceRestarts
    BY DEF History, Past, GraceRestarts
<1>2. QED  BY <1>1, PastHolds, PTL

\* Without force a reap removes no more than the brake allows of the messages
\* there were when it began, whichever threads it takes whole.
THEOREM BrakeKeeps == IsFiniteSet(Messages) => (Spec => []BrakeHolds)
<1> SUFFICES ASSUME IsFiniteSet(Messages)  PROVE Spec => []BrakeHolds
    OBVIOUS
<1>1. Core /\ History /\ Brake => BrakeHolds
    <2> SUFFICES ASSUME Core, History, Brake, ~Forced
                 PROVE  Cardinality(pass.removed)
                          <= Allowed(Cardinality(db.present \cup pass.removed))
        BY DEF BrakeHolds
    <2>1. /\ reap.batch \subseteq Messages /\ db.present \subseteq Messages
          /\ pass.removed \subseteq reap.batch
        BY DEF Core, TypeOK, ReapType, Sane, Tables, History
    <2>2. IsFiniteSet(reap.batch) /\ IsFiniteSet(db.present \cup pass.removed)
        BY <2>1, FS_Subset
    <2>3. /\ Cardinality(pass.removed) \in Nat /\ Cardinality(reap.batch) \in Nat
          /\ Cardinality(pass.removed) <= Cardinality(reap.batch)
        BY <2>1, <2>2, FS_Subset, FS_CardinalityType
    <2>4. Cardinality(db.present \cup pass.removed) \in Nat
        BY <2>2, FS_CardinalityType
    <2>5. Allowed(Cardinality(db.present \cup pass.removed)) \in Int
          /\ Allowed(Cardinality(db.present \cup pass.removed)) >= 0
        <3> DEFINE n == Cardinality(db.present \cup pass.removed)
                   part == (n * Percent) \div 100
        <3>1. part \in Int /\ Floor \in Nat
            BY <2>4, ReaperAssumption
        <3>2. Larger(Floor, part) \in Int /\ Larger(Floor, part) >= 0
            BY <3>1 DEF Larger
        <3>3. QED  BY <3>2 DEF Allowed
    <2>6. CASE reap = NoReap
        <3>1. Cardinality(pass.removed) = 0
            BY <2>6, FS_EmptySet DEF History, NoPass
        <3>2. QED  BY <2>5, <3>1
    <2>7. CASE reap # NoReap
        <3>1. ~(Cardinality(reap.batch) > Allowed(Cardinality(db.present \cup pass.removed)))
            BY <2>7 DEF Brake
        <3>2. QED  BY <2>3, <2>5, <3>1
    <2>8. QED  BY <2>6, <2>7
<1>2. QED  BY <1>1, PastHolds, PTL
----------------------------------------------------------------------------
(* What the reaper's evidence is worth when it commits.                    *)

\* A folder listed in this pass that cannot be read now is known to be stale.
Listed ==
    /\ pc = "content" => reap.listed = {}
    /\ \A f \in reap.listed : folder[f] = "shut" => f \in stale

\* Under the lock the sources are still those of the messages to be removed.
Witnesses ==
    pc = "verify" =>
        LET ids == IF reap.whole THEN ThreadMessages(reap.thread) ELSE Dead
        IN  /\ {o \in db.active \cup db.retired : o.msg \in ids} \subseteq reap.sources
            /\ \A s \in reap.sources : Home(s.at) \in reap.listed

Evidence == Listed /\ Witnesses

\* An outage makes the listing of its folder stale.
LEMMA ListedStep == Core /\ History /\ History' /\ Listed /\ [Next]_vars => Listed'
<1> SUFFICES ASSUME Core, History, History', Listed, [Next]_vars  PROVE Listed'
    OBVIOUS
<1>0. NoReap.listed = {} /\ "content" \in Reaping /\ reap.listed \subseteq Folders
    BY DEF NoReap, Reaping, Core, TypeOK, ReapType
<1>1. CASE pc' \notin Reaping
    BY <1>0, <1>1 DEF History, Listed
<1>2. CASE Environment /\ pc' \in Reaping
    <2>1. UNCHANGED <<pc, reap>>
        BY <1>2, NoReapSteps DEF Reaping
    <2>2. reap.listed # {} => pc \in {"threads", "look", "verify"}
        BY <1>2, <2>1 DEF Listed, Reaping
    <2>3. \A fs : Touched(fs) /\ reap.listed # {} => stale' = stale \cup fs
        BY <2>2 DEF Touched
    <2>4. reap.listed # {} =>
            stale \subseteq stale'
            /\ \A f \in Folders : folder'[f] = "shut" => folder[f] = "shut" \/ f \in stale'
        <3>1. SUFFICES ASSUME reap.listed # {}
                       PROVE  stale \subseteq stale'
                              /\ \A f \in Folders : folder'[f] = "shut"
                                    => folder[f] = "shut" \/ f \in stale'
            OBVIOUS
        <3>2. ASSUME NEW g \in Folders, NEW how \in {"shut", "away"}, Close(g, how)
              PROVE  stale \subseteq stale'
                     /\ \A f \in Folders : folder'[f] = "shut" => folder[f] = "shut" \/ f \in stale'
            BY <2>3, <3>1, <3>2 DEF Close, Core, TypeOK
        <3>3. ASSUME NEW g \in Folders, Open(g)
              PROVE  stale \subseteq stale'
                     /\ \A f \in Folders : folder'[f] = "shut" => folder[f] = "shut" \/ f \in stale'
            BY <2>3, <3>1, <3>3 DEF Open, Core, TypeOK
        <3>4. ASSUME NEW m \in Messages, NEW s \in Slots, Deliver(m, s)
              PROVE  stale \subseteq stale' /\ folder' = folder
            BY <2>3, <3>1, <3>4 DEF Deliver
        <3>5. ASSUME NEW p \in Paths, NEW q \in Paths, Rename(p, q)
              PROVE  stale \subseteq stale' /\ folder' = folder
            BY <2>3, <3>1, <3>5 DEF Rename
        <3>6. ASSUME NEW p \in Paths, Vanish(p)  PROVE stale \subseteq stale' /\ folder' = folder
            BY <2>3, <3>1, <3>6 DEF Vanish
        <3>7. ASSUME NEW p \in Paths, NEW m \in Messages, Replace(p, m)
              PROVE  stale \subseteq stale' /\ folder' = folder
            BY <3>7 DEF Replace
        <3>8. LoseEvents => stale \subseteq stale' /\ folder' = folder
            BY DEF LoseEvents
        <3>9. ~Crash
            BY <1>2 DEF Crash, Reaping
        <3>10. QED
            BY <1>2, <3>2, <3>3, <3>4, <3>5, <3>6, <3>7, <3>8, <3>9 DEF Environment
    <2>5. QED  BY <1>0, <2>1, <2>4 DEF Listed
<1>3. CASE Watch
    BY <1>3 DEF Watch, Watcher, Listed
<1>4. ASSUME NEW aged \in SUBSET Messages, BeginReap(aged), pc' \in Reaping  PROVE Listed'
    BY <1>0, <1>4 DEF BeginReap, Reaping, Listed, NoReap
<1>5. CASE Main /\ (ReadCopies \/ CommitReap \/ (\E t \in Threads : TakeThread(t)))
    <2>1. reap'.listed = reap.listed /\ stale' = stale /\ folder' = folder /\ pc' # "content"
        BY <1>5 DEF Main, ReadCopies, CommitReap, TakeThread, Core, TypeOK, ReapType
    <2>2. QED  BY <2>1 DEF Listed
<1>6. ASSUME Main, NEW unhashed \in SUBSET Paths, LookForRestores(unhashed)  PROVE Listed'
    <2> DEFINE ids == IF reap.whole THEN ThreadMessages(reap.thread) ELSE Dead
               needed == {Home(s.at) : s \in Sources(ids)} \ reap.listed
    <2>1. /\ reap'.listed = reap.listed \cup needed
          /\ stale' = (stale \ needed) \cup {f \in needed : folder[f] = "shut"}
          /\ folder' = folder /\ pc' = "verify"
        BY <1>6 DEF Main, LookForRestores, Core, TypeOK, ReapType
    <2>2. QED  BY <2>1 DEF Listed
<1>7. CASE Worker \/ ScanStep \/ EndReap
    BY <1>1, <1>7, NoReapSteps DEF EndReap, Reaping
<1>8. CASE Main
    BY <1>8, <1>1, <1>4, <1>5, <1>6, <1>7, MainSplit DEF Main, ReapStep
<1>9. CASE UNCHANGED vars
    BY <1>9 DEF vars, Listed
<1>10. QED  BY <1>1, <1>2, <1>3, <1>7, <1>8, <1>9 DEF Next

\* The watcher waits for the lock, so the sources stay complete.
LEMMA WitnessesStep == Core /\ Witnesses /\ [Next]_vars => Witnesses'
<1> SUFFICES ASSUME Core, Witnesses, [Next]_vars, pc' = "verify"  PROVE Witnesses'
    BY DEF Witnesses
<1>1. CASE Worker \/ ScanStep
    BY <1>1, NoReapSteps DEF Reaping
<1>2. CASE Environment
    <2>1. UNCHANGED <<db, pc, reap>>
        BY <1>2, NoReapSteps
    <2>2. QED  BY <2>1 DEF Witnesses, ThreadMessages, Dead
<1>3. CASE Watch
    BY <1>3 DEF Watch, Watcher, OnMoved, CarryRows, MarkTrashed, RetireSource,
                QueueDestination, Unlocked
<1>4. ASSUME Main, NEW unhashed \in SUBSET Paths, LookForRestores(unhashed)  PROVE Witnesses'
    <2> DEFINE ids == IF reap.whole THEN ThreadMessages(reap.thread) ELSE Dead
               needed == {Home(s.at) : s \in Sources(ids)} \ reap.listed
    <2>1. /\ reap'.sources = Sources(ids) /\ reap'.listed = reap.listed \cup needed
          /\ reap'.whole = reap.whole /\ reap'.thread = reap.thread /\ reap'.batch = reap.batch
          /\ db' = db
        BY <1>4 DEF LookForRestores, Core, TypeOK, ReapType
    <2>2. (IF reap'.whole THEN ThreadMessages(reap.thread)' ELSE Dead') = ids
        BY <2>1 DEF ThreadMessages, Dead
    <2>3. {o \in db.active \cup db.retired : o.msg \in ids} \subseteq Sources(ids)
        BY DEF Sources
    <2>4. QED  BY <2>1, <2>2, <2>3 DEF Witnesses
<1>5. ~(ReadCopies \/ EndReap \/ CommitReap \/ (\E t \in Threads : TakeThread(t))
        \/ \E aged \in SUBSET Messages : BeginReap(aged))
    BY DEF ReadCopies, EndReap, CommitReap, TakeThread, BeginReap
<1>6. CASE Main
    BY <1>6, <1>1, <1>4, <1>5, MainSplit DEF Main, ReapStep
<1>7. CASE UNCHANGED vars
    BY <1>7 DEF vars, Witnesses, ThreadMessages, Dead
<1>8. QED  BY <1>1, <1>2, <1>3, <1>6, <1>7 DEF Next

\* The check in the transaction finds every restored file.
LEMMA CommitSpares ==
    ASSUME Core, Evidence, CommitReap,
           NEW m \in db.present \ db'.present, NEW o \in db.active \cup db.retired, o.msg = m,
           NEW p \in Paths, SameSlot(p, o.at), Untrashed(p), folder[Home(p)] # "away"
    PROVE  disk[p] # m
<1> SUFFICES ASSUME disk[p] = m  PROVE FALSE
    OBVIOUS
<1> DEFINE ids == IF reap.whole THEN ThreadMessages(reap.thread) ELSE Dead
<1>1. db' = RemoveMessages(db, ids, CopyPaths) /\ ~Restored /\ pc = "verify"
    BY DEF CommitReap
<1>2. m \in ids
    BY <1>1 DEF RemoveMessages, UnmarkPaths, Core, Sane, Tables
<1>3. o \in reap.sources /\ Home(o.at) \in reap.listed
    BY <1>1, <1>2 DEF Evidence, Witnesses
<1>4. Home(p) = Home(o.at) /\ Home(o.at) \notin stale
    BY <1>1, <1>3 DEF Home, SameSlot, Restored
<1>5. folder[Home(p)] = "open"
    BY <1>3, <1>4, PathShape DEF Evidence, Listed, Core, TypeOK
<1>6. Look(p) = m /\ m # None
    BY <1>5, IndexAssumption DEF Look, Core, Sane, Tables
<1>7. p \in Candidates(o.at)
    BY <1>6 DEF Candidates, Found
<1>8. reap.saw[p] = m /\ o.msg # reap.saw[p]
    BY <1>1, <1>3, <1>6, <1>7 DEF Restored
<1>9. QED  BY <1>8

\* Nothing but CommitReap removes a message.
LEMMA OnlyCommitRemoves ==
    Core /\ History /\ [Next]_vars => db.present \subseteq db'.present \/ CommitReap
<1> SUFFICES ASSUME Core, History, [Next]_vars, ~CommitReap
             PROVE  db.present \subseteq db'.present
    OBVIOUS
<1>0. Sane(db) /\ db \in Tables
    BY DEF Core, Sane
<1>1. CASE Worker
    <2>1. ASSUME NEW p \in Paths, Work(p)  PROVE db'.present = db.present
        <3>1. Take(p) \/ SkipTrashed(p) => db'.present = db.present
            BY <1>0 DEF Take, SkipTrashed, Tables
        <3>2. \A q : EnqueueIfAbsent(db, q) \in {db, [db EXCEPT !.jobs[q] = "queued"]}
            BY DEF EnqueueIfAbsent, Enqueue
        <3>3. ASSUME NEW q,
                     db' = [EnqueueIfAbsent(db, q) EXCEPT !.jobs[p] = "none", !.marker[p] = None]
              PROVE  db'.present = db.present
            <4>1. CASE EnqueueIfAbsent(db, q) = db
                BY <1>0, <3>3, <4>1 DEF Tables
            <4>2. CASE EnqueueIfAbsent(db, q) = [db EXCEPT !.jobs[q] = "queued"]
                BY <1>0, <3>3, <4>2 DEF Tables
            <4>3. QED  BY <3>2, <4>1, <4>2
        <3>4. [db EXCEPT !.jobs[p] = "none"].present = db.present
            BY <1>0 DEF Tables
        <3>5. SkipMissing(p) => db'.present = db.present
            BY <3>3, <3>4 DEF SkipMissing
        <3>6. QED  BY <2>1, <3>1, <3>5 DEF Work
    <2>2. CASE CommitParse
        <3>1. parse.msg \in Messages /\ parse.at \in Paths
            BY <2>2 DEF CommitParse, Core, ParseShape
        <3>2. Bind(db, parse.msg, parse.at) \in Tables
              /\ Bind(db, parse.msg, parse.at).present = db.present
            BY <1>0, <3>1, BindSane
        <3>3. QED  BY <2>2, <3>2 DEF CommitParse, Tables
    <2>3. CASE FailParse
        BY <1>0, <2>3 DEF FailParse, Tables
    <2>4. QED  BY <1>1, <2>1, <2>2, <2>3 DEF Worker
<1>2. CASE Environment
    BY <1>0, <1>2 DEF Environment, Deliver, Rename, Vanish, Replace, Close, Open, LoseEvents,
                      Crash, Quiet, Tables
<1>3. CASE Watch
    BY <1>3, WatcherCalm DEF Watch, Calm
<1>4. ASSUME NEW o \in scan.todo, o \in Occurrence, SettleRow(o)
      PROVE  db'.present = db.present
    <2>1. o.at \in Paths
        BY <1>4 DEF Occurrence
    <2>2. FollowedTo(o) \subseteq Paths
        BY DEF FollowedTo, SlotFiles, Core, TypeOK, ScanType
    <2>3. \A p \in FollowedTo(o) : RenameRows(db, o.at, p, o.msg).present = db.present
        BY <1>0, <2>1, <2>2, RenameCalm DEF Calm
    <2>4. /\ Retire(db, {o}).present = db.present
          /\ EnqueueIfAbsent(Retire(db, {o}), o.at).present = db.present
        BY <1>0 DEF Retire, EnqueueIfAbsent, Enqueue, Tables
    <2>5. QED  BY <1>4, <2>3, <2>4 DEF SettleRow
<1>5. ASSUME NEW p \in Paths, SettleFile(p)
      PROVE  db'.present = db.present
    <2>1. IsCopy(p) => Digest(p) \in Messages
        BY <1>0 DEF IsCopy, Known, Tables
    <2>2. QED  BY <1>0, <1>5, <2>1, BindSane DEF SettleFile
<1>6. CASE Main
    BY <1>0, <1>4, <1>5, <1>6, MainSplit
       DEF Main, ScanStep, ReapStep, BeginScan, ListFolder, RowsDone, EndScan, MarkLostMessages,
           WalkMaildir, QueueUnindexed, ReadEvidence, BeginReap, ReadCopies, TakeThread, EndReap,
           LookForRestores, ClearLive, MarkLost, Tables
<1>7. CASE UNCHANGED vars
    BY <1>7 DEF vars
<1>8. QED  BY <1>1, <1>2, <1>3, <1>6, <1>7 DEF Next

\* The reaper's evidence is an invariant of every interleaving.
THEOREM EvidenceHolds == Spec => [](Core /\ History /\ Evidence)
<1>1. Init => Core /\ History /\ Evidence
    <2>1. Init => History /\ Evidence
        BY DEF Init, History, Past, Evidence, Listed, Witnesses, Reaping, NoReap, NoPass
    <2>2. QED  BY <2>1, InitCore
<1>2. Core /\ History /\ Evidence /\ [Next]_vars => (Core /\ History /\ Evidence)'
    BY CoreStep, HistoryStep, ListedStep, WitnessesStep DEF Evidence
<1>3. QED  BY <1>1, <1>2, PTL DEF Spec

\* A reap removes no message whose bytes are back in an untrashed file of a slot
\* it has or had, as long as the folder is there, readable or not.
THEOREM RestoredKept == Spec => RestoredIsKept
<1> DEFINE Kept ==
        \A m \in db.present \ db'.present :
            \A o \in db.active \cup db.retired : \A p \in Paths :
                o.msg = m /\ SameSlot(p, o.at) /\ Untrashed(p) /\ folder[Home(p)] # "away"
                => disk[p] # m
<1>1. Core /\ History /\ Evidence /\ [Next]_vars => Kept
    <2> SUFFICES ASSUME Core, History, Evidence, [Next]_vars  PROVE Kept
        OBVIOUS
    <2>1. CASE db.present \subseteq db'.present
        BY <2>1
    <2>2. CASE CommitReap
        BY <2>2, CommitSpares
    <2>3. QED  BY <2>1, <2>2, OnlyCommitRemoves
<1>2. (Core /\ History /\ Evidence /\ [Next]_vars => Kept)
      => (Core /\ History /\ Evidence /\ [Next]_vars => [Kept]_vars)
    OBVIOUS
<1>3. QED  BY <1>1, EvidenceHolds, PTL DEF Spec, RestoredIsKept
----------------------------------------------------------------------------
(* What the scan's listings are worth when it retires an occurrence.       *)

OneFile ==
    \A p, q \in Paths : SameSlot(p, q) /\ disk[p] # None /\ disk[q] # None => p = q

\* A listing that is not stale names every file of its folder, unless the folder
\* is away.
Stands(f) ==
    /\ folder[f] # "shut"
    /\ folder[f] = "open" => \A p \in Paths : Home(p) = f /\ disk[p] # None => p \in scan.files

Listing ==
    /\ pc = "rows" => scan.unlisted = {}
    /\ pc \in {"list", "rows"} => \A f \in Folders \ scan.unlisted : f \notin stale => Stands(f)

\* mbsync keeps one file per slot.
LEMMA OneFileStep == Core /\ OneFile /\ [Next]_vars => OneFile'
<1> SUFFICES ASSUME Core, OneFile, [Next]_vars  PROVE OneFile'
    OBVIOUS
<1>0. disk \in [Paths -> Messages \cup {None}]
    BY DEF Core, TypeOK, Sight
<1>1. CASE UNCHANGED disk
    BY <1>1 DEF OneFile
<1>2. ASSUME NEW m \in Messages, NEW s \in Slots, Deliver(m, s)  PROVE OneFile'
    BY <1>0, <1>2 DEF Deliver, OneFile, SameSlot, Paths
<1>3. ASSUME NEW p \in Paths, NEW q \in Paths, Rename(p, q)  PROVE OneFile'
    BY <1>0, <1>3 DEF Rename, OneFile, SameSlot
<1>4. ASSUME NEW p \in Paths, Vanish(p)  PROVE OneFile'
    BY <1>0, <1>4 DEF Vanish, OneFile
<1>5. ASSUME NEW p \in Paths, NEW m \in Messages, Replace(p, m)  PROVE OneFile'
    BY <1>0, <1>5 DEF Replace, OneFile
<1>6. CASE Environment
    BY <1>1, <1>2, <1>3, <1>4, <1>5, <1>6
       DEF Environment, Close, Open, LoseEvents, Crash
<1>7. CASE Worker \/ Main \/ Watch
    BY <1>1, <1>7 DEF Worker, Main, Watch, Watcher
<1>8. QED  BY <1>1, <1>6, <1>7 DEF Next, vars

\* Every change of a folder makes its listing stale.
LEMMA ListingStep == Core /\ History /\ Listing /\ [Next]_vars => Listing'
<1> SUFFICES ASSUME Core, History, Listing, [Next]_vars, pc' \in {"list", "rows"}
             PROVE  Listing'
    BY DEF Listing
<1>0. scan \in ScanType /\ pc' \notin Reaping
    BY DEF Core, TypeOK, Reaping
<1>1. CASE UNCHANGED <<pc, scan, folder, stale>> /\ \A p \in Paths : disk'[p] # None => disk[p] # None
    BY <1>1 DEF Listing, Stands
<1>2. CASE Environment
    <2>1. UNCHANGED <<pc, scan>>
        BY <1>2 DEF Environment, Deliver, Rename, Vanish, Replace, Close, Open, LoseEvents,
                    Crash, Quiet
    <2>2. \A fs : Touched(fs) => stale' = stale \cup fs
        BY <2>1 DEF Touched
    <2>3. SUFFICES ASSUME NEW f \in Folders \ scan.unlisted, f \notin stale'
                   PROVE  Stands(f)'
        BY <2>1 DEF Listing
    <2>4. f \notin stale => Stands(f)
        BY <2>1 DEF Listing
    <2>5. ASSUME f \notin stale, folder'[f] = folder[f],
                 \A p \in Paths : Home(p) = f /\ disk'[p] # None => disk[p] # None
          PROVE  Stands(f)'
        BY <2>1, <2>4, <2>5 DEF Stands
    <2>6. ASSUME NEW m \in Messages, NEW s \in Slots, Deliver(m, s)  PROVE Stands(f)'
        <3> DEFINE q == [slot |-> s, tag |-> Delivered]
        <3>1. f \notin stale /\ f # FolderOf[s] /\ folder' = folder /\ disk' = [disk EXCEPT ![q] = m]
            BY <2>2, <2>3, <2>6 DEF Deliver
        <3>2. Home(q) = FolderOf[s]
            BY DEF Home
        <3>3. \A p \in Paths : Home(p) = f /\ disk'[p] # None => disk[p] # None
            BY <3>1, <3>2 DEF Core, TypeOK, Sight
        <3>4. QED  BY <2>5, <3>1, <3>3
    <2>7. ASSUME NEW p \in Paths, NEW q \in Paths, Rename(p, q)  PROVE Stands(f)'
        <3>1. f \notin stale /\ f # Home(p) /\ f # Home(q) /\ folder' = folder
              /\ disk' = [disk EXCEPT ![q] = disk[p], ![p] = None]
            BY <2>2, <2>3, <2>7 DEF Rename
        <3>2. \A r \in Paths : Home(r) = f /\ disk'[r] # None => disk[r] # None
            BY <3>1 DEF Core, TypeOK, Sight
        <3>3. QED  BY <2>5, <3>1, <3>2
    <2>8. ASSUME NEW p \in Paths, Vanish(p)  PROVE Stands(f)'
        <3>1. f \notin stale /\ folder' = folder /\ disk' = [disk EXCEPT ![p] = None]
            BY <2>2, <2>3, <2>8 DEF Vanish
        <3>2. \A r \in Paths : disk'[r] # None => disk[r] # None
            BY <3>1 DEF Core, TypeOK, Sight
        <3>3. QED  BY <2>5, <3>1, <3>2
    <2>9. ASSUME NEW p \in Paths, NEW m \in Messages, Replace(p, m)  PROVE Stands(f)'
        <3>1. f \notin stale /\ folder' = folder /\ disk' = [disk EXCEPT ![p] = m] /\ disk[p] # None
            BY <2>3, <2>9 DEF Replace
        <3>2. \A r \in Paths : disk'[r] # None => disk[r] # None
            BY <3>1 DEF Core, TypeOK, Sight
        <3>3. QED  BY <2>5, <3>1, <3>2
    <2>10. ASSUME NEW g \in Folders, NEW how \in {"shut", "away"}, Close(g, how)  PROVE Stands(f)'
        <3>1. f \notin stale /\ f # g /\ folder' = [folder EXCEPT ![g] = how] /\ disk' = disk
            BY <2>2, <2>3, <2>10 DEF Close, Quiet
        <3>2. folder'[f] = folder[f]
            BY <3>1 DEF Core, TypeOK
        <3>3. QED  BY <2>5, <3>1, <3>2
    <2>11. ASSUME NEW g \in Folders, Open(g)  PROVE Stands(f)'
        <3>1. f \notin stale /\ f # g /\ folder' = [folder EXCEPT ![g] = "open"] /\ disk' = disk
            BY <2>2, <2>3, <2>11 DEF Open, Quiet
        <3>2. folder'[f] = folder[f]
            BY <3>1 DEF Core, TypeOK
        <3>3. QED  BY <2>5, <3>1, <3>2
    <2>12. CASE LoseEvents
        BY <2>3, <2>5, <2>12 DEF LoseEvents
    <2>13. ~Crash
        BY DEF Crash
    <2>14. QED
        BY <1>2, <2>6, <2>7, <2>8, <2>9, <2>10, <2>11, <2>12, <2>13 DEF Environment
<1>3. CASE Watch
    BY <1>1, <1>3 DEF Watch, Watcher
<1>4. CASE Worker
    BY <1>4 DEF Worker, Work, Take, SkipTrashed, SkipMissing, CommitParse, FailParse
<1>5. ASSUME NEW f \in Folders, ListFolder(f), UNCHANGED <<disk, folder>>  PROVE Listing'
    <2>1. /\ pc = "list" /\ pc' = "list" /\ scan'.unlisted = scan.unlisted \ {f}
          /\ scan'.files = scan.files \cup {p \in Found : Home(p) = f}
          /\ stale' = IF folder[f] = "shut" THEN stale \cup {f} ELSE stale \ {f}
        BY <1>0, <1>5 DEF ListFolder, ScanType
    <2>2. f \notin stale' => Stands(f)'
        BY <1>5, <2>1 DEF Stands, Found, Look
    <2>3. \A g \in Folders \ scan.unlisted : g # f /\ g \notin stale' => Stands(g)'
        BY <1>5, <2>1 DEF Listing, Stands
    <2>4. QED  BY <2>1, <2>2, <2>3 DEF Listing
<1>6. ASSUME NEW sweeping \in BOOLEAN, BeginScan(sweeping)  PROVE Listing'
    <2>1. pc' = "list" /\ scan'.unlisted = Folders
        BY <1>6 DEF BeginScan, NoScan
    <2>2. QED  BY <2>1 DEF Listing
<1>7. ASSUME NEW o \in scan.todo, SettleRow(o), UNCHANGED <<disk, folder>>  PROVE Listing'
    <2>1. /\ UNCHANGED <<pc, stale>> /\ scan'.files = scan.files /\ scan'.unlisted = scan.unlisted
        BY <1>0, <1>7 DEF SettleRow, ScanType
    <2>2. QED  BY <1>7, <2>1 DEF Listing, Stands
<1>8. ASSUME NEW unhashed \in SUBSET Paths, ReadEvidence(unhashed), UNCHANGED <<disk, folder>>
      PROVE  Listing'
    <2>1. /\ pc = "list" /\ scan.unlisted = {} /\ stale' = stale
          /\ scan'.files = scan.files /\ scan'.unlisted = scan.unlisted
        BY <1>0, <1>8 DEF ReadEvidence, ScanType
    <2>2. QED  BY <1>8, <2>1 DEF Listing, Stands
<1>9. ~(RowsDone \/ EndScan \/ MarkLostMessages \/ WalkMaildir \/ QueueUnindexed
        \/ \E p \in scan.todo : SettleFile(p))
    BY DEF RowsDone, EndScan, MarkLostMessages, WalkMaildir, QueueUnindexed, SettleFile
<1>10. ~ReapStep
    BY DEF ReapStep, BeginReap, ReadCopies, TakeThread, CommitReap, EndReap, LookForRestores
<1>11. CASE Main
    BY <1>11, <1>5, <1>6, <1>7, <1>8, <1>9, <1>10, MainSplit DEF Main, ScanStep
<1>12. CASE UNCHANGED vars
    BY <1>1, <1>12 DEF vars
<1>13. QED  BY <1>2, <1>3, <1>4, <1>11, <1>12 DEF Next

\* Following a file within its slot, to a path nothing holds, retires nothing.
LEMMA FollowRetires ==
    ASSUME NEW d, Sane(d), NEW p \in Paths, NEW q \in Paths, NEW saw,
           HeldBy(d, p) # {}, SameSlot(p, q), HeldBy(d, q) = {}
    PROVE  RenameRows(d, p, q, saw).retired = d.retired
<1> DEFINE m == CarriedBy(d, p, q, saw)
           c == Carry(d, m, p, q)
           moved == IF m = None THEN d ELSE ClearIfLive(c, m)
           along == IF Mismatched(d, p, q, saw) THEN moved ELSE CarryMarker(moved, p, q)
<1>1. moved \in Tables /\ moved.retired = d.retired
    <2>1. CASE m # None
        <3>1. m \in Messages \cap d.present
            BY <2>1, Carried
        <3>2. c \in Tables
            BY <2>1, <3>1, Carried, CarrySane
        <3>3. c = [Retire(d, {}) EXCEPT !.active = (@ \ HeldBy(d, p)) \cup {[msg |-> m, at |-> q]}]
            BY DEF Carry
        <3>4. Retire(d, {}).retired = d.retired /\ Retire(d, {}) \in Tables
            BY DEF Retire, Sane, Tables
        <3>5. c.retired = d.retired
            BY <3>3, <3>4 DEF Tables
        <3>6. ClearIfLive(c, m) \in Tables /\ ClearIfLive(c, m).retired = c.retired
            BY <3>1, <3>2 DEF ClearIfLive, Unmark, Tables, MarkStates
        <3>7. moved = ClearIfLive(c, m)
            BY <2>1
        <3>8. QED  BY <3>5, <3>6, <3>7
    <2>2. CASE m = None
        <3>1. moved = d
            BY <2>2
        <3>2. QED  BY <3>1 DEF Sane
    <2>3. QED  BY <2>1, <2>2
<1>2. along \in Tables /\ along.retired = d.retired
    <2> HIDE DEF moved
    <2>1. CarryMarker(moved, p, q) \in Tables /\ CarryMarker(moved, p, q).retired = moved.retired
        BY <1>1 DEF CarryMarker, Tables
    <2>2. QED  BY <1>1, <2>1
<1>3. CarryJob(along, p, q).retired = along.retired
    <2> HIDE DEF along
    <2>1. QED  BY <1>2 DEF CarryJob, Tables
<1>4. QED  BY <1>2, <1>3 DEF RenameRows

\* The scan gives up only the row it settles, and only for one of three reasons.
LEMMA SettleRetires ==
    ASSUME Core, NEW o \in scan.todo, o \in Occurrence, SettleRow(o),
           NEW k \in db'.retired \ db.retired
    PROVE  k = o /\ (Changed(o) \/ Mistaken(o) \/ Vanished(o))
<1>0. Sane(db) /\ db \in Tables
    BY DEF Core, Sane
<1>1. o.at \in Paths
    BY DEF Occurrence
<1>2. Retire(db, {o}).retired \subseteq db.retired \cup {o} /\ Sane(Retire(db, {o}))
    BY <1>0, RetireSane DEF Retire, Tables
<1>3. CASE Changed(o) /\ db' = EnqueueIfAbsent(Retire(db, {o}), o.at)
    <2> DEFINE r == Retire(db, {o})
    <2>1. EnqueueIfAbsent(r, o.at).retired = r.retired
        BY <1>2 DEF EnqueueIfAbsent, Enqueue, Sane, Tables
    <2>2. QED  BY <1>2, <1>3, <2>1
<1>4. ASSUME NEW p \in FollowedTo(o), db' = RenameRows(db, o.at, p, o.msg)
      PROVE  FALSE
    <2>1. p \in Paths /\ SameSlot(o.at, p) /\ HeldBy(db, p) = {} /\ o \in db.active
        BY DEF FollowedTo, SlotFiles, SameSlot, Core, TypeOK, ScanType
    <2>2. o \in HeldBy(db, o.at)
        BY <2>1 DEF HeldBy
    <2>3. db'.retired = db.retired
        BY <1>0, <1>1, <1>4, <2>1, <2>2, FollowRetires
    <2>4. QED  BY <2>3
<1>5. CASE db' = IF Mistaken(o) \/ Vanished(o) THEN Retire(db, {o}) ELSE db
    BY <1>2, <1>5
<1>6. QED  BY <1>3, <1>4, <1>5 DEF SettleRow

\* No file of the slot has the bytes of an occurrence the scan gives up.
LEMMA ScanSpares ==
    ASSUME Core, OneFile, Listing, NEW o \in scan.todo, o \in Occurrence, SettleRow(o),
           NEW k \in db'.retired \ db.retired,
           NEW p \in Paths, SameSlot(p, k.at), folder[Home(p)] # "away"
    PROVE  disk[p] # k.msg
<1> SUFFICES ASSUME disk[p] = k.msg  PROVE FALSE
    OBVIOUS
<1>1. k = o /\ (Changed(o) \/ Mistaken(o) \/ Vanished(o))
    BY SettleRetires
<1>2. o.at \in Paths /\ o.msg \in Messages /\ disk[p] # None /\ Home(p) = Home(o.at)
    BY <1>1, IndexAssumption DEF Occurrence, Home, SameSlot
<1>3. scan.files \subseteq Paths
    BY DEF Core, TypeOK, ScanType
\* Any other file that can be looked at in the slot is that very file.
<1>4. ASSUME NEW q \in Paths, SameSlot(q, o.at), Look(q) # None
      PROVE  Look(q) = o.msg
    <2>1. disk[q] # None /\ Look(q) = disk[q]
        BY <1>4 DEF Look
    <2>2. q = p
        BY <1>1, <1>2, <1>4, <2>1 DEF OneFile, SameSlot
    <2>3. QED  BY <1>1, <2>1, <2>2
<1>5. CASE Changed(o)
    BY <1>2, <1>4, <1>5 DEF Changed, Proves, SameSlot
<1>6. CASE Mistaken(o)
    <2>1. PICK q \in SlotFiles(o) : TRUE
        BY <1>6 DEF Mistaken
    <2>2. q \in Paths /\ SameSlot(q, o.at) /\ Look(q) \notin {None, o.msg}
        BY <1>3, <1>6, <2>1 DEF Mistaken, SlotFiles, Proves
    <2>3. QED  BY <1>4, <2>2
<1>7. CASE Vanished(o)
    <2>1. pc = "rows" /\ Home(o.at) \in Folders /\ Home(o.at) \notin stale
        BY <1>2, <1>7, PathShape DEF SettleRow, Vanished, Trusted
    <2>2. Stands(Home(o.at))
        BY <2>1 DEF Listing
    <2>3. folder[Home(p)] = "open"
        BY <1>2, <2>1, <2>2 DEF Stands, Core, TypeOK
    <2>4. p \in scan.files
        BY <1>2, <2>2, <2>3 DEF Stands
    <2>5. QED  BY <1>1, <1>7, <2>4 DEF Vanished, SlotFiles
<1>8. QED  BY <1>1, <1>5, <1>6, <1>7

\* The scan's other steps, and everybody else's while the scan's list of things
\* to settle changes, retire nothing.
LEMMA OnlySettleRetires ==
    Core /\ [Next]_vars /\ scan.todo # scan'.todo =>
        \/ db'.retired \subseteq db.retired
        \/ \E o \in scan.todo : o \in Occurrence /\ SettleRow(o)
<1> SUFFICES ASSUME Core, [Next]_vars, scan.todo # scan'.todo,
                    ~\E o \in scan.todo : o \in Occurrence /\ SettleRow(o)
             PROVE  db'.retired \subseteq db.retired
    OBVIOUS
<1>0. Sane(db) /\ db \in Tables
    BY DEF Core, Sane
<1>1. CASE Environment
    <2>1. Crash
        BY <1>1 DEF Environment, Deliver, Rename, Vanish, Replace, Close, Open, LoseEvents, Quiet
    <2>2. QED  BY <1>0, <2>1 DEF Crash, Tables
<1>2. ~(Worker \/ Watch \/ UNCHANGED vars)
    BY DEF Worker, Watch, Watcher, vars
<1>3. ASSUME NEW p \in Paths, SettleFile(p)  PROVE db'.retired \subseteq db.retired
    <2>1. ASSUME IsCopy(p)  PROVE Bind(db, Digest(p), p).retired = db.retired
        <3>1. HeldBy(db, p) = {}
            BY <2>1 DEF IsCopy
        <3>2. \A own : Retire(db, HeldBy(db, p) \ own) \in Tables
                       /\ Retire(db, HeldBy(db, p) \ own).retired = db.retired
            BY <1>0, <3>1 DEF Retire, Tables
        <3>3. QED  BY <3>2 DEF Bind, Unmark, Tables
    <2>2. QED  BY <1>3, <2>1 DEF SettleFile
<1>4. CASE Main
    <2>1. ~ReapStep
        BY DEF ReapStep, BeginReap, ReadCopies, TakeThread, CommitReap, EndReap, LookForRestores
    <2>2. EndScan => db'.retired = db.retired
        BY <1>0 DEF EndScan, ClearLive, Tables
    <2>3. QueueUnindexed => db'.retired = db.retired
        BY <1>0 DEF QueueUnindexed, Tables
    <2>4. ~MarkLostMessages
        BY DEF MarkLostMessages
    <2>5. BeginScan(TRUE) \/ BeginScan(FALSE) \/ RowsDone \/ WalkMaildir
          \/ (\E f \in Folders : ListFolder(f))
          \/ (\E unhashed \in SUBSET Paths : ReadEvidence(unhashed)) => db' = db
        BY DEF BeginScan, RowsDone, WalkMaildir, ListFolder, ReadEvidence
    <2>6. QED  BY <1>3, <1>4, <2>1, <2>2, <2>3, <2>4, <2>5, MainSplit DEF Main, ScanStep
<1>5. QED  BY <1>1, <1>2, <1>4 DEF Next

\* The scan's listings are an invariant of every interleaving.
THEOREM ListingHolds == Spec => [](Core /\ History /\ OneFile /\ Listing)
<1>1. Init => Core /\ History /\ OneFile /\ Listing
    <2>1. Init => History /\ Listing
        BY DEF Init, History, Past, Listing, Reaping, NoReap, NoPass
    <2>2. Init => OneFile
        <3> SUFFICES ASSUME Init, NEW p \in Paths, NEW q \in Paths,
                            SameSlot(p, q), disk[p] # None, disk[q] # None
                     PROVE  p = q
            BY DEF OneFile
        <3>1. p.tag = Delivered /\ q.tag = Delivered
            BY DEF Init
        <3>2. QED  BY <3>1 DEF Paths, SameSlot
    <2>3. QED  BY <2>1, <2>2, InitCore
<1>2. Core /\ History /\ OneFile /\ Listing /\ [Next]_vars
      => (Core /\ History /\ OneFile /\ Listing)'
    BY CoreStep, HistoryStep, OneFileStep, ListingStep
<1>3. QED  BY <1>1, <1>2, PTL DEF Spec

\* The scan retires an occurrence only if no file of its slot has its bytes, the
\* folders it could not read, or that changed since it listed them, included.
THEOREM PartialViewKept == Spec => PartialViewRetiresNothing
<1> DEFINE Kept ==
        scan.todo # scan'.todo =>
            \A o \in db'.retired \ db.retired : \A p \in Paths :
                SameSlot(p, o.at) /\ folder[Home(p)] # "away" => disk[p] # o.msg
<1>1. Core /\ History /\ OneFile /\ Listing /\ [Next]_vars => [Kept]_vars
    <2> SUFFICES ASSUME Core, OneFile, Listing, [Next]_vars  PROVE Kept
        OBVIOUS
    <2>1. CASE scan.todo = scan'.todo \/ db'.retired \subseteq db.retired
        BY <2>1
    <2>2. ASSUME NEW o \in scan.todo, o \in Occurrence, SettleRow(o)  PROVE Kept
        BY <2>2, ScanSpares
    <2>3. QED  BY <2>1, <2>2, OnlySettleRetires
<1>2. QED  BY <1>1, ListingHolds, PTL DEF Spec, PartialViewRetiresNothing
=============================================================================
