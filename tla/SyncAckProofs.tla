---------------------------- MODULE SyncAckProofs ----------------------------
(***************************************************************************)
(* Proofs about SyncAck, for every value of its constants: any mail, any   *)
(* number of attempts and any mix of the faults.                           *)
(***************************************************************************)
EXTENDS SyncAck, FiniteSetTheorems, SequenceTheorems, TLAPS

-----------------------------------------------------------------------------
(* The invariants, from the shell's numbers to the mail.                   *)

\* Between its start and its outcome an attempt is the last one begun, and it has
\* a generation only once its stamp is written.
ShellOrder ==
    /\ begun <= bounds.attempts
    /\ shell = "idle" => attempt = 0
    /\ shell \in Running \cup Settling => attempt = begun /\ begun > 0
    /\ shell \in Running \cup {"ready", "allocated"} => generation = NoGen
    /\ shell = "stamped" => stamp = [attempt |-> attempt, gen |-> generation]

\* The attempts with an outcome, those with a stamp, and those with a generation.
Ended == IF shell \in Running \cup Settling THEN begun - 1 ELSE begun
Done == IF shell \in Running \cup {"ready", "allocated"} THEN begun - 1 ELSE begun
Counted == IF shell \in Running \cup {"ready"} THEN begun - 1 ELSE begun

RecordsWithin(records, bound) ==
    \A r \in {records.terminal, records.success} : r.attempt <= bound /\ r.gen <= bound

\* No generation is ahead of the number of attempts that may have made one.
NumbersBounded ==
    /\ stamp.attempt <= Done /\ stamp.gen <= Done
    /\ counter <= Counted
    /\ RecordsWithin(status, Ended) /\ RecordsWithin(mem, Ended)

\* The two records of a file or of the shell's memory agree.
Coherent(records) ==
    LET t == records.terminal
        s == records.success
    IN  /\ WellFormed(records)
        /\ t.ok => s = t
        /\ s.attempt # 0 <=> s.ok
        /\ s.attempt = 0 => s.gen = NoGen
        /\ t.attempt = 0 => ~t.ok
        /\ s.attempt <= t.attempt

\* The shell's records are those of the file or later ones, and while it runs its
\* evidence is ahead of every success the file names.
RecordsAgree ==
    /\ Coherent(mem) /\ Coherent(status)
    /\ \/ mem.terminal = status.terminal
       \/ mem.terminal.attempt > status.terminal.attempt
    /\ shell # "down" =>
          status.success.gen <= stamp.gen \/ status.success.gen <= mem.success.gen

\* An allocated generation is ahead of all that is known.
Allocated ==
    shell = "allocated" =>
        \A g \in {stamp.gen, mem.terminal.gen, mem.success.gen, status.success.gen} :
            counter > g

\* The stamps the indexer holds, in its memory, its tables and its queue.
QueuedStamps == {events[i].of : i \in {j \in DOMAIN events : events[j].kind = "stamp"}}
Held == {walkStamp, held, acked, row.acked, walked} \cup QueuedStamps
Stamps == Held \cup {stamp, NoStamp}
Named == {[attempt |-> r.attempt, gen |-> r.gen] : r \in Successes}
Past == Stamps \cup Named

Ordered(S) == \A s, t \in S : s.gen < t.gen <=> s.attempt < t.attempt

\* No stamp is later than the one on disk.
StampIsLatest == \A s \in Held : s.gen <= stamp.gen /\ s.attempt <= stamp.attempt

\* A sync of a generation above a record's is later than the record's attempt: what
\* a floor is for.
FloorsHold ==
    \A r \in {mem.terminal, status.terminal}, s \in Past :
        r.attempt # 0 /\ r.gen # NoGen /\ s.gen > r.gen => s.attempt > r.attempt

ShellInv ==
    /\ ShellOrder /\ NumbersBounded /\ RecordsAgree /\ Allocated
    /\ StampIsLatest /\ Ordered(Past) /\ FloorsHold

\* What the recorder holds of a failure, in memory or in its row, is no later than
\* the last outcome published and not that of a success.
FailureOf(k) ==
    /\ k <= status.terminal.attempt
    /\ k # 0 /\ k = status.terminal.attempt => ~status.terminal.ok

\* A failure in the row is also in memory, or a later one is, or a later sync is
\* acknowledged.
FailuresTracked ==
    /\ FailureOf(unrecovered) /\ FailureOf(row.unrecovered)
    /\ Up => row.unrecovered <= unrecovered \/ row.unrecovered < acked.attempt

RowIsHonest ==
    row.acked # NoStamp /\ row.unrecovered = 0 /\ ~row.undelivered
        => row.terminal <= row.acked.attempt

-----------------------------------------------------------------------------
(* The mail.                                                               *)

Missing(m) == delivered[m] # 0 /\ m \notin queued \cup indexed

\* A folder the indexer knows is open and watched, and so is one with mail of a
\* sync that stamped.
FoldersKnown ==
    /\ \A m \in Messages : delivered[m] # 0 => FolderOf[m] \in made
    /\ \A m \in Messages : delivered[m] \in 1..stamp.attempt => FolderOf[m] \in open
    /\ shell = "allocated" \/ (shell \in {"repaired", "ready"} /\ succeeded) => open = made
    /\ known \subseteq open
    /\ watching => known \subseteq watched
    /\ pc = "down" => ~watching
    /\ \A m \in Messages : delivered[m] <= begun

\* The walk under way is one that clears rewatched.
Clears == pc = "walking" /\ why \in {"signal", "periodic", "overflow"}

\* A walk is owed whatever the signals, and will find the message.
WillFind(m) ==
    \/ ~watching
    \/ rewatched /\ (Clears => m \in found)
    \/ why = "startup" /\ (pc = "walk" \/ (pc = "walking" /\ m \in found))

\* The next refresh re-schedules, once the folder is open.
Unwatched(m) == FolderOf[m] \notin known \/ created
Owes(m) == WillFind(m) \/ (Unwatched(m) /\ (completed \/ pc = "refresh"))

\* An overflow is seen, and no recovery walk that will cover it leaves m out.
Recovering(m) ==
    /\ RecoveryPending
    /\ pc = "walking" /\ why = "recovery" /\ walkFrom = overflows => m \in found

Excused(m) == Recovering(m) \/ WillFind(m) \/ Unwatched(m)

\* The event of a message among the first n queued, or a record of its loss.
Ahead(m, n) == \E j \in 1..n : j <= Len(events) /\ events[j] \in {FileEvent(m), Overflow}

MissingIsHeard == \A m \in Messages : Missing(m) => Ahead(m, Len(events)) \/ Excused(m)

StampsFollowMail ==
    \A m \in Messages, i \in 1..Len(events) :
        Missing(m) /\ events[i].kind = "stamp" /\ delivered[m] <= events[i].of.attempt
            => Ahead(m, i - 1) \/ Excused(m)

HeldIsFound ==
    \A m \in Messages :
        /\ Missing(m) /\ delivered[m] <= held.attempt
        /\ pc = "walking" /\ why = "recovery" /\ walkFrom = overflows
        => m \in found \/ Owes(m)

AckedIsOwed ==
    \A m \in Messages :
        /\ Missing(m)
        /\ delivered[m] <= acked.attempt \/ delivered[m] <= row.acked.attempt
        => Owes(m)

WalkFinds ==
    pc = "walking" =>
        \A m \in Messages : Missing(m) /\ delivered[m] <= walkStamp.attempt => m \in found

WalkedFound == \A m \in Messages : Missing(m) => delivered[m] > walked.attempt

MailInv ==
    /\ FoldersKnown /\ MissingIsHeard /\ StampsFollowMail
    /\ HeldIsFound /\ AckedIsOwed /\ WalkFinds /\ WalkedFound

\* The overflows seen, those queued and the faults left are within the bound.
OverflowsAt(queue) == {i \in DOMAIN queue : queue[i] = Overflow}
FaultsCounted == overflows + Cardinality(OverflowsAt(events)) + bounds.faults <= MaxFaults

-----------------------------------------------------------------------------
(* The operators.                                                          *)

\* Max of FiniteSetsExt on the four numbers of CurrentGeneration.
LEMMA MaxOfFour ==
    ASSUME NEW a \in Int, NEW b \in Int, NEW c \in Int, NEW d \in Int
    PROVE  LET m == Max({a, b, c, d})
           IN  m \in {a, b, c, d} /\ m >= a /\ m >= b /\ m >= c /\ m >= d
<1>1. \E x \in {a, b, c, d} : \A y \in {a, b, c, d} : x >= y
    <2>1. PICK x \in {a, b} : x >= a /\ x >= b
        <3>1. CASE a >= b  BY <3>1
        <3>2. CASE b >= a  BY <3>2
        <3>3. QED  BY <3>1, <3>2
    <2>2. PICK y \in {c, d} : y >= c /\ y >= d
        <3>1. CASE c >= d  BY <3>1
        <3>2. CASE d >= c  BY <3>2
        <3>3. QED  BY <3>1, <3>2
    <2>3. CASE x >= y  BY <2>1, <2>2, <2>3
    <2>4. CASE y >= x  BY <2>1, <2>2, <2>4
    <2>5. QED  BY <2>1, <2>2, <2>3, <2>4
<1>2. QED  BY <1>1 DEF Max

\* current_success_generation is one of the numbers it looks at, and none is larger.
LEMMA CurrentIsTop ==
    ASSUME TypeOK
    PROVE  /\ CurrentGeneration \in Generations
           /\ CurrentGeneration \in {counter, stamp.gen, mem.terminal.gen, mem.success.gen}
           /\ CurrentGeneration >= counter /\ CurrentGeneration >= stamp.gen
           /\ CurrentGeneration >= mem.terminal.gen /\ CurrentGeneration >= mem.success.gen
<1>1. /\ counter \in Generations /\ stamp.gen \in Generations
      /\ mem.terminal.gen \in Generations \cup {NoGen}
      /\ mem.success.gen \in Generations \cup {NoGen}
    BY DEF TypeOK, MaildirType, MbsyncType, Stamp, Records, Record
<1>2. /\ counter \in Int /\ stamp.gen \in Int
      /\ mem.terminal.gen \in Int /\ mem.success.gen \in Int
    BY <1>1, MaildirAssumption DEF Generations, NoGen
<1>3. /\ CurrentGeneration \in {counter, stamp.gen, mem.terminal.gen, mem.success.gen}
      /\ CurrentGeneration >= counter /\ CurrentGeneration >= stamp.gen
      /\ CurrentGeneration >= mem.terminal.gen /\ CurrentGeneration >= mem.success.gen
    <2>1. CurrentGeneration = Max({counter, stamp.gen, mem.terminal.gen, mem.success.gen})
        BY DEF CurrentGeneration
    <2>2. QED  BY <1>2, <2>1, MaxOfFour
<1>4. CurrentGeneration \in Generations
    BY <1>1, <1>2, <1>3, MaildirAssumption DEF Generations, NoGen
<1>5. QED  BY <1>3, <1>4

\* What the kind of an event says of the rest of it.
LEMMA EventKinds ==
    ASSUME NEW e \in Event
    PROVE  /\ e.kind = "file" => e.of \in Messages /\ e = FileEvent(e.of)
           /\ e.kind = "dir" => e.of \in Folders
           /\ e.kind = "stamp" => e.of \in Stamp /\ e = StampEvent(e.of)
           /\ e.kind = "overflow" <=> e = Overflow
           /\ e.kind = "marker" <=> e = MarkerEvent
    BY DEF Event, FileEvent, DirEvent, StampEvent, MarkerEvent, Overflow

\* A scenario with some of its faults left.
OfScenario(b) ==
    \E s \in Scenarios : \E left \in 0..s.faults : b = [s EXCEPT !.faults = left]
BoundsType == OfScenario(bounds)

LEMMA BoundsShape ==
    ASSUME NEW b, OfScenario(b)
    PROVE  /\ b.mail \subseteq Messages
           /\ b.attempts \in 0..MaxAttempts
           /\ b.faults \in 0..MaxFaults /\ b.faults \in Nat
    BY MaildirAssumption DEF OfScenario

\* A fault is counted down, and changes nothing else of the scenario.
LEMMA TroubleCounts ==
    ASSUME BoundsType, NEW what, Trouble(what)
    PROVE  /\ BoundsType'
           /\ bounds'.attempts = bounds.attempts
           /\ bounds'.faults = bounds.faults - 1 /\ bounds.faults > 0
<1>1. PICK s \in Scenarios : \E left \in 0..s.faults : bounds = [s EXCEPT !.faults = left]
    BY DEF BoundsType, OfScenario
<1>2. PICK left \in 0..s.faults : bounds = [s EXCEPT !.faults = left]
    BY <1>1
<1>3. s \in [mail : SUBSET Messages, attempts : 0..MaxAttempts,
             kinds : SUBSET FaultKinds, faults : 0..MaxFaults]
    BY MaildirAssumption
<1>4. bounds' = [bounds EXCEPT !.faults = @ - 1] /\ bounds.faults > 0
    BY DEF Trouble
<1>5. /\ bounds.faults = left /\ bounds.attempts = s.attempts
      /\ bounds' = [s EXCEPT !.faults = left - 1]
    BY <1>2, <1>3, <1>4
<1>6. left - 1 \in 0..s.faults
    BY <1>3, <1>4, <1>5, MaildirAssumption
<1>7. QED  BY <1>3, <1>4, <1>5, <1>6 DEF BoundsType, OfScenario

-----------------------------------------------------------------------------
(* The queue of events.                                                    *)

LEMMA OverflowsFinite ==
    ASSUME NEW q \in Seq(Event)
    PROVE  IsFiniteSet(OverflowsAt(q)) /\ Cardinality(OverflowsAt(q)) \in Nat
<1>1. OverflowsAt(q) \subseteq 1..Len(q) /\ Len(q) \in Nat
    BY DEF OverflowsAt
<1>2. IsFiniteSet(OverflowsAt(q))
    <2>1. IsFiniteSet(1..Len(q))
        BY <1>1, FS_Interval
    <2>2. QED  BY <1>1, <2>1, FS_Subset
<1>3. QED  BY <1>2, FS_CardinalityType

\* A queue whose events are those of another at distinct places, none of them in
\* gone, has no more overflow records than the other has outside gone.
LEMMA FewerOverflows ==
    ASSUME NEW p \in Seq(Event), NEW q \in Seq(Event), NEW gone,
           NEW f \in [1..Len(p) -> 1..Len(q)],
           \A i \in 1..Len(p) : p[i] = q[f[i]] /\ f[i] \notin gone,
           \A i, j \in 1..Len(p) : f[i] = f[j] => i = j
    PROVE  Cardinality(OverflowsAt(p)) <= Cardinality(OverflowsAt(q) \ gone)
<1> DEFINE P == OverflowsAt(p)
           Q == OverflowsAt(q) \ gone
           g == [i \in P |-> f[i]]
<1>1. P \subseteq 1..Len(p) /\ \A i \in P : p[i] = Overflow
    BY DEF OverflowsAt
<1>2. \A i \in P : f[i] \in Q
    BY <1>1 DEF OverflowsAt
<1>3. g \in Injection(P, Q)
    BY <1>1, <1>2 DEF Injection, IsInjective
<1>4. IsFiniteSet(Q)
    BY OverflowsFinite, FS_Subset
<1>5. QED  BY <1>3, <1>4, FS_Injection

LEMMA AppendOverflows ==
    ASSUME NEW q \in Seq(Event), NEW e \in Event
    PROVE  Cardinality(OverflowsAt(Append(q, e)))
             <= Cardinality(OverflowsAt(q)) + (IF e = Overflow THEN 1 ELSE 0)
<1> DEFINE a == Append(q, e)
<1>1. /\ a \in Seq(Event) /\ Len(a) = Len(q) + 1 /\ a[Len(q) + 1] = e
      /\ \A i \in 1..Len(q) : a[i] = q[i]
    BY AppendProperties
<1>2. OverflowsAt(a) \subseteq
          IF e = Overflow THEN OverflowsAt(q) \cup {Len(q) + 1} ELSE OverflowsAt(q)
    <2>1. DOMAIN a = 1..(Len(q) + 1) /\ DOMAIN q = 1..Len(q) /\ Len(q) \in Nat
        BY <1>1
    <2>2. QED  BY <1>1, <2>1 DEF OverflowsAt
<1>3. IsFiniteSet(OverflowsAt(q)) /\ Cardinality(OverflowsAt(q)) \in Nat
    BY OverflowsFinite
<1>4. CASE e = Overflow
    <2>1. /\ IsFiniteSet(OverflowsAt(q) \cup {Len(q) + 1})
          /\ Cardinality(OverflowsAt(q) \cup {Len(q) + 1}) <= Cardinality(OverflowsAt(q)) + 1
        <3>1. Len(q) + 1 \notin OverflowsAt(q)
            BY DEF OverflowsAt
        <3> DEFINE Q == OverflowsAt(q)
                   n == Len(q) + 1
        <3>2. IsFiniteSet(Q) /\ n \notin Q /\ Cardinality(Q) \in Nat
            BY <1>3, <3>1
        <3> HIDE DEF Q, n
        <3>3. IsFiniteSet(Q \cup {n}) /\ Cardinality(Q \cup {n}) = Cardinality(Q) + 1
            BY <3>2, FS_AddElement
        <3>4. IsFiniteSet(Q \cup {n}) /\ Cardinality(Q \cup {n}) <= Cardinality(Q) + 1
            BY <3>2, <3>3
        <3>5. QED  BY <3>4 DEF Q, n
    <2>2. Cardinality(OverflowsAt(a)) <= Cardinality(OverflowsAt(q) \cup {Len(q) + 1})
        BY <1>2, <1>4, <2>1, FS_Subset
    <2>3. Cardinality(OverflowsAt(a)) \in Nat /\ Cardinality(OverflowsAt(q) \cup {Len(q) + 1}) \in Nat
        BY <1>1, <2>1, OverflowsFinite, FS_CardinalityType
    <2>4. QED  BY <1>3, <1>4, <2>1, <2>2, <2>3
<1>5. CASE e # Overflow
    <2>1. Cardinality(OverflowsAt(a)) <= Cardinality(OverflowsAt(q))
        BY <1>2, <1>3, <1>5, FS_Subset
    <2>2. QED  BY <1>3, <1>5, <2>1
<1>6. QED  BY <1>4, <1>5

LEMMA PrefixQueue ==
    ASSUME NEW q \in Seq(Event), NEW n \in 0..Len(q)
    PROVE  LET p == SubSeq(q, 1, n)
           IN  /\ p \in Seq(Event) /\ Len(p) = n
               /\ \A i \in 1..n : p[i] = q[i]
               /\ Cardinality(OverflowsAt(p)) <= Cardinality(OverflowsAt(q))
<1> DEFINE p == SubSeq(q, 1, n)
           f == [i \in 1..Len(p) |-> i]
<1>1. p \in Seq(Event) /\ Len(p) = n /\ \A i \in 1..n : p[i] = q[i]
    BY SubSeqProperties
<1>2. /\ f \in [1..Len(p) -> 1..Len(q)]
      /\ \A i \in 1..Len(p) : p[i] = q[f[i]] /\ f[i] \notin {}
      /\ \A i, j \in 1..Len(p) : f[i] = f[j] => i = j
    BY <1>1
<1>3. Cardinality(OverflowsAt(p)) <= Cardinality(OverflowsAt(q) \ {})
    <2> HIDE DEF p, f
    <2>1. QED  BY <1>1, <1>2, FewerOverflows
<1>4. OverflowsAt(q) \ {} = OverflowsAt(q)
    OBVIOUS
<1>5. QED  BY <1>1, <1>3, <1>4

LEMMA TailQueue ==
    ASSUME NEW q \in Seq(Event), q # <<>>
    PROVE  LET p == Tail(q)
           IN  /\ p \in Seq(Event) /\ Len(p) = Len(q) - 1
               /\ Head(q) = q[1] /\ Len(q) >= 1 /\ Head(q) \in Event
               /\ \A i \in 1..(Len(q) - 1) : p[i] = q[i + 1]
               /\ Cardinality(OverflowsAt(p)) <= Cardinality(OverflowsAt(q))
<1> DEFINE p == Tail(q)
           f == [i \in 1..Len(p) |-> i + 1]
<1>1. /\ p \in Seq(Event) /\ Len(p) = Len(q) - 1 /\ Len(q) >= 1
      /\ Head(q) = q[1] /\ Head(q) \in Event
      /\ \A i \in 1..(Len(q) - 1) : p[i] = q[i + 1]
    BY HeadTailProperties, EmptySeq, ElementOfSeq
<1>2. /\ f \in [1..Len(p) -> 1..Len(q)]
      /\ \A i \in 1..Len(p) : p[i] = q[f[i]] /\ f[i] \notin {}
      /\ \A i, j \in 1..Len(p) : f[i] = f[j] => i = j
    BY <1>1
<1>3. Cardinality(OverflowsAt(p)) <= Cardinality(OverflowsAt(q) \ {})
    <2> HIDE DEF p, f
    <2>1. QED  BY <1>1, <1>2, FewerOverflows
<1>4. OverflowsAt(q) \ {} = OverflowsAt(q)
    OBVIOUS
<1>5. QED  BY <1>1, <1>3, <1>4

LEMMA RemovedQueue ==
    ASSUME NEW q \in Seq(Event), NEW k \in 1..Len(q), q[k] = Overflow
    PROVE  LET p == SubSeq(q, 1, k - 1) \o SubSeq(q, k + 1, Len(q))
           IN  /\ p \in Seq(Event)
               /\ \A i \in 1..Len(p) : \E j \in 1..Len(q) : p[i] = q[j]
               /\ Cardinality(OverflowsAt(p)) + 1 <= Cardinality(OverflowsAt(q))
<1> DEFINE a == SubSeq(q, 1, k - 1)
           b == SubSeq(q, k + 1, Len(q))
           p == a \o b
           f == [i \in 1..Len(p) |-> IF i < k THEN i ELSE i + 1]
<1>1. /\ a \in Seq(Event) /\ Len(a) = k - 1 /\ \A i \in 1..(k - 1) : a[i] = q[i]
      /\ b \in Seq(Event) /\ Len(b) = Len(q) - k
      /\ \A i \in 1..(Len(q) - k) : b[i] = q[i + k]
    BY SubSeqProperties
<1>2. /\ p \in Seq(Event) /\ Len(p) = Len(q) - 1
      /\ \A i \in 1..Len(p) : p[i] = IF i < k THEN q[i] ELSE q[i + 1]
    <2> HIDE DEF a, b
    <2>0. /\ p \in Seq(Event) /\ Len(p) = Len(a) + Len(b)
          /\ \A i \in 1..(Len(a) + Len(b)) :
                p[i] = IF i <= Len(a) THEN a[i] ELSE b[i - Len(a)]
        BY <1>1, ConcatProperties
    <2> HIDE DEF p
    <2>1. /\ p \in Seq(Event) /\ Len(p) = (k - 1) + (Len(q) - k)
          /\ \A i \in 1..Len(p) : p[i] = IF i <= k - 1 THEN a[i] ELSE b[i - (k - 1)]
        BY <1>1, <2>0
    <2>2. \A i \in 1..Len(p) : p[i] = IF i < k THEN q[i] ELSE q[i + 1]
        <3>1. ASSUME NEW i \in 1..Len(p), i < k  PROVE p[i] = q[i]
            <4>1. i \in 1..(k - 1) /\ i <= k - 1
                BY <2>1, <3>1
            <4>2. QED  BY <1>1, <2>1, <4>1
        <3>2. ASSUME NEW i \in 1..Len(p), ~(i < k)  PROVE p[i] = q[i + 1]
            <4>1. i - (k - 1) \in 1..(Len(q) - k) /\ (i - (k - 1)) + k = i + 1
                BY <2>1, <3>2
            <4>2. p[i] = b[i - (k - 1)]
                BY <2>1, <3>2
            <4>3. QED  BY <1>1, <4>1, <4>2
        <3>3. QED  BY <3>1, <3>2
    <2>3. QED  BY <2>1, <2>2
<1> HIDE DEF p
<1>3. /\ f \in [1..Len(p) -> 1..Len(q)]
      /\ \A i \in 1..Len(p) : p[i] = q[f[i]] /\ f[i] \notin {k}
      /\ \A i, j \in 1..Len(p) : f[i] = f[j] => i = j
    <2>1. \A i \in 1..Len(p) : f[i] = IF i < k THEN i ELSE i + 1
        OBVIOUS
    <2>2. f \in [1..Len(p) -> 1..Len(q)]
        BY <1>2
    <2> HIDE DEF f
    <2>3. QED  BY <1>2, <2>1, <2>2
<1>4. Cardinality(OverflowsAt(p)) <= Cardinality(OverflowsAt(q) \ {k})
    <2> HIDE DEF f
    <2>1. QED  BY <1>2, <1>3, FewerOverflows
<1>5. Cardinality(OverflowsAt(q) \ {k}) = Cardinality(OverflowsAt(q)) - 1
    <2>1. k \in OverflowsAt(q)
        BY DEF OverflowsAt
    <2>2. QED  BY <2>1, OverflowsFinite, FS_RemoveElement
<1>6. Cardinality(OverflowsAt(p)) \in Nat /\ Cardinality(OverflowsAt(q)) \in Nat
    BY <1>2, OverflowsFinite
<1>7. \A i \in 1..Len(p) : \E j \in 1..Len(q) : p[i] = q[j]
    <2> HIDE DEF f
    <2>1. QED  BY <1>3
<1>8. Cardinality(OverflowsAt(p)) + 1 <= Cardinality(OverflowsAt(q))
    BY <1>4, <1>5, <1>6
<1>9. QED  BY <1>2, <1>7, <1>8 DEF p

\* The queue after the kernel announced an event: what was in it, and perhaps the
\* event or the record of its loss.
LEMMA AnnouncedQueue ==
    ASSUME TypeOK, NEW e \in Event, e # Overflow, NEW heard, Announce(e, heard)
    PROVE  /\ events' \in Seq(Event) /\ BoundsType' /\ bounds'.attempts = bounds.attempts
           /\ Len(events') \in {Len(events), Len(events) + 1}
           /\ \A i \in 1..Len(events) : events'[i] = events[i]
           /\ \A i \in 1..Len(events') : i > Len(events) => events'[i] \in {e, Overflow}
           /\ heard => \E i \in 1..Len(events') : events'[i] \in {e, Overflow}
           /\ Cardinality(OverflowsAt(events')) + bounds'.faults
                <= Cardinality(OverflowsAt(events)) + bounds.faults
<1>1. events \in Seq(Event) /\ BoundsType /\ Overflow \in Event /\ Len(events) \in Nat
    BY DEF TypeOK, MaildirType, BoundsType, OfScenario, Event
<1>2. bounds.faults \in Nat /\ Cardinality(OverflowsAt(events)) \in Nat
    BY <1>1, BoundsShape, OverflowsFinite DEF BoundsType
<1>3. CASE heard /\ events' = Append(events, e) /\ UNCHANGED bounds
    <2>1. /\ events' \in Seq(Event) /\ Len(events') = Len(events) + 1
          /\ events'[Len(events) + 1] = e
          /\ \A i \in 1..Len(events) : events'[i] = events[i]
        BY <1>1, <1>3, AppendProperties
    <2>2. Cardinality(OverflowsAt(events')) <= Cardinality(OverflowsAt(events))
        BY <1>1, <1>2, <1>3, AppendOverflows
    <2>3. Cardinality(OverflowsAt(events')) \in Nat
        BY <2>1, OverflowsFinite
    <2>4. BoundsType'
        BY <1>1, <1>3 DEF BoundsType
    <2>5. QED  BY <1>1, <1>2, <1>3, <2>1, <2>2, <2>3, <2>4
<1>4. CASE heard /\ events' = Append(events, Overflow) /\ Trouble("overflow")
    <2>1. /\ events' \in Seq(Event) /\ Len(events') = Len(events) + 1
          /\ events'[Len(events) + 1] = Overflow
          /\ \A i \in 1..Len(events) : events'[i] = events[i]
        BY <1>1, <1>4, AppendProperties
    <2>2. Cardinality(OverflowsAt(events')) <= Cardinality(OverflowsAt(events)) + 1
        BY <1>1, <1>4, AppendOverflows
    <2>3. Cardinality(OverflowsAt(events')) \in Nat
        BY <2>1, OverflowsFinite
    <2>4. BoundsType' /\ bounds'.attempts = bounds.attempts /\ bounds'.faults = bounds.faults - 1
        BY <1>1, <1>4, TroubleCounts
    <2>5. QED  BY <1>1, <1>2, <1>4, <2>1, <2>2, <2>3, <2>4
<1>5. CASE /\ heard /\ events # <<>> /\ events[Len(events)] = Overflow
           /\ UNCHANGED <<events, bounds>>
    <2>1. Len(events) \in 1..Len(events)
        BY <1>1, <1>5, EmptySeq
    <2>2. BoundsType'
        BY <1>1, <1>5 DEF BoundsType
    <2>3. QED  BY <1>1, <1>2, <1>5, <2>1, <2>2
<1>6. CASE ~heard /\ UNCHANGED <<events, bounds>>
    <2>1. BoundsType'
        BY <1>1, <1>6 DEF BoundsType
    <2>2. QED  BY <1>1, <1>2, <1>6, <2>1
<1>7. QED  BY <1>3, <1>4, <1>5, <1>6 DEF Announce

\* The events an announcement may carry.
LEMMA AnnouncedEvents ==
    /\ \A m \in Messages : FileEvent(m) \in Event /\ FileEvent(m) # Overflow
    /\ \A f \in Folders : DirEvent(f) \in Event /\ DirEvent(f) # Overflow
    /\ \A s \in Stamp : StampEvent(s) \in Event /\ StampEvent(s) # Overflow
    /\ MarkerEvent \in Event /\ MarkerEvent # Overflow
    BY DEF Event, FileEvent, DirEvent, StampEvent, MarkerEvent, Overflow

-----------------------------------------------------------------------------
(* The shell's steps.                                                      *)

\* What finish_collection_attempt leaves in the shell's memory.
Outcome(ok, gen) ==
    LET record == [attempt |-> attempt, ok |-> ok, gen |-> gen]
    IN  [terminal |-> record, success |-> IF ok THEN record ELSE mem.success]

\* The scenario is the same, with no more faults left than before.
BoundsKept ==
    BoundsType' /\ bounds'.attempts = bounds.attempts /\ bounds'.faults <= bounds.faults

LEMMA TroubleKeeps ==
    ASSUME BoundsType, NEW what, UNCHANGED bounds \/ Trouble(what)
    PROVE  BoundsKept
<1>1. bounds.faults \in Nat
    BY BoundsShape DEF BoundsType
<1>2. CASE UNCHANGED bounds
    BY <1>1, <1>2 DEF BoundsKept, BoundsType
<1>3. CASE Trouble(what)
    BY <1>1, <1>3, TroubleCounts DEF BoundsKept
<1>4. QED  BY <1>2, <1>3

LEMMA PublishKeeps ==
    ASSUME TypeOK, NEW records, Publish(records)
    PROVE  status' \in {status, records} /\ BoundsKept
    BY TroubleKeeps DEF Publish, TypeOK, MaildirType, BoundsType, OfScenario

LEMMA FinishLeaves ==
    ASSUME TypeOK, NEW ok \in BOOLEAN, NEW gen \in Generations \cup {NoGen}, Finish(ok, gen)
    PROVE  /\ mem' = Outcome(ok, gen) /\ mem' \in Records
           /\ status' \in {status, mem'} /\ attempt' = 0 /\ BoundsKept
<1>1. /\ mem' = Outcome(ok, gen) /\ attempt' = 0 /\ Publish(mem')
    BY DEF Finish, Outcome
<1>2. Outcome(ok, gen) \in Records
    BY DEF Outcome, Records, Record, TypeOK, MbsyncType
<1>3. status' \in {status, mem'} /\ BoundsKept
    BY <1>1, PublishKeeps
<1>4. QED  BY <1>1, <1>2, <1>3

\* A step that gives an attempt its outcome: a failure under its floor or none, a
\* success whose generation was not kept, or one with its generation.
Ends(ok, gen) ==
    /\ mem' = Outcome(ok, gen) /\ status' \in {status, mem'} /\ attempt' = 0
    /\ shell \in Running \cup Settling /\ shell' \in {"idle", "down"}
    /\ \/ ok = FALSE /\ gen \in {CurrentGeneration, NoGen} /\ shell \in Running \cup {"ready"}
       \/ ok = TRUE /\ gen = NoGen /\ shell' = "down"
       \/ ok = TRUE /\ gen = counter /\ shell = "allocated" /\ shell' = "down"
       \/ ok = TRUE /\ gen = generation /\ shell = "stamped"
    /\ generation' \in {generation, counter}
    /\ UNCHANGED <<begun, succeeded, counter, delivered, made, open, stamp, kernel>>

LEMMA OutcomesEnd ==
    ASSUME TypeOK, ShellOrder,
           \/ RecordFailure \/ AllocationFails \/ StampFails \/ RecordSuccess
           \/ StopShell /\ shell # "idle"
    PROVE  /\ \E ok \in BOOLEAN, gen \in Generations \cup {NoGen} : Ends(ok, gen)
           /\ mem' \in Records /\ status' \in Records /\ BoundsKept
<1>1. /\ counter \in Generations /\ generation \in Generations \cup {NoGen}
      /\ CurrentGeneration \in Generations /\ status \in Records
      /\ Floors \subseteq {CurrentGeneration, NoGen}
    BY CurrentIsTop DEF TypeOK, MbsyncType, MaildirType, Floors
<1>2. ASSUME NEW ok \in BOOLEAN, NEW gen \in Generations \cup {NoGen},
             Finish(ok, gen), Finish(ok, gen) => Ends(ok, gen)
      PROVE  /\ \E o \in BOOLEAN, g \in Generations \cup {NoGen} : Ends(o, g)
             /\ mem' \in Records /\ status' \in Records /\ BoundsKept
    <2>1. mem' \in Records /\ status' \in {status, mem'} /\ BoundsKept
        BY <1>2, FinishLeaves
    <2>2. QED  BY <1>1, <1>2, <2>1
<1>3. ASSUME NEW ok \in BOOLEAN, NEW gen \in Generations \cup {NoGen}, Finish(ok, gen)
      PROVE  mem' = Outcome(ok, gen) /\ status' \in {status, mem'} /\ attempt' = 0
    BY <1>3, FinishLeaves
<1>4. CASE RecordFailure
    <2>1. PICK floor \in Floors : Finish(FALSE, floor)
        BY <1>4 DEF RecordFailure, Fail
    <2>2. floor \in {CurrentGeneration, NoGen} /\ floor \in Generations \cup {NoGen}
        BY <1>1, <2>1
    <2>3. Ends(FALSE, floor)
        BY <1>3, <1>4, <2>1, <2>2 DEF RecordFailure, Ends, Running, Settling
    <2>4. QED  BY <1>2, <2>1, <2>2, <2>3
<1>5. CASE AllocationFails
    <2>1. Finish(TRUE, NoGen)
        BY <1>5 DEF AllocationFails
    <2>2. Ends(TRUE, NoGen)
        BY <1>3, <1>5, <2>1 DEF AllocationFails, Ends, Running, Settling
    <2>3. QED  BY <1>2, <2>1, <2>2
<1>6. CASE StampFails
    <2>1. Finish(TRUE, counter)
        BY <1>6 DEF StampFails
    <2>2. Ends(TRUE, counter)
        BY <1>1, <1>3, <1>6, <2>1 DEF StampFails, Ends, Running, Settling
    <2>3. QED  BY <1>1, <1>2, <2>1, <2>2
<1>7. CASE RecordSuccess
    <2>1. Finish(TRUE, generation)
        BY <1>7 DEF RecordSuccess
    <2>2. Ends(TRUE, generation)
        BY <1>1, <1>3, <1>7, <2>1 DEF RecordSuccess, Ends, Running, Settling
    <2>3. QED  BY <1>1, <1>2, <2>1, <2>2
<1>8. CASE StopShell /\ shell # "idle"
    <2>1. /\ shell' = "down"
          /\ UNCHANGED <<begun, succeeded, generation, counter>>
          /\ UNCHANGED <<delivered, made, open, stamp, kernel>>
        BY <1>8 DEF StopShell
    <2>2. CASE (shell \in Running \/ (shell = "ready" /\ ~succeeded)) /\ Fail
        <3>1. PICK floor \in Floors : Finish(FALSE, floor)
            BY <2>2 DEF Fail
        <3>2. floor \in {CurrentGeneration, NoGen} /\ floor \in Generations \cup {NoGen}
            BY <1>1, <3>1
        <3>3. Ends(FALSE, floor)
            BY <1>3, <2>1, <2>2, <3>1, <3>2 DEF Ends, Running, Settling
        <3>4. QED  BY <1>2, <3>1, <3>2, <3>3
    <2>3. CASE shell \in Settling /\ succeeded /\ shell = "allocated"
               /\ \E gen \in {generation, counter} : Finish(TRUE, gen)
        <3>1. PICK gen \in {generation, counter} : Finish(TRUE, gen)
            BY <2>3
        <3>2. gen \in Generations \cup {NoGen} /\ gen \in {NoGen, counter}
            BY <1>1, <2>3, <3>1 DEF ShellOrder
        <3>3. Ends(TRUE, gen)
            BY <1>3, <2>1, <2>3, <3>1, <3>2 DEF Ends
        <3>4. QED  BY <1>2, <3>1, <3>2, <3>3
    <2>4. CASE shell \in Settling /\ shell # "allocated" /\ Finish(TRUE, generation)
        <3>1. Ends(TRUE, generation)
            BY <1>1, <1>3, <2>1, <2>4 DEF Ends, Settling, ShellOrder
        <3>2. QED  BY <1>1, <1>2, <2>4, <3>1
    <2>5. QED  BY <1>8, <2>2, <2>3, <2>4 DEF StopShell, Stopped
<1>9. QED  BY <1>4, <1>5, <1>6, <1>7, <1>8

\* Every step of the shell keeps the types and the count of the faults.
LEMMA SyncTypes ==
    ASSUME TypeOK, ShellOrder, NumbersBounded, FaultsCounted, Sync, UNCHANGED indexer
    PROVE  TypeOK' /\ FaultsCounted' /\ bounds'.attempts = bounds.attempts
<1>1. RecorderType'
    BY DEF TypeOK, RecorderType, indexer, main, refresher, recorder, tables, mail
<1>2. /\ events \in Seq(Event) /\ BoundsType /\ bounds.faults \in Nat
      /\ bounds.attempts \in 0..MaxAttempts /\ bounds.mail \subseteq Messages
      /\ Cardinality(OverflowsAt(events)) \in Nat /\ overflows \in Nat
      /\ MaxAttempts \in Nat /\ MaxFaults \in Nat
    <2>1. events \in Seq(Event) /\ BoundsType /\ overflows \in Nat
        BY MaildirAssumption DEF TypeOK, MaildirType, BoundsType, OfScenario, RecorderType
    <2>2. QED
        BY <2>1, BoundsShape, OverflowsFinite, MaildirAssumption DEF BoundsType
<1>3. /\ overflows' = overflows
      /\ overflows + Cardinality(OverflowsAt(events)) + bounds.faults <= MaxFaults
    BY DEF FaultsCounted, indexer, recorder
<1>4. ASSUME BoundsKept, UNCHANGED events
      PROVE  /\ BoundsType' /\ events' \in Seq(Event) /\ FaultsCounted'
             /\ bounds'.attempts = bounds.attempts
    <2>1. bounds'.faults \in Nat
        BY <1>4, BoundsShape DEF BoundsKept, BoundsType
    <2>2. FaultsCounted'
        BY <1>2, <1>3, <1>4, <2>1 DEF FaultsCounted, BoundsKept
    <2>3. QED  BY <1>2, <1>4, <2>2 DEF BoundsKept
<1>5. ASSUME NEW e \in Event, e # Overflow, NEW heard, Announce(e, heard)
      PROVE  /\ BoundsType' /\ events' \in Seq(Event) /\ FaultsCounted'
             /\ bounds'.attempts = bounds.attempts
    <2>1. /\ events' \in Seq(Event) /\ BoundsType' /\ bounds'.attempts = bounds.attempts
          /\ Cardinality(OverflowsAt(events')) + bounds'.faults
                <= Cardinality(OverflowsAt(events)) + bounds.faults
        BY <1>5, AnnouncedQueue
    <2>2. bounds'.faults \in Nat /\ Cardinality(OverflowsAt(events')) \in Nat
        BY <2>1, BoundsShape, OverflowsFinite DEF BoundsType
    <2>3. FaultsCounted'
        BY <1>2, <1>3, <2>1, <2>2 DEF FaultsCounted
    <2>4. QED  BY <2>1, <2>3
<1>6. CASE BeginAttempt
    <2>1. status' \in Records /\ BoundsKept
        BY <1>6, PublishKeeps DEF BeginAttempt, TypeOK, MaildirType, MbsyncType
    <2>2. BoundsType' /\ events' \in Seq(Event) /\ FaultsCounted' /\ bounds'.attempts = bounds.attempts
        BY <1>4, <1>6, <2>1 DEF BeginAttempt, kernel
    <2>3. MaildirType'
        BY <1>6, <2>1, <2>2 DEF BeginAttempt, kernel, TypeOK, MaildirType, BoundsType, OfScenario
    <2>4. MbsyncType'
        <3>1. begun + 1 \in Attempts
            BY <1>2, <1>6 DEF BeginAttempt, TypeOK, MbsyncType, Attempts
        <3>2. QED
            BY <1>6, <3>1 DEF BeginAttempt, TypeOK, MbsyncType, Running
    <2>5. QED  BY <1>1, <2>2, <2>3, <2>4 DEF TypeOK
<1>7. ASSUME NEW f \in {FolderOf[m] : m \in bounds.mail}, CreateFolder(f)
      PROVE  TypeOK' /\ FaultsCounted' /\ bounds'.attempts = bounds.attempts
    <2>1. f \in Folders
        BY <1>2, MaildirAssumption
    <2>2. BoundsType' /\ events' \in Seq(Event) /\ FaultsCounted' /\ bounds'.attempts = bounds.attempts
        BY <1>5, <1>7, <2>1, AnnouncedEvents DEF CreateFolder
    <2>3. MaildirType'
        BY <1>7, <2>1, <2>2 DEF CreateFolder, TypeOK, MaildirType, BoundsType, OfScenario
    <2>4. MbsyncType'
        BY <1>7 DEF CreateFolder, mbsync, TypeOK, MbsyncType
    <2>5. QED  BY <1>1, <2>2, <2>3, <2>4 DEF TypeOK
<1>8. ASSUME NEW m \in bounds.mail, DeliverMail(m)
      PROVE  TypeOK' /\ FaultsCounted' /\ bounds'.attempts = bounds.attempts
    <2>1. m \in Messages
        BY <1>2
    <2>2. BoundsType' /\ events' \in Seq(Event) /\ FaultsCounted' /\ bounds'.attempts = bounds.attempts
        BY <1>5, <1>8, <2>1, AnnouncedEvents DEF DeliverMail
    <2>3. MaildirType'
        BY <1>8, <2>1, <2>2 DEF DeliverMail, TypeOK, MaildirType, MbsyncType, BoundsType, OfScenario
    <2>4. MbsyncType'
        BY <1>8 DEF DeliverMail, mbsync, TypeOK, MbsyncType
    <2>5. QED  BY <1>1, <2>2, <2>3, <2>4 DEF TypeOK
<1>9. CASE EndMbsync
    <2>1. BoundsKept
        BY <1>2, <1>9, TroubleKeeps DEF EndMbsync
    <2>2. BoundsType' /\ events' \in Seq(Event) /\ FaultsCounted' /\ bounds'.attempts = bounds.attempts
        BY <1>4, <1>9, <2>1 DEF EndMbsync, kernel
    <2>3. open' \subseteq made /\ succeeded' \in BOOLEAN
        BY <1>9 DEF EndMbsync, TypeOK, MaildirType
    <2>4. MaildirType'
        BY <1>9, <2>2, <2>3 DEF EndMbsync, kernel, TypeOK, MaildirType, BoundsType, OfScenario
    <2>5. MbsyncType'
        BY <1>9, <2>3 DEF EndMbsync, TypeOK, MbsyncType, Running
    <2>6. QED  BY <1>1, <2>2, <2>4, <2>5 DEF TypeOK
<1>10. CASE SignalRepair
    <2>1. BoundsType' /\ events' \in Seq(Event) /\ FaultsCounted' /\ bounds'.attempts = bounds.attempts
        <3>1. CASE Announce(MarkerEvent, watching)
            BY <1>5, <3>1, AnnouncedEvents
        <3>2. CASE UNCHANGED events /\ Trouble("signal")
            BY <1>2, <1>4, <3>2, TroubleKeeps
        <3>3. QED  BY <1>10, <3>1, <3>2 DEF SignalRepair
    <2>2. MaildirType'
        BY <1>10, <2>1 DEF SignalRepair, maildir, TypeOK, MaildirType, BoundsType, OfScenario
    <2>3. MbsyncType'
        BY <1>10 DEF SignalRepair, TypeOK, MbsyncType, Settling
    <2>4. QED  BY <1>1, <2>1, <2>2, <2>3 DEF TypeOK
<1>11. CASE \/ RecordFailure \/ AllocationFails \/ StampFails \/ RecordSuccess
            \/ StopShell /\ shell # "idle"
    <2>1. PICK ok \in BOOLEAN, gen \in Generations \cup {NoGen} : Ends(ok, gen)
        BY <1>11, OutcomesEnd
    <2>2. mem' \in Records /\ status' \in Records /\ BoundsKept
        BY <1>11, OutcomesEnd
    <2>3. BoundsType' /\ events' \in Seq(Event) /\ FaultsCounted' /\ bounds'.attempts = bounds.attempts
        BY <1>4, <2>1, <2>2 DEF Ends, kernel
    <2>4. MaildirType'
        BY <2>1, <2>2, <2>3 DEF Ends, kernel, TypeOK, MaildirType, BoundsType, OfScenario
    <2>5. MbsyncType'
        BY <1>2, <2>1, <2>2 DEF Ends, TypeOK, MbsyncType, Attempts
    <2>6. QED  BY <1>1, <2>3, <2>4, <2>5 DEF TypeOK
<1>12. CASE Allocate
    <2>1. BoundsKept
        BY <1>2, <1>12, TroubleKeeps DEF Allocate
    <2>2. BoundsType' /\ events' \in Seq(Event) /\ FaultsCounted' /\ bounds'.attempts = bounds.attempts
        BY <1>4, <1>12, <2>1 DEF Allocate, kernel
    <2>3. MaildirType'
        BY <1>12, <2>2 DEF Allocate, kernel, maildir, TypeOK, MaildirType, BoundsType, OfScenario
    <2>4. CurrentGeneration + 1 \in Generations
        <3>1. /\ shell = "ready" /\ begun \in Attempts
              /\ stamp.gen <= begun - 1 /\ counter <= begun - 1
              /\ mem.terminal.gen <= begun - 1 /\ mem.success.gen <= begun - 1
            BY <1>12 DEF Allocate, NumbersBounded, Done, Ended, Counted, Settling, RecordsWithin, TypeOK,
                         MbsyncType, Running
        <3>2. CurrentGeneration \in Generations /\ CurrentGeneration <= begun - 1
            BY <3>1, CurrentIsTop
        <3>3. QED  BY <1>2, <3>1, <3>2 DEF Generations, Attempts
    <2>5. MbsyncType'
        BY <1>12, <2>4 DEF Allocate, TypeOK, MbsyncType, Settling
    <2>6. QED  BY <1>1, <2>2, <2>3, <2>5 DEF TypeOK
<1>13. CASE WriteStamp
    <2>1. stamp' \in Stamp
        BY <1>13 DEF WriteStamp, TypeOK, MbsyncType, Stamp
    <2>2. BoundsType' /\ events' \in Seq(Event) /\ FaultsCounted' /\ bounds'.attempts = bounds.attempts
        BY <1>5, <1>13, <2>1, AnnouncedEvents DEF WriteStamp
    <2>3. MaildirType'
        BY <1>13, <2>1, <2>2 DEF WriteStamp, TypeOK, MaildirType, BoundsType, OfScenario
    <2>4. MbsyncType'
        BY <1>13 DEF WriteStamp, TypeOK, MbsyncType, Settling
    <2>5. QED  BY <1>1, <2>2, <2>3, <2>4 DEF TypeOK
<1>14. CASE \/ StopShell /\ shell = "idle"
            \/ KillShell \/ LoseState \/ StartShell
    <2>1. /\ BoundsKept /\ UNCHANGED <<maildir, kernel, begun, succeeded, generation>>
          /\ shell' \in {"idle", "down"} /\ attempt' \in Attempts
          /\ counter' \in Generations /\ mem' \in Records
        <3>1. CASE StopShell /\ shell = "idle"
            <4>1. UNCHANGED <<attempt, mem, status, bounds>>
                BY <3>1 DEF StopShell, Stopped, Running, Settling
            <4>2. QED
                BY <1>2, <3>1, <4>1, TroubleKeeps
                DEF StopShell, maildir, TypeOK, MbsyncType
        <3>2. CASE KillShell
            BY <1>2, <3>2, TroubleKeeps DEF KillShell, TypeOK, MbsyncType
        <3>3. CASE LoseState
            <4>1. counter' \in Generations
                BY <1>2, <3>3 DEF LoseState, TypeOK, MbsyncType, Generations
            <4>2. QED
                BY <1>2, <3>3, <4>1, TroubleKeeps DEF LoseState, TypeOK, MbsyncType
        <3>4. CASE StartShell
            <4>1. 0 \in Attempts
                BY <1>2 DEF Attempts
            <4>2. QED
                BY <1>2, <3>4, <4>1, TroubleKeeps DEF StartShell, TypeOK, MbsyncType, MaildirType
        <3>5. QED  BY <1>14, <3>1, <3>2, <3>3, <3>4
    <2>2. BoundsType' /\ events' \in Seq(Event) /\ FaultsCounted' /\ bounds'.attempts = bounds.attempts
        BY <1>4, <2>1 DEF kernel
    <2>3. MaildirType'
        BY <2>1, <2>2 DEF kernel, maildir, TypeOK, MaildirType, BoundsType, OfScenario
    <2>4. MbsyncType'
        BY <2>1 DEF TypeOK, MbsyncType
    <2>5. QED  BY <1>1, <2>2, <2>3, <2>4 DEF TypeOK
<1>15. QED
    BY <1>6, <1>7, <1>8, <1>9, <1>10, <1>11, <1>12, <1>13, <1>14 DEF Sync

-----------------------------------------------------------------------------
(* The indexer's steps.                                                    *)

\* An event handled was the first of the queue, and is of its kind.
LEMMA HandledEvent ==
    ASSUME TypeOK, NEW kind, AtHead(kind), Handled
    PROVE  /\ events # <<>> /\ Head(events) = events[1] /\ Len(events) >= 1
           /\ events[1] \in Event /\ events[1].kind = kind
           /\ events' \in Seq(Event) /\ Len(events') = Len(events) - 1
           /\ \A i \in 1..Len(events') : events'[i] = events[i + 1]
           /\ Cardinality(OverflowsAt(events')) <= Cardinality(OverflowsAt(events))
<1>1. events \in Seq(Event) /\ events # <<>> /\ events' = Tail(events)
      /\ Head(events).kind = kind
    BY DEF TypeOK, MaildirType, AtHead, Handled
<1>2. QED  BY <1>1, TailQueue

\* What the watcher may do to the queue: one event less.
LEMMA SeenOverflow ==
    ASSUME TypeOK, OverflowSeen
    PROVE  /\ events' \in Seq(Event) /\ overflows' = overflows + 1
           /\ \A i \in 1..Len(events') : \E j \in 1..Len(events) : events'[i] = events[j]
           /\ Cardinality(OverflowsAt(events')) + 1 <= Cardinality(OverflowsAt(events))
<1>1. PICK i \in DOMAIN events :
          /\ events[i] = Overflow
          /\ events' = SubSeq(events, 1, i - 1) \o SubSeq(events, i + 1, Len(events))
    BY DEF OverflowSeen
<1>2. events \in Seq(Event) /\ i \in 1..Len(events)
    BY DEF TypeOK, MaildirType
<1>3. QED  BY <1>1, <1>2, RemovedQueue DEF OverflowSeen

LEMMA LostEvents ==
    ASSUME TypeOK, EventsLost
    PROVE  /\ events' \in Seq(Event) /\ Len(events') <= Len(events)
           /\ \A i \in 1..Len(events') : events'[i] = events[i]
           /\ Cardinality(OverflowsAt(events')) <= Cardinality(OverflowsAt(events))
<1>1. PICK n \in 0..Len(events) : events' = SubSeq(events, 1, n)
    BY DEF EventsLost
<1>2. events \in Seq(Event)
    BY DEF TypeOK, MaildirType
<1>3. QED  BY <1>1, <1>2, PrefixQueue

\* What _acknowledge and _observe_collection return.
LEMMA NewerStamp ==
    ASSUME NEW s \in Stamp, NEW t \in Stamp
    PROVE  Newer(s, t) \in Stamp /\ Newer(s, t) \in {s, t}
    BY DEF Newer

LEMMA ObservedAttempt ==
    ASSUME TypeOK, NEW failed \in Attempts
    PROVE  /\ Observed(failed) \in {failed, status.terminal.attempt, 0}
           /\ Observed(failed) \in Attempts
<1>1. status.terminal.attempt \in Attempts /\ 0 \in Attempts
    BY MaildirAssumption DEF TypeOK, MaildirType, Records, Record, Attempts
<1>2. QED  BY <1>1 DEF Observed

\* Every step of the watcher thread keeps the types and the count of the faults.
LEMMA WatcherTypes ==
    ASSUME TypeOK, FaultsCounted, Watcher, UNCHANGED mbsync
    PROVE  TypeOK' /\ FaultsCounted' /\ UNCHANGED bounds
<1>1. MbsyncType'
    BY DEF TypeOK, MbsyncType, mbsync
<1>2. /\ events \in Seq(Event) /\ OfScenario(bounds) /\ bounds.faults \in Nat
      /\ Cardinality(OverflowsAt(events)) \in Nat /\ overflows \in Nat /\ MaxFaults \in Nat
      /\ overflows + Cardinality(OverflowsAt(events)) + bounds.faults <= MaxFaults
    <2>1. events \in Seq(Event) /\ OfScenario(bounds) /\ overflows \in Nat
        BY MaildirAssumption DEF TypeOK, MaildirType, OfScenario, RecorderType
    <2>2. QED
        BY <2>1, BoundsShape, OverflowsFinite, MaildirAssumption DEF FaultsCounted
<1>3. ASSUME events' \in Seq(Event), UNCHANGED <<bounds, overflows>>,
             Cardinality(OverflowsAt(events')) <= Cardinality(OverflowsAt(events))
      PROVE  FaultsCounted'
    <2>1. Cardinality(OverflowsAt(events')) \in Nat
        BY <1>3, OverflowsFinite
    <2>2. QED  BY <1>2, <1>3, <2>1 DEF FaultsCounted
<1>4. CASE HandleFile
    <2>1. /\ events' \in Seq(Event) /\ Head(events).of \in Messages
          /\ Cardinality(OverflowsAt(events')) <= Cardinality(OverflowsAt(events))
        BY <1>4, HandledEvent, EventKinds DEF HandleFile
    <2>2. UNCHANGED bounds /\ FaultsCounted'
        BY <1>3, <1>4, <2>1 DEF HandleFile, recorder
    <2>3. MaildirType'
        BY <1>4, <2>1 DEF HandleFile, maildir, TypeOK, MaildirType
    <2>4. RecorderType'
        BY <1>4, <2>1 DEF HandleFile, Enqueue, main, refresher, recorder, tables, TypeOK, RecorderType
    <2>5. QED  BY <1>1, <2>2, <2>3, <2>4 DEF TypeOK
<1>5. CASE HandleDir
    <2>1. /\ events' \in Seq(Event) /\ Head(events).of \in Folders
          /\ Cardinality(OverflowsAt(events')) <= Cardinality(OverflowsAt(events))
        BY <1>5, HandledEvent, EventKinds DEF HandleDir
    <2>2. UNCHANGED bounds /\ FaultsCounted'
        BY <1>3, <1>5, <2>1 DEF HandleDir, recorder
    <2>3. MaildirType'
        BY <1>5, <2>1 DEF HandleDir, maildir, TypeOK, MaildirType
    <2>4. RecorderType'
        BY <1>5 DEF HandleDir, main, recorder, tables, mail, TypeOK, RecorderType
    <2>5. QED  BY <1>1, <2>2, <2>3, <2>4 DEF TypeOK
<1>6. CASE HandleMarker
    <2>1. /\ events' \in Seq(Event)
          /\ Cardinality(OverflowsAt(events')) <= Cardinality(OverflowsAt(events))
        BY <1>6, HandledEvent DEF HandleMarker
    <2>2. UNCHANGED bounds /\ FaultsCounted'
        BY <1>3, <1>6, <2>1 DEF HandleMarker, recorder
    <2>3. MaildirType'
        BY <1>6, <2>1 DEF HandleMarker, maildir, TypeOK, MaildirType
    <2>4. RecorderType'
        BY <1>6 DEF HandleMarker, main, refresher, recorder, tables, mail, TypeOK, RecorderType
    <2>5. QED  BY <1>1, <2>2, <2>3, <2>4 DEF TypeOK
<1>7. CASE HandleStamp
    <2>1. /\ events' \in Seq(Event) /\ Head(events).of \in Stamp
          /\ Cardinality(OverflowsAt(events')) <= Cardinality(OverflowsAt(events))
        BY <1>7, HandledEvent, EventKinds DEF HandleStamp
    <2>2. UNCHANGED bounds /\ FaultsCounted'
        BY <1>3, <1>7, <2>1 DEF HandleStamp
    <2>3. MaildirType'
        BY <1>7, <2>1 DEF HandleStamp, maildir, TypeOK, MaildirType
    <2>4. held' \in Stamp /\ acked' \in Stamp
        BY <1>7, <2>1, NewerStamp DEF HandleStamp, AcknowledgeWatched, TypeOK, RecorderType
    <2>5. RecorderType'
        BY <1>7, <2>4 DEF HandleStamp, main, refresher, tables, mail, TypeOK, RecorderType
    <2>6. QED  BY <1>1, <2>2, <2>3, <2>5 DEF TypeOK
<1>8. CASE OverflowSeen
    <2>1. /\ events' \in Seq(Event) /\ overflows' = overflows + 1 /\ UNCHANGED bounds
          /\ Cardinality(OverflowsAt(events')) + 1 <= Cardinality(OverflowsAt(events))
        BY <1>8, SeenOverflow DEF OverflowSeen
    <2>2. Cardinality(OverflowsAt(events')) \in Nat
        BY <2>1, OverflowsFinite
    <2>3. FaultsCounted' /\ overflows' \in 0..MaxFaults
        BY <1>2, <2>1, <2>2 DEF FaultsCounted
    <2>4. MaildirType'
        BY <1>8, <2>1 DEF OverflowSeen, maildir, TypeOK, MaildirType
    <2>5. walkFrom' \in 0..overflows' /\ covered' \in 0..overflows'
        BY <1>2, <1>8, <2>1 DEF OverflowSeen, main, TypeOK, RecorderType
    <2>6. RecorderType'
        BY <1>8, <2>3, <2>5 DEF OverflowSeen, main, refresher, tables, mail, TypeOK, RecorderType
    <2>7. QED  BY <1>1, <2>1, <2>3, <2>4, <2>6 DEF TypeOK
<1>9. CASE ReadCollection
    <2>1. UNCHANGED <<bounds, events, overflows>>
        BY <1>9 DEF ReadCollection, kernel
    <2>2. FaultsCounted'
        BY <2>1 DEF FaultsCounted
    <2>3. MaildirType'
        BY <1>9 DEF ReadCollection, maildir, kernel, TypeOK, MaildirType
    <2>4. unrecovered' \in Attempts
        BY <1>9, ObservedAttempt DEF ReadCollection, TypeOK, RecorderType
    <2>5. RecorderType'
        BY <1>9, <2>4 DEF ReadCollection, main, refresher, tables, mail, TypeOK, RecorderType
    <2>6. QED  BY <1>1, <2>1, <2>2, <2>3, <2>5 DEF TypeOK
<1>10. QED
    BY <1>4, <1>5, <1>6, <1>7, <1>8, <1>9 DEF Watcher

\* Every step of the main thread keeps the types and the count of the faults.
LEMMA MainTypes ==
    ASSUME TypeOK, FaultsCounted, MainThread, UNCHANGED mbsync
    PROVE  TypeOK' /\ FaultsCounted' /\ bounds'.attempts = bounds.attempts
<1>1. MbsyncType'
    BY DEF TypeOK, MbsyncType, mbsync
<1>2. /\ events \in Seq(Event) /\ OfScenario(bounds) /\ bounds.faults \in Nat
      /\ Cardinality(OverflowsAt(events)) \in Nat /\ overflows \in Nat /\ MaxFaults \in Nat
      /\ overflows + Cardinality(OverflowsAt(events)) + bounds.faults <= MaxFaults
    <2>1. events \in Seq(Event) /\ OfScenario(bounds) /\ overflows \in Nat
        BY MaildirAssumption DEF TypeOK, MaildirType, OfScenario, RecorderType
    <2>2. QED
        BY <2>1, BoundsShape, OverflowsFinite, MaildirAssumption DEF FaultsCounted
<1>3. ASSUME events' \in Seq(Event), overflows' \in {overflows, 0}, BoundsKept,
             Cardinality(OverflowsAt(events')) <= Cardinality(OverflowsAt(events))
      PROVE  FaultsCounted' /\ OfScenario(bounds') /\ bounds'.attempts = bounds.attempts
    <2>1. Cardinality(OverflowsAt(events')) \in Nat /\ bounds'.faults \in Nat
          /\ OfScenario(bounds')
        BY <1>3, OverflowsFinite, BoundsShape DEF BoundsKept, BoundsType
    <2>2. QED  BY <1>2, <1>3, <2>1 DEF FaultsCounted, BoundsKept
<1>4. ASSUME UNCHANGED <<events, overflows, maildir, watching, watched>>,
             BoundsKept, RecorderType'
      PROVE  TypeOK' /\ FaultsCounted' /\ bounds'.attempts = bounds.attempts
    <2>1. FaultsCounted' /\ OfScenario(bounds') /\ bounds'.attempts = bounds.attempts
        BY <1>2, <1>3, <1>4
    <2>2. MaildirType'
        BY <1>4, <2>1 DEF maildir, TypeOK, MaildirType, OfScenario
    <2>3. QED  BY <1>1, <1>4, <2>1, <2>2 DEF TypeOK
<1>5. UNCHANGED bounds => BoundsKept
    BY <1>2, TroubleKeeps DEF BoundsType
<1>6. ASSUME NEW what, Trouble(what)
      PROVE  BoundsKept
    BY <1>2, <1>6, TroubleKeeps DEF BoundsType
<1>7. NoStamp \in Stamp /\ 0 \in 0..MaxFaults /\ 0 \in Attempts
    BY MaildirAssumption DEF NoStamp, Stamp, Attempts, Generations
<1>8. ASSUME Enqueue(found), UNCHANGED indexed
      PROVE  queued' \cup indexed' \subseteq Messages /\ queued' \cap indexed' = {}
    BY <1>8 DEF Enqueue, TypeOK, RecorderType
<1>9. CASE RecordState
    <2>1. unrecovered' \in Attempts
        BY <1>9, ObservedAttempt DEF RecordState, TypeOK, RecorderType
    <2>2. row' \in [acked : Stamp, unrecovered : Attempts, terminal : Attempts,
                    undelivered : BOOLEAN]
        <3>1. acked \in Stamp /\ status.terminal.attempt \in Attempts /\ status.terminal.ok \in BOOLEAN
            BY DEF TypeOK, RecorderType, MaildirType, Records, Record
        <3>2. (WellFormed(status) /\ status.terminal.ok /\ ~SuccessDelivered) \in BOOLEAN
            BY <3>1
        <3>3. QED  BY <1>9, <2>1, <3>1, <3>2 DEF RecordState
    <2>3. RecorderType'
        BY <1>9, <2>1, <2>2 DEF RecordState, main, refresher, mail, TypeOK, RecorderType
    <2>4. QED  BY <1>4, <1>5, <1>9, <2>3 DEF RecordState, kernel
<1>10. ASSUME NEW m \in Messages, Index(m)
       PROVE  TypeOK' /\ FaultsCounted' /\ bounds'.attempts = bounds.attempts
    <2>1. RecorderType'
        BY <1>10 DEF Index, main, refresher, recorder, tables, TypeOK, RecorderType
    <2>2. QED  BY <1>4, <1>5, <1>10, <2>1 DEF Index, recorder, kernel
<1>11. CASE AnswerSignal
    <2>1. RecorderType'
        BY <1>11 DEF AnswerSignal, Goto, refresher, recorder, tables, mail, TypeOK, RecorderType
    <2>2. QED  BY <1>4, <1>5, <1>11, <2>1 DEF AnswerSignal, recorder, kernel
<1>12. CASE AnswerOverflow
    <2>1. RecorderType'
        BY <1>12 DEF AnswerOverflow, Goto, recorder, tables, mail, TypeOK, RecorderType
    <2>2. QED  BY <1>4, <1>5, <1>12, <2>1 DEF AnswerOverflow, recorder, kernel
<1>13. CASE Keep
    <2>1. RecorderType'
        BY <1>13 DEF Keep, Goto, refresher, recorder, tables, mail, TypeOK, RecorderType
    <2>2. QED  BY <1>4, <1>5, <1>13, <2>1 DEF Keep, recorder, kernel
<1>14. CASE PeriodicRescan
    <2>1. RecorderType'
        BY <1>14 DEF PeriodicRescan, Goto, refresher, recorder, tables, mail, TypeOK, RecorderType
    <2>2. QED  BY <1>4, <1>5, <1>14, <2>1 DEF PeriodicRescan, recorder, kernel
<1>15. CASE Reschedule
    <2>1. /\ events' \in Seq(Event) /\ UNCHANGED <<bounds, overflows>>
          /\ Cardinality(OverflowsAt(events')) <= Cardinality(OverflowsAt(events))
        BY <1>15, LostEvents DEF Reschedule, recorder
    <2>2. FaultsCounted'
        BY <1>3, <1>5, <2>1
    <2>3. MaildirType'
        BY <1>15, <2>1 DEF Reschedule, maildir, TypeOK, MaildirType
    <2>4. RecorderType'
        BY <1>15 DEF Reschedule, recorder, tables, mail, TypeOK, RecorderType, MaildirType
    <2>5. QED  BY <1>1, <2>1, <2>2, <2>3, <2>4 DEF TypeOK
<1>16. CASE RescheduleFails
    <2>1. /\ events' \in Seq(Event) /\ UNCHANGED overflows
          /\ Cardinality(OverflowsAt(events')) <= Cardinality(OverflowsAt(events))
        BY <1>16, LostEvents DEF RescheduleFails, recorder
    <2>2. FaultsCounted' /\ OfScenario(bounds') /\ bounds'.attempts = bounds.attempts
        BY <1>3, <1>6, <1>16, <2>1 DEF RescheduleFails
    <2>3. MaildirType'
        BY <1>16, <2>1, <2>2 DEF RescheduleFails, maildir, TypeOK, MaildirType, OfScenario
    <2>4. RecorderType'
        BY <1>16 DEF RescheduleFails, Goto, recorder, tables, mail, TypeOK, RecorderType
    <2>5. QED  BY <1>1, <2>2, <2>3, <2>4 DEF TypeOK
<1>17. CASE BeginWalk
    <2>1. RecorderType'
        BY <1>2, <1>17 DEF BeginWalk, refresher, recorder, tables, mail, TypeOK, RecorderType,
                           MaildirType
    <2>2. QED  BY <1>4, <1>5, <1>17, <2>1 DEF BeginWalk, recorder, kernel
<1>18. CASE EndRefreshWalk
    <2>1. pc' \in {"walk", "loop"} /\ why' \in {"recovery", "none"}
        BY <1>18 DEF EndRefreshWalk, Goto
    <2>2. queued' \cup indexed' \subseteq Messages /\ queued' \cap indexed' = {}
        BY <1>8, <1>18 DEF EndRefreshWalk
    <2>3. rewatched' \in BOOLEAN /\ walkStamp' \in Stamp /\ walkFrom' = 0 /\ found' = {}
          /\ walked' \in Stamp /\ UNCHANGED <<known, created, completed, recorder, row>>
        BY <1>7, <1>18
        DEF EndRefreshWalk, WalkOver, RecordWalk, TypeOK, RecorderType
    <2>4. RecorderType'
        BY <1>2, <2>1, <2>2, <2>3 DEF recorder, TypeOK, RecorderType
    <2>5. QED  BY <1>4, <1>5, <1>18, <2>4 DEF EndRefreshWalk, recorder, kernel
<1>19. CASE EndWalk
    <2>1. held' \in Stamp /\ acked' \in Stamp /\ covered' \in 0..overflows
        BY <1>7, <1>19, NewerStamp DEF EndWalk, WalkCompleted, TypeOK, RecorderType
    <2>2. pc' \in {"refresh", "loop"} /\ why' \in {"periodic", "none"}
        BY <1>19 DEF EndWalk, AfterWalk, Goto
    <2>3. RecorderType'
        BY <1>2, <1>7, <1>8, <1>19, <2>1, <2>2
        DEF EndWalk, WalkOver, RecordWalk, refresher, TypeOK, RecorderType
    <2>4. QED  BY <1>4, <1>5, <1>19, <2>3 DEF EndWalk, kernel
<1>20. CASE WalkFails
    <2>1. pc' \in {"refresh", "loop"} /\ why' \in {"periodic", "none"}
        BY <1>20 DEF WalkFails, AfterWalk, Goto
    <2>2. RecorderType'
        BY <1>2, <1>7, <1>20, <2>1
        DEF WalkFails, WalkOver, refresher, recorder, tables, mail, TypeOK, RecorderType
    <2>3. QED  BY <1>4, <1>6, <1>20, <2>2 DEF WalkFails, recorder, kernel
<1>21. CASE StartIndexer
    <2>1. unrecovered' \in Attempts
        BY <1>21, ObservedAttempt DEF StartIndexer, TypeOK, RecorderType
    <2>2. RecorderType'
        BY <1>21, <2>1 DEF StartIndexer, Goto, tables, mail, TypeOK, RecorderType, MaildirType
    <2>3. MaildirType'
        BY <1>21 DEF StartIndexer, maildir, TypeOK, MaildirType
    <2>4. FaultsCounted' /\ UNCHANGED bounds
        BY <1>21 DEF StartIndexer, FaultsCounted
    <2>5. QED  BY <1>1, <2>2, <2>3, <2>4 DEF TypeOK
<1>22. CASE CrashIndexer
    <2>1. /\ events' \in Seq(Event) /\ overflows' = 0
          /\ Cardinality(OverflowsAt(events')) <= Cardinality(OverflowsAt(events))
        <3>1. events' = <<>> /\ overflows' = 0 /\ <<>> \in Seq(Event)
            BY <1>22, EmptySeq DEF CrashIndexer
        <3>2. OverflowsAt(<<>>) = {}
            BY EmptySeq, OverflowsFinite DEF OverflowsAt
        <3>3. Cardinality(OverflowsAt(events')) = 0
            BY <3>1, <3>2, FS_EmptySet
        <3>4. QED  BY <1>2, <3>1, <3>3
    <2>2. FaultsCounted' /\ OfScenario(bounds') /\ bounds'.attempts = bounds.attempts
        BY <1>3, <1>6, <1>22, <2>1 DEF CrashIndexer
    <2>3. MaildirType'
        BY <1>22, <2>1, <2>2 DEF CrashIndexer, maildir, TypeOK, MaildirType, OfScenario
    <2>4. RecorderType'
        <3>1. /\ pc' = "down" /\ why' = "startup" /\ found' = {} /\ known' = {}
              /\ walkStamp' \in Stamp /\ held' \in Stamp /\ acked' \in Stamp
              /\ walkFrom' \in 0..overflows' /\ covered' \in 0..overflows'
              /\ overflows' \in 0..MaxFaults /\ unrecovered' \in Attempts
            BY <1>7, <1>22 DEF CrashIndexer, Goto
        <3>2. created' \in BOOLEAN /\ completed' \in BOOLEAN /\ rewatched' \in BOOLEAN
            BY <1>22 DEF CrashIndexer
        <3>3. UNCHANGED <<row, walked, queued, indexed>>
            BY <1>22 DEF CrashIndexer, tables, mail
        <3>4. QED  BY <3>1, <3>2, <3>3 DEF TypeOK, RecorderType
    <2>5. QED  BY <1>1, <2>2, <2>3, <2>4 DEF TypeOK
<1>23. QED
    BY <1>9, <1>10, <1>11, <1>12, <1>13, <1>14, <1>15, <1>16, <1>17, <1>18, <1>19, <1>20,
       <1>21, <1>22 DEF MainThread

-----------------------------------------------------------------------------
(* The shell's numbers.                                                    *)

\* The numbers compared are integers, and a record is what its fields are.
LEMMA Numbers ==
    ASSUME TypeOK
    PROVE  /\ NoGen \in Int /\ NoGen < 0 /\ NoStamp \in Stamp
           /\ begun \in Nat /\ attempt \in Nat /\ counter \in Nat
           /\ stamp \in Stamp /\ stamp.gen \in Nat /\ stamp.attempt \in Nat
           /\ \A r \in {mem.terminal, mem.success, status.terminal, status.success} :
                 /\ r \in Record /\ r.attempt \in Nat /\ r.ok \in BOOLEAN
                 /\ r.gen \in Int /\ r.gen >= NoGen /\ (r.gen # NoGen => r.gen \in Generations)
<1>1. NoGen = -1 /\ Attempts \subseteq Nat /\ Generations \subseteq Nat /\ 0 \in Attempts /\ 0 \in Generations
    BY MaildirAssumption DEF NoGen, Attempts, Generations
<1>2. NoStamp \in Stamp
    BY <1>1 DEF NoStamp, Stamp
<1>3. begun \in Nat /\ attempt \in Nat /\ counter \in Nat
    BY <1>1 DEF TypeOK, MbsyncType
<1>4. stamp \in Stamp /\ stamp.gen \in Nat /\ stamp.attempt \in Nat
    BY <1>1 DEF TypeOK, MaildirType, Stamp
<1>5. ASSUME NEW r \in Record
      PROVE  /\ r.attempt \in Nat /\ r.ok \in BOOLEAN
             /\ r.gen \in Int /\ r.gen >= NoGen /\ (r.gen # NoGen => r.gen \in Generations)
    <2>1. r.attempt \in Attempts /\ r.ok \in BOOLEAN /\ r.gen \in Generations \cup {NoGen}
        BY <1>5 DEF Record
    <2>2. r.gen \in Int /\ r.gen >= NoGen
        <3>1. CASE r.gen \in Generations
            BY <3>1, MaildirAssumption DEF Generations, NoGen
        <3>2. CASE r.gen = NoGen
            BY <3>2 DEF NoGen
        <3>3. QED  BY <2>1, <3>1, <3>2
    <2>3. QED  BY <1>1, <2>1, <2>2
<1>6. \A r \in {mem.terminal, mem.success, status.terminal, status.success} : r \in Record
    BY DEF TypeOK, MaildirType, MbsyncType, Records
<1>7. QED  BY <1>1, <1>2, <1>3, <1>4, <1>5, <1>6

\* A step of an attempt under way that gives it no outcome, generation or stamp.
Works ==
    /\ UNCHANGED <<attempt, begun, generation, counter, mem, stamp, status>>
    /\ shell \in Running /\ shell' \in Running \cup {"ready"}
    /\ QueuedStamps' \subseteq QueuedStamps

\* The shell stops between attempts or is killed, or the state volume goes back.
Stops ==
    /\ UNCHANGED <<attempt, begun, generation, mem, stamp, status, events>>
    /\ shell' = "down" /\ counter' \in Nat /\ counter' <= counter

\* The stamps queued after an announcement.
LEMMA AnnouncedStamps ==
    ASSUME TypeOK, NEW e \in Event, e # Overflow, NEW heard, Announce(e, heard)
    PROVE  /\ e.kind # "stamp" => QueuedStamps' \subseteq QueuedStamps
           /\ QueuedStamps' \subseteq QueuedStamps \cup {e.of}
<1>1. /\ events \in Seq(Event) /\ events' \in Seq(Event)
      /\ \A i \in 1..Len(events) : events'[i] = events[i]
      /\ \A i \in 1..Len(events') : i > Len(events) => events'[i] \in {e, Overflow}
    BY AnnouncedQueue DEF TypeOK, MaildirType
<1>2. Len(events) \in Nat /\ DOMAIN events = 1..Len(events)
      /\ Len(events') \in Nat /\ DOMAIN events' = 1..Len(events')
    BY <1>1
<1>3. ASSUME NEW i \in 1..Len(events'), events'[i].kind = "stamp"
      PROVE  events'[i].of \in QueuedStamps \/ (e.kind = "stamp" /\ events'[i].of = e.of)
    <2>1. CASE i <= Len(events)
        <3>1. i \in DOMAIN events /\ events'[i] = events[i]
            BY <1>1, <1>2, <2>1
        <3>2. QED  BY <1>3, <3>1 DEF QueuedStamps
    <2>2. CASE i > Len(events)
        <3>1. events'[i] # Overflow
            BY <1>3 DEF Overflow
        <3>2. events'[i] = e
            BY <1>1, <1>3, <2>2, <3>1
        <3>3. QED  BY <1>3, <3>2
    <2>3. QED  BY <1>2, <2>1, <2>2
<1>4. QED  BY <1>2, <1>3 DEF QueuedStamps

\* The steps of the shell by what they do to its numbers.
LEMMA SyncCases ==
    ASSUME TypeOK, ShellOrder, Sync
    PROVE  \/ BeginAttempt \/ Works \/ Allocate \/ WriteStamp \/ Stops \/ StartShell
           \/ \E ok \in BOOLEAN, gen \in Generations \cup {NoGen} : Ends(ok, gen)
<1>1. bounds.mail \subseteq Messages
    BY BoundsShape DEF TypeOK, MaildirType, OfScenario
<1>2. ASSUME NEW f \in {FolderOf[m] : m \in bounds.mail}, CreateFolder(f)  PROVE Works
    <2>1. DirEvent(f) \in Event /\ DirEvent(f) # Overflow /\ DirEvent(f).kind # "stamp"
        BY <1>1, AnnouncedEvents, MaildirAssumption DEF DirEvent
    <2>2. QueuedStamps' \subseteq QueuedStamps
        BY <1>2, <2>1, AnnouncedStamps DEF CreateFolder
    <2>3. QED  BY <1>2, <2>2 DEF CreateFolder, mbsync, Works, Running
<1>3. ASSUME NEW m \in bounds.mail, DeliverMail(m)  PROVE Works
    <2>1. FileEvent(m) \in Event /\ FileEvent(m) # Overflow /\ FileEvent(m).kind # "stamp"
        BY <1>1, AnnouncedEvents DEF FileEvent
    <2>2. QueuedStamps' \subseteq QueuedStamps
        BY <1>3, <2>1, AnnouncedStamps DEF DeliverMail
    <2>3. QED  BY <1>3, <2>2 DEF DeliverMail, mbsync, Works, Running
<1>4. CASE EndMbsync
    BY <1>4 DEF EndMbsync, kernel, Works, Running, QueuedStamps
<1>5. CASE SignalRepair
    <2>1. MarkerEvent \in Event /\ MarkerEvent # Overflow /\ MarkerEvent.kind # "stamp"
        BY AnnouncedEvents DEF MarkerEvent
    <2>2. QueuedStamps' \subseteq QueuedStamps
        <3>1. CASE Announce(MarkerEvent, watching)
            BY <2>1, <3>1, AnnouncedStamps
        <3>2. CASE UNCHANGED events
            BY <3>2 DEF QueuedStamps
        <3>3. QED  BY <1>5, <3>1, <3>2 DEF SignalRepair
    <2>3. QED  BY <1>5, <2>2 DEF SignalRepair, maildir, Works, Running
<1>6. CASE \/ RecordFailure \/ AllocationFails \/ StampFails \/ RecordSuccess
           \/ StopShell /\ shell # "idle"
    BY <1>6, OutcomesEnd
<1>7. CASE StopShell /\ shell = "idle"
    <2>1. UNCHANGED <<attempt, mem, status>>
        BY <1>7 DEF StopShell, Stopped, Running, Settling
    <2>2. counter' = counter /\ counter \in Nat
        BY <1>7, Numbers DEF StopShell
    <2>3. QED  BY <1>7, <2>1, <2>2 DEF StopShell, kernel, Stops
<1>8. CASE KillShell
    <2>1. counter' = counter /\ counter \in Nat
        BY <1>8, Numbers DEF KillShell
    <2>2. QED  BY <1>8, <2>1 DEF KillShell, maildir, kernel, Stops
<1>9. CASE LoseState
    <2>1. counter' \in Nat /\ counter' <= counter
        BY <1>9, Numbers DEF LoseState
    <2>2. QED  BY <1>9, <2>1 DEF LoseState, maildir, kernel, Stops
<1>10. QED
    BY <1>2, <1>3, <1>4, <1>5, <1>6, <1>7, <1>8, <1>9 DEF Sync

\* An attempt under way ends later than all that is recorded; see Ends.
LEMMA EndsLate ==
    ASSUME TypeOK, ShellOrder, NumbersBounded,
           NEW ok \in BOOLEAN, NEW gen \in Generations \cup {NoGen}, Ends(ok, gen)
    PROVE  /\ attempt = begun /\ begun > 0 /\ begun' = begun /\ Ended = begun - 1
           /\ shell' \in {"idle", "down"} /\ Ended' = begun /\ Done' = begun /\ Counted' = begun
           /\ gen \in Int /\ gen <= begun
           /\ ~ok /\ gen # NoGen => gen = CurrentGeneration
           /\ shell' # "down" /\ ok => shell = "stamped" /\ gen = stamp.gen
<1>1. shell \in Running \cup Settling /\ attempt = begun /\ begun > 0 /\ begun' = begun
    BY DEF Ends, ShellOrder
<1>2. Ended = begun - 1
    BY <1>1 DEF Ended
<1>3. shell' \in {"idle", "down"} /\ Ended' = begun /\ Done' = begun /\ Counted' = begun
    BY <1>1 DEF Ends, Ended, Done, Counted, Running, Settling
<1>4. CurrentGeneration \in Nat /\ CurrentGeneration <= begun
    <2>1. counter <= begun /\ stamp.gen <= begun /\ mem.terminal.gen <= begun /\ mem.success.gen <= begun
        BY <1>2, Numbers DEF NumbersBounded, Counted, Done, RecordsWithin
    <2>2. QED
        BY <2>1, CurrentIsTop, MaildirAssumption DEF Generations
<1>5. shell = "stamped" => generation = stamp.gen
    BY DEF ShellOrder
<1>6. counter <= begun /\ stamp.gen <= begun
    BY Numbers DEF NumbersBounded, Counted, Done
<1>7. gen \in Int /\ gen <= begun
    <2>1. gen \in {CurrentGeneration, NoGen, counter, stamp.gen}
        BY <1>5 DEF Ends
    <2>2. QED  BY <1>1, <1>4, <1>6, <2>1, Numbers
<1>8. ~ok /\ gen # NoGen => gen = CurrentGeneration
    BY DEF Ends
<1>9. shell' # "down" /\ ok => shell = "stamped" /\ gen = stamp.gen
    BY <1>5 DEF Ends
<1>10. QED  BY <1>1, <1>2, <1>3, <1>7, <1>8, <1>9

\* A step of the shell keeps the order of its places and the bounds of its numbers.
LEMMA SyncNumbers ==
    ASSUME TypeOK, ShellOrder, NumbersBounded, Sync, bounds'.attempts = bounds.attempts
    PROVE  ShellOrder' /\ NumbersBounded'
<1> USE DEF ShellOrder, NumbersBounded, RecordsWithin, Ended, Done, Counted, Running, Settling
<1>1. /\ NoGen \in Int /\ NoGen < 0 /\ begun \in Nat /\ attempt \in Nat /\ counter \in Nat
      /\ stamp.gen \in Nat /\ stamp.attempt \in Nat /\ bounds.attempts \in Int
      /\ \A r \in {mem.terminal, mem.success, status.terminal, status.success} :
            r.attempt \in Nat /\ r.gen \in Int
    <2>1. bounds.attempts \in Int
        BY BoundsShape, MaildirAssumption DEF TypeOK, MaildirType, OfScenario
    <2>2. QED  BY <2>1, Numbers
<1>2. CASE BeginAttempt
    <2>1. status' \in {status, mem} /\ mem' = mem /\ begun' = begun + 1 /\ begun < bounds.attempts
        BY <1>2, PublishKeeps DEF BeginAttempt
    <2>2. ShellOrder'
        BY <1>1, <1>2, <2>1 DEF BeginAttempt
    <2>3. NumbersBounded'
        BY <1>1, <1>2, <2>1 DEF BeginAttempt
    <2>4. QED  BY <2>2, <2>3
<1>3. CASE Works
    BY <1>1, <1>3 DEF Works
<1>4. CASE Allocate
    <2>1. counter' <= begun
        BY <1>1, <1>4, CurrentIsTop DEF Allocate, Generations
    <2>2. QED
        BY <1>1, <1>4, <2>1 DEF Allocate, maildir
<1>5. CASE WriteStamp
    <2>1. /\ stamp' = [attempt |-> attempt, gen |-> counter] /\ generation' = counter
          /\ shell = "allocated" /\ shell' = "stamped"
          /\ UNCHANGED <<attempt, begun, counter, mem, status>>
        BY <1>5 DEF WriteStamp
    <2>2. QED  BY <1>1, <2>1
<1>6. CASE Stops
    BY <1>1, <1>6 DEF Stops
<1>7. CASE StartShell
    BY <1>1, <1>7 DEF StartShell, maildir
<1>8. ASSUME NEW ok \in BOOLEAN, NEW gen \in Generations \cup {NoGen}, Ends(ok, gen)
      PROVE  ShellOrder' /\ NumbersBounded'
    <2> USE DEF ShellOrder
    <2>1. /\ begun' = begun /\ shell' \in {"idle", "down"}
          /\ attempt = begun /\ gen \in Int /\ gen <= begun
          /\ Ended = begun - 1 /\ Ended' = begun /\ Done' = begun /\ Counted' = begun
        BY <1>8, EndsLate
    <2>2. attempt' = 0 /\ counter' = counter /\ stamp' = stamp
          /\ mem' = Outcome(ok, gen) /\ status' \in {status, mem'}
        BY <1>8 DEF Ends
    <2>3. ShellOrder'
        BY <1>1, <2>1, <2>2
    <2>4. RecordsWithin(mem, begun) /\ RecordsWithin(status, begun)
        BY <1>1, <2>1
    <2>5. RecordsWithin(mem', begun)
        BY <1>1, <2>1, <2>2, <2>4 DEF Outcome
    <2>6. NumbersBounded'
        <3> HIDE DEF Ended, Done, Counted
        <3>1. stamp.attempt <= begun /\ stamp.gen <= begun /\ counter <= begun
            BY <1>1 DEF Done, Counted
        <3>2. QED  BY <1>1, <2>1, <2>2, <2>4, <2>5, <3>1
    <2>7. QED  BY <2>3, <2>6
<1>9. QED  BY <1>2, <1>3, <1>4, <1>5, <1>6, <1>7, <1>8, SyncCases

LEMMA InitialRecords ==
    Coherent([terminal |-> NoRecord, success |-> NoRecord])
    BY DEF Coherent, WellFormed, NoRecord, NoGen

\* finish_collection_attempt leaves records the parser accepts: a failure's floor is
\* no less than the success kept beside it.
LEMMA OutcomeCoherent ==
    ASSUME TypeOK, ShellOrder, NumbersBounded, Coherent(mem),
           NEW ok \in BOOLEAN, NEW gen \in Generations \cup {NoGen}, Ends(ok, gen)
    PROVE  Coherent(mem') /\ mem'.terminal.attempt > status.terminal.attempt
<1>1. /\ attempt = begun /\ begun > 0 /\ begun \in Nat /\ gen \in Int
      /\ ~ok /\ gen # NoGen => gen >= mem.success.gen
      /\ mem.success.attempt \in Nat /\ mem.success.attempt <= begun - 1
      /\ status.terminal.attempt \in Nat /\ status.terminal.attempt <= begun - 1
      /\ NoGen \in Int /\ mem.success.gen \in Int /\ mem.success.ok \in BOOLEAN
    <2>1. attempt = begun /\ begun > 0 /\ Ended = begun - 1 /\ gen \in Int
        BY EndsLate
    <2>2. ~ok /\ gen # NoGen => gen >= mem.success.gen
        BY EndsLate, CurrentIsTop
    <2>3. mem.success.attempt <= begun - 1 /\ status.terminal.attempt <= begun - 1
        BY <2>1 DEF NumbersBounded, RecordsWithin
    <2>4. QED  BY <2>1, <2>2, <2>3, Numbers
<1>2. /\ mem'.terminal = [attempt |-> attempt, ok |-> ok, gen |-> gen]
      /\ mem'.success = IF ok THEN mem'.terminal ELSE mem.success
    BY DEF Ends, Outcome
<1>3. mem'.terminal.attempt > status.terminal.attempt
    BY <1>1, <1>2
<1>4. CASE ok
    BY <1>1, <1>2, <1>4 DEF Coherent, WellFormed
<1>5. CASE ~ok
    BY <1>1, <1>2, <1>5 DEF Coherent, WellFormed
<1>6. QED  BY <1>3, <1>4, <1>5

\* Once stamped, an attempt's generation is ahead of every recorded one.
LEMMA StampedIsAhead ==
    ASSUME TypeOK, ShellOrder, NumbersBounded, Coherent(mem), Ordered(Past), shell = "stamped"
    PROVE  mem.success.gen <= stamp.gen
<1>1. /\ stamp.attempt = begun /\ begun \in Nat /\ mem.success.attempt <= begun - 1
      /\ mem.success.attempt \in Nat /\ mem.success.gen \in Int
      /\ stamp.gen \in Nat /\ NoGen < 0 /\ NoGen \in Int
    <2>1. stamp.attempt = begun
        BY DEF ShellOrder, Running, Settling
    <2>2. mem.success.attempt <= begun - 1
        BY DEF NumbersBounded, RecordsWithin, Ended, Settling
    <2>3. QED  BY <2>1, <2>2, Numbers
<1>2. CASE mem.success.ok /\ mem.success.gen # NoGen
    <2>1. mem.success \in Successes
        BY <1>2 DEF Successes
    <2> DEFINE s == [attempt |-> mem.success.attempt, gen |-> mem.success.gen]
    <2>2. s \in Past /\ stamp \in Past
        BY <2>1 DEF Past, Named, Stamps
    <2>3. stamp.gen < s.gen <=> stamp.attempt < s.attempt
        BY <2>2 DEF Ordered
    <2>4. QED  BY <1>1, <2>3
<1>3. CASE mem.success.gen = NoGen
    BY <1>1, <1>3
<1>4. CASE ~mem.success.ok
    BY <1>1, <1>4 DEF Coherent
<1>5. QED  BY <1>2, <1>3, <1>4

\* A step of the shell keeps the records in agreement.
LEMMA SyncRecords ==
    ASSUME TypeOK, ShellOrder, NumbersBounded, RecordsAgree, Allocated, Ordered(Past), Sync
    PROVE  RecordsAgree' /\ Allocated'
<1> USE DEF RecordsAgree
<1>1. CASE BeginAttempt
    <2>1. status' \in {status, mem} /\ mem' = mem /\ stamp' = stamp
          /\ shell' = "syncing" /\ shell = "idle"
        BY <1>1, PublishKeeps DEF BeginAttempt
    <2>2. QED
        BY <2>1, Numbers DEF Allocated
<1>2. CASE Works
    BY <1>2 DEF Works, Allocated, Running
<1>3. CASE Allocate
    <2>1. UNCHANGED <<mem, status, stamp>> /\ shell = "ready" /\ counter' = CurrentGeneration + 1
        BY <1>3 DEF Allocate, maildir
    <2>2. /\ CurrentGeneration \in Nat /\ CurrentGeneration >= stamp.gen
          /\ CurrentGeneration >= mem.terminal.gen /\ CurrentGeneration >= mem.success.gen
        BY CurrentIsTop, MaildirAssumption DEF Generations
    <2>3. CurrentGeneration >= status.success.gen
        BY <2>1, <2>2, Numbers
    <2>4. Allocated'
        BY <2>1, <2>2, <2>3, Numbers DEF Allocated
    <2>5. RecordsAgree'
        BY <2>1
    <2>6. QED  BY <2>4, <2>5
<1>4. CASE WriteStamp
    <2>1. UNCHANGED <<mem, status>> /\ stamp'.gen = counter /\ shell' = "stamped"
          /\ shell = "allocated"
        BY <1>4 DEF WriteStamp
    <2>2. counter > status.success.gen
        BY <2>1 DEF Allocated
    <2>3. QED  BY <2>1, <2>2, Numbers DEF Allocated
<1>5. CASE Stops
    BY <1>5 DEF Stops, Allocated
<1>6. CASE StartShell
    <2>1. mem' = status /\ status' = status /\ shell' = "idle"
        BY <1>6 DEF StartShell, maildir
    <2>2. QED  BY <2>1, Numbers DEF Allocated
<1>7. ASSUME NEW ok \in BOOLEAN, NEW gen \in Generations \cup {NoGen}, Ends(ok, gen)
      PROVE  RecordsAgree' /\ Allocated'
    <2>1. Coherent(mem') /\ mem'.terminal.attempt > status.terminal.attempt
        BY <1>7, OutcomeCoherent
    <2>2. /\ status' \in {status, mem'} /\ stamp' = stamp /\ mem' = Outcome(ok, gen)
          /\ shell # "down" /\ shell' \in {"idle", "down"}
        BY <1>7 DEF Ends, Running, Settling
    <2>3. Coherent(status') /\ (mem'.terminal = status'.terminal
                                \/ mem'.terminal.attempt > status'.terminal.attempt)
        BY <2>1, <2>2
    <2>4. ASSUME shell' # "down"
          PROVE  status'.success.gen <= stamp'.gen \/ status'.success.gen <= mem'.success.gen
        <3>1. CASE ~ok
            <4>1. mem'.success = mem.success
                BY <2>2, <3>1 DEF Outcome
            <4>2. QED  BY <2>2, <4>1, Numbers
        <3>2. CASE ok
            <4>1. shell = "stamped" /\ gen = stamp.gen
                BY <1>7, <2>4, <3>2, EndsLate
            <4>2. mem'.success.gen = stamp.gen
                BY <2>2, <3>2, <4>1 DEF Outcome
            <4>3. mem.success.gen <= stamp.gen
                BY <4>1, StampedIsAhead
            <4>4. QED  BY <2>2, <4>2, <4>3, Numbers
        <3>3. QED  BY <3>1, <3>2
    <2>5. QED  BY <2>1, <2>2, <2>3, <2>4 DEF Allocated
<1>8. QED  BY <1>1, <1>2, <1>3, <1>4, <1>5, <1>6, <1>7, SyncCases

-----------------------------------------------------------------------------
(* The order of what is known.                                             *)

LEMMA OrderedGrows ==
    ASSUME NEW S \in SUBSET Stamp, Ordered(S), NEW x \in Stamp,
           \A s \in S : s.gen < x.gen /\ s.attempt < x.attempt,
           NEW T, T \subseteq S \cup {x}
    PROVE  Ordered(T)
<1>1. Attempts \subseteq Int /\ Generations \subseteq Int
    BY MaildirAssumption DEF Attempts, Generations
<1>2. \A s \in S \cup {x} : s.gen \in Int /\ s.attempt \in Int
    BY <1>1 DEF Stamp
<1>3. ASSUME NEW s \in T, NEW t \in T
      PROVE  s.gen < t.gen <=> s.attempt < t.attempt
    <2>1. CASE s \in S /\ t \in S
        BY <2>1 DEF Ordered
    <2>2. CASE s \in S /\ t = x
        BY <2>2
    <2>3. CASE s = x /\ t \in S
        BY <1>2, <2>3
    <2>4. CASE s = x /\ t = x
        BY <1>2, <2>4
    <2>5. QED  BY <2>1, <2>2, <2>3, <2>4
<1>4. QED  BY <1>3 DEF Ordered

\* All that is known is a stamp, or reads as one.
LEMMA PastType ==
    ASSUME TypeOK
    PROVE  /\ Past \subseteq Stamp /\ Held \subseteq Stamp
           /\ \A s \in Past : s.gen \in Nat /\ s.attempt \in Nat
<1>1. QueuedStamps \subseteq Stamp
    <2>1. events \in Seq(Event)
        BY DEF TypeOK, MaildirType
    <2>2. \A i \in DOMAIN events : events[i] \in Event
        BY <2>1
    <2>3. QED  BY <2>2, EventKinds DEF QueuedStamps
<1>2. Held \subseteq Stamp
    BY <1>1 DEF Held, TypeOK, RecorderType
<1>3. Named \subseteq Stamp
    <2>1. \A r \in Successes : r.attempt \in Attempts /\ r.gen \in Generations
        BY Numbers DEF Successes, Record
    <2>2. QED  BY <2>1 DEF Named, Stamp
<1>4. Past \subseteq Stamp
    BY <1>2, <1>3, Numbers DEF Past, Stamps
<1>5. Attempts \subseteq Nat /\ Generations \subseteq Nat
    BY MaildirAssumption DEF Attempts, Generations
<1>6. QED  BY <1>2, <1>4, <1>5 DEF Stamp

\* While an attempt is under way all that is known is older than it; and while the
\* shell has allocated no generation for it, not above the one in force.
LEMMA PastIsOlder ==
    ASSUME TypeOK, ShellInv, shell \in Running \cup {"ready", "allocated"}, NEW s \in Past
    PROVE  /\ s.attempt < attempt
           /\ shell = "allocated" => s.gen < counter
           /\ s.gen <= CurrentGeneration
<1> USE DEF ShellInv, RecordsAgree
<1>1. /\ stamp.attempt < attempt /\ attempt = begun /\ begun > 0
      /\ \A r \in {mem.terminal, mem.success, status.terminal, status.success} :
            r.attempt < attempt
    <2>1. Done = begun - 1 /\ Ended = begun - 1 /\ attempt = begun /\ begun > 0
        BY DEF ShellOrder, Done, Ended, Running, Settling
    <2>2. QED
        BY <2>1, Numbers DEF NumbersBounded, RecordsWithin
<1>2. CASE s \in Held \cup {stamp}
    <2>1. s.gen <= stamp.gen /\ s.attempt <= stamp.attempt
        BY <1>2, Numbers DEF StampIsLatest
    <2>2. s.gen \in Nat /\ s.attempt \in Nat
        BY PastType
    <2>3. shell = "allocated" => stamp.gen < counter
        BY Numbers DEF Allocated
    <2>4. stamp.gen <= CurrentGeneration /\ CurrentGeneration \in Nat
        BY CurrentIsTop, MaildirAssumption DEF Generations
    <2>5. QED  BY <1>1, <2>1, <2>2, <2>3, <2>4, Numbers
<1>3. CASE s = NoStamp
    <2>1. s.gen = 0 /\ s.attempt = 0
        BY <1>3 DEF NoStamp
    <2>2. CurrentGeneration \in Nat /\ attempt \in Nat /\ attempt > 0
        BY <1>1, CurrentIsTop, Numbers, MaildirAssumption DEF Generations
    <2>3. shell = "allocated" => counter > 0
        BY Numbers DEF Allocated
    <2>4. QED  BY <2>1, <2>2, <2>3
<1>4. CASE s \in Named
    <2>1. PICK r \in Successes : s = [attempt |-> r.attempt, gen |-> r.gen]
        BY <1>4 DEF Named
    <2>2. s.attempt = r.attempt /\ s.gen = r.gen /\ r.ok
          /\ r \in {mem.terminal, mem.success, status.terminal, status.success}
        BY <2>1 DEF Successes
    <2>3. r \in {mem.success, status.success}
        BY <2>2 DEF Coherent
    <2>4. shell = "allocated" => r.gen < counter
        BY <2>3, Numbers DEF Allocated
    <2>5. r.gen <= CurrentGeneration
        <3>1. status.success.gen <= stamp.gen \/ status.success.gen <= mem.success.gen
            BY DEF Running
        <3>2. CurrentGeneration >= stamp.gen /\ CurrentGeneration >= mem.success.gen
              /\ CurrentGeneration \in Nat
            BY CurrentIsTop, MaildirAssumption DEF Generations
        <3>3. QED  BY <2>3, <3>1, <3>2, Numbers
    <2>6. QED  BY <1>1, <2>2, <2>4, <2>5
<1>5. QED  BY <1>2, <1>3, <1>4 DEF Past, Stamps

\* A step of the shell adds one sync to what is known, at most: the one it stamps
\* or gives its outcome, later than all the others.
LEMMA SyncPast ==
    ASSUME TypeOK, ShellInv, Sync, UNCHANGED indexer
    PROVE  \/ Past' \subseteq Past
           \/ /\ shell = "allocated"
              /\ Past' \subseteq Past \cup {[attempt |-> attempt, gen |-> counter]}
<1>1. UNCHANGED <<walkStamp, held, acked, row>> /\ UNCHANGED walked
    BY DEF indexer, main, recorder, tables
<1>2. ASSUME QueuedStamps' \subseteq QueuedStamps, stamp' = stamp, Named' \subseteq Named
      PROVE  Past' \subseteq Past
    BY <1>1, <1>2 DEF Past, Stamps, Held
<1>3. ASSUME UNCHANGED events  PROVE QueuedStamps' \subseteq QueuedStamps
    BY <1>3 DEF QueuedStamps
<1>4. ASSUME {mem'.terminal, mem'.success, status'.terminal, status'.success}
               \subseteq {mem.terminal, mem.success, status.terminal, status.success}
      PROVE  Named' \subseteq Named
    BY <1>4 DEF Named, Successes
<1>5. CASE BeginAttempt
    <2>1. status' \in {status, mem} /\ mem' = mem /\ stamp' = stamp /\ UNCHANGED events
        BY <1>5, PublishKeeps DEF BeginAttempt, kernel
    <2>2. Named' \subseteq Named
        BY <1>4, <2>1
    <2>3. QED  BY <1>2, <1>3, <2>1, <2>2
<1>6. CASE Works
    <2>1. Named' \subseteq Named
        BY <1>4, <1>6 DEF Works
    <2>2. QED  BY <1>2, <1>6, <2>1 DEF Works
<1>7. CASE Allocate
    <2>1. Named' \subseteq Named
        BY <1>4, <1>7 DEF Allocate, maildir
    <2>2. QED  BY <1>2, <1>3, <1>7, <2>1 DEF Allocate, maildir, kernel
<1>8. CASE WriteStamp
    <2>1. stamp' = [attempt |-> attempt, gen |-> counter] /\ shell = "allocated"
          /\ Announce(StampEvent(stamp'), watching) /\ UNCHANGED <<mem, status>>
        BY <1>8 DEF WriteStamp
    <2>2. stamp' \in Stamp
        BY <2>1 DEF Stamp, TypeOK, MbsyncType
    <2>3. QueuedStamps' \subseteq QueuedStamps \cup {stamp'}
        BY <2>1, <2>2, AnnouncedEvents, AnnouncedStamps DEF StampEvent
    <2>4. Named' \subseteq Named
        BY <1>4, <2>1
    <2>5. QED  BY <1>1, <2>1, <2>3, <2>4 DEF Past, Stamps, Held
<1>9. CASE Stops
    <2>1. Named' \subseteq Named
        BY <1>4, <1>9 DEF Stops
    <2>2. QED  BY <1>2, <1>3, <1>9, <2>1 DEF Stops
<1>10. CASE StartShell
    <2>1. mem' = status /\ status' = status /\ stamp' = stamp /\ UNCHANGED events
        BY <1>10 DEF StartShell, maildir, kernel
    <2>2. Named' \subseteq Named
        BY <1>4, <2>1
    <2>3. QED  BY <1>2, <1>3, <2>1, <2>2
<1>11. ASSUME NEW ok \in BOOLEAN, NEW gen \in Generations \cup {NoGen}, Ends(ok, gen)
       PROVE  \/ Past' \subseteq Past
              \/ /\ shell = "allocated"
                 /\ Past' \subseteq Past \cup {[attempt |-> attempt, gen |-> counter]}
    <2> DEFINE new == [attempt |-> attempt, gen |-> gen]
    <2>1. mem' = Outcome(ok, gen) /\ status' \in {status, mem'} /\ stamp' = stamp
          /\ UNCHANGED events
        BY <1>11 DEF Ends, kernel
    <2>2. /\ mem'.terminal = [attempt |-> attempt, ok |-> ok, gen |-> gen]
          /\ mem'.success = IF ok THEN mem'.terminal ELSE mem.success
        BY <2>1 DEF Outcome
    <2>3. \A r \in Successes' :
              r \in Successes \/ (ok /\ gen # NoGen /\ r = mem'.terminal)
        BY <2>1, <2>2 DEF Successes
    <2>4. Named' \subseteq Named \cup (IF ok /\ gen # NoGen THEN {new} ELSE {})
        BY <2>2, <2>3 DEF Named
    <2>5. CASE ~(ok /\ gen # NoGen)
        BY <1>2, <1>3, <2>1, <2>4, <2>5
    <2>6. CASE ok /\ gen # NoGen /\ shell = "stamped"
        <3>1. gen = generation
            BY <1>11, <2>6 DEF Ends, Running
        <3>2. new = stamp
            BY <2>6, <3>1 DEF ShellInv, ShellOrder
        <3>3. stamp \in Stamps /\ Stamps' \subseteq Stamps
            BY <1>1, <1>3, <2>1 DEF Stamps, Held
        <3>4. QED  BY <2>4, <3>2, <3>3 DEF Past
    <2>7. CASE ok /\ gen # NoGen /\ shell # "stamped"
        <3>1. gen = counter /\ shell = "allocated"
            BY <1>11, <2>7 DEF Ends
        <3>2. Stamps' \subseteq Stamps
            BY <1>1, <1>3, <2>1 DEF Stamps, Held
        <3>3. QED  BY <2>4, <3>1, <3>2 DEF Past
    <2>8. QED  BY <2>5, <2>6, <2>7
<1>12. QED
    BY <1>5, <1>6, <1>7, <1>8, <1>9, <1>10, <1>11, SyncCases DEF ShellInv

\* A step of the shell keeps every stamp older than the one on disk: a new one is
\* made of an attempt and a generation above them all.
LEMMA SyncStamps ==
    ASSUME TypeOK, ShellInv, Sync, UNCHANGED indexer
    PROVE  StampIsLatest'
<1>1. UNCHANGED <<walkStamp, held, acked, row, walked>>
    BY DEF indexer, main, recorder, tables
<1>2. ASSUME QueuedStamps' \subseteq QueuedStamps, stamp' = stamp
      PROVE  StampIsLatest'
    BY <1>1, <1>2 DEF ShellInv, StampIsLatest, Held
<1>3. ASSUME UNCHANGED events  PROVE QueuedStamps' \subseteq QueuedStamps
    BY <1>3 DEF QueuedStamps
<1>4. CASE WriteStamp
    <2>1. stamp' = [attempt |-> attempt, gen |-> counter] /\ shell = "allocated"
          /\ Announce(StampEvent(stamp'), watching)
        BY <1>4 DEF WriteStamp
    <2>2. stamp' \in Stamp
        BY <2>1 DEF Stamp, TypeOK, MbsyncType
    <2>3. Held' \subseteq Past \cup {stamp'}
        <3>1. QueuedStamps' \subseteq QueuedStamps \cup {stamp'}
            BY <2>1, <2>2, AnnouncedEvents, AnnouncedStamps DEF StampEvent
        <3>2. QED  BY <1>1, <3>1 DEF Held, Past, Stamps
    <2>4. ASSUME NEW s \in Held'
          PROVE  s.gen <= stamp'.gen /\ s.attempt <= stamp'.attempt
        <3>1. stamp'.gen = counter /\ stamp'.attempt = attempt
            BY <2>1
        <3>2. CASE s = stamp'
            BY <3>1, <3>2, Numbers
        <3>3. CASE s \in Past
            <4>1. s.attempt < attempt /\ s.gen < counter
                BY <2>1, <3>3, PastIsOlder
            <4>2. s.gen \in Nat /\ s.attempt \in Nat
                BY <3>3, PastType
            <4>3. QED  BY <3>1, <4>1, <4>2, Numbers
        <3>4. QED  BY <2>3, <2>4, <3>2, <3>3
    <2>5. QED  BY <2>4 DEF StampIsLatest
<1>5. CASE BeginAttempt \/ Allocate \/ StartShell
    BY <1>2, <1>3, <1>5 DEF BeginAttempt, Allocate, StartShell, maildir, kernel
<1>6. CASE Works
    BY <1>2, <1>6 DEF Works
<1>7. CASE Stops
    BY <1>2, <1>3, <1>7 DEF Stops
<1>8. ASSUME NEW ok \in BOOLEAN, NEW gen \in Generations \cup {NoGen}, Ends(ok, gen)
      PROVE  StampIsLatest'
    BY <1>2, <1>3, <1>8 DEF Ends, kernel
<1>9. QED
    BY <1>4, <1>5, <1>6, <1>7, <1>8, SyncCases DEF ShellInv

\* A step of the shell keeps what is known in order.
LEMMA SyncOrdered ==
    ASSUME TypeOK, ShellInv, Sync, UNCHANGED indexer
    PROVE  Ordered(Past)'
<1>1. CASE Past' \subseteq Past
    BY <1>1 DEF ShellInv, Ordered
<1>2. CASE /\ shell = "allocated"
           /\ Past' \subseteq Past \cup {[attempt |-> attempt, gen |-> counter]}
    <2> DEFINE new == [attempt |-> attempt, gen |-> counter]
               S == Past
               T == Past'
    <2>1. new \in Stamp /\ S \in SUBSET Stamp /\ Ordered(S)
        BY PastType DEF ShellInv, Stamp, TypeOK, MbsyncType
    <2>2. \A s \in S : s.gen < new.gen /\ s.attempt < new.attempt
        BY <1>2, PastIsOlder
    <2>3. T \subseteq S \cup {new}
        BY <1>2
    <2> HIDE DEF S, T, new
    <2>4. Ordered(T)
        BY <2>1, <2>2, <2>3, OrderedGrows
    <2>5. QED  BY <2>4 DEF T, Ordered
<1>3. QED  BY <1>1, <1>2, SyncPast

\* A step of the shell keeps the floors: a failure's floor is at least as high as
\* every generation known by then, and the later ones are of later attempts.
LEMMA SyncFloors ==
    ASSUME TypeOK, ShellInv, Sync, UNCHANGED indexer
    PROVE  FloorsHold'
<1> DEFINE new == [attempt |-> attempt, gen |-> counter]
           Floor(r, s) == r.attempt # 0 /\ r.gen # NoGen /\ s.gen > r.gen
                             => s.attempt > r.attempt
<1>1. \A r \in {mem.terminal, status.terminal}, s \in Past : Floor(r, s)
    BY DEF ShellInv, FloorsHold
<1>2. ASSUME NEW r \in {mem.terminal, status.terminal}, NEW s \in Past'
      PROVE  Floor(r, s)
    <2>1. CASE s \in Past
        BY <1>1, <2>1
    <2>2. CASE s = new /\ shell = "allocated"
        <3>1. r.attempt <= begun - 1 /\ attempt = begun
            BY <2>2 DEF ShellInv, ShellOrder, NumbersBounded, RecordsWithin, Ended, Settling
        <3>2. QED  BY <2>2, <3>1, Numbers
    <2>3. QED  BY <1>2, <2>1, <2>2, SyncPast
<1>3. ASSUME {mem'.terminal, status'.terminal} \subseteq {mem.terminal, status.terminal}
      PROVE  FloorsHold'
    BY <1>2, <1>3 DEF FloorsHold
<1>4. CASE BeginAttempt
    <2>1. status' \in {status, mem} /\ mem' = mem
        BY <1>4, PublishKeeps DEF BeginAttempt
    <2>2. QED  BY <1>3, <2>1
<1>5. CASE Works \/ Stops
    BY <1>3, <1>5 DEF Works, Stops
<1>6. CASE Allocate \/ WriteStamp \/ StartShell
    BY <1>3, <1>6 DEF Allocate, WriteStamp, StartShell, maildir
<1>7. ASSUME NEW ok \in BOOLEAN, NEW gen \in Generations \cup {NoGen}, Ends(ok, gen)
      PROVE  FloorsHold'
    <2>1. /\ mem'.terminal = [attempt |-> attempt, ok |-> ok, gen |-> gen]
          /\ status' \in {status, mem'}
        BY <1>7 DEF Ends, Outcome
    <2>2. ASSUME NEW s \in Past'
          PROVE  Floor(mem'.terminal, s)
        <3>1. CASE gen = NoGen
            BY <2>1, <3>1
        <3>2. CASE ~ok /\ gen # NoGen
            <4>1. gen = CurrentGeneration /\ shell \in Running \cup {"ready"}
                BY <1>7, <3>2 DEF Ends
            <4>2. s \in Past
                BY <2>2, <4>1, SyncPast DEF Running
            <4>3. s.gen <= gen
                BY <4>1, <4>2, PastIsOlder
            <4>4. s.gen \in Nat /\ gen \in Nat
                BY <3>2, <4>2, PastType, MaildirAssumption DEF Generations
            <4>5. QED  BY <2>1, <4>3, <4>4
        <3>3. CASE ok /\ gen # NoGen
            <4>1. mem'.terminal \in Successes'
                BY <2>1, <3>3 DEF Successes
            <4>2. [attempt |-> attempt, gen |-> gen] \in Past'
                BY <2>1, <4>1 DEF Past, Named
            <4>3. gen < s.gen <=> attempt < s.attempt
                BY <2>2, <4>2, SyncOrdered DEF Ordered
            <4>4. s.gen \in Nat /\ s.attempt \in Nat
                BY <2>2, SyncPast, PastType, Numbers
            <4>5. gen \in Nat /\ attempt \in Nat
                BY <3>3, Numbers, MaildirAssumption DEF Generations
            <4>6. QED  BY <2>1, <4>3, <4>4, <4>5
        <3>4. QED  BY <3>1, <3>2, <3>3
    <2>3. ASSUME NEW s \in Past'
          PROVE  Floor(status.terminal, s)
        BY <1>2
    <2>4. QED  BY <2>1, <2>2, <2>3 DEF FloorsHold
<1>8. QED
    BY <1>4, <1>5, <1>6, <1>7, SyncCases DEF ShellInv

\* A step of the shell keeps the shell's invariant.
LEMMA SyncShell ==
    ASSUME TypeOK, ShellInv, Sync, UNCHANGED indexer, bounds'.attempts = bounds.attempts
    PROVE  ShellInv'
<1>1. ShellOrder' /\ NumbersBounded'
    BY SyncNumbers DEF ShellInv
<1>2. RecordsAgree' /\ Allocated'
    BY SyncRecords DEF ShellInv
<1>3. StampIsLatest' /\ Ordered(Past)' /\ FloorsHold'
    BY SyncStamps, SyncOrdered, SyncFloors
<1>4. QED  BY <1>1, <1>2, <1>3 DEF ShellInv

-----------------------------------------------------------------------------
(* The indexer's steps leave the shell alone, and take up no sync but those  *)
(* it holds and the one on disk.                                             *)

LEMMA IndexerHolds ==
    ASSUME TypeOK, Watcher \/ MainThread
    PROVE  /\ UNCHANGED <<delivered, made, open, stamp, status>>
           /\ QueuedStamps' \subseteq QueuedStamps
           /\ {walkStamp', held', acked', row'.acked, walked'} \subseteq Held \cup {stamp, NoStamp}
<1> DEFINE Same == {walkStamp', held', acked', row'.acked, walked'} \subseteq Held \cup {stamp, NoStamp}
           Disk == UNCHANGED <<delivered, made, open, stamp, status>>
<1>1. ASSUME UNCHANGED events  PROVE QueuedStamps' \subseteq QueuedStamps
    BY <1>1 DEF QueuedStamps
<1>2. ASSUME events \in Seq(Event), events' \in Seq(Event),
             \A i \in 1..Len(events') : \E j \in 1..Len(events) : events'[i] = events[j]
      PROVE  QueuedStamps' \subseteq QueuedStamps
    BY <1>2 DEF QueuedStamps
<1>3. ASSUME NEW kind, AtHead(kind), Handled
      PROVE  QueuedStamps' \subseteq QueuedStamps
    <2>1. /\ events \in Seq(Event) /\ events' \in Seq(Event) /\ Len(events) \in Nat
          /\ Len(events') = Len(events) - 1
          /\ \A i \in 1..Len(events') : events'[i] = events[i + 1]
        BY <1>3, HandledEvent DEF TypeOK, MaildirType
    <2>2. ASSUME NEW i \in 1..Len(events')
          PROVE  \E j \in 1..Len(events) : events'[i] = events[j]
        <3>1. i + 1 \in 1..Len(events) /\ events'[i] = events[i + 1]
            BY <2>1
        <3>2. QED  BY <3>1
    <2>3. QED  BY <1>2, <2>1, <2>2
<1>4. ASSUME EventsLost  PROVE QueuedStamps' \subseteq QueuedStamps
    <2>1. /\ events \in Seq(Event) /\ events' \in Seq(Event) /\ Len(events) \in Nat
          /\ Len(events') <= Len(events) /\ Len(events') \in Nat
          /\ \A i \in 1..Len(events') : events'[i] = events[i]
        BY <1>4, LostEvents DEF TypeOK, MaildirType
    <2>2. QED  BY <1>2, <2>1
<1>5. CASE HandleFile
    BY <1>3, <1>5 DEF HandleFile, main, recorder, tables, maildir, Held
<1>6. CASE HandleDir
    BY <1>3, <1>6 DEF HandleDir, main, recorder, tables, maildir, Held
<1>7. CASE HandleMarker
    BY <1>3, <1>7 DEF HandleMarker, main, recorder, tables, maildir, Held
<1>8. CASE HandleStamp
    <2>1. QueuedStamps' \subseteq QueuedStamps
        BY <1>3, <1>8 DEF HandleStamp
    <2>2. Head(events).of \in QueuedStamps
        <3>1. events # <<>> /\ Head(events) = events[1] /\ Len(events) >= 1
              /\ events[1].kind = "stamp"
            BY <1>8, HandledEvent DEF HandleStamp
        <3>2. 1 \in DOMAIN events
            BY <3>1 DEF TypeOK, MaildirType
        <3>3. QED  BY <3>1, <3>2 DEF QueuedStamps
    <2>3. /\ held' \in {held, Head(events).of} /\ acked' \in {acked, Head(events).of}
        BY <1>8 DEF HandleStamp, AcknowledgeWatched, Newer
    <2>4. QED
        BY <1>8, <2>1, <2>2, <2>3 DEF HandleStamp, main, tables, maildir, Held
<1>9. CASE OverflowSeen
    <2>1. QueuedStamps' \subseteq QueuedStamps
        BY <1>2, <1>9, SeenOverflow DEF TypeOK, MaildirType
    <2>2. QED  BY <1>9, <2>1 DEF OverflowSeen, main, tables, maildir, Held
<1>10. CASE ReadCollection
    BY <1>1, <1>10 DEF ReadCollection, main, tables, maildir, kernel, Held
<1>11. CASE RecordState
    <2>1. row'.acked = acked
        BY <1>11 DEF RecordState
    <2>2. QED  BY <1>1, <1>11, <2>1 DEF RecordState, main, maildir, kernel, Held
<1>12. CASE AnswerSignal
    BY <1>1, <1>12 DEF AnswerSignal, recorder, tables, maildir, kernel, Held
<1>13. CASE AnswerOverflow
    BY <1>1, <1>13 DEF AnswerOverflow, recorder, tables, maildir, kernel, Held
<1>14. CASE Keep
    BY <1>1, <1>14 DEF Keep, recorder, tables, maildir, kernel, Held
<1>15. CASE Reschedule
    BY <1>4, <1>15 DEF Reschedule, recorder, tables, maildir, Held
<1>16. CASE RescheduleFails
    BY <1>4, <1>16 DEF RescheduleFails, recorder, tables, maildir, Held
<1>17. CASE PeriodicRescan
    BY <1>1, <1>17 DEF PeriodicRescan, recorder, tables, maildir, kernel, Held
<1>18. CASE BeginWalk
    BY <1>1, <1>18 DEF BeginWalk, recorder, tables, maildir, kernel, Held
<1>19. CASE EndRefreshWalk
    BY <1>1, <1>19 DEF EndRefreshWalk, RecordWalk, WalkOver, recorder, maildir, kernel, Held
<1>20. CASE EndWalk
    <2>1. held' \in {held, NoStamp} /\ acked' \in {acked, held, walkStamp}
        BY <1>20 DEF EndWalk, WalkCompleted, Newer
    <2>2. QED  BY <1>1, <1>20, <2>1 DEF EndWalk, RecordWalk, WalkOver, maildir, kernel, Held
<1>21. CASE WalkFails
    BY <1>1, <1>21 DEF WalkFails, WalkOver, recorder, tables, maildir, kernel, Held
<1>22. CASE StartIndexer
    BY <1>1, <1>22 DEF StartIndexer, tables, maildir, Held
<1>23. CASE CrashIndexer
    <2>1. QueuedStamps' = {}
        BY <1>23 DEF CrashIndexer, QueuedStamps
    <2>2. QED  BY <1>23, <2>1 DEF CrashIndexer, tables, maildir, Held
<1>24. ASSUME NEW m \in Messages, Index(m)
       PROVE  Disk /\ QueuedStamps' \subseteq QueuedStamps /\ Same
    BY <1>1, <1>24 DEF Index, main, recorder, tables, maildir, kernel, Held
<1>25. QED
    BY <1>5, <1>6, <1>7, <1>8, <1>9, <1>10, <1>11, <1>12, <1>13, <1>14, <1>15, <1>16, <1>17,
       <1>18, <1>19, <1>20, <1>21, <1>22, <1>23, <1>24 DEF Watcher, MainThread

\* A step of the indexer keeps the shell's invariant.
LEMMA IndexerShell ==
    ASSUME TypeOK, ShellInv, Watcher \/ MainThread, UNCHANGED mbsync,
           bounds'.attempts = bounds.attempts
    PROVE  ShellInv'
<1> USE DEF mbsync
<1>1. /\ UNCHANGED <<stamp, status>> /\ QueuedStamps' \subseteq QueuedStamps
      /\ {walkStamp', held', acked', row'.acked, walked'} \subseteq Held \cup {stamp, NoStamp}
    BY IndexerHolds
<1>2. Held' \subseteq Held \cup {stamp, NoStamp}
    BY <1>1 DEF Held
<1>3. Past' \subseteq Past
    <2>1. Named' = Named
        BY <1>1 DEF Named, Successes
    <2>2. Stamps' \subseteq Stamps
        BY <1>1, <1>2 DEF Stamps
    <2>3. QED  BY <2>1, <2>2 DEF Past
<1>4. ShellOrder' /\ NumbersBounded'
    BY <1>1 DEF ShellInv, ShellOrder, NumbersBounded, Done, Ended, Counted, RecordsWithin
<1>5. RecordsAgree' /\ Allocated'
    BY <1>1 DEF ShellInv, RecordsAgree, Allocated
<1>6. StampIsLatest'
    <2>1. \A s \in Held' : s.gen <= stamp.gen /\ s.attempt <= stamp.attempt
        BY <1>2, Numbers DEF ShellInv, StampIsLatest, NoStamp
    <2>2. QED  BY <1>1, <2>1 DEF StampIsLatest
<1>7. Ordered(Past)' /\ FloorsHold'
    BY <1>1, <1>3 DEF ShellInv, Ordered, FloorsHold
<1>8. QED  BY <1>4, <1>5, <1>6, <1>7 DEF ShellInv

-----------------------------------------------------------------------------
(* Failures.                                                               *)

\* What a delivered success or a recovered failure says of the acknowledged sync:
\* it is as late as the outcome, or later than it.
LEMMA DeliveredIsAcked ==
    ASSUME TypeOK, ShellInv
    PROVE  /\ FailureRecovered => acked.attempt > status.terminal.attempt
           /\ status.terminal.ok /\ SuccessDelivered
                 => acked.attempt >= status.terminal.attempt
<1> DEFINE t == status.terminal
           s == status.success
<1>1. acked \in Past /\ acked.gen \in Nat /\ acked.attempt \in Nat
    BY PastType DEF Past, Stamps, Held
<1>2. \A x \in Past : t.attempt # 0 /\ t.gen # NoGen /\ x.gen > t.gen => x.attempt > t.attempt
    BY DEF ShellInv, FloorsHold
<1>3. t.ok => s = t
    BY DEF ShellInv, RecordsAgree, Coherent
<1>4. FailureRecovered => acked.attempt > t.attempt
    BY <1>1, <1>2 DEF FailureRecovered
<1>5. t.ok /\ SuccessDelivered => acked.attempt >= t.attempt
    <2>1. SuccessDelivered => /\ s.attempt # 0
                              /\ \/ s.gen # NoGen /\ acked.gen > s.gen
                                 \/ acked.attempt = s.attempt
        BY DEF SuccessDelivered
    <2>2. QED  BY <1>1, <1>2, <1>3, <2>1, Numbers
<1>6. QED  BY <1>4, <1>5

\* What a read of the status file leaves of a failure: no less than there was, or a
\* later sync is acknowledged.
LEMMA ObservedIsTracked ==
    ASSUME TypeOK, ShellInv, NEW k \in Attempts, FailureOf(k)
    PROVE  /\ FailureOf(Observed(k))
           /\ k <= Observed(k) \/ k < acked.attempt
<1> DEFINE t == status.terminal
<1>1. /\ k \in Nat /\ t.attempt \in Nat /\ acked.attempt \in Nat
    BY Numbers, PastType, MaildirAssumption DEF Attempts, Past, Stamps, Held
<1>2. k <= t.attempt /\ (k # 0 /\ k = t.attempt => ~t.ok)
    BY DEF FailureOf
<1>3. CASE Observed(k) = k
    BY <1>1, <1>3
<1>4. CASE Observed(k) = t.attempt /\ ~t.ok
    BY <1>1, <1>2, <1>4 DEF FailureOf
<1>5. CASE Observed(k) = 0 /\ (FailureRecovered \/ (t.ok /\ SuccessDelivered))
    <2>1. FailureOf(Observed(k))
        BY <1>1, <1>5 DEF FailureOf
    <2>2. k <= 0 \/ k < acked.attempt
        BY <1>1, <1>2, <1>5, DeliveredIsAcked
    <2>3. QED  BY <1>5, <2>1, <2>2
<1>6. QED  BY <1>3, <1>4, <1>5 DEF Observed

\* The acknowledged sync only gets later while the indexer runs.
LEMMA AckedGrows ==
    ASSUME TypeOK, ShellInv, Watcher \/ MainThread
    PROVE  acked'.attempt >= acked.attempt \/ pc' = "down"
<1>1. /\ {walkStamp, held, acked} \cup QueuedStamps \subseteq Past
      /\ \A s \in Past : s.gen \in Nat /\ s.attempt \in Nat
    BY PastType DEF Past, Stamps, Held
<1>2. ASSUME NEW s \in Past, NEW t \in Past
      PROVE  /\ Newer(s, t) \in Past
             /\ Newer(s, t).attempt >= t.attempt
    BY <1>1, <1>2 DEF Newer, ShellInv, Ordered
<1>3. CASE UNCHANGED acked
    BY <1>1, <1>3
<1>4. CASE HandleStamp
    <2>1. Head(events).of \in QueuedStamps
        <3>1. events # <<>> /\ Head(events) = events[1] /\ Len(events) >= 1
              /\ events[1].kind = "stamp"
            BY <1>4, HandledEvent DEF HandleStamp
        <3>2. 1 \in DOMAIN events
            BY <3>1 DEF TypeOK, MaildirType
        <3>3. QED  BY <3>1, <3>2 DEF QueuedStamps
    <2>2. acked' = acked \/ acked' = Newer(Head(events).of, acked)
        BY <1>4 DEF HandleStamp, AcknowledgeWatched
    <2>3. QED  BY <1>1, <1>2, <2>1, <2>2
<1>5. CASE EndWalk
    <2>1. \/ acked' = Newer(walkStamp, acked)
          \/ acked' = Newer(held, Newer(walkStamp, acked))
        BY <1>5 DEF EndWalk, WalkCompleted
    <2>2. CASE acked' = Newer(walkStamp, acked)
        BY <1>1, <1>2, <2>2
    <2>3. CASE acked' = Newer(held, Newer(walkStamp, acked))
        <3> DEFINE x == Newer(walkStamp, acked)
        <3>1. x \in Past /\ x.attempt >= acked.attempt
            BY <1>1, <1>2
        <3> HIDE DEF x
        <3>2. acked'.attempt >= x.attempt /\ acked' \in Past
            BY <1>1, <1>2, <2>3, <3>1 DEF x
        <3>3. QED  BY <1>1, <3>1, <3>2
    <2>4. QED  BY <2>1, <2>2, <2>3
<1>6. CASE CrashIndexer
    BY <1>6 DEF CrashIndexer, Goto
<1>7. CASE Watcher
    BY <1>3, <1>4, <1>7
       DEF Watcher, HandleFile, HandleDir, HandleMarker, OverflowSeen, ReadCollection, recorder
<1>8. CASE MainThread
    BY <1>3, <1>5, <1>6, <1>8
       DEF MainThread, RecordState, AnswerSignal, AnswerOverflow, Keep, Reschedule,
           RescheduleFails, PeriodicRescan, BeginWalk, EndRefreshWalk, WalkFails,
           StartIndexer, Index, recorder
<1>9. QED  BY <1>7, <1>8

\* The steps of the indexer by what they do to a failure it holds.
LEMMA FailureCases ==
    ASSUME Watcher \/ MainThread
    PROVE  /\ \/ RecordState
              \/ UNCHANGED row /\ unrecovered' = Observed(unrecovered)
                   /\ UNCHANGED <<pc, acked>> /\ Up
              \/ StartIndexer
              \/ CrashIndexer
              \/ UNCHANGED <<row, unrecovered>> /\ Up
<1>1. CASE Watcher
    BY <1>1 DEF Watcher, HandleFile, HandleDir, HandleMarker, HandleStamp, OverflowSeen,
                ReadCollection, AtHead, main, recorder, tables
<1>2. CASE MainThread
    BY <1>2 DEF MainThread, AnswerSignal, AnswerOverflow, Keep, Reschedule, RescheduleFails,
                PeriodicRescan, BeginWalk, EndRefreshWalk, EndWalk, WalkFails, Index,
                main, recorder, tables, Up
<1>3. QED  BY <1>1, <1>2

\* A step of the indexer keeps track of the failures, and the row honest.
LEMMA IndexerFailures ==
    ASSUME TypeOK, ShellInv, FailuresTracked, RowIsHonest, Watcher \/ MainThread
    PROVE  FailuresTracked' /\ RowIsHonest'
<1> DEFINE t == status.terminal
<1>1. UNCHANGED status
    BY IndexerHolds
<1>2. /\ unrecovered \in Attempts /\ row.unrecovered \in Attempts
      /\ unrecovered \in Nat /\ row.unrecovered \in Nat /\ acked.attempt \in Nat
    BY PastType, MaildirAssumption DEF TypeOK, RecorderType, Attempts, Past, Stamps, Held
<1>3. /\ FailureOf(unrecovered) /\ FailureOf(row.unrecovered)
      /\ Up => row.unrecovered <= unrecovered \/ row.unrecovered < acked.attempt
    BY DEF FailuresTracked
<1>4. ASSUME NEW k, FailureOf(k)  PROVE FailureOf(k)'
    BY <1>1, <1>4 DEF FailureOf
<1>5. CASE RecordState
    <2>1. unrecovered' = Observed(unrecovered) /\ row'.unrecovered = unrecovered'
          /\ row'.acked = acked /\ acked' = acked /\ row'.terminal = t.attempt
          /\ row'.undelivered = (WellFormed(status) /\ t.ok /\ ~SuccessDelivered)
        BY <1>5 DEF RecordState
    <2>2. FailureOf(Observed(unrecovered)) /\ Observed(unrecovered) \in Nat
        BY <1>2, <1>3, ObservedIsTracked, ObservedAttempt, MaildirAssumption DEF Attempts
    <2>3. FailuresTracked'
        BY <1>1, <2>1, <2>2 DEF FailuresTracked, FailureOf
    <2>4. WellFormed(status)
        BY DEF ShellInv, RecordsAgree, Coherent
    <2>5. CASE t.ok
        BY <2>1, <2>3, <2>4, <2>5, DeliveredIsAcked DEF RowIsHonest
    <2>6. CASE ~t.ok /\ t.attempt # 0
        <3>1. FailureRecovered => acked.attempt >= t.attempt
            BY <1>2, DeliveredIsAcked, Numbers
        <3>2. Observed(unrecovered) # 0 \/ FailureRecovered
            BY <2>4, <2>6 DEF Observed
        <3>3. QED  BY <2>1, <2>3, <3>1, <3>2 DEF RowIsHonest
    <2>7. CASE t.attempt = 0
        BY <1>2, <2>1, <2>3, <2>7 DEF RowIsHonest
    <2>8. QED  BY <2>5, <2>6, <2>7
<1>6. CASE UNCHANGED row
    <2>1. RowIsHonest'
        BY <1>6 DEF RowIsHonest
    <2>2. CASE unrecovered' = Observed(unrecovered) /\ UNCHANGED <<pc, acked>> /\ Up
        <3>1. FailureOf(Observed(unrecovered)) /\ Observed(unrecovered) \in Nat
              /\ (unrecovered <= Observed(unrecovered) \/ unrecovered < acked.attempt)
            BY <1>2, <1>3, ObservedIsTracked, ObservedAttempt, MaildirAssumption DEF Attempts
        <3>2. row.unrecovered <= unrecovered' \/ row.unrecovered < acked.attempt
            BY <1>2, <1>3, <2>2, <3>1
        <3>3. QED  BY <1>1, <1>3, <1>6, <2>1, <2>2, <3>1, <3>2 DEF FailuresTracked, FailureOf
    <2>3. CASE StartIndexer
        <3>1. unrecovered' = Observed(row.unrecovered) /\ acked' = acked
            BY <2>3 DEF StartIndexer
        <3>2. FailureOf(Observed(row.unrecovered))
              /\ (row.unrecovered <= Observed(row.unrecovered) \/ row.unrecovered < acked.attempt)
            BY <1>2, <1>3, ObservedIsTracked
        <3>3. QED  BY <1>1, <1>3, <1>6, <2>1, <3>1, <3>2 DEF FailuresTracked, FailureOf
    <2>4. CASE CrashIndexer
        <3>1. unrecovered' = 0 /\ pc' = "down"
            BY <2>4 DEF CrashIndexer, Goto
        <3>2. QED
            BY <1>1, <1>3, <1>6, <2>1, <3>1, Numbers DEF FailuresTracked, FailureOf, Up
    <2>5. CASE UNCHANGED unrecovered /\ Up
        <3>1. Up' => row.unrecovered <= unrecovered \/ row.unrecovered < acked'.attempt
            <4>1. acked'.attempt \in Nat
                <5>1. acked' \in Stamp
                    BY IndexerHolds, PastType, Numbers DEF Held
                <5>2. QED  BY <5>1, MaildirAssumption DEF Stamp, Attempts
            <4>2. QED  BY <1>2, <1>3, <2>5, <4>1, AckedGrows DEF Up
        <3>2. QED  BY <1>1, <1>3, <1>6, <2>1, <2>5, <3>1 DEF FailuresTracked, FailureOf
    <2>6. QED
        BY <1>5, <2>1, <2>2, <2>3, <2>4, <2>5, FailureCases
<1>7. QED
    BY <1>5, <1>6, FailureCases DEF StartIndexer, CrashIndexer, tables

\* A step of the shell only publishes later outcomes.
LEMMA SyncFailures ==
    ASSUME TypeOK, ShellInv, FailuresTracked, RowIsHonest, Sync, UNCHANGED indexer
    PROVE  FailuresTracked' /\ RowIsHonest'
<1>1. UNCHANGED <<pc, acked, unrecovered, row>>
    BY DEF indexer, main, recorder, tables
<1>2. unrecovered \in Nat /\ row.unrecovered \in Nat
    BY MaildirAssumption DEF TypeOK, RecorderType, Attempts
<1>3. \/ status'.terminal = status.terminal
      \/ status'.terminal.attempt \in Nat /\ status'.terminal.attempt > status.terminal.attempt
    <2>1. CASE BeginAttempt
        <3>1. status' \in {status, mem}
            BY <2>1, PublishKeeps DEF BeginAttempt
        <3>2. QED  BY <3>1, Numbers DEF ShellInv, RecordsAgree
    <2>2. CASE Works \/ Stops
        BY <2>2 DEF Works, Stops
    <2>3. CASE Allocate \/ WriteStamp \/ StartShell
        BY <2>3 DEF Allocate, WriteStamp, StartShell, maildir
    <2>4. ASSUME NEW ok \in BOOLEAN, NEW gen \in Generations \cup {NoGen}, Ends(ok, gen)
          PROVE  \/ status'.terminal = status.terminal
                 \/ /\ status'.terminal.attempt \in Nat
                    /\ status'.terminal.attempt > status.terminal.attempt
        <3>1. mem'.terminal.attempt > status.terminal.attempt
            BY <2>4, OutcomeCoherent DEF ShellInv, RecordsAgree
        <3>2. mem'.terminal.attempt = attempt /\ status' \in {status, mem'}
            BY <2>4 DEF Ends, Outcome
        <3>3. QED  BY <3>1, <3>2, Numbers
    <2>5. QED  BY <2>1, <2>2, <2>3, <2>4, SyncCases DEF ShellInv
<1>4. ASSUME NEW k \in Nat, FailureOf(k)
      PROVE  k <= status'.terminal.attempt /\ (k # 0 /\ k = status'.terminal.attempt => ~status'.terminal.ok)
    BY <1>3, <1>4, Numbers DEF FailureOf
<1>5. FailuresTracked'
    BY <1>1, <1>2, <1>4 DEF FailuresTracked, FailureOf, Up
<1>6. RowIsHonest'
    BY <1>1 DEF RowIsHonest
<1>7. QED  BY <1>5, <1>6

-----------------------------------------------------------------------------
(* The mail, as the shell delivers it.                                     *)

\* What a step of the shell does to the queue and the watch: it adds to the one at
\* most, and leaves the other.
LEMMA SyncQueue ==
    ASSUME TypeOK, Sync
    PROVE  /\ UNCHANGED <<watching, watched>>
           /\ events \in Seq(Event) /\ events' \in Seq(Event) /\ Len(events') >= Len(events)
           /\ \A i \in 1..Len(events) : events'[i] = events[i]
           /\ UNCHANGED delivered \/ \E m \in Messages : DeliverMail(m)
<1>1. events \in Seq(Event) /\ Len(events) \in Nat /\ bounds.mail \subseteq Messages
    <2>1. events \in Seq(Event) /\ Len(events) \in Nat
        BY DEF TypeOK, MaildirType
    <2>2. bounds.mail \subseteq Messages
        BY BoundsShape DEF TypeOK, MaildirType, OfScenario
    <2>3. QED  BY <2>1, <2>2
<1>2. ASSUME NEW e \in Event, e # Overflow, NEW heard, Announce(e, heard)
      PROVE  /\ events' \in Seq(Event) /\ Len(events') >= Len(events)
             /\ \A i \in 1..Len(events) : events'[i] = events[i]
    BY <1>1, <1>2, AnnouncedQueue
<1>3. ASSUME NEW f \in {FolderOf[m] : m \in bounds.mail}, CreateFolder(f)
      PROVE  /\ events' \in Seq(Event) /\ Len(events') >= Len(events)
             /\ \A i \in 1..Len(events) : events'[i] = events[i]
             /\ UNCHANGED <<watching, watched, delivered>>
    <2>1. f \in Folders
        BY <1>1, MaildirAssumption
    <2>2. QED  BY <1>2, <1>3, <2>1, AnnouncedEvents DEF CreateFolder
<1>4. ASSUME NEW m \in bounds.mail, DeliverMail(m)
      PROVE  /\ events' \in Seq(Event) /\ Len(events') >= Len(events)
             /\ \A i \in 1..Len(events) : events'[i] = events[i]
             /\ UNCHANGED <<watching, watched>> /\ m \in Messages
    BY <1>1, <1>2, <1>4, AnnouncedEvents DEF DeliverMail
<1>5. CASE SignalRepair
    <2>1. /\ events' \in Seq(Event) /\ Len(events') >= Len(events)
          /\ \A i \in 1..Len(events) : events'[i] = events[i]
        BY <1>1, <1>2, <1>5, AnnouncedEvents DEF SignalRepair
    <2>2. QED  BY <1>1, <1>5, <2>1 DEF SignalRepair, maildir
<1>6. CASE WriteStamp
    <2>1. stamp' \in Stamp /\ Announce(StampEvent(stamp'), watching)
        BY <1>6 DEF WriteStamp, Stamp, TypeOK, MbsyncType
    <2>2. /\ events' \in Seq(Event) /\ Len(events') >= Len(events)
          /\ \A i \in 1..Len(events) : events'[i] = events[i]
        BY <1>2, <2>1, AnnouncedEvents
    <2>3. QED  BY <1>1, <1>6, <2>2 DEF WriteStamp
<1>7. CASE UNCHANGED kernel /\ UNCHANGED delivered
    BY <1>1, <1>7 DEF kernel
<1>8. CASE \/ BeginAttempt \/ EndMbsync \/ RecordFailure \/ Allocate \/ AllocationFails
           \/ StampFails \/ RecordSuccess \/ StopShell \/ KillShell \/ LoseState \/ StartShell
    <2>1. UNCHANGED kernel /\ UNCHANGED delivered
        BY <1>8
           DEF BeginAttempt, EndMbsync, RecordFailure, Allocate, AllocationFails, StampFails,
               RecordSuccess, StopShell, KillShell, LoseState, StartShell, maildir
    <2>2. QED  BY <1>7, <2>1
<1>9. QED  BY <1>1, <1>3, <1>4, <1>5, <1>6, <1>8 DEF Sync

\* A folder with mail exists, and is open once a sync with that mail is stamped.
LEMMA SyncFolders ==
    ASSUME TypeOK, ShellInv, FoldersKnown, Sync, UNCHANGED indexer
    PROVE  FoldersKnown'
<1> DEFINE Delivered == \A m \in Messages : delivered[m] # 0 => FolderOf[m] \in made
           Stamped == \A m \in Messages : delivered[m] \in 1..stamp.attempt => FolderOf[m] \in open
           Opened == shell = "allocated" \/ (shell \in {"repaired", "ready"} /\ succeeded)
                        => open = made
           Begun == \A m \in Messages : delivered[m] <= begun
<1>1. /\ UNCHANGED <<known, pc, watching, watched>>
      /\ known \subseteq open /\ (watching => known \subseteq watched) /\ (pc = "down" => ~watching)
    BY SyncQueue DEF indexer, main, refresher, FoldersKnown
<1>2. ASSUME open \subseteq open', Delivered', Stamped', Opened', Begun'
      PROVE  FoldersKnown'
    BY <1>1, <1>2 DEF FoldersKnown
<1>3. /\ open \subseteq made /\ begun \in Nat /\ stamp.attempt \in Nat
      /\ \A m \in Messages : delivered[m] \in Nat
      /\ delivered \in [Messages -> Attempts]
    <2>1. open \subseteq made /\ delivered \in [Messages -> Attempts]
        BY DEF TypeOK, MaildirType
    <2>2. Attempts \subseteq Nat
        BY MaildirAssumption DEF Attempts
    <2>3. QED  BY <2>1, <2>2, Numbers
<1>4. Delivered /\ Stamped /\ Opened /\ Begun
    BY DEF FoldersKnown
<1>5. ASSUME UNCHANGED <<delivered, open, made, stamp>>, begun' \in Nat, begun' >= begun,
             Opened' \/ shell' \notin {"repaired", "ready", "allocated"}
      PROVE  FoldersKnown'
    BY <1>2, <1>3, <1>4, <1>5
<1>6. ASSUME NEW f \in {FolderOf[m] : m \in bounds.mail}, CreateFolder(f)
      PROVE  FoldersKnown'
    <2>1. made \subseteq made' /\ shell' = "syncing"
          /\ UNCHANGED <<delivered, open, stamp, begun>>
        BY <1>6 DEF CreateFolder, mbsync
    <2>2. QED  BY <1>2, <1>4, <2>1
<1>7. ASSUME NEW m \in Messages, DeliverMail(m)
      PROVE  FoldersKnown'
    <2>1. /\ shell = "syncing" /\ shell' = shell /\ FolderOf[m] \in made
          /\ delivered' = [delivered EXCEPT ![m] = attempt]
          /\ UNCHANGED <<open, made, stamp, begun>>
        BY <1>7 DEF DeliverMail, mbsync
    <2>2. attempt = begun /\ stamp.attempt < attempt
        BY <2>1, Numbers DEF ShellInv, ShellOrder, NumbersBounded, Done, Running
    <2>3. \A n \in Messages : delivered'[n] = IF n = m THEN attempt ELSE delivered[n]
        BY <1>3, <2>1
    <2>4. Delivered' /\ Begun' /\ Opened'
        BY <1>3, <1>4, <2>1, <2>2, <2>3
    <2>5. Stamped'
        BY <1>3, <1>4, <2>1, <2>2, <2>3, Numbers
    <2>6. QED  BY <1>2, <2>1, <2>4, <2>5
<1>8. CASE EndMbsync
    <2>1. /\ shell' = "repaired" /\ open \subseteq open'
          /\ succeeded' => open' = made
          /\ UNCHANGED <<delivered, made, stamp, begun>>
        BY <1>3, <1>8 DEF EndMbsync
    <2>2. QED  BY <1>2, <1>4, <2>1
<1>9. CASE WriteStamp
    <2>1. shell = "allocated" /\ shell' = "stamped" /\ UNCHANGED <<delivered, made, open, begun>>
        BY <1>9 DEF WriteStamp
    <2>2. Stamped'
        BY <1>3, <1>4, <2>1
    <2>3. QED  BY <1>2, <1>4, <2>1, <2>2
<1>10. CASE SignalRepair \/ Allocate
    BY <1>3, <1>4, <1>5, <1>10 DEF SignalRepair, Allocate, maildir
<1>11. CASE BeginAttempt
    BY <1>3, <1>5, <1>11 DEF BeginAttempt
<1>12. CASE \/ RecordFailure \/ AllocationFails \/ StampFails \/ RecordSuccess
            \/ StopShell \/ KillShell \/ LoseState \/ StartShell
    <2>1. shell' \in {"idle", "down"}
        BY <1>12
           DEF RecordFailure, AllocationFails, StampFails, RecordSuccess, StopShell, KillShell,
               LoseState, StartShell
    <2>2. UNCHANGED <<delivered, open, made, stamp, begun>>
        BY <1>12
           DEF RecordFailure, AllocationFails, StampFails, RecordSuccess, StopShell, KillShell,
               LoseState, StartShell, maildir
    <2>3. QED  BY <1>3, <1>5, <2>1, <2>2
<1>13. QED
    <2>1. bounds.mail \subseteq Messages
        BY BoundsShape DEF TypeOK, MaildirType, OfScenario
    <2>2. QED  BY <2>1, <1>6, <1>7, <1>8, <1>9, <1>10, <1>11, <1>12 DEF Sync

\* A step of the shell keeps what is said of the mail: what it delivers is later
\* than every stamp, and its event is queued before the next one.
LEMMA SyncMail ==
    ASSUME TypeOK, ShellInv, MailInv, Sync, UNCHANGED indexer
    PROVE  MailInv'
<1> USE DEF indexer, main, refresher, recorder, tables, mail
<1>1. /\ UNCHANGED <<watching, watched>>
      /\ events \in Seq(Event) /\ events' \in Seq(Event) /\ Len(events') >= Len(events)
      /\ Len(events) \in Nat /\ Len(events') \in Nat
      /\ \A i \in 1..Len(events) : events'[i] = events[i]
    BY SyncQueue
<1>2. FoldersKnown'
    BY SyncFolders DEF MailInv
<1>3. \A m \in Messages :
          /\ Owes(m)' = Owes(m) /\ Excused(m)' = Excused(m)
    BY <1>1 DEF Owes, Excused, Recovering, RecoveryPending, WillFind, Unwatched, Clears
<1>4. ASSUME NEW m \in Messages, NEW n \in Nat, NEW k \in Nat, Ahead(m, n), n <= k
      PROVE  Ahead(m, k)'
    <2>1. PICK j \in 1..n : j <= Len(events) /\ events[j] \in {FileEvent(m), Overflow}
        BY <1>4 DEF Ahead
    <2>2. j \in 1..k /\ j <= Len(events') /\ events'[j] = events[j]
        BY <1>1, <1>4, <2>1
    <2>3. QED  BY <2>1, <2>2 DEF Ahead
<1>5. \A m \in Messages : delivered[m] \in Nat
    BY MaildirAssumption DEF TypeOK, MaildirType, Attempts
<1>6. \A s \in Held : s.attempt <= stamp.attempt /\ s.attempt \in Nat
    BY PastType DEF ShellInv, StampIsLatest, Past, Stamps
<1>7. ASSUME NEW m \in Messages, Missing(m)', delivered'[m] = delivered[m]
      PROVE  Missing(m)
    BY <1>7 DEF Missing
<1>8. ASSUME NEW m \in Messages, Missing(m), NEW n \in Nat, n >= Len(events)
      PROVE  Ahead(m, n)' \/ Excused(m)'
    <2>1. Ahead(m, Len(events)) \/ Excused(m)
        BY <1>8 DEF MailInv, MissingIsHeard
    <2>2. QED  BY <1>1, <1>3, <1>4, <1>8, <2>1
<1>9. ASSUME NEW m \in Messages, Missing(m), NEW i \in 1..Len(events'),
             events'[i].kind = "stamp", delivered[m] <= events'[i].of.attempt
      PROVE  Ahead(m, i - 1)' \/ Excused(m)'
    <2>1. CASE i <= Len(events)
        <3>1. i \in 1..Len(events) /\ events'[i] = events[i] /\ i - 1 \in Nat
            BY <1>1, <2>1
        <3>2. Ahead(m, i - 1) \/ Excused(m)
            BY <1>9, <3>1 DEF MailInv, StampsFollowMail
        <3>3. QED  BY <1>3, <1>4, <3>1, <3>2
    <2>2. CASE i > Len(events)
        <3>1. i - 1 \in Nat /\ i - 1 >= Len(events)
            BY <1>1, <2>2
        <3>2. QED  BY <1>8, <1>9, <3>1
    <2>3. QED  BY <1>1, <2>1, <2>2
<1>10. CASE UNCHANGED delivered
    <2>1. \A m \in Messages : Missing(m)' => Missing(m)
        BY <1>7, <1>10
    <2>2. MissingIsHeard'
        BY <1>1, <1>8, <2>1 DEF MissingIsHeard
    <2>3. StampsFollowMail'
        BY <1>9, <1>10, <2>1 DEF StampsFollowMail
    <2>4. HeldIsFound' /\ AckedIsOwed' /\ WalkFinds' /\ WalkedFound'
        BY <1>3, <1>10, <2>1 DEF MailInv, HeldIsFound, AckedIsOwed, WalkFinds, WalkedFound
    <2>5. QED  BY <1>2, <2>2, <2>3, <2>4 DEF MailInv
<1>11. ASSUME NEW d \in Messages, DeliverMail(d)
       PROVE  MailInv'
    <2>1. /\ shell = "syncing" /\ delivered' = [delivered EXCEPT ![d] = attempt]
          /\ Announce(FileEvent(d), watching /\ FolderOf[d] \in watched)
        BY <1>11 DEF DeliverMail
    <2>2. /\ delivered'[d] = attempt
          /\ \A m \in Messages : m # d => delivered'[m] = delivered[m]
        BY <2>1 DEF TypeOK, MaildirType
    <2>3. stamp.attempt < attempt
        BY <2>1, Numbers DEF ShellInv, ShellOrder, NumbersBounded, Done, Running
    <2>4. \A s \in Held : ~(delivered'[d] <= s.attempt)
        BY <1>6, <2>2, <2>3, Numbers
    <2>5. \A m \in Messages : m # d /\ Missing(m)' => Missing(m)
        BY <1>7, <2>2
    <2>6. /\ \A i \in 1..Len(events') : i > Len(events) => events'[i] \in {FileEvent(d), Overflow}
          /\ watching /\ FolderOf[d] \in watched
                => \E i \in 1..Len(events') : events'[i] \in {FileEvent(d), Overflow}
        BY <2>1, AnnouncedEvents, AnnouncedQueue
    <2>7. Ahead(d, Len(events))' \/ Excused(d)'
        <3>1. CASE watching /\ FolderOf[d] \in watched
            <4>1. PICK i \in 1..Len(events') : events'[i] \in {FileEvent(d), Overflow}
                BY <2>6, <3>1
            <4>2. QED  BY <1>1, <4>1 DEF Ahead
        <3>2. CASE ~watching
            BY <1>3, <3>2 DEF Excused, WillFind
        <3>3. CASE watching /\ FolderOf[d] \notin watched
            <4>1. FolderOf[d] \notin known
                BY <3>3 DEF MailInv, FoldersKnown
            <4>2. QED  BY <1>3, <4>1 DEF Excused, Unwatched
        <3>4. QED  BY <3>1, <3>2, <3>3
    <2>8. MissingIsHeard'
        BY <1>1, <1>8, <2>5, <2>7 DEF MissingIsHeard
    <2>9. StampsFollowMail'
        <3>1. ASSUME NEW m \in Messages, NEW i \in 1..Len(events'), Missing(m)',
                     events'[i].kind = "stamp", delivered'[m] <= events'[i].of.attempt
              PROVE  Ahead(m, i - 1)' \/ Excused(m)'
            <4>1. CASE m # d
                BY <1>9, <2>2, <2>5, <3>1, <4>1
            <4>2. CASE m = d
                <5>1. events'[i] \notin {FileEvent(d), Overflow}
                    BY <3>1 DEF FileEvent, Overflow
                <5>2. i \in 1..Len(events) /\ events'[i] = events[i]
                    BY <1>1, <2>6, <5>1
                <5>3. events[i].of \in Held
                    BY <1>1, <3>1, <5>2 DEF Held, QueuedStamps
                <5>4. QED  BY <2>4, <3>1, <4>2, <5>2, <5>3
            <4>3. QED  BY <4>1, <4>2
        <3>2. QED  BY <3>1 DEF StampsFollowMail
    <2>10. HeldIsFound' /\ AckedIsOwed'
        <3>1. held \in Held /\ acked \in Held /\ row.acked \in Held
            BY DEF Held
        <3>2. QED  BY <1>3, <2>2, <2>4, <2>5, <3>1 DEF MailInv, HeldIsFound, AckedIsOwed
    <2>11. WalkFinds' /\ WalkedFound'
        <3>1. walkStamp \in Held /\ walked \in Held
            BY DEF Held
        <3>2. attempt > walked.attempt
            BY <1>6, <2>3, <3>1, Numbers
        <3>3. QED  BY <2>2, <2>4, <2>5, <3>1, <3>2 DEF MailInv, WalkFinds, WalkedFound
    <2>12. QED  BY <1>2, <2>8, <2>9, <2>10, <2>11 DEF MailInv
<1>12. QED  BY <1>10, <1>11, SyncQueue

-----------------------------------------------------------------------------
(* The mail, as the indexer hears of it.                                   *)

\* The indexer only watches folders it can read.
LEMMA IndexerFolders ==
    ASSUME TypeOK, FoldersKnown, Watcher \/ MainThread, UNCHANGED mbsync
    PROVE  FoldersKnown'
<1>1. /\ UNCHANGED <<delivered, made, open, stamp, shell, succeeded, begun>>
    BY IndexerHolds DEF mbsync
<1>2. ASSUME known' \subseteq open, watching' => known' \subseteq watched', pc' = "down" => ~watching'
      PROVE  FoldersKnown'
    BY <1>1, <1>2 DEF FoldersKnown
<1>3. known \subseteq open /\ (watching => known \subseteq watched) /\ (pc = "down" => ~watching)
    BY DEF FoldersKnown
<1>4. ASSUME UNCHANGED <<known, watching>>, watched \subseteq watched',
             pc' = pc \/ pc' # "down"
      PROVE  FoldersKnown'
    BY <1>2, <1>3, <1>4
<1>5. CASE Watcher
    BY <1>4, <1>5
       DEF Watcher, HandleFile, HandleDir, HandleMarker, HandleStamp, OverflowSeen,
           ReadCollection, main, refresher, kernel
<1>6. CASE \/ RecordState \/ AnswerSignal \/ AnswerOverflow \/ Keep \/ PeriodicRescan
           \/ BeginWalk \/ EndRefreshWalk \/ EndWalk \/ WalkFails
    <2>1. UNCHANGED <<known, watching, watched>>
        BY <1>6 DEF RecordState, AnswerSignal, AnswerOverflow, Keep, PeriodicRescan, BeginWalk,
                    EndRefreshWalk, EndWalk, WalkFails, refresher, kernel
    <2>2. pc' = pc \/ pc' # "down"
        BY <1>6 DEF RecordState, AnswerSignal, AnswerOverflow, Keep, PeriodicRescan, BeginWalk,
                    EndRefreshWalk, EndWalk, WalkFails, AfterWalk, Goto, main
    <2>3. QED  BY <1>4, <2>1, <2>2
<1>7. ASSUME NEW m \in Messages, Index(m)  PROVE FoldersKnown'
    BY <1>4, <1>7 DEF Index, main, refresher, kernel
<1>8. CASE Reschedule \/ StartIndexer
    BY <1>1, <1>2, <1>8 DEF Reschedule, StartIndexer, Goto
<1>9. CASE RescheduleFails
    BY <1>1, <1>2, <1>3, <1>9 DEF RescheduleFails, Goto
<1>10. CASE CrashIndexer
    BY <1>1, <1>2, <1>10 DEF CrashIndexer
<1>11. QED  BY <1>5, <1>6, <1>7, <1>8, <1>9, <1>10 DEF MainThread

\* The mail of a sync that is held is in a folder that is open.
LEMMA HeldIsOpen ==
    ASSUME TypeOK, ShellInv, FoldersKnown, NEW m \in Messages, delivered[m] # 0,
           NEW s \in Held \cup {stamp}, delivered[m] <= s.attempt
    PROVE  FolderOf[m] \in open
<1>1. s.attempt <= stamp.attempt /\ s.attempt \in Nat /\ stamp.attempt \in Nat
    BY PastType, Numbers DEF ShellInv, StampIsLatest, Past, Stamps
<1>2. delivered[m] \in Nat
    BY MaildirAssumption DEF TypeOK, MaildirType, Attempts
<1>3. delivered[m] \in 1..stamp.attempt
    BY <1>1, <1>2
<1>4. QED  BY <1>3 DEF FoldersKnown

\* A step that leaves the queue and the mail still missing as they are, and excuses
\* what it excused; one that excuses every message; one that handles an event.
LEMMA KeptIsHeard ==
    ASSUME MailInv, UNCHANGED <<delivered, events>>,
           \A m \in Messages : Missing(m)' => Missing(m) /\ (Excused(m) => Excused(m)')
    PROVE  MissingIsHeard' /\ StampsFollowMail'
<1>1. \A m \in Messages, n \in Nat : Ahead(m, n)' = Ahead(m, n)
    BY DEF Ahead
<1>2. QED  BY <1>1 DEF MailInv, MissingIsHeard, StampsFollowMail, Ahead

LEMMA ExcusedIsHeard ==
    ASSUME \A m \in Messages : Missing(m)' => Excused(m)'
    PROVE  MissingIsHeard' /\ StampsFollowMail'
    BY DEF MissingIsHeard, StampsFollowMail

LEMMA HandledIsHeard ==
    ASSUME TypeOK, MailInv, NEW kind, AtHead(kind), Handled, UNCHANGED delivered,
           \A m \in Messages :
               Missing(m)' => /\ Missing(m) /\ events[1] \notin {FileEvent(m), Overflow}
                              /\ Excused(m) => Excused(m)'
    PROVE  MissingIsHeard' /\ StampsFollowMail'
<1>1. /\ Len(events) \in Nat /\ Len(events) >= 1 /\ Len(events') = Len(events) - 1
      /\ \A i \in 1..Len(events') : events'[i] = events[i + 1]
    BY HandledEvent DEF TypeOK, MaildirType
<1>2. ASSUME NEW m \in Messages, Missing(m)', NEW n \in 1..Len(events), Ahead(m, n)
      PROVE  Ahead(m, n - 1)'
    <2>1. PICK j \in 1..n : j <= Len(events) /\ events[j] \in {FileEvent(m), Overflow}
        BY <1>2 DEF Ahead
    <2>2. j # 1
        BY <1>2, <2>1
    <2>3. j - 1 \in 1..(n - 1) /\ j - 1 \in 1..Len(events') /\ (j - 1) + 1 = j
        BY <1>1, <2>1, <2>2
    <2>4. events'[j - 1] = events[j] /\ j - 1 <= Len(events')
        BY <1>1, <2>3
    <2>5. QED  BY <2>1, <2>3, <2>4 DEF Ahead
<1>3. ASSUME NEW m \in Messages, Missing(m)'
      PROVE  Ahead(m, Len(events))' \/ Excused(m)'
    <2>1. Ahead(m, Len(events)) \/ Excused(m)
        BY <1>3 DEF MailInv, MissingIsHeard
    <2>2. QED  BY <1>1, <1>2, <1>3, <2>1
<1>4. ASSUME NEW m \in Messages, Missing(m)', NEW i \in 1..Len(events'),
             events'[i].kind = "stamp", delivered[m] <= events'[i].of.attempt
      PROVE  Ahead(m, i - 1)' \/ Excused(m)'
    <2>1. i + 1 \in 1..Len(events) /\ events'[i] = events[i + 1] /\ (i + 1) - 1 = i
        BY <1>1
    <2>2. Ahead(m, i) \/ Excused(m)
        <3> DEFINE k == i + 1
        <3>1. k \in 1..Len(events) /\ events[k].kind = "stamp"
              /\ delivered[m] <= events[k].of.attempt /\ k - 1 = i
            BY <1>4, <2>1
        <3> HIDE DEF k
        <3>2. Ahead(m, k - 1) \/ Excused(m)
            BY <1>4, <3>1 DEF MailInv, StampsFollowMail
        <3>3. QED  BY <3>1, <3>2
    <2>3. i \in 1..Len(events)
        BY <1>1
    <2>4. QED  BY <1>2, <1>4, <2>2, <2>3
<1>5. MissingIsHeard'
    BY <1>3 DEF MissingIsHeard
<1>6. StampsFollowMail'
    BY <1>4 DEF StampsFollowMail
<1>7. QED  BY <1>5, <1>6

\* The watcher's steps keep what is said of the mail.
LEMMA WatcherMail ==
    ASSUME TypeOK, ShellInv, MailInv, Watcher, UNCHANGED mbsync
    PROVE  MailInv'
<1> USE DEF main, refresher, recorder, tables, mail
<1>1. FoldersKnown'
    BY IndexerFolders DEF MailInv
<1>2. UNCHANGED delivered
    BY IndexerHolds
<1>3. /\ pc = "walking" => \A m \in Messages :
            Missing(m) /\ delivered[m] <= walkStamp.attempt => m \in found
      /\ \A m \in Messages : Missing(m) => delivered[m] > walked.attempt
    BY DEF MailInv, WalkFinds, WalkedFound
<1>4. ASSUME UNCHANGED <<pc, walkStamp, found, walked>>,
             \A m \in Messages : Missing(m)' => Missing(m)
      PROVE  WalkFinds' /\ WalkedFound'
    BY <1>2, <1>3, <1>4 DEF WalkFinds, WalkedFound
<1>5. ASSUME UNCHANGED <<held, pc, why, walkFrom, overflows, found, acked, row>>,
             \A m \in Messages : Missing(m)' => Missing(m) /\ (Owes(m) => Owes(m)')
      PROVE  HeldIsFound' /\ AckedIsOwed'
    BY <1>2, <1>5 DEF MailInv, HeldIsFound, AckedIsOwed
<1>6. ASSUME NEW kind, AtHead(kind), Handled
      PROVE  events[1] = Head(events) /\ events[1] \in Event /\ events[1].kind = kind
    BY <1>6, HandledEvent
<1>7. CASE HandleFile
    <2>1. /\ UNCHANGED <<main, refresher, completed, recorder, tables, watching>>
          /\ queued' = queued \cup ({Head(events).of} \ indexed) /\ UNCHANGED indexed
          /\ AtHead("file") /\ Handled
        BY <1>7 DEF HandleFile, Enqueue
    <2>2. \A m \in Messages : Missing(m)' => Missing(m) /\ m # Head(events).of
        BY <1>2, <2>1 DEF Missing
    <2>3. \A m \in Messages : Excused(m)' = Excused(m) /\ Owes(m)' = Owes(m)
        BY <1>2, <2>1 DEF Excused, Owes, Recovering, RecoveryPending, WillFind, Unwatched, Clears
    <2>4. events[1] = Head(events) /\ events[1] = FileEvent(Head(events).of)
        BY <1>6, <2>1, EventKinds
    <2>5. \A m \in Messages :
              m # Head(events).of => events[1] \notin {FileEvent(m), Overflow}
        BY <2>4 DEF FileEvent, Overflow
    <2>6. MissingIsHeard' /\ StampsFollowMail'
        BY <1>2, <2>1, <2>2, <2>3, <2>5, HandledIsHeard
    <2>7. QED  BY <1>1, <1>4, <1>5, <2>1, <2>2, <2>3, <2>6 DEF MailInv
<1>8. CASE HandleDir
    <2>1. /\ UNCHANGED <<main, known, rewatched, completed, recorder, tables, mail, watching>>
          /\ created' = TRUE /\ AtHead("dir") /\ Handled
        BY <1>8 DEF HandleDir
    <2>2. \A m \in Messages : Missing(m)' => Missing(m)
        BY <1>2, <2>1 DEF Missing
    <2>3. \A m \in Messages : Excused(m)' /\ (Owes(m) => Owes(m)')
        BY <2>1 DEF Excused, Owes, WillFind, Unwatched, Clears
    <2>4. MissingIsHeard' /\ StampsFollowMail'
        BY <2>3, ExcusedIsHeard
    <2>5. QED  BY <1>1, <1>4, <1>5, <2>1, <2>2, <2>3, <2>4 DEF MailInv
<1>9. CASE HandleMarker
    <2>1. /\ UNCHANGED <<main, refresher, recorder, tables, mail, watching>>
          /\ completed' = TRUE /\ AtHead("marker") /\ Handled
        BY <1>9 DEF HandleMarker
    <2>2. \A m \in Messages : Missing(m)' => Missing(m)
        BY <1>2, <2>1 DEF Missing
    <2>3. \A m \in Messages : Excused(m)' = Excused(m) /\ (Owes(m) => Owes(m)')
        BY <1>2, <2>1 DEF Excused, Owes, Recovering, RecoveryPending, WillFind, Unwatched, Clears
    <2>4. \A m \in Messages : events[1] \notin {FileEvent(m), Overflow}
        BY <1>6, <2>1 DEF FileEvent, Overflow
    <2>5. MissingIsHeard' /\ StampsFollowMail'
        BY <1>2, <2>1, <2>2, <2>3, <2>4, HandledIsHeard
    <2>6. QED  BY <1>1, <1>4, <1>5, <2>1, <2>2, <2>3, <2>5 DEF MailInv
<1>10. CASE HandleStamp
    <2> DEFINE s == events[1].of
    <2>1. /\ UNCHANGED <<main, refresher, overflows, covered, tables, mail, watching>>
          /\ completed' = TRUE /\ AtHead("stamp") /\ Handled
          /\ AcknowledgeWatched(Head(events).of)
        BY <1>10 DEF HandleStamp
    <2>2. \A m \in Messages : Missing(m)' => Missing(m)
        BY <1>2, <2>1 DEF Missing
    <2>3. \A m \in Messages : Excused(m)' = Excused(m) /\ (Owes(m) => Owes(m)')
        BY <1>2, <2>1 DEF Excused, Owes, Recovering, RecoveryPending, WillFind, Unwatched, Clears
    <2>4. \A m \in Messages : events[1] \notin {FileEvent(m), Overflow}
        BY <1>6, <2>1 DEF FileEvent, Overflow
    <2>5. MissingIsHeard' /\ StampsFollowMail'
        BY <1>2, <2>1, <2>2, <2>3, <2>4, HandledIsHeard
    <2>6. ASSUME NEW m \in Messages, Missing(m), delivered[m] <= s.attempt
          PROVE  Excused(m) /\ Excused(m)'
        <3>1. 1 \in 1..Len(events) /\ events[1].kind = "stamp"
            BY <2>1, HandledEvent DEF TypeOK, MaildirType
        <3>2. Ahead(m, 1 - 1) \/ Excused(m)
            BY <2>6, <3>1 DEF MailInv, StampsFollowMail
        <3>3. ~Ahead(m, 1 - 1)
            BY DEF Ahead
        <3>4. QED  BY <2>3, <3>2, <3>3
    <2>7. \A m \in Messages : Missing(m) /\ delivered[m] <= s.attempt
                                => Recovering(m) \/ Owes(m)'
        BY <2>1, <2>6, <2>3 DEF Excused, Owes, WillFind, Unwatched, Clears
    <2>8. CASE RecoveryPending
        <3>1. held' = s /\ UNCHANGED acked
            BY <1>6, <2>1, <2>8 DEF AcknowledgeWatched
        <3>2. HeldIsFound'
            BY <1>2, <2>1, <2>2, <2>7, <3>1 DEF HeldIsFound, Recovering
        <3>3. AckedIsOwed'
            BY <1>2, <2>1, <2>2, <2>3, <3>1 DEF MailInv, AckedIsOwed
        <3>4. QED  BY <1>1, <1>4, <2>1, <2>2, <2>5, <3>2, <3>3 DEF MailInv
    <2>9. CASE ~RecoveryPending
        <3>1. UNCHANGED held /\ acked' \in {s, acked}
            BY <1>6, <2>1, <2>9 DEF AcknowledgeWatched, Newer
        <3>2. HeldIsFound'
            BY <1>2, <2>1, <2>2, <2>3, <3>1 DEF MailInv, HeldIsFound
        <3>3. AckedIsOwed'
            BY <1>2, <2>1, <2>2, <2>3, <2>7, <2>9, <3>1 DEF MailInv, AckedIsOwed, Recovering
        <3>4. QED  BY <1>1, <1>4, <2>1, <2>2, <2>5, <3>2, <3>3 DEF MailInv
    <2>10. QED  BY <2>8, <2>9
<1>11. CASE OverflowSeen
    <2>1. /\ UNCHANGED <<main, refresher, completed, covered, held, acked, tables, mail, watching>>
          /\ overflows' = overflows + 1
        BY <1>11 DEF OverflowSeen
    <2>2. overflows \in Nat /\ covered \in 0..overflows /\ walkFrom \in 0..overflows
        BY MaildirAssumption DEF TypeOK, RecorderType
    <2>3. overflows' > covered' /\ walkFrom' # overflows'
        BY <2>1, <2>2
    <2>4. \A m \in Messages : Missing(m)' => Missing(m)
        BY <1>2, <2>1 DEF Missing
    <2>5. \A m \in Messages : Excused(m)' /\ Owes(m)' = Owes(m)
        BY <2>1, <2>3
           DEF Excused, Owes, Recovering, RecoveryPending, WillFind, Unwatched, Clears
    <2>6. MissingIsHeard' /\ StampsFollowMail'
        BY <2>5, ExcusedIsHeard
    <2>7. HeldIsFound'
        BY <2>3 DEF HeldIsFound
    <2>8. AckedIsOwed'
        BY <1>2, <2>1, <2>4, <2>5 DEF MailInv, AckedIsOwed
    <2>9. QED  BY <1>1, <1>4, <2>1, <2>4, <2>6, <2>7, <2>8 DEF MailInv
<1>12. CASE ReadCollection
    <2>1. /\ UNCHANGED <<main, refresher, completed, overflows, covered, held, acked>>
          /\ UNCHANGED <<tables, mail, watching, events>>
        BY <1>12 DEF ReadCollection, kernel
    <2>2. \A m \in Messages : Missing(m)' => Missing(m)
        BY <1>2, <2>1 DEF Missing
    <2>3. \A m \in Messages : Excused(m)' = Excused(m) /\ Owes(m)' = Owes(m)
        BY <2>1 DEF Excused, Owes, Recovering, RecoveryPending, WillFind, Unwatched, Clears
    <2>4. MissingIsHeard' /\ StampsFollowMail'
        BY <1>2, <2>1, <2>2, <2>3, KeptIsHeard
    <2>5. QED  BY <1>1, <1>4, <1>5, <2>1, <2>2, <2>3, <2>4 DEF MailInv
<1>13. QED  BY <1>7, <1>8, <1>9, <1>10, <1>11, <1>12 DEF Watcher

\* While no walk is under way only what is acknowledged asks something of a step
\* that records no walk.
LEMMA NoWalkUnderWay ==
    ASSUME MailInv, UNCHANGED <<delivered, walked>>, pc' # "walking",
           \A m \in Messages : Missing(m)' => Missing(m)
    PROVE  HeldIsFound' /\ WalkFinds' /\ WalkedFound'
    BY DEF MailInv, HeldIsFound, WalkFinds, WalkedFound

\* Nothing acknowledged is owed less than before.
LEMMA OwedIsKept ==
    ASSUME MailInv, UNCHANGED <<delivered, acked>>, row'.acked \in {acked, row.acked},
           \A m \in Messages :
               /\ Missing(m)' => Missing(m)
               /\ /\ Missing(m)' /\ Owes(m)
                  /\ delivered[m] <= acked.attempt \/ delivered[m] <= row.acked.attempt
                  => Owes(m)'
    PROVE  AckedIsOwed'
    BY DEF MailInv, AckedIsOwed

\* The main loop's steps between walks keep what is said of the mail.
LEMMA LoopMail ==
    ASSUME TypeOK, ShellInv, MailInv, UNCHANGED mbsync,
           \/ RecordState \/ AnswerSignal \/ AnswerOverflow \/ Keep \/ Reschedule
           \/ RescheduleFails \/ PeriodicRescan \/ StartIndexer \/ CrashIndexer
           \/ \E m \in Messages : Index(m)
    PROVE  MailInv'
<1> USE DEF main, refresher, recorder, tables, mail, kernel, Goto
<1>1. FoldersKnown'
    BY IndexerFolders DEF MailInv, MainThread
<1>2. UNCHANGED delivered
    BY IndexerHolds DEF MainThread
<1>3. ASSUME UNCHANGED walked, pc' # "walking", row'.acked \in {acked, row.acked}, acked' = acked,
             UNCHANGED events,
             \A m \in Messages : /\ Missing(m)' => Missing(m)
                                 /\ Excused(m) => Excused(m)'
                                 /\ Owes(m) => Owes(m)'
      PROVE  MailInv'
    <2>1. HeldIsFound' /\ WalkFinds' /\ WalkedFound'
        BY <1>2, <1>3, NoWalkUnderWay
    <2>2. AckedIsOwed'
        BY <1>2, <1>3, OwedIsKept
    <2>3. MissingIsHeard' /\ StampsFollowMail'
        BY <1>2, <1>3, KeptIsHeard
    <2>4. QED  BY <1>1, <2>1, <2>2, <2>3 DEF MailInv
<1>4. ASSUME UNCHANGED <<walked, queued, indexed>>, pc' # "walking",
             \A m \in Messages : WillFind(m)'
      PROVE  MailInv'
    <2>1. \A m \in Messages : Missing(m)' => Missing(m)
        BY <1>2, <1>4 DEF Missing
    <2>2. HeldIsFound' /\ WalkFinds' /\ WalkedFound'
        BY <1>2, <1>4, <2>1, NoWalkUnderWay
    <2>3. \A m \in Messages : Excused(m)' /\ Owes(m)'
        BY <1>4 DEF Excused, Owes
    <2>4. MissingIsHeard' /\ StampsFollowMail'
        BY <2>3, ExcusedIsHeard
    <2>5. AckedIsOwed'
        BY <2>3 DEF AckedIsOwed
    <2>6. QED  BY <1>1, <2>2, <2>4, <2>5 DEF MailInv
<1>5. CASE RecordState
    <2>1. /\ UNCHANGED <<main, refresher, completed, overflows, covered, held, acked, walked, mail,
                         kernel>>
          /\ pc = "loop" /\ row'.acked = acked
        BY <1>5 DEF RecordState
    <2>2. \A m \in Messages : /\ Missing(m)' = Missing(m) /\ Excused(m)' = Excused(m)
                              /\ Owes(m)' = Owes(m)
        BY <1>2, <2>1
           DEF Missing, Excused, Owes, Recovering, RecoveryPending, WillFind, Unwatched, Clears
    <2>3. QED  BY <1>3, <2>1, <2>2
<1>6. ASSUME NEW n \in Messages, Index(n)  PROVE MailInv'
    <2>1. /\ UNCHANGED <<main, refresher, completed, recorder, tables, kernel>>
          /\ pc = "loop" /\ n \in queued
          /\ queued' = queued \ {n} /\ indexed' = indexed \cup {n}
        BY <1>6 DEF Index
    <2>2. \A m \in Messages : Missing(m)' => Missing(m)
        BY <1>2, <2>1 DEF Missing
    <2>3. \A m \in Messages : Excused(m)' = Excused(m) /\ Owes(m)' = Owes(m)
        BY <2>1
           DEF Excused, Owes, Recovering, RecoveryPending, WillFind, Unwatched, Clears
    <2>4. QED  BY <1>3, <2>1, <2>2, <2>3
<1>7. CASE AnswerSignal
    <2>1. /\ UNCHANGED <<found, walkFrom, refresher, recorder, tables, mail, kernel>>
          /\ pc = "loop" /\ pc' = "refresh" /\ why' = "signal"
        BY <1>7 DEF AnswerSignal
    <2>2. \A m \in Messages : Missing(m)' => Missing(m)
        BY <1>2, <2>1 DEF Missing
    <2>3. \A m \in Messages : (Excused(m) => Excused(m)') /\ (Owes(m) => Owes(m)')
        BY <2>1
           DEF Excused, Owes, Recovering, RecoveryPending, WillFind, Unwatched, Clears
    <2>4. QED  BY <1>3, <2>1, <2>2, <2>3
<1>8. CASE AnswerOverflow
    <2>1. /\ UNCHANGED <<known, rewatched, completed, recorder, tables, mail, kernel>>
          /\ pc' = "refresh" /\ created' = TRUE
        BY <1>8 DEF AnswerOverflow
    <2>2. \A m \in Messages : Missing(m)' => Missing(m)
        BY <1>2, <2>1 DEF Missing
    <2>3. \A m \in Messages : Excused(m)' /\ Owes(m)'
        BY <2>1 DEF Excused, Owes, Unwatched
    <2>4. QED  BY <1>3, <2>1, <2>2, <2>3
<1>9. CASE Keep
    <2>1. /\ UNCHANGED <<found, walkFrom, refresher, completed, recorder, tables, mail, kernel>>
          /\ pc = "refresh" /\ open \subseteq known /\ created = FALSE /\ watching = TRUE
          /\ rewatched => pc' = "walk"
          /\ pc' # "walking"
        BY <1>9 DEF Keep, NothingToWatch, TypeOK, MaildirType, RecorderType
    <2>2. \A m \in Messages : Missing(m)' => Missing(m)
        BY <1>2, <2>1 DEF Missing
    <2>3. \A m \in Messages : (Excused(m) => Excused(m)') /\ (WillFind(m) => WillFind(m)')
        BY <2>1 DEF Excused, Recovering, RecoveryPending, WillFind, Unwatched, Clears
    <2>4. ASSUME NEW m \in Messages, Missing(m), Owes(m),
                 delivered[m] <= acked.attempt \/ delivered[m] <= row.acked.attempt
          PROVE  Owes(m)'
        <3>1. FolderOf[m] \in known
            BY <2>1, <2>4, HeldIsOpen DEF MailInv, Missing, Held
        <3>2. WillFind(m)
            BY <2>1, <2>4, <3>1 DEF Owes, Unwatched
        <3>3. QED  BY <2>3, <3>2 DEF Owes
    <2>5. HeldIsFound' /\ WalkFinds' /\ WalkedFound'
        BY <1>2, <2>1, <2>2, NoWalkUnderWay
    <2>6. AckedIsOwed'
        BY <1>2, <2>1, <2>2, <2>4, OwedIsKept
    <2>7. MissingIsHeard' /\ StampsFollowMail'
        BY <1>2, <2>1, <2>2, <2>3, KeptIsHeard
    <2>8. QED  BY <1>1, <2>5, <2>6, <2>7 DEF MailInv
<1>10. CASE Reschedule
    BY <1>4, <1>10 DEF Reschedule, WillFind, Clears
<1>11. CASE RescheduleFails
    BY <1>4, <1>11 DEF RescheduleFails, WillFind
<1>12. CASE PeriodicRescan
    <2>1. /\ UNCHANGED <<found, walkFrom, refresher, completed, recorder, tables, mail, kernel>>
          /\ pc = "loop" /\ pc' = "walk"
        BY <1>12 DEF PeriodicRescan
    <2>2. \A m \in Messages : Missing(m)' => Missing(m)
        BY <1>2, <2>1 DEF Missing
    <2>3. \A m \in Messages : (Excused(m) => Excused(m)') /\ (Owes(m) => Owes(m)')
        BY <2>1
           DEF Excused, Owes, Recovering, RecoveryPending, WillFind, Unwatched, Clears
    <2>4. QED  BY <1>3, <2>1, <2>2, <2>3
<1>13. CASE StartIndexer
    BY <1>4, <1>13 DEF StartIndexer, WillFind
<1>14. CASE CrashIndexer
    BY <1>4, <1>14 DEF CrashIndexer, WillFind
<1>15. QED
    BY <1>5, <1>6, <1>7, <1>8, <1>9, <1>10, <1>11, <1>12, <1>13, <1>14

\* The steps of a walk keep what is said of the mail.
LEMMA WalkMail ==
    ASSUME TypeOK, ShellInv, MailInv, UNCHANGED mbsync,
           BeginWalk \/ EndRefreshWalk \/ EndWalk \/ WalkFails
    PROVE  MailInv'
<1> USE DEF main, refresher, recorder, tables, mail, kernel, Goto
<1>1. FoldersKnown'
    BY IndexerFolders DEF MailInv, MainThread
<1>2. UNCHANGED <<delivered, open>>
    BY IndexerHolds DEF MainThread
<1>3. /\ pc = "walking" => \A m \in Messages :
            Missing(m) /\ delivered[m] <= walkStamp.attempt => m \in found
      /\ \A m \in Messages : Missing(m) => delivered[m] > walked.attempt
      /\ \A m \in Messages :
            /\ Missing(m)
            /\ delivered[m] <= acked.attempt \/ delivered[m] <= row.acked.attempt
            => Owes(m)
    BY DEF MailInv, WalkFinds, WalkedFound, AckedIsOwed
<1>4. CASE BeginWalk
    <2>1. /\ walkStamp' = stamp /\ walkFrom' = overflows
          /\ found' = {m \in Messages : delivered[m] # 0 /\ FolderOf[m] \in open}
          /\ pc = "walk" /\ pc' = "walking"
          /\ UNCHANGED <<why, refresher, completed, recorder, tables, mail, kernel>>
        BY <1>4 DEF BeginWalk
    <2>2. \A m \in Messages : Missing(m)' = Missing(m)
        BY <1>2, <2>1 DEF Missing
    <2>3. ASSUME NEW m \in Messages, Missing(m), m \in found'
          PROVE  (Excused(m) => Excused(m)') /\ (Owes(m) => Owes(m)')
        BY <2>1, <2>3
           DEF Excused, Owes, Recovering, RecoveryPending, WillFind, Unwatched, Clears
    <2>4. ASSUME NEW m \in Messages, Missing(m), m \notin found'
          PROVE  Excused(m)'
        <3>1. FolderOf[m] \notin known
            BY <2>1, <2>4 DEF Missing, MailInv, FoldersKnown
        <3>2. QED  BY <2>1, <3>1 DEF Excused, Unwatched
    <2>5. ASSUME NEW m \in Messages, Missing(m), NEW s \in Held \cup {stamp},
                 delivered[m] <= s.attempt
          PROVE  m \in found'
        <3>1. FolderOf[m] \in open
            BY <2>5, HeldIsOpen DEF Missing, MailInv
        <3>2. QED  BY <2>1, <2>5, <3>1 DEF Missing
    <2>6. MissingIsHeard' /\ StampsFollowMail'
        BY <1>2, <2>1, <2>2, <2>3, <2>4, KeptIsHeard
    <2>7. held \in Held /\ acked \in Held /\ row.acked \in Held
        BY DEF Held
    <2>8. HeldIsFound' /\ WalkFinds' /\ WalkedFound'
        BY <1>2, <1>3, <2>1, <2>2, <2>5, <2>7 DEF HeldIsFound, WalkFinds, WalkedFound
    <2>9. AckedIsOwed'
        BY <1>2, <2>1, <2>2, <2>3, <2>5, <2>7, OwedIsKept
    <2>10. QED  BY <1>1, <2>6, <2>8, <2>9 DEF MailInv
<1>5. ASSUME pc = "walking", queued' = queued \cup (found \ indexed), UNCHANGED indexed,
             walked' = walkStamp
      PROVE  /\ \A m \in Messages : Missing(m)' => Missing(m) /\ m \notin found
             /\ WalkedFound'
    <2>1. \A m \in Messages : Missing(m)' => Missing(m) /\ m \notin found
        BY <1>2, <1>5 DEF Missing
    <2>2. \A m \in Messages : delivered[m] \in Nat /\ walkStamp.attempt \in Nat
        BY MaildirAssumption DEF TypeOK, MaildirType, RecorderType, Stamp, Attempts
    <2>3. \A m \in Messages : Missing(m)' => delivered[m] > walkStamp.attempt
        BY <1>3, <1>5, <2>1, <2>2
    <2>4. QED  BY <1>2, <1>5, <2>1, <2>3 DEF WalkedFound
<1>6. CASE EndRefreshWalk
    <2>1. /\ pc = "walking" /\ why \in {"signal", "periodic", "overflow"} /\ pc' # "walking"
          /\ queued' = queued \cup (found \ indexed) /\ UNCHANGED indexed /\ walked' = walkStamp
          /\ UNCHANGED <<known, created, completed, recorder, row, kernel>>
        BY <1>6 DEF EndRefreshWalk, Enqueue, RecordWalk
    <2>2. /\ \A m \in Messages : Missing(m)' => Missing(m) /\ m \notin found
          /\ WalkedFound'
        BY <1>5, <2>1
    <2>3. ASSUME NEW m \in Messages, m \notin found
          PROVE  (Excused(m) => Excused(m)') /\ (Owes(m) => Owes(m)')
        BY <2>1, <2>3
           DEF Excused, Owes, Recovering, RecoveryPending, WillFind, Unwatched, Clears
    <2>4. MissingIsHeard' /\ StampsFollowMail'
        BY <1>2, <2>1, <2>2, <2>3, KeptIsHeard
    <2>5. AckedIsOwed'
        BY <1>2, <2>1, <2>2, <2>3, OwedIsKept
    <2>6. HeldIsFound' /\ WalkFinds'
        BY <2>1 DEF HeldIsFound, WalkFinds
    <2>7. QED  BY <1>1, <2>2, <2>4, <2>5, <2>6 DEF MailInv
<1>7. CASE EndWalk
    <2>1. /\ pc = "walking" /\ why \in {"startup", "rescan", "recovery"} /\ pc' # "walking"
          /\ queued' = queued \cup (found \ indexed) /\ UNCHANGED indexed /\ walked' = walkStamp
          /\ UNCHANGED <<refresher, completed, overflows, row, kernel>>
          /\ WalkCompleted
        BY <1>7 DEF EndWalk, Enqueue, RecordWalk, AfterWalk
    <2>2. /\ \A m \in Messages : Missing(m)' => Missing(m) /\ m \notin found
          /\ WalkedFound'
        BY <1>5, <2>1
    <2>3. /\ overflows \in Nat /\ covered \in 0..overflows /\ walkFrom \in 0..overflows
          /\ \A m \in Messages : delivered[m] \in Nat
        BY MaildirAssumption DEF TypeOK, MaildirType, RecorderType, Attempts
    <2>4. ASSUME NEW m \in Messages, m \notin found
          PROVE  Owes(m) => Owes(m)'
        BY <2>1, <2>4 DEF Owes, WillFind, Unwatched, Clears
    <2>5. ASSUME NEW m \in Messages, m \notin found, Recovering(m)
          PROVE  Recovering(m)'
        <3>1. overflows > covered /\ ~(why = "recovery" /\ walkFrom = overflows)
            BY <2>1, <2>5 DEF Recovering, RecoveryPending
        <3>2. overflows' > covered'
            BY <2>1, <2>3, <3>1 DEF WalkCompleted
        <3>3. QED  BY <2>1, <3>2 DEF Recovering, RecoveryPending
    <2>6. ASSUME NEW m \in Messages, m \notin found, Excused(m)
          PROVE  Excused(m)'
        BY <2>1, <2>5, <2>6 DEF Excused, WillFind, Unwatched, Clears
    <2>7. MissingIsHeard' /\ StampsFollowMail'
        BY <1>2, <2>1, <2>2, <2>6, KeptIsHeard
    <2>8. \/ acked' \in {acked, walkStamp}
          \/ acked' = held /\ why = "recovery" /\ walkFrom = overflows
        BY <2>1, <2>3 DEF WalkCompleted, Newer
    <2>9. ASSUME NEW m \in Messages, Missing(m)', delivered[m] <= acked'.attempt
          PROVE  Owes(m)
        <3>1. Missing(m) /\ m \notin found
            BY <2>2, <2>9
        <3>2. CASE acked' = acked
            BY <1>3, <2>9, <3>1, <3>2
        <3>3. CASE acked' = walkStamp
            BY <1>3, <2>1, <2>9, <3>1, <3>3
        <3>4. CASE acked' = held /\ why = "recovery" /\ walkFrom = overflows
            BY <2>1, <2>9, <3>1, <3>4 DEF MailInv, HeldIsFound
        <3>5. QED  BY <2>8, <3>2, <3>3, <3>4
    <2>10. AckedIsOwed'
        BY <1>2, <1>3, <2>1, <2>2, <2>4, <2>9 DEF AckedIsOwed
    <2>11. HeldIsFound' /\ WalkFinds'
        BY <2>1 DEF HeldIsFound, WalkFinds
    <2>12. QED  BY <1>1, <2>2, <2>7, <2>10, <2>11 DEF MailInv
<1>8. CASE WalkFails
    <2>1. /\ pc = "walking" /\ why # "startup" /\ pc' # "walking"
          /\ UNCHANGED <<refresher, completed, recorder, tables, mail, kernel>>
        BY <1>8 DEF WalkFails, AfterWalk
    <2>2. \A m \in Messages : Missing(m)' = Missing(m)
        BY <1>2, <2>1 DEF Missing
    <2>3. \A m \in Messages : (Excused(m) => Excused(m)') /\ (Owes(m) => Owes(m)')
        BY <2>1
           DEF Excused, Owes, Recovering, RecoveryPending, WillFind, Unwatched, Clears
    <2>4. HeldIsFound' /\ WalkFinds' /\ WalkedFound'
        BY <1>2, <2>1, <2>2, NoWalkUnderWay
    <2>5. AckedIsOwed'
        BY <1>2, <2>1, <2>2, <2>3, OwedIsKept
    <2>6. MissingIsHeard' /\ StampsFollowMail'
        BY <1>2, <2>1, <2>2, <2>3, KeptIsHeard
    <2>7. QED  BY <1>1, <2>4, <2>5, <2>6 DEF MailInv
<1>9. QED  BY <1>4, <1>6, <1>7, <1>8

-----------------------------------------------------------------------------
(* The theorems.                                                           *)

\* The inductive invariant.
IInv ==
    /\ TypeOK /\ FaultsCounted
    /\ ShellInv
    /\ FailuresTracked /\ RowIsHonest
    /\ MailInv

LEMMA InitIInv == Init => IInv
<1> SUFFICES ASSUME Init  PROVE IInv
    OBVIOUS
<1> USE DEF Init, MaildirInit, MbsyncInit, RecorderInit
<1>1. /\ NoStamp \in Stamp /\ NoRecord \in Record /\ MaxAttempts \in Nat /\ MaxFaults \in Nat
      /\ 0 \in Attempts /\ 0 \in Generations /\ NoGen \in Int /\ NoGen < 0
    BY MaildirAssumption DEF Stamp, NoStamp, Record, NoRecord, Attempts, Generations, NoGen
<1>2. OfScenario(bounds)
    <2>1. bounds \in Scenarios
        OBVIOUS
    <2>2. bounds \in [mail : SUBSET Messages, attempts : 0..MaxAttempts,
                      kinds : SUBSET FaultKinds, faults : 0..MaxFaults]
        BY <2>1, MaildirAssumption
    <2>3. bounds = [bounds EXCEPT !.faults = bounds.faults] /\ bounds.faults \in 0..bounds.faults
        BY <1>1, <2>2
    <2>4. QED  BY <2>1, <2>3 DEF OfScenario
<1>3. bounds.attempts \in 0..MaxAttempts /\ bounds.faults \in 0..MaxFaults
    BY <1>2, BoundsShape
<1>4. MaildirType
    <2>1. events \in Seq(Event)
        BY EmptySeq
    <2>2. QED  BY <1>1, <1>2, <2>1, MaildirAssumption DEF MaildirType, OfScenario, Records
<1>5. MbsyncType
    BY <1>1 DEF MbsyncType, Records
<1>6. RecorderType
    <2>1. row \in [acked : Stamp, unrecovered : Attempts, terminal : Attempts,
                   undelivered : BOOLEAN]
        BY <1>1
    <2>2. /\ walkFrom \in 0..overflows /\ covered \in 0..overflows /\ overflows \in 0..MaxFaults
        BY <1>1
    <2>3. /\ walkStamp \in Stamp /\ held \in Stamp /\ acked \in Stamp /\ walked \in Stamp
          /\ unrecovered \in Attempts
        BY <1>1
    <2>4. QED  BY <2>1, <2>2, <2>3 DEF RecorderType
<1>7. FaultsCounted
    <2>1. OverflowsAt(events) = {}
        BY DEF OverflowsAt
    <2>2. Cardinality(OverflowsAt(events)) = 0
        BY <2>1, FS_EmptySet
    <2>3. overflows = 0 /\ bounds.faults <= MaxFaults /\ bounds.faults \in Nat
        BY <1>1, <1>3
    <2>4. QED  BY <2>2, <2>3 DEF FaultsCounted
<1>8. ShellOrder
    BY <1>3 DEF ShellOrder, Running, Settling
<1>9. NumbersBounded
    BY <1>1 DEF NumbersBounded, RecordsWithin, Done, Counted, Ended, Running, Settling,
                NoRecord, NoStamp
<1>10. RecordsAgree /\ Allocated
    BY InitialRecords DEF RecordsAgree, Allocated
<1>11. Past = {NoStamp}
    <2>1. QueuedStamps = {}
        BY DEF QueuedStamps
    <2>2. Named = {}
        BY DEF Named, Successes, NoRecord
    <2>3. QED  BY <2>1, <2>2 DEF Past, Stamps, Held
<1>12. StampIsLatest /\ Ordered(Past) /\ FloorsHold
    <2>1. Held \subseteq {NoStamp}
        BY <1>11 DEF Past, Stamps
    <2>2. QED  BY <1>11, <2>1 DEF StampIsLatest, Ordered, FloorsHold, NoStamp, NoRecord
<1>13. FailuresTracked /\ RowIsHonest
    BY DEF FailuresTracked, FailureOf, RowIsHonest, Up, NoRecord
<1>14. MailInv
    <2>1. \A m \in Messages : delivered[m] = 0 /\ ~Missing(m)
        BY DEF Missing
    <2>2. FoldersKnown
        BY <2>1 DEF FoldersKnown, NoStamp
    <2>3. QED
        BY <2>1, <2>2 DEF MailInv, MissingIsHeard, StampsFollowMail, HeldIsFound, AckedIsOwed,
                          WalkFinds, WalkedFound
<1>15. QED
    BY <1>4, <1>5, <1>6, <1>7, <1>8, <1>9, <1>10, <1>12, <1>13, <1>14 DEF IInv, TypeOK, ShellInv

\* Each step keeps it.
LEMMA NextIInv == IInv /\ [Next]_vars => IInv'
<1> SUFFICES ASSUME IInv, [Next]_vars  PROVE IInv'
    OBVIOUS
<1> USE DEF IInv
<1>1. CASE Sync /\ UNCHANGED indexer
    <2>1. TypeOK' /\ FaultsCounted' /\ bounds'.attempts = bounds.attempts
        BY <1>1, SyncTypes DEF ShellInv
    <2>2. ShellInv'
        BY <1>1, <2>1, SyncShell
    <2>3. FailuresTracked' /\ RowIsHonest'
        BY <1>1, SyncFailures
    <2>4. MailInv'
        BY <1>1, SyncMail
    <2>5. QED  BY <2>1, <2>2, <2>3, <2>4
<1>2. CASE (Watcher \/ MainThread) /\ UNCHANGED mbsync
    <2>1. TypeOK' /\ FaultsCounted' /\ bounds'.attempts = bounds.attempts
        BY <1>2, WatcherTypes, MainTypes
    <2>2. ShellInv'
        BY <1>2, <2>1, IndexerShell
    <2>3. FailuresTracked' /\ RowIsHonest'
        BY <1>2, IndexerFailures
    <2>4. MailInv'
        BY <1>2, WatcherMail, LoopMail, WalkMail DEF MainThread
    <2>5. QED  BY <2>1, <2>2, <2>3, <2>4
<1>3. CASE UNCHANGED vars
    <2> USE <1>3 DEF vars, maildir, kernel, mbsync, indexer, main, refresher, recorder, tables, mail
    <2>1. TypeOK'
        BY DEF TypeOK, MaildirType, MbsyncType, RecorderType
    <2>2. FaultsCounted'
        BY DEF FaultsCounted
    <2>3. ShellInv'
        <3>1. Held' = Held /\ Past' = Past
            BY DEF Held, Past, Stamps, Named, Successes, QueuedStamps
        <3>2. ShellOrder' /\ NumbersBounded' /\ RecordsAgree' /\ Allocated'
            BY DEF ShellInv, ShellOrder, NumbersBounded, RecordsWithin, Done, Ended, Counted,
                   RecordsAgree, Allocated
        <3>3. StampIsLatest' /\ Ordered(Past)' /\ FloorsHold'
            BY <3>1 DEF ShellInv, StampIsLatest, Ordered, FloorsHold
        <3>4. QED  BY <3>2, <3>3 DEF ShellInv
    <2>4. FailuresTracked' /\ RowIsHonest'
        BY DEF FailuresTracked, FailureOf, RowIsHonest, Up
    <2>5. MailInv'
        <3>1. FoldersKnown'
            BY DEF MailInv, FoldersKnown
        <3>2. \A m \in Messages :
                  /\ Missing(m)' = Missing(m) /\ Excused(m)' = Excused(m) /\ Owes(m)' = Owes(m)
            BY DEF Missing, Excused, Owes, Recovering, RecoveryPending, WillFind, Unwatched, Clears
        <3>3. \A m \in Messages, n \in Nat : Ahead(m, n)' = Ahead(m, n)
            BY DEF Ahead
        <3>4. MissingIsHeard' /\ StampsFollowMail'
            BY <3>2, KeptIsHeard
        <3>5. HeldIsFound' /\ AckedIsOwed' /\ WalkFinds' /\ WalkedFound'
            BY <3>2 DEF MailInv, HeldIsFound, AckedIsOwed, WalkFinds, WalkedFound
        <3>6. QED  BY <3>1, <3>4, <3>5 DEF MailInv
    <2>6. QED  BY <2>1, <2>2, <2>3, <2>4, <2>5
<1>4. QED  BY <1>1, <1>2, <1>3 DEF Next

\* The invariant holds of every run of the two processes, whatever the number of
\* attempts and the faults.
THEOREM Invariant == Spec => []IInv
<1>1. QED  BY InitIInv, NextIInv, PTL DEF Spec

\* Every variable keeps its type, and no overflow is counted that the scenario did
\* not allow.
THEOREM SyncTypeCorrect == Spec => []TypeOK
<1>1. IInv => TypeOK
    BY DEF IInv
<1>2. QED  BY <1>1, Invariant, PTL

\* PublishedIsReadable: publish_collection_status never writes a floor below the
\* success beside it, so parse_collection_status accepts what it reads.
THEOREM Published == Spec => []PublishedIsReadable
<1>1. IInv => PublishedIsReadable
    BY DEF IInv, ShellInv, RecordsAgree, Coherent, PublishedIsReadable
<1>2. QED  BY <1>1, Invariant, PTL

\* GenerationsOrderSyncs: next_success_generation never gives two syncs one
\* generation, nor a later sync a lower one, though the state volume is lost or the
\* shell is killed between the allocation and what names it.
THEOREM GenerationsOrder == Spec => []GenerationsOrderSyncs
<1>1. Known \subseteq Past
    BY DEF Known, Past, Stamps, Held, Named, QueuedStamps
<1>2. IInv => GenerationsOrderSyncs
    BY <1>1 DEF IInv, ShellInv, Ordered, GenerationsOrderSyncs
<1>3. QED  BY <1>2, Invariant, PTL

\* WalkedIsQueued: the sync a recorded walk names delivered nothing the walk left
\* out, whatever was delivered while it ran (record_ingestion_walk).
THEOREM WalkedQueued == Spec => []WalkedIsQueued
<1>1. IInv => WalkedIsQueued
    <2> SUFFICES ASSUME IInv, NEW m \in Covers(walked)
                 PROVE  m \in queued \cup indexed
        BY DEF WalkedIsQueued
    <2>1. m \in Messages /\ delivered[m] \in 1..walked.attempt /\ walked.attempt \in Nat
        BY PastType DEF IInv, Covers, Past, Stamps, Held
    <2>2. ~Missing(m)
        BY <2>1 DEF IInv, MailInv, WalkedFound
    <2>3. QED  BY <2>1, <2>2 DEF Missing
<1>2. QED  BY <1>1, Invariant, PTL

\* What is owed a walk has one on its way.
LEMMA OwesIsOwed ==
    ASSUME NEW m \in Messages, Owes(m)
    PROVE  WalkOwed
    BY DEF Owes, WillFind, WalkOwed

\* UnqueuedIsOwed: mail of an acknowledged sync is queued or indexed, or a walk is
\* on its way that will find it (acknowledge_watched, walk_completed).
THEOREM UnqueuedOwed == Spec => []UnqueuedIsOwed
<1>1. IInv => UnqueuedIsOwed
    <2> SUFFICES ASSUME IInv, NEW m \in Lagging  PROVE WalkOwed
        BY DEF UnqueuedIsOwed
    <2>1. /\ m \in Messages /\ Missing(m) /\ delivered[m] <= acked.attempt
        BY PastType DEF IInv, Lagging, Covers, Missing, Past, Stamps, Held
    <2>2. Owes(m)
        BY <2>1 DEF IInv, MailInv, AckedIsOwed
    <2>3. QED  BY <2>1, <2>2, OwesIsOwed
<1>2. QED  BY <1>1, Invariant, PTL

\* CurrentIsHonest: the row read as current (collection_reasons) has acknowledged a
\* sync as late as the last outcome recorded with it, and the mail of that sync is
\* indexed or a walk owes it.
THEOREM CurrentHonest == Spec => []CurrentIsHonest
<1>1. IInv => CurrentIsHonest
    <2> SUFFICES ASSUME IInv, Current
                 PROVE  /\ row.terminal <= row.acked.attempt
                        /\ Covers(row.acked) \subseteq indexed \/ WalkOwed
        BY DEF CurrentIsHonest
    <2>1. row.terminal <= row.acked.attempt
        BY DEF IInv, RowIsHonest, Current
    <2>2. ASSUME NEW m \in Covers(row.acked), m \notin indexed
          PROVE  WalkOwed
        <3>1. /\ m \in Messages /\ Missing(m) /\ delivered[m] <= row.acked.attempt
            BY <2>2, PastType DEF IInv, Current, Covers, Missing, Past, Stamps, Held
        <3>2. Owes(m)
            BY <3>1 DEF IInv, MailInv, AckedIsOwed
        <3>3. QED  BY <3>1, <3>2, OwesIsOwed
    <2>3. QED  BY <2>1, <2>2
<1>2. QED  BY <1>1, Invariant, PTL

\* FailureOutlivesOldSyncs: a failure in the row is cleared only with a sync later
\* than it (_failure_recovered, _success_delivered), through restarts and lost writes
\* of the status file.
THEOREM FailureOutlives == Spec => FailureOutlivesOldSyncs
<1>1. IInv /\ [Next]_vars
        => [row.unrecovered # 0 /\ row'.unrecovered = 0
              => row'.acked.attempt > row.unrecovered]_row
    <2> SUFFICES ASSUME IInv, [Next]_vars, row' # row,
                        row.unrecovered # 0, row'.unrecovered = 0
                 PROVE  row'.acked.attempt > row.unrecovered
        OBVIOUS
    <2>1. RecordState
        <3>1. CASE Sync /\ UNCHANGED indexer
            BY <3>1 DEF indexer, tables
        <3>2. CASE (Watcher \/ MainThread) /\ UNCHANGED mbsync
            BY <3>2, FailureCases DEF StartIndexer, CrashIndexer, tables
        <3>3. CASE UNCHANGED vars
            BY <3>3 DEF vars, indexer, tables
        <3>4. QED  BY <3>1, <3>2, <3>3 DEF Next
    <2>2. /\ Up /\ row'.acked = acked
          /\ row'.unrecovered = Observed(unrecovered)
        BY <2>1 DEF RecordState, Up
    <2>3. /\ unrecovered \in Attempts /\ unrecovered \in Nat /\ row.unrecovered \in Nat
          /\ acked.attempt \in Nat
        BY PastType, MaildirAssumption
           DEF IInv, TypeOK, RecorderType, Attempts, Past, Stamps, Held
    <2>4. unrecovered <= Observed(unrecovered) \/ unrecovered < acked.attempt
        BY <2>3, ObservedIsTracked DEF IInv, FailuresTracked
    <2>5. row.unrecovered <= unrecovered \/ row.unrecovered < acked.attempt
        BY <2>2 DEF IInv, FailuresTracked
    <2>6. QED  BY <2>2, <2>3, <2>4, <2>5
<1>2. QED  BY <1>1, Invariant, PTL DEF Spec, FailureOutlivesOldSyncs
=============================================================================
