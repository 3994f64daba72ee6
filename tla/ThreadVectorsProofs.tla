------------------------ MODULE ThreadVectorsProofs ------------------------
(* Proofs about ThreadVectors, for every value of its constants.               *)
EXTENDS ThreadVectors, FiniteSetTheorems, SequenceTheorems, TLAPS

\* Sets of chunks are finite, and counted by the empty set alone as none.
LEMMA ChunkSets ==
    ASSUME NEW cs \in SUBSET Chunks
    PROVE  /\ IsFiniteSet(cs) /\ Cardinality(cs) \in Nat
           /\ Cardinality(cs) = 0 <=> cs = {}
    BY ChunksAssumption, FS_Subset, FS_CardinalityType, FS_EmptySet

\* What a write of chunks does to their number.
LEMMA WriteCount ==
    ASSUME NEW cs \in SUBSET Chunks, NEW add \in SUBSET Chunks,
           NEW drop \in SUBSET cs, add \cap cs = {}
    PROVE  Cardinality((cs \ drop) \cup add)
             = Cardinality(cs) + Cardinality(add) - Cardinality(drop)
<1>1. IsFiniteSet(cs) /\ IsFiniteSet(add) /\ IsFiniteSet(drop)
    BY ChunkSets
<1>2. IsFiniteSet(cs \ drop) /\ Cardinality(cs \ drop) = Cardinality(cs) - Cardinality(drop)
    <2>1. cs \cap drop = drop
        OBVIOUS
    <2>2. QED  BY <1>1, <2>1, FS_Difference
<1>3. (cs \ drop) \cap add = {}
    OBVIOUS
<1>4. Cardinality((cs \ drop) \cup add)
        = Cardinality(cs \ drop) + Cardinality(add) - Cardinality({})
    BY <1>1, <1>2, <1>3, FS_Union
<1>5. Cardinality(cs) \in Nat /\ Cardinality(add) \in Nat /\ Cardinality(drop) \in Nat
    BY ChunkSets
<1>6. QED  BY <1>2, <1>4, <1>5, FS_EmptySet

\* A sum of chunks has the shape of a row and can be read.
LEMMA SumShape ==
    ASSUME NEW cs \in SUBSET Chunks
    PROVE  /\ SumOf(cs) \in SumRows /\ Readable(SumOf(cs))
           /\ SumOf(cs).count # 0 <=> cs # {}
           /\ SumOf(cs) \notin {Missing, Unreadable}
<1>1. Cardinality(cs) \in Nat /\ (Cardinality(cs) = 0 <=> cs = {})
    BY ChunkSets
<1>2. SumOf(cs).count = Cardinality(cs)
    BY DEF SumOf
<1>3. SumOf(cs) \in SumRows
    BY <1>1 DEF SumOf, SumRows
<1>4. Missing.count = -1 /\ Unreadable.count = -2
    BY DEF Missing, Unreadable
<1>5. QED  BY <1>1, <1>2, <1>3, <1>4 DEF Readable

\* The rows that hold no sum have the shape of one.
LEMMA OtherShapes ==
    /\ EmptySum \in SumRows /\ Missing \in SumRows /\ Unreadable \in SumRows
    /\ EmptySum = SumOf({}) /\ Readable(EmptySum) /\ EmptySum.count = 0
    /\ ~Readable(Missing) /\ ~Readable(Unreadable)
<1>1. EmptySum = SumOf({}) /\ EmptySum \in SumRows /\ Readable(EmptySum) /\ EmptySum.count = 0
    BY SumShape DEF EmptySum
<1>2. EmptySum.total \in [Chunks -> Int]
    BY <1>1 DEF SumRows
<1>3. QED  BY <1>1, <1>2 DEF Missing, Unreadable, SumRows, Readable

\* A delta applied to an exact row, or to one that cannot be read, gives the exact
\* sum of the chunks after the write.
LEMMA ApplyExact ==
    ASSUME NEW cs \in SUBSET Chunks, NEW add \in SUBSET Chunks,
           NEW drop \in SUBSET cs, add \cap cs = {},
           NEW row, Readable(row) => row = SumOf(cs)
    PROVE  ApplyDelta(row, add, drop, (cs \ drop) \cup add) = SumOf((cs \ drop) \cup add)
<1> DEFINE now == (cs \ drop) \cup add
           plus(c) == (IF c \in add THEN 1 ELSE 0) - (IF c \in drop THEN 1 ELSE 0)
           next == [total |-> [c \in Chunks |-> row.total[c] + plus(c)],
                    count |-> row.count + Cardinality(add) - Cardinality(drop)]
<1>1. CASE ~Readable(row)
    BY <1>1 DEF ApplyDelta
<1>2. CASE Readable(row)
    <2>1. row = SumOf(cs)
        BY <1>2
    <2>2. next.count = Cardinality(now)
        BY <2>1, WriteCount DEF SumOf
    <2>3. \A c \in Chunks : row.total[c] + plus(c) = (IF c \in now THEN 1 ELSE 0)
        BY <2>1 DEF SumOf
    <2>4. next.total = [c \in Chunks |-> IF c \in now THEN 1 ELSE 0]
        BY <2>3
    <2>5. next = SumOf(now)
        BY <2>2, <2>4 DEF SumOf
    <2>6. ApplyDelta(row, add, drop, now) \in {next, SumOf(now)}
        BY DEF ApplyDelta
    <2>7. QED  BY <2>5, <2>6
<1>3. QED  BY <1>1, <1>2

\* A write of chunks keeps an exact sum exact.
LEMMA EditExact ==
    ASSUME NEW cs \in SUBSET Chunks, NEW add \in SUBSET Chunks,
           NEW drop \in SUBSET cs, add \cap cs = {},
           NEW row, Readable(row) => row = SumOf(cs),
           NEW state, state = Edit([chunks |-> cs, sum |-> row], add, drop)
    PROVE  /\ state.chunks = (cs \ drop) \cup add
           /\ Readable(state.sum) => state.sum = SumOf(state.chunks)
<1>1. CASE add \cup drop = {}
    <2>1. (cs \ drop) \cup add = cs
        BY <1>1
    <2>2. QED  BY <1>1, <2>1 DEF Edit
<1>2. CASE add \cup drop # {}
    BY <1>2, ApplyExact DEF Edit
<1>3. QED  BY <1>1, <1>2

\* A write of chunks leaves a row of the shape of one, exact or not.
LEMMA EditShape ==
    ASSUME NEW cs \in SUBSET Chunks, NEW add \in SUBSET Chunks,
           NEW drop \in SUBSET cs, NEW row \in SumRows
    PROVE  LET state == Edit([chunks |-> cs, sum |-> row], add, drop)
           IN  state.sum \in SumRows
<1> DEFINE now == (cs \ drop) \cup add
           plus(c) == (IF c \in add THEN 1 ELSE 0) - (IF c \in drop THEN 1 ELSE 0)
           next == [total |-> [c \in Chunks |-> row.total[c] + plus(c)],
                    count |-> row.count + Cardinality(add) - Cardinality(drop)]
<1>1. Cardinality(add) \in Nat /\ Cardinality(drop) \in Nat
    BY ChunkSets
<1>2. next \in SumRows
    <2>1. next.count \in Int
        BY <1>1 DEF SumRows
    <2>2. next.total \in [Chunks -> Int]
        BY DEF SumRows
    <2>3. QED  BY <2>1, <2>2 DEF SumRows
<1>3. SumOf(now) \in SumRows
    BY SumShape
<1>4. ApplyDelta(row, add, drop, now) \in {next, SumOf(now)}
    BY DEF ApplyDelta
<1>5. QED  BY <1>2, <1>3, <1>4 DEF Edit

-----------------------------------------------------------------------------
\* The inductive invariant: the batch is of messages that have rows.
Batches ==
    /\ seeded \in Seq([of : known, kept : BOOLEAN])
    /\ planned \in Seq([of : known, parse : Parses, fallback : BOOLEAN])

IInv == TypeOK /\ Batches

LEMMA ThreadChunks ==
    ASSUME TypeOK, NEW t \in Threads
    PROVE  ChunksIn(stored, t) \in SUBSET Chunks
    BY DEF TypeOK, ChunksIn

\* What a plan writes and drops of its message: new chunks are not stored, dropped
\* ones are, and the attachments' writes leave the body's alone.
LEMMA PlannedWrites ==
    ASSUME TypeOK, NEW m \in known, NEW p \in Parses
    PROVE  LET cs    == ChunksIn(stored, ThreadOf[m])
               atts  == Written(p) \ {Body}
               new1  == NewIn(m, p, {Body})
               gone1 == GoneIn(m, p, {Body})
               body  == (cs \ gone1) \cup new1
               new2  == NewIn(m, p, atts)
               gone2 == GoneIn(m, p, atts) \cup Stale(m, p)
           IN  /\ new1 \in SUBSET Chunks /\ new1 \cap cs = {} /\ gone1 \in SUBSET cs
               /\ new2 \in SUBSET Chunks /\ new2 \cap body = {} /\ gone2 \in SUBSET body
               /\ \A c \in new1 \cup new2 : c.of = m
<1> DEFINE cs    == ChunksIn(stored, ThreadOf[m])
           atts  == Written(p) \ {Body}
           new1  == NewIn(m, p, {Body})
           gone1 == GoneIn(m, p, {Body})
           body  == (cs \ gone1) \cup new1
           new2  == NewIn(m, p, atts)
           gone2 == GoneIn(m, p, atts) \cup Stale(m, p)
<1>1. /\ p.texts \in [Slices -> {{}} \cup {{x} : x \in Texts}]
      /\ p.carries \subseteq Payloads /\ m \in Messages
    BY DEF Parses, TypeOK
<1>2. /\ atts \subseteq Payloads /\ occurrences[m] \subseteq Payloads
      /\ Body \notin Payloads /\ Payloads \subseteq Slices /\ Body \in Slices
    BY <1>1, MailAssumption DEF Written, TypeOK, Slices
<1>3. \A s \in Slices : p.texts[s] \subseteq Texts
    BY <1>1
<1>4. \A s \in Slices : Wanted(m, p, s) \subseteq Chunks
    BY <1>1, <1>3 DEF Wanted, Chunks
<1>5. \A s \in Slices : Held(m, s) \subseteq cs
    BY DEF Held, ChunksIn
<1>6. \A s \in Slices : \A c \in Wanted(m, p, s) : c.of = m /\ c.slice = s
    BY DEF Wanted
<1>7. \A s \in Slices : \A c \in cs \cap Wanted(m, p, s) : c \in Held(m, s)
    BY <1>6 DEF Held, ChunksIn
<1>8. new1 = Wanted(m, p, Body) \ Held(m, Body) /\ gone1 = Held(m, Body) \ Wanted(m, p, Body)
    BY DEF NewIn, GoneIn
<1>9. new1 \in SUBSET Chunks /\ new1 \cap cs = {} /\ gone1 \in SUBSET cs
    BY <1>2, <1>4, <1>5, <1>7, <1>8
<1>10. \A c \in new1 : c.of = m /\ c.slice = Body
    BY <1>2, <1>6, <1>8
<1>11. \A c \in gone1 : c.slice = Body
    BY <1>8 DEF Held
<1>12. \A c \in new2 : c \in Chunks /\ c.of = m /\ c.slice \in Payloads /\ c \notin cs
    BY <1>2, <1>4, <1>6, <1>7 DEF NewIn
<1>13. \A c \in gone2 : c \in cs /\ c.slice \in Payloads
    BY <1>2, <1>5 DEF GoneIn, Stale, Held
<1>14. new2 \in SUBSET Chunks /\ new2 \cap body = {} /\ gone2 \in SUBSET body
    BY <1>2, <1>10, <1>11, <1>12, <1>13
<1>15. QED  BY <1>9, <1>10, <1>12, <1>14

\* The writes of Phase 2c give the chunks of the thread after it, all of the same
\* thread, and an exact sum when the row before was exact or could not be read.
LEMMA RewriteExact ==
    ASSUME TypeOK, NEW m \in known, NEW p \in Parses
    PROVE  LET t == ThreadOf[m]
               state == Rewrite(m, p)
           IN  /\ state.chunks \in SUBSET Chunks
               /\ \A c \in state.chunks : ThreadOf[c.of] = t
               /\ state.sum \in SumRows
               /\ (Readable(sums[t]) => sums[t] = SumOf(ChunksIn(stored, t)))
                    => (Readable(state.sum) => state.sum = SumOf(state.chunks))
<1> DEFINE t     == ThreadOf[m]
           cs    == ChunksIn(stored, t)
           atts  == Written(p) \ {Body}
           new1  == NewIn(m, p, {Body})
           gone1 == GoneIn(m, p, {Body})
           body  == Edit([chunks |-> cs, sum |-> sums[t]], new1, gone1)
           new2  == NewIn(m, p, atts)
           gone2 == GoneIn(m, p, atts) \cup Stale(m, p)
           state == Edit([chunks |-> body.chunks, sum |-> body.sum], new2, gone2)
<1>1. t \in Threads /\ sums[t] \in SumRows /\ cs \in SUBSET Chunks
    BY ThreadChunks DEF TypeOK, Threads
<1>2. body.chunks = (cs \ gone1) \cup new1
    BY DEF Edit
<1>3. /\ new1 \in SUBSET Chunks /\ new1 \cap cs = {} /\ gone1 \in SUBSET cs
      /\ new2 \in SUBSET Chunks /\ new2 \cap body.chunks = {}
      /\ gone2 \in SUBSET body.chunks
      /\ \A c \in new1 \cup new2 : c.of = m
    BY <1>2, PlannedWrites
<1>4. body.chunks \in SUBSET Chunks
    BY <1>1, <1>2, <1>3
<1>5. body.sum \in SumRows
    BY <1>1, <1>3, EditShape
<1>6. state.sum \in SumRows
    BY <1>3, <1>4, <1>5, EditShape
<1>7. state.chunks = (body.chunks \ gone2) \cup new2
    BY DEF Edit
<1>8. Rewrite(m, p) = state
    <2>1. Rewrite(m, p) = Edit(body, new2, gone2)
        BY DEF Rewrite, InThread
    <2>2. QED  BY <2>1 DEF Edit
<1>9. \A c \in state.chunks : ThreadOf[c.of] = t
    BY <1>2, <1>3, <1>7 DEF ChunksIn
<1>10. ASSUME Readable(sums[t]) => sums[t] = SumOf(cs)
       PROVE  Readable(state.sum) => state.sum = SumOf(state.chunks)
    <2> DEFINE row == sums[t]
    <2>1. body = Edit([chunks |-> cs, sum |-> row], new1, gone1)
        OBVIOUS
    <2>2. state = Edit([chunks |-> body.chunks, sum |-> body.sum], new2, gone2)
        OBVIOUS
    <2> HIDE DEF t, cs, new1, gone1, new2, gone2, row, body, state
    <2>3. Readable(row) => row = SumOf(cs)
        BY <1>10 DEF row
    <2>4. Readable(body.sum) => body.sum = SumOf(body.chunks)
        BY <1>1, <1>3, <2>1, <2>3, EditExact
    <2>5. QED  BY <1>3, <1>4, <2>2, <2>4, EditExact
<1>11. state.chunks \in SUBSET Chunks
    BY <1>3, <1>4, <1>7
<1>12. QED  BY <1>6, <1>8, <1>9, <1>10, <1>11

-----------------------------------------------------------------------------
VectorRows == [kind : {"none", "zero", "subject", "mean"}, of : SumRows]

LEMMA VectorShapes ==
    /\ NoVector \in VectorRows /\ Zero \in VectorRows /\ Subject \in VectorRows
    /\ \A sum \in SumRows : Mean(sum) \in VectorRows
    BY OtherShapes DEF VectorRows, NoVector, Zero, Subject, Mean

\* The sum a thread is seeded or repaired from.
LEMMA FilledShape ==
    ASSUME NEW state, state.chunks \in SUBSET Chunks, state.sum \in SumRows
    PROVE  /\ Filled(state) \in SumRows /\ Readable(Filled(state))
           /\ (Readable(state.sum) => state.sum = SumOf(state.chunks))
                => Filled(state) = SumOf(state.chunks)
    BY SumShape DEF Filled

LEMMA ThreadShape ==
    ASSUME TypeOK, NEW t \in Threads
    PROVE  /\ InThread(t).chunks = ChunksIn(stored, t)
           /\ InThread(t).chunks \in SUBSET Chunks
           /\ InThread(t).sum = sums[t] /\ sums[t] \in SumRows
    BY ThreadChunks DEF TypeOK, InThread

LEMMA SeedShape ==
    ASSUME TypeOK, NEW t \in Threads
    PROVE  /\ SeedSum(t) \in SumRows
           /\ Exact(t) /\ Members(t) # {} => SeedSum(t) = SumOf(ChunksIn(stored, t))
    BY ThreadShape, FilledShape DEF SeedSum, Exact

\* A thread without messages has no chunks.
LEMMA NoMembersNoChunks ==
    ASSUME TypeOK, NEW t \in Threads, Members(t) = {}
    PROVE  ChunksIn(stored, t) = {}
    BY DEF TypeOK, Members, ChunksIn, Chunks

LEMMA ThreadOfType == \A m \in Messages : ThreadOf[m] \in Threads
    BY DEF Threads

\* The initial state: the early threads have the mean of their chunks and no row.
LEMMA InitInv == Init => IInv
<1> SUFFICES ASSUME Init PROVE IInv
    OBVIOUS
<1>1. stored \subseteq Chunks /\ \A c \in stored : c.of \in known /\ c.slice = Body
    <2>1. (CHOOSE x \in Texts : TRUE) \in Texts
        BY MailAssumption
    <2>2. QED  BY <2>1, MailAssumption DEF Init, First, Chunks, Slices
<1>2. \A t \in Threads : ChunksIn(stored, t) \in SUBSET Chunks
    BY <1>1 DEF ChunksIn
<1>3. sums \in [Threads -> SumRows]
    BY OtherShapes DEF Init
<1>4. vector \in [Threads -> VectorRows]
    <2>1. \A t \in Threads : Mean(SumOf(ChunksIn(stored, t))) \in VectorRows
        BY <1>2, SumShape, VectorShapes
    <2>2. QED  BY <2>1, VectorShapes DEF Init
<1>5. Batches
    BY DEF Init, Batches
<1>6. /\ known \subseteq Messages /\ occurrences \in [Messages -> SUBSET Payloads]
      /\ due \in [Messages -> {"none", "new", "reparse"}]
      /\ moved \subseteq Threads /\ events \in 0..MaxEvents
    BY MailAssumption, BoundsAssumption DEF Init
<1>7. Len(seeded) + Len(planned) <= BatchSize
    BY BoundsAssumption DEF Init
<1>8. QED  BY <1>1, <1>3, <1>4, <1>5, <1>6, <1>7 DEF IInv, TypeOK, VectorRows

LEMMA HappensType ==
    ASSUME TypeOK, NEW e, Happens(e)
    PROVE  events' \in 0..MaxEvents
    BY BoundsAssumption DEF TypeOK, Happens

\* What a batch step does to the two queues of the batch.
LEMMA NextPlannedType ==
    ASSUME IInv, planned # <<>>, NEW t \in Threads, NEW changed \in BOOLEAN,
           NextPlanned(t, changed)
    PROVE  /\ planned' \in Seq([of : known, parse : Parses, fallback : BOOLEAN])
           /\ Len(planned') = Len(planned) - 1
           /\ moved' \subseteq Threads
    BY DEF IInv, Batches, TypeOK, NextPlanned

LEMMA SeedInv ==
    ASSUME IInv, NEW m \in Messages, Seed(m)
    PROVE  IInv'
<1> DEFINE t == ThreadOf[m]
<1>1. t \in Threads /\ SeedSum(t) \in SumRows
    BY ThreadOfType, SeedShape DEF IInv
<1>2. sums' \in [Threads -> SumRows]
    BY <1>1, OtherShapes DEF IInv, TypeOK, Seed
<1>3. vector' \in [Threads -> VectorRows]
    <2>1. vector \in [Threads -> VectorRows]
        BY DEF IInv, TypeOK, VectorRows
    <2>2. Mean(SeedSum(t)) \in VectorRows /\ Zero \in VectorRows
        BY <1>1, VectorShapes
    <2>3. QED  BY <1>1, <2>1, <2>2 DEF Seed
<1>4. Batches'
    <2>1. known \subseteq known' /\ m \in known'
        BY DEF Seed
    <2>2. planned' \in Seq([of : known', parse : Parses, fallback : BOOLEAN])
        BY DEF Seed
    <2>3. seeded \in Seq([of : known', kept : BOOLEAN])
        <3>1. [of : known, kept : BOOLEAN] \subseteq [of : known', kept : BOOLEAN]
            BY <2>1
        <3>2. QED  BY <3>1, SeqMonotonic DEF IInv, Batches
    <2>4. \E k \in BOOLEAN : seeded' = Append(seeded, [of |-> m, kept |-> k])
        BY DEF Seed
    <2>5. QED  BY <2>1, <2>2, <2>3, <2>4 DEF Batches
<1>5. Len(seeded') + Len(planned') <= BatchSize
    <2>1. Len(seeded') = Len(seeded) + 1 /\ Len(planned') = 0
        BY DEF Seed, IInv, Batches
    <2>2. Len(seeded) \in Nat /\ Len(seeded) < BatchSize
        BY DEF Seed, IInv, Batches
    <2>3. QED  BY <2>1, <2>2, BoundsAssumption
<1>6. QED  BY <1>2, <1>3, <1>4, <1>5 DEF IInv, TypeOK, Seed, VectorRows

LEMMA SeedFailsInv ==
    ASSUME IInv, NEW m \in Messages, SeedFails(m)
    PROVE  IInv'
<1>1. sums' \in [Threads -> SumRows]
    BY ThreadOfType, SeedShape DEF IInv, TypeOK, SeedFails
<1>2. events' \in 0..MaxEvents
    BY HappensType DEF IInv, SeedFails
<1>3. QED  BY <1>1, <1>2 DEF IInv, TypeOK, Batches, SeedFails

LEMMA PlanInv ==
    ASSUME IInv, Plan
    PROVE  IInv'
<1>1. PICK p \in Parses :
        planned' = Append(planned, [of |-> Head(seeded).of, parse |-> p,
                                    fallback |-> ReservesFallback(Head(seeded), p)])
    BY DEF Plan
<1>2. Head(seeded).of \in known /\ seeded' \in Seq([of : known, kept : BOOLEAN])
    <2>1. seeded \in Seq([of : known, kept : BOOLEAN]) /\ seeded # <<>>
        BY DEF Plan, IInv, Batches
    <2>2. Head(seeded) \in [of : known, kept : BOOLEAN]
        BY <2>1, HeadTailProperties
    <2>3. seeded' \in Seq([of : known, kept : BOOLEAN])
        BY <2>1, HeadTailProperties DEF Plan
    <2>4. QED  BY <2>2, <2>3
<1>3. ReservesFallback(Head(seeded), p) \in BOOLEAN
    BY DEF ReservesFallback
<1>4. planned' \in Seq([of : known, parse : Parses, fallback : BOOLEAN])
    BY <1>1, <1>2, <1>3 DEF IInv, Batches
<1>5. Len(seeded') = Len(seeded) - 1 /\ Len(planned') = Len(planned) + 1
    BY <1>1 DEF Plan, IInv, Batches
<1>6. Len(seeded') + Len(planned') <= BatchSize
    BY <1>5, BoundsAssumption DEF IInv, TypeOK, Batches
<1>7. QED  BY <1>2, <1>4, <1>6 DEF IInv, TypeOK, Batches, Plan

LEMMA PlanFailsInv ==
    ASSUME IInv, PlanFails
    PROVE  IInv'
<1>1. seeded' \in Seq([of : known, kept : BOOLEAN]) /\ Len(seeded') = Len(seeded) - 1
    BY DEF PlanFails, IInv, Batches
<1>2. Len(seeded') + Len(planned') <= BatchSize
    BY <1>1, BoundsAssumption DEF IInv, TypeOK, Batches, PlanFails
<1>3. events' \in 0..MaxEvents
    BY HappensType DEF IInv, PlanFails
<1>4. QED  BY <1>1, <1>2, <1>3 DEF IInv, TypeOK, Batches, PlanFails

LEMMA CommitFailsInv ==
    ASSUME IInv, CommitFails
    PROVE  IInv'
<1>1. ThreadOf[Head(planned).of] \in Threads
    <2>1. Head(planned) \in [of : known, parse : Parses, fallback : BOOLEAN]
        BY HeadTailProperties DEF CommitFails, IInv, Batches
    <2>2. QED  BY <2>1, ThreadOfType DEF IInv, TypeOK
<1>2. /\ planned' \in Seq([of : known, parse : Parses, fallback : BOOLEAN])
      /\ Len(planned') = Len(planned) - 1
      /\ moved' \subseteq Threads
    BY <1>1, NextPlannedType DEF CommitFails
<1>3. Len(seeded') + Len(planned') <= BatchSize
    BY <1>2, BoundsAssumption DEF IInv, TypeOK, Batches, CommitFails
<1>4. events' \in 0..MaxEvents
    BY HappensType DEF IInv, CommitFails
<1>5. QED  BY <1>2, <1>3, <1>4 DEF IInv, TypeOK, Batches, CommitFails

\* Every chunk a commit leaves is of the body or of an attachment its message has.
LEMMA CommitSlices ==
    ASSUME TypeOK, NEW m \in known, NEW p \in Parses, NEW c \in Rewrite(m, p).chunks
    PROVE  /\ c.of \in known
           /\ \/ c.slice = Body
              \/ c.slice \in (IF c.of = m THEN p.carries ELSE occurrences[c.of])
<1> DEFINE cs    == ChunksIn(stored, ThreadOf[m])
           atts  == Written(p) \ {Body}
           new1  == NewIn(m, p, {Body})
           gone1 == GoneIn(m, p, {Body})
           new2  == NewIn(m, p, atts)
           gone2 == GoneIn(m, p, atts) \cup Stale(m, p)
<1>1. Rewrite(m, p).chunks = (((cs \ gone1) \cup new1) \ gone2) \cup new2
    BY DEF Rewrite, Edit, InThread
<1>2. CASE c \in new1
    BY <1>2 DEF NewIn, Wanted
<1>3. CASE c \in new2
    BY <1>3 DEF NewIn, Wanted, Written
<1>4. CASE c \in cs /\ c \notin Stale(m, p)
    <2>1. c \in stored /\ c.of \in known /\ (c.slice = Body \/ c.slice \in occurrences[c.of])
        BY <1>4 DEF TypeOK, ChunksIn
    <2>2. c.of = m /\ c.slice # Body => c.slice \in p.carries
        BY <1>4, <2>1 DEF Stale, Held
    <2>3. QED  BY <2>1, <2>2
<1>5. QED  BY <1>1, <1>2, <1>3, <1>4

LEMMA CommitInv ==
    ASSUME IInv, Commit
    PROVE  IInv'
<1> DEFINE b == Head(planned)
           t == ThreadOf[b.of]
           state == Rewrite(b.of, b.parse)
           sum == Filled(state)
<1>1. b \in [of : known, parse : Parses, fallback : BOOLEAN]
    BY HeadTailProperties DEF Commit, IInv, Batches
<1>2. b.of \in known /\ b.of \in Messages /\ b.parse \in Parses /\ t \in Threads
    BY <1>1, ThreadOfType DEF IInv, TypeOK
<1>3. state.chunks \in SUBSET Chunks /\ state.sum \in SumRows
    BY <1>2, RewriteExact DEF IInv
<1>4. sum \in SumRows
    BY <1>3, FilledShape
<1>5. sums' \in [Threads -> SumRows]
    BY <1>4 DEF Commit, IInv, TypeOK
<1>6. vector' \in [Threads -> VectorRows]
    <2>1. vector \in [Threads -> VectorRows]
        BY DEF IInv, TypeOK, VectorRows
    <2>2. Mean(sum) \in VectorRows /\ Subject \in VectorRows
        BY <1>4, VectorShapes
    <2>3. QED  BY <1>2, <2>1, <2>2 DEF Commit
<1>7. occurrences' \in [Messages -> SUBSET Payloads]
    BY <1>2 DEF Commit, IInv, TypeOK, Parses
<1>8. stored' \subseteq Chunks
    BY <1>3 DEF Commit, IInv, TypeOK
<1>9. \A c \in stored' : c.of \in known /\ (c.slice = Body \/ c.slice \in occurrences'[c.of])
    <2> SUFFICES ASSUME NEW c \in stored'
                 PROVE  c.of \in known /\ (c.slice = Body \/ c.slice \in occurrences'[c.of])
        OBVIOUS
    <2>1. c \in stored \ ChunksIn(stored, t) \/ c \in state.chunks
        BY DEF Commit
    <2>2. occurrences' = [occurrences EXCEPT ![b.of] = b.parse.carries]
        BY DEF Commit
    <2>3. CASE c \in stored \ ChunksIn(stored, t)
        <3>1. c.of \in known /\ c.of # b.of /\ (c.slice = Body \/ c.slice \in occurrences[c.of])
            BY <2>3 DEF IInv, TypeOK, ChunksIn
        <3>2. QED  BY <3>1, <2>2 DEF IInv, TypeOK
    <2>4. CASE c \in state.chunks
        BY <1>2, <2>2, <2>4, CommitSlices DEF IInv, TypeOK
    <2>5. QED  BY <2>1, <2>3, <2>4
<1>10. due' \in [Messages -> {"none", "new", "reparse"}]
    BY <1>2 DEF Commit, IInv, TypeOK
<1>11. /\ planned' \in Seq([of : known, parse : Parses, fallback : BOOLEAN])
       /\ Len(planned') = Len(planned) - 1
       /\ moved' \subseteq Threads
    BY <1>2, NextPlannedType DEF Commit
<1>12. Len(seeded') + Len(planned') <= BatchSize
    BY <1>11, BoundsAssumption DEF IInv, TypeOK, Batches, Commit
<1>13. QED
    BY <1>5, <1>6, <1>7, <1>8, <1>9, <1>10, <1>11, <1>12
       DEF IInv, TypeOK, Batches, Commit, VectorRows

LEMMA ReapInv ==
    ASSUME IInv, NEW t \in Threads, Reap(t)
    PROVE  IInv'
<1>1. PICK dead \in SUBSET Members(t) \ {{}} :
        /\ ReapWhole(t, dead) \/ ReapPart(t, dead)
        /\ known' = known \ dead
        /\ occurrences' = [m \in Messages |-> IF m \in dead THEN {} ELSE occurrences[m]]
        /\ due' = [m \in Messages |-> IF m \in dead THEN "none" ELSE due[m]]
    BY DEF Reap
<1>2. /\ sums' \in [Threads -> SumRows] /\ vector' \in [Threads -> VectorRows]
      /\ stored' \subseteq Chunks /\ \A c \in stored' : c \in stored /\ c.of \notin dead
    <2>1. CASE ReapWhole(t, dead)
        <3>1. sums' \in [Threads -> SumRows] /\ vector' \in [Threads -> VectorRows]
            BY <2>1, OtherShapes, VectorShapes DEF ReapWhole, IInv, TypeOK, VectorRows
        <3>2. stored' \subseteq Chunks /\ \A c \in stored' : c \in stored /\ c.of \notin dead
            BY <2>1 DEF ReapWhole, IInv, TypeOK, ChunksIn, Members
        <3>3. QED  BY <3>1, <3>2
    <2>2. CASE ReapPart(t, dead)
        <3> DEFINE lost == {c \in ChunksIn(stored, t) : c.of \in dead}
                   state == Edit(InThread(t), {}, lost)
                   sum == Filled(state)
        <3>1. state.sum \in SumRows /\ state.chunks \in SUBSET Chunks
            <4>1. /\ ChunksIn(stored, t) \in SUBSET Chunks /\ lost \in SUBSET ChunksIn(stored, t)
                  /\ sums[t] \in SumRows
                BY ThreadShape DEF IInv
            <4>2. state.sum \in SumRows
                BY <4>1, EditShape DEF InThread
            <4>3. state.chunks \in SUBSET Chunks
                BY <4>1 DEF Edit, InThread
            <4>4. QED  BY <4>2, <4>3
        <3>2. sum \in SumRows
            BY <3>1, FilledShape
        <3>3. Mean(sum) \in VectorRows /\ Subject \in VectorRows
            BY <3>2, VectorShapes
        <3>4. sums' \in [Threads -> SumRows]
            BY <2>2, <3>1, <3>2 DEF ReapPart, IInv, TypeOK
        <3>5. vector' \in [Threads -> VectorRows]
            BY <2>2, <3>3 DEF ReapPart, IInv, TypeOK, VectorRows
        <3>6. stored' \subseteq Chunks /\ \A c \in stored' : c \in stored /\ c.of \notin dead
            BY <1>1, <2>2 DEF ReapPart, IInv, TypeOK, ChunksIn, Members
        <3>7. QED  BY <3>4, <3>5, <3>6
    <2>3. QED  BY <1>1, <2>1, <2>2
<1>3. /\ known' \subseteq Messages
      /\ occurrences' \in [Messages -> SUBSET Payloads]
      /\ due' \in [Messages -> {"none", "new", "reparse"}]
    BY <1>1 DEF IInv, TypeOK
<1>4. \A c \in stored' : c.of \in known' /\ (c.slice = Body \/ c.slice \in occurrences'[c.of])
    BY <1>1, <1>2 DEF IInv, TypeOK
<1>5. events' \in 0..MaxEvents
    BY HappensType DEF IInv, Reap
<1>6. Batches' /\ Len(seeded') + Len(planned') <= BatchSize /\ moved' \subseteq Threads
    BY BoundsAssumption DEF Reap, Idle, IInv, TypeOK, Batches
<1>7. QED  BY <1>2, <1>3, <1>4, <1>5, <1>6 DEF IInv, TypeOK, VectorRows

LEMMA RepairInv ==
    ASSUME IInv, NEW t \in Threads, Backfill(t) \/ Check(t)
    PROVE  IInv'
<1> DEFINE sum == SumOf(ChunksIn(stored, t))
<1>1. sum \in SumRows /\ Mean(sum) \in VectorRows
    BY ThreadChunks, SumShape, VectorShapes DEF IInv
<1>2. sums' \in [Threads -> SumRows] /\ vector' \in [Threads -> VectorRows]
    BY <1>1 DEF IInv, TypeOK, VectorRows, Backfill, Check
<1>3. QED  BY <1>2 DEF IInv, TypeOK, VectorRows, Batches, Backfill, Check

LEMMA ArriveInv ==
    ASSUME IInv, NEW m \in Messages, Deliver(m) \/ Reparse(m)
    PROVE  IInv'
<1>1. events' \in 0..MaxEvents
    BY HappensType DEF IInv, Deliver, Reparse
<1>2. due' \in [Messages -> {"none", "new", "reparse"}]
    BY DEF IInv, TypeOK, Deliver, Reparse
<1>3. QED  BY <1>1, <1>2 DEF IInv, TypeOK, Batches, Deliver, Reparse

LEMMA CrashInv ==
    ASSUME IInv, Crash
    PROVE  IInv'
<1>1. events' \in 0..MaxEvents
    BY HappensType DEF IInv, Crash
<1>2. QED  BY <1>1, BoundsAssumption DEF IInv, TypeOK, Batches, Crash

LEMMA DamageInv ==
    ASSUME IInv, NEW t \in Threads, Garble(t) \/ Drift(t)
    PROVE  IInv'
<1>1. events' \in 0..MaxEvents
    BY HappensType DEF IInv, Garble, Drift
<1>2. sums' \in [Threads -> SumRows]
    <2>1. CASE Garble(t)
        BY <2>1, OtherShapes DEF IInv, TypeOK, Garble
    <2>2. CASE Drift(t)
        <3>1. PICK c \in Chunks, cs \in SUBSET Chunks : sums' = [sums EXCEPT ![t] = SumOf(cs)]
            BY <2>2, ThreadChunks DEF IInv, Drift
        <3>2. QED  BY <3>1, SumShape DEF IInv, TypeOK
    <2>3. QED  BY <2>1, <2>2
<1>3. QED  BY <1>1, <1>2 DEF IInv, TypeOK, Batches, Garble, Drift

LEMMA StepInv == IInv /\ [Next]_vars => IInv'
<1> SUFFICES ASSUME IInv, [Next]_vars PROVE IInv'
    OBVIOUS
<1>1. CASE UNCHANGED vars
    BY <1>1 DEF vars, IInv, TypeOK, Batches
<1>2. CASE Work
    BY <1>2, SeedInv, PlanInv, CommitInv DEF Work
<1>3. CASE \E m \in Messages : SeedFails(m) \/ Deliver(m) \/ Reparse(m)
    BY <1>3, SeedFailsInv, ArriveInv
<1>4. CASE PlanFails \/ CommitFails \/ Crash
    BY <1>4, PlanFailsInv, CommitFailsInv, CrashInv
<1>5. CASE \E t \in Threads : Reap(t) \/ Backfill(t) \/ Check(t) \/ Garble(t) \/ Drift(t)
    BY <1>5, ReapInv, RepairInv, DamageInv
<1>6. QED  BY <1>1, <1>2, <1>3, <1>4, <1>5 DEF Next

\* The rows keep their shape, every stored chunk belongs to a message that has rows
\* and, beside the body, to an attachment the message still has.
THEOREM TypeCorrect == Spec => []TypeOK
<1>1. IInv => TypeOK
    BY DEF IInv
<1>2. QED  BY <1>1, InitInv, StepInv, PTL DEF Spec

-----------------------------------------------------------------------------
\* What is exact stays so where a step does not reach.
LEMMA ExactSame ==
    ASSUME NEW t \in Threads, Exact(t), ChunksIn(stored', t) = ChunksIn(stored, t),
           sums'[t] = sums[t], vector'[t] = vector[t]
    PROVE  Exact(t)'
    BY DEF Exact, HasChunks

\* A step that writes the exact sum, or leaves a row nobody reads, and the mean of
\* the chunks where there are any.
LEMMA ExactWritten ==
    ASSUME NEW t \in Threads, NEW cs, ChunksIn(stored', t) = cs,
           Readable(sums'[t]) => sums'[t] = SumOf(cs),
           cs # {} => vector'[t] = Mean(SumOf(cs))
    PROVE  Exact(t)'
    BY DEF Exact, HasChunks

LEMMA SeedExact ==
    ASSUME TypeOK, NEW m \in Messages, Seed(m), NEW t \in Threads, Exact(t)
    PROVE  Exact(t)'
<1>1. ChunksIn(stored', t) = ChunksIn(stored, t)
    BY DEF Seed
<1>2. CASE t # ThreadOf[m]
    BY <1>1, <1>2, ExactSame DEF Seed, TypeOK
<1>3. CASE t = ThreadOf[m] /\ Members(t) = {}
    <2>1. ChunksIn(stored, t) = {}
        BY <1>3, NoMembersNoChunks
    <2>2. sums'[t] = SumOf({})
        BY <1>3, OtherShapes DEF Seed, TypeOK
    <2>3. QED  BY <1>1, <2>1, <2>2, ExactWritten
<1>4. CASE t = ThreadOf[m] /\ Members(t) # {}
    <2> DEFINE cs == ChunksIn(stored, t)
    <2>1. SeedSum(t) = SumOf(cs) /\ cs \in SUBSET Chunks
        BY <1>4, SeedShape, ThreadChunks
    <2>2. sums'[t] = SumOf(cs)
        BY <1>4, <2>1 DEF Seed, TypeOK
    <2>3. cs # {} => vector'[t] = Mean(SumOf(cs))
        BY <1>4, <2>1, SumShape DEF Seed, TypeOK
    <2>4. QED  BY <1>1, <2>2, <2>3, ExactWritten
<1>5. QED  BY <1>2, <1>3, <1>4

LEMMA SeedFailsExact ==
    ASSUME TypeOK, NEW m \in Messages, SeedFails(m), NEW t \in Threads, Exact(t)
    PROVE  Exact(t)'
<1>1. ChunksIn(stored', t) = ChunksIn(stored, t) /\ vector'[t] = vector[t]
    BY DEF SeedFails
<1>2. CASE t # ThreadOf[m] \/ Members(t) = {}
    <2>1. sums'[t] = sums[t]
        BY <1>2 DEF SeedFails, SeedSum, TypeOK
    <2>2. QED  BY <1>1, <2>1, ExactSame
<1>3. CASE t = ThreadOf[m] /\ Members(t) # {}
    <2>1. sums'[t] = SumOf(ChunksIn(stored, t))
        BY <1>3, SeedShape DEF SeedFails, TypeOK
    <2>2. QED  BY <1>1, <2>1, ExactWritten DEF Exact, HasChunks
<1>4. QED  BY <1>2, <1>3

\* The thread of the commit after it, and every other.
LEMMA CommitChunks ==
    ASSUME IInv, Commit, NEW t \in Threads
    PROVE  LET b == Head(planned)
           IN  /\ b.of \in known /\ b.parse \in Parses
               /\ t # ThreadOf[b.of] =>
                    /\ ChunksIn(stored', t) = ChunksIn(stored, t)
                    /\ sums'[t] = sums[t] /\ vector'[t] = vector[t]
               /\ t = ThreadOf[b.of] => ChunksIn(stored', t) = Rewrite(b.of, b.parse).chunks
<1> DEFINE b == Head(planned)
           state == Rewrite(b.of, b.parse)
<1>1. b \in [of : known, parse : Parses, fallback : BOOLEAN]
    BY HeadTailProperties DEF Commit, IInv, Batches
<1>2. b.of \in known /\ b.parse \in Parses
    BY <1>1
<1>3. \A c \in state.chunks : ThreadOf[c.of] = ThreadOf[b.of]
    BY <1>2, RewriteExact DEF IInv
<1>4. stored' = (stored \ ChunksIn(stored, ThreadOf[b.of])) \cup state.chunks
    BY DEF Commit
<1>5. t # ThreadOf[b.of] => sums'[t] = sums[t] /\ vector'[t] = vector[t]
    BY DEF Commit, IInv, TypeOK
<1>6. t # ThreadOf[b.of] => ChunksIn(stored', t) = ChunksIn(stored, t)
    BY <1>3, <1>4 DEF ChunksIn
<1>7. t = ThreadOf[b.of] => ChunksIn(stored', t) = state.chunks
    BY <1>3, <1>4 DEF ChunksIn
<1>8. QED  BY <1>2, <1>5, <1>6, <1>7

LEMMA CommitExact ==
    ASSUME IInv, Commit, NEW t \in Threads, Exact(t)
    PROVE  Exact(t)'
<1> DEFINE b == Head(planned)
           state == Rewrite(b.of, b.parse)
<1>1. CASE t # ThreadOf[b.of]
    BY <1>1, CommitChunks, ExactSame
<1>2. CASE t = ThreadOf[b.of]
    <2>1. b.of \in known /\ b.parse \in Parses /\ ChunksIn(stored', t) = state.chunks
        BY <1>2, CommitChunks
    <2>2. /\ state.chunks \in SUBSET Chunks /\ state.sum \in SumRows
          /\ Readable(state.sum) => state.sum = SumOf(state.chunks)
        BY <1>2, <2>1, RewriteExact DEF IInv, Exact
    <2>3. Filled(state) = SumOf(state.chunks)
        BY <2>2, FilledShape
    <2>4. sums'[t] = SumOf(state.chunks)
        BY <1>2, <2>3 DEF Commit, IInv, TypeOK
    <2>5. state.chunks # {} => vector'[t] = Mean(SumOf(state.chunks))
        BY <1>2, <2>2, <2>3, SumShape DEF Commit, IInv, TypeOK
    <2>6. QED  BY <2>1, <2>4, <2>5, ExactWritten
<1>3. QED  BY <1>1, <1>2

LEMMA ReapExact ==
    ASSUME IInv, NEW r \in Threads, Reap(r), NEW t \in Threads, Exact(t)
    PROVE  Exact(t)'
<1>1. PICK dead \in SUBSET Members(r) \ {{}} : ReapWhole(r, dead) \/ ReapPart(r, dead)
    BY DEF Reap
<1>2. CASE t # r
    <2>1. \A c \in stored : c \notin stored' => c \in ChunksIn(stored, r)
        BY <1>1 DEF ReapWhole, ReapPart
    <2>2. stored' \subseteq stored
        BY <1>1 DEF ReapWhole, ReapPart
    <2>3. ChunksIn(stored', t) = ChunksIn(stored, t)
        BY <1>2, <2>1, <2>2 DEF ChunksIn
    <2>4. sums'[t] = sums[t] /\ vector'[t] = vector[t]
        BY <1>1, <1>2 DEF ReapWhole, ReapPart, IInv, TypeOK
    <2>5. QED  BY <2>3, <2>4, ExactSame
<1>3. CASE t = r /\ ReapWhole(r, dead)
    <2>1. ChunksIn(stored', t) = {}
        BY <1>3 DEF ReapWhole, ChunksIn
    <2>2. ~Readable(sums'[t])
        BY <1>3, OtherShapes DEF ReapWhole, IInv, TypeOK
    <2>3. QED  BY <2>1, <2>2, ExactWritten
<1>4. CASE t = r /\ ReapPart(r, dead)
    <2> DEFINE cs == ChunksIn(stored, t)
               lost == {c \in cs : c.of \in dead}
               left == cs \ lost
               row == sums[t]
               state == Edit([chunks |-> cs, sum |-> row], {}, lost)
               sum == Filled(state)
    <2>1. cs \in SUBSET Chunks /\ lost \in SUBSET cs /\ row \in SumRows
        BY ThreadShape DEF IInv
    <2>2. InThread(t) = [chunks |-> cs, sum |-> row]
        BY DEF InThread
    <2>3. Readable(row) => row = SumOf(cs)
        BY DEF Exact
    <2>4. /\ state.chunks = left
          /\ Readable(state.sum) => state.sum = SumOf(left)
        <3> HIDE DEF cs, lost, row, state
        <3>1. state = Edit([chunks |-> cs, sum |-> row], {}, lost)
            BY DEF state
        <3>2. /\ state.chunks = (cs \ lost) \cup {}
              /\ Readable(state.sum) => state.sum = SumOf(state.chunks)
            BY <2>1, <2>3, <3>1, EditExact
        <3>3. QED  BY <3>2
    <2>5. sum = SumOf(left)
        BY <2>4 DEF Filled
    <2>6. ChunksIn(stored', t) = left
        BY <1>4 DEF ReapPart, ChunksIn
    <2>7. Readable(sums'[t]) => sums'[t] = SumOf(left)
        BY <1>4, <2>2, <2>4, <2>5 DEF ReapPart, IInv, TypeOK
    <2>8. left # {} => vector'[t] = Mean(SumOf(left))
        BY <1>4, <2>2, <2>5 DEF ReapPart, IInv, TypeOK
    <2>9. QED  BY <2>6, <2>7, <2>8, ExactWritten
<1>5. QED  BY <1>1, <1>2, <1>3, <1>4

LEMMA RepairExact ==
    ASSUME TypeOK, NEW r \in Threads, Backfill(r) \/ Check(r), NEW t \in Threads, Exact(t)
    PROVE  Exact(t)'
<1>1. ChunksIn(stored', t) = ChunksIn(stored, t)
    BY DEF Backfill, Check
<1>2. CASE t # r
    BY <1>1, <1>2, ExactSame DEF Backfill, Check, TypeOK
<1>3. CASE t = r
    <2> DEFINE cs == ChunksIn(stored, t)
    <2>1. sums'[t] = SumOf(cs)
        BY <1>3 DEF Backfill, Check, TypeOK
    <2>2. cs \in SUBSET Chunks
        BY ThreadChunks
    <2>3. cs # {} => vector'[t] = Mean(SumOf(cs))
        BY <1>3, <2>2, SumShape DEF Backfill, Check, TypeOK, Exact, HasChunks
    <2>4. QED  BY <1>1, <2>1, <2>3, ExactWritten
<1>4. QED  BY <1>2, <1>3

LEMMA OthersExact ==
    ASSUME TypeOK, NEW t \in Threads, Exact(t),
           UNCHANGED <<stored, sums, vector>>
    PROVE  Exact(t)'
    BY DEF Exact, HasChunks

LEMMA DamageExact ==
    ASSUME TypeOK, NEW r \in Threads, Garble(r) \/ Drift(r),
           NEW t \in Threads, Exact(t), ~Drift(t)
    PROVE  Exact(t)'
<1>1. stored' = stored /\ vector' = vector
    BY DEF Garble, Drift
<1>2. CASE t # r
    BY <1>1, <1>2, ExactSame DEF Garble, Drift, TypeOK
<1>3. CASE t = r
    <2>1. sums'[t] = Unreadable
        BY <1>3 DEF Garble, TypeOK
    <2>2. QED  BY <1>1, <2>1, OtherShapes DEF Exact, HasChunks
<1>4. QED  BY <1>2, <1>3

LEMMA StepExact ==
    ASSUME IInv, [Next]_vars, NEW t \in Threads, Exact(t)
    PROVE  Exact(t)' \/ Drift(t)
<1> SUFFICES ASSUME ~Drift(t) PROVE Exact(t)'
    OBVIOUS
<1>0. TypeOK
    BY DEF IInv
<1>1. CASE UNCHANGED vars
    BY <1>0, <1>1, OthersExact DEF vars
<1>2. CASE Work
    <2>1. CASE \E m \in Messages : Seed(m)
        BY <1>0, <2>1, SeedExact
    <2>2. CASE Plan
        BY <1>0, <2>2, OthersExact DEF Plan
    <2>3. CASE Commit
        BY <2>3, CommitExact
    <2>4. QED  BY <1>2, <2>1, <2>2, <2>3 DEF Work
<1>3. CASE \E m \in Messages : SeedFails(m) \/ Deliver(m) \/ Reparse(m)
    BY <1>0, <1>3, SeedFailsExact, OthersExact DEF Deliver, Reparse
<1>4. CASE PlanFails \/ CommitFails \/ Crash
    BY <1>0, <1>4, OthersExact DEF PlanFails, CommitFails, Crash
<1>5. CASE \E r \in Threads : Reap(r) \/ Backfill(r) \/ Check(r) \/ Garble(r) \/ Drift(r)
    BY <1>0, <1>5, ReapExact, RepairExact, DamageExact
<1>6. QED  BY <1>1, <1>2, <1>3, <1>4, <1>5 DEF Next

\* No write, failure or restart makes a thread's sum or its mean wrong.
THEOREM SumsStayExact == Spec => ExactStaysExact
<1>1. IInv /\ [Next]_vars => [\A t \in Threads : Exact(t) => Exact(t)' \/ Drift(t)]_vars
    BY StepExact
<1>2. QED  BY <1>1, InitInv, StepInv, PTL DEF Spec, ExactStaysExact

-----------------------------------------------------------------------------
\* A plan that takes its message's last chunks, and brings no new ones, reserved the
\* fallback, as long as no batchmate has changed the thread since.
Prepared(b) ==
    ThreadOf[b.of] \notin moved /\ NewIn(b.of, b.parse, Written(b.parse)) = {}
        /\ ClearsChunks(b.of, b.parse) => b.fallback

\* One batch holds a message once, and every plan in it is prepared.
Plans ==
    /\ \A i, j \in DOMAIN seeded : i # j => seeded[i].of # seeded[j].of
    /\ \A i, j \in DOMAIN planned : i # j => planned[i].of # planned[j].of
    /\ \A i \in DOMAIN planned, j \in DOMAIN seeded : planned[i].of # seeded[j].of
    /\ \A i \in DOMAIN planned : Prepared(planned[i])

PInv == IInv /\ Plans

\* What a plan was made from is still so when its message and the chunks of its
\* thread are.
LEMMA PlanStable ==
    ASSUME NEW b, ChunksIn(stored', ThreadOf[b.of]) = ChunksIn(stored, ThreadOf[b.of]),
           occurrences'[b.of] = occurrences[b.of],
           ThreadOf[b.of] \in moved => ThreadOf[b.of] \in moved',
           Prepared(b)
    PROVE  Prepared(b)'
<1>1. \A s : Held(b.of, s)' = Held(b.of, s)
    BY DEF Held, ChunksIn
<1>2. NewIn(b.of, b.parse, Written(b.parse))' = NewIn(b.of, b.parse, Written(b.parse))
    BY <1>1 DEF NewIn, Written
<1>3. Stale(b.of, b.parse)' = Stale(b.of, b.parse)
    BY <1>1 DEF Stale
<1>4. ClearsChunks(b.of, b.parse)' <=> ClearsChunks(b.of, b.parse)
    BY <1>1, <1>3 DEF ClearsChunks, Written
<1>5. QED  BY <1>2, <1>4 DEF Prepared

\* Steps that leave the batch and the chunks alone.
LEMMA PlansSame ==
    ASSUME Plans, UNCHANGED <<stored, occurrences, seeded, planned, moved>>
    PROVE  Plans'
<1>1. \A i \in DOMAIN planned : Prepared(planned[i])'
    BY PlanStable DEF Plans
<1>2. QED  BY <1>1 DEF Plans

LEMMA PlansSeed ==
    ASSUME PInv, NEW m \in Messages, Seed(m)
    PROVE  Plans'
<1>1. PICK k : seeded' = Append(seeded, [of |-> m, kept |-> k])
    BY DEF Seed
<1>2. planned' = <<>>
    BY DEF Seed
<1>3. seeded \in Seq([of : known, kept : BOOLEAN])
    BY DEF PInv, IInv, Batches
<1>4. /\ DOMAIN seeded = 1..Len(seeded) /\ Len(seeded) \in Nat
      /\ DOMAIN seeded' = 1..(Len(seeded) + 1)
      /\ \A i \in 1..Len(seeded) : seeded'[i] = seeded[i]
      /\ seeded'[Len(seeded) + 1].of = m
    BY <1>1, <1>3
<1>5. \A i \in DOMAIN seeded : seeded[i].of # m
    BY DEF Seed, InBatch
<1>6. \A i, j \in DOMAIN seeded' : i # j => seeded'[i].of # seeded'[j].of
    BY <1>4, <1>5 DEF PInv, Plans
<1>7. QED  BY <1>2, <1>6 DEF Plans

\* The tail of a sequence is the sequence from its second element.
LEMMA TailOf ==
    ASSUME NEW S, NEW q \in Seq(S), q # <<>>
    PROVE  /\ 1 \in DOMAIN q /\ Head(q) = q[1]
           /\ \A i \in DOMAIN Tail(q) : i + 1 \in DOMAIN q /\ Tail(q)[i] = q[i + 1] /\ i + 1 # 1
           /\ \A i, j \in DOMAIN Tail(q) : i # j => i + 1 # j + 1
<1>1. /\ Tail(q) \in Seq(S) /\ Len(Tail(q)) = Len(q) - 1
      /\ \A i \in 1..Len(Tail(q)) : Tail(q)[i] = q[i + 1]
    BY HeadTailProperties
<1>2. DOMAIN q = 1..Len(q) /\ Len(q) \in Nat /\ Len(q) # 0 /\ Head(q) = q[1]
    OBVIOUS
<1>3. DOMAIN Tail(q) = 1..(Len(q) - 1)
    BY <1>1
<1>4. QED  BY <1>1, <1>2, <1>3

LEMMA PlansPlan ==
    ASSUME PInv, Plan
    PROVE  Plans'
<1> DEFINE b == Head(seeded)
<1>1. PICK p \in Parses :
        planned' = Append(planned, [of |-> b.of, parse |-> p, fallback |-> ReservesFallback(b, p)])
    BY DEF Plan
<1> DEFINE new == [of |-> b.of, parse |-> p, fallback |-> ReservesFallback(b, p)]
<1>2. /\ seeded \in Seq([of : known, kept : BOOLEAN]) /\ seeded # <<>>
      /\ planned \in Seq([of : known, parse : Parses, fallback : BOOLEAN])
      /\ seeded' = Tail(seeded)
    BY DEF PInv, IInv, Batches, Plan
<1>3. /\ 1 \in DOMAIN seeded /\ b = seeded[1]
      /\ \A i \in DOMAIN seeded' : i + 1 \in DOMAIN seeded /\ seeded'[i] = seeded[i + 1] /\ i + 1 # 1
      /\ \A i, j \in DOMAIN seeded' : i # j => i + 1 # j + 1
    BY <1>2, TailOf
<1>4. /\ DOMAIN planned = 1..Len(planned) /\ Len(planned) \in Nat
      /\ DOMAIN planned' = 1..(Len(planned) + 1)
      /\ \A i \in 1..Len(planned) : planned'[i] = planned[i]
      /\ planned'[Len(planned) + 1] = new
    BY <1>1, <1>2
<1>5. \A i, j \in DOMAIN seeded' : i # j => seeded'[i].of # seeded'[j].of
    BY <1>3 DEF PInv, Plans
<1>6. \A i \in DOMAIN planned : planned[i].of # b.of
    BY <1>3 DEF PInv, Plans
<1>7. \A i, j \in DOMAIN planned' : i # j => planned'[i].of # planned'[j].of
    BY <1>4, <1>6 DEF PInv, Plans
<1>8. \A i \in DOMAIN planned', j \in DOMAIN seeded' : planned'[i].of # seeded'[j].of
    BY <1>3, <1>4 DEF PInv, Plans
<1>9. Prepared(new)
    BY DEF Prepared, ReservesFallback, KeepsVector
<1>10. stored' = stored /\ occurrences' = occurrences /\ moved' = moved
    BY DEF Plan
<1>11. \A i \in DOMAIN planned' : Prepared(planned'[i])
    BY <1>4, <1>9 DEF PInv, Plans
<1>12. (\A i \in DOMAIN planned : Prepared(planned[i]))'
    BY <1>10, <1>11 DEF Prepared, ClearsChunks, NewIn, Stale, Held, ChunksIn, Written
<1>13. QED  BY <1>5, <1>7, <1>8, <1>12 DEF Plans

LEMMA PlansPlanFails ==
    ASSUME PInv, PlanFails
    PROVE  Plans'
<1>1. seeded \in Seq([of : known, kept : BOOLEAN]) /\ seeded # <<>> /\ seeded' = Tail(seeded)
    BY DEF PInv, IInv, Batches, PlanFails
<1>2. /\ \A i \in DOMAIN seeded' : i + 1 \in DOMAIN seeded /\ seeded'[i] = seeded[i + 1]
      /\ \A i, j \in DOMAIN seeded' : i # j => i + 1 # j + 1
    BY <1>1, TailOf
<1>3. /\ \A i, j \in DOMAIN seeded' : i # j => seeded'[i].of # seeded'[j].of
      /\ \A i \in DOMAIN planned, j \in DOMAIN seeded' : planned[i].of # seeded'[j].of
    BY <1>2 DEF PInv, Plans
<1>4. UNCHANGED <<stored, occurrences, planned, moved>>
    BY DEF PlanFails
<1>5. \A i \in DOMAIN planned : Prepared(planned[i])'
    BY <1>4, PlanStable DEF PInv, Plans
<1>6. QED  BY <1>3, <1>4, <1>5 DEF PInv, Plans

\* The batch goes on: the plans that wait are the ones that waited.
LEMMA PlansNext ==
    ASSUME PInv, planned # <<>>, seeded = <<>>, seeded' = <<>>, planned' = Tail(planned),
           (\A i \in DOMAIN planned : Prepared(planned[i]))'
    PROVE  Plans'
<1>1. planned \in Seq([of : known, parse : Parses, fallback : BOOLEAN])
    BY DEF PInv, IInv, Batches
<1>2. /\ \A i \in DOMAIN planned' : i + 1 \in DOMAIN planned /\ planned'[i] = planned[i + 1]
      /\ \A i, j \in DOMAIN planned' : i # j => i + 1 # j + 1
    BY <1>1, TailOf
<1>3. \A i, j \in DOMAIN planned' : i # j => planned'[i].of # planned'[j].of
    BY <1>2 DEF PInv, Plans
<1>4. QED  BY <1>3 DEF Plans

LEMMA PlansCommitFails ==
    ASSUME PInv, CommitFails
    PROVE  Plans'
<1>1. /\ planned \in Seq([of : known, parse : Parses, fallback : BOOLEAN])
      /\ planned # <<>> /\ planned' = Tail(planned) /\ seeded = <<>> /\ seeded' = <<>>
    BY DEF PInv, IInv, Batches, CommitFails, NextPlanned
<1>2. \A i \in DOMAIN planned' : i + 1 \in DOMAIN planned /\ planned'[i] = planned[i + 1]
    BY <1>1, TailOf
<1>3. UNCHANGED <<stored, occurrences>>
    BY DEF CommitFails
<1>4. Len(planned) # 1 \/ planned' = <<>>
    BY <1>1, HeadTailProperties
<1>5. moved' = moved \/ planned' = <<>>
    BY <1>4 DEF CommitFails, NextPlanned
<1>6. ASSUME NEW i \in DOMAIN planned'
      PROVE  Prepared(planned[i])'
    <2>1. PICK b : b = planned[i + 1]
        OBVIOUS
    <2>2. Prepared(b) /\ planned'[i] = b
        BY <1>2, <2>1 DEF PInv, Plans
    <2>3. moved' = moved
        BY <1>5
    <2>4. Prepared(b)'
        BY <1>3, <2>2, <2>3, PlanStable
    <2>5. QED  BY <2>2, <2>4 DEF Prepared
<1>7. QED  BY <1>1, <1>6, PlansNext

LEMMA PlansCommit ==
    ASSUME PInv, Commit
    PROVE  Plans'
<1> DEFINE h == Head(planned)
           t == ThreadOf[h.of]
           state == Rewrite(h.of, h.parse)
<1>0. IInv /\ Plans
    BY DEF PInv
<1>1. /\ planned \in Seq([of : known, parse : Parses, fallback : BOOLEAN])
      /\ planned # <<>> /\ planned' = Tail(planned) /\ seeded = <<>> /\ seeded' = <<>>
    BY <1>0 DEF IInv, Batches, Commit, NextPlanned
<1>2. /\ 1 \in DOMAIN planned /\ h = planned[1]
      /\ \A i \in DOMAIN planned' :
            i + 1 \in DOMAIN planned /\ planned'[i] = planned[i + 1] /\ i + 1 # 1
    BY <1>1, TailOf
<1>3. h \in [of : known, parse : Parses, fallback : BOOLEAN]
    BY <1>1, HeadTailProperties
<1>4. Len(planned) # 1 \/ planned' = <<>>
    BY <1>1, HeadTailProperties
<1>5. \/ planned' = <<>>
      \/ moved' = IF state.chunks # ChunksIn(stored, t) THEN moved \cup {t} ELSE moved
    BY <1>4 DEF Commit, NextPlanned
<1>6. \A m \in Messages : m # h.of => occurrences'[m] = occurrences[m]
    BY <1>0 DEF Commit, IInv, TypeOK
<1>7. ASSUME NEW i \in DOMAIN planned'
      PROVE  Prepared(planned[i])'
    <2>1. PICK b : b = planned[i + 1]
        OBVIOUS
    <2>2. Prepared(b) /\ planned'[i] = b /\ b.of # h.of
        BY <1>0, <1>2, <2>1 DEF Plans
    <2>3. b \in [of : known, parse : Parses, fallback : BOOLEAN]
        <3>1. i + 1 \in 1..Len(planned)
            BY <1>1, <1>2
        <3>2. planned \in Seq([of : known, parse : Parses, fallback : BOOLEAN])
            BY <1>1
        <3>3. planned[i + 1] \in [of : known, parse : Parses, fallback : BOOLEAN]
            BY <3>1, <3>2, ElementOfSeq
        <3>4. QED  BY <2>1, <3>3
    <2>4. b.of \in Messages /\ ThreadOf[b.of] \in Threads
        BY <1>0, <2>3, ThreadOfType DEF IInv, TypeOK
    <2>5. moved' = IF state.chunks # ChunksIn(stored, t) THEN moved \cup {t} ELSE moved
        BY <1>5
    <2>6. CASE ThreadOf[b.of] \in moved'
        BY <2>2, <2>6 DEF Prepared
    <2>7. CASE ThreadOf[b.of] \notin moved'
        <3>1. ChunksIn(stored', ThreadOf[b.of]) = ChunksIn(stored, ThreadOf[b.of])
            BY <1>0, <2>4, <2>5, <2>7, CommitChunks
        <3>2. ThreadOf[b.of] \notin moved
            BY <2>5, <2>7
        <3>3. Prepared(b)'
            BY <1>6, <2>2, <2>4, <3>1, <3>2, PlanStable
        <3>4. QED  BY <2>2, <3>3 DEF Prepared
    <2>8. QED  BY <2>6, <2>7
<1>8. QED  BY <1>1, <1>7, PlansNext

\* No batch, no plans.
LEMMA PlansIdle ==
    ASSUME seeded' = <<>>, planned' = <<>>
    PROVE  Plans'
    BY DEF Plans

LEMMA StepPlans == PInv /\ [Next]_vars => PInv'
<1> SUFFICES ASSUME PInv, [Next]_vars PROVE Plans'
    BY StepInv DEF PInv
<1>1. CASE UNCHANGED vars
    BY <1>1, PlansSame DEF vars, PInv
<1>2. CASE Work
    BY <1>2, PlansSeed, PlansPlan, PlansCommit DEF Work
<1>3. CASE \E m \in Messages : SeedFails(m) \/ Deliver(m) \/ Reparse(m)
    BY <1>3, PlansSame DEF PInv, SeedFails, Deliver, Reparse
<1>4. CASE PlanFails \/ CommitFails \/ Crash
    BY <1>4, PlansPlanFails, PlansCommitFails, PlansIdle DEF Crash
<1>5. CASE \E t \in Threads : Reap(t) \/ Backfill(t) \/ Check(t) \/ Garble(t) \/ Drift(t)
    <2>1. CASE \E t \in Threads : Reap(t)
        BY <2>1, PlansIdle DEF Reap, Idle
    <2>2. CASE \E t \in Threads : Backfill(t) \/ Check(t) \/ Garble(t) \/ Drift(t)
        BY <2>2, PlansSame DEF PInv, Backfill, Check, Garble, Drift
    <2>3. QED  BY <1>5, <2>1, <2>2
<1>6. QED  BY <1>1, <1>2, <1>3, <1>4, <1>5 DEF Next

LEMMA InitPlans == Init => PInv
    BY InitInv DEF PInv, Plans, Init

\* A commit that leaves a thread with chunks without any wrote no new chunk and
\* cleared a slice or dropped the last ones, which its plan knew.
LEMMA CommitClears ==
    ASSUME IInv, Commit, ChunksIn(stored, ThreadOf[Head(planned).of]) # {},
           ChunksIn(stored', ThreadOf[Head(planned).of]) = {}
    PROVE  /\ NewIn(Head(planned).of, Head(planned).parse, Written(Head(planned).parse)) = {}
           /\ ClearsChunks(Head(planned).of, Head(planned).parse)
<1> DEFINE m == Head(planned).of
           p == Head(planned).parse
           t == ThreadOf[m]
           cs == ChunksIn(stored, t)
           atts == Written(p) \ {Body}
           new1 == NewIn(m, p, {Body})
           gone1 == GoneIn(m, p, {Body})
           new2 == NewIn(m, p, atts)
           gone2 == GoneIn(m, p, atts) \cup Stale(m, p)
<1>1. /\ Head(planned) \in [of : known, parse : Parses, fallback : BOOLEAN]
      /\ t \in Threads
    <2>1. Head(planned) \in [of : known, parse : Parses, fallback : BOOLEAN]
        BY HeadTailProperties DEF Commit, IInv, Batches
    <2>2. m \in Messages
        BY <2>1 DEF IInv, TypeOK
    <2>3. QED  BY <2>1, <2>2, ThreadOfType
<1>2. m \in known /\ p \in Parses /\ Body \in Written(p)
    BY <1>1 DEF Written
<1>3. (((cs \ gone1) \cup new1) \ gone2) \cup new2 = {}
    <2>1. Rewrite(m, p).chunks = {}
        BY <1>1, CommitChunks
    <2>2. Rewrite(m, p).chunks = (((cs \ gone1) \cup new1) \ gone2) \cup new2
        BY DEF Rewrite, Edit, InThread
    <2>3. QED  BY <2>1, <2>2
<1>4. \A c \in new1 : c \notin gone2
    <2>1. \A c \in new1 : c.slice = Body
        BY DEF NewIn, Wanted
    <2>2. \A c \in gone2 : c.slice # Body
        BY <1>1, <1>2, MailAssumption DEF GoneIn, Stale, Held, IInv, TypeOK
    <2>3. QED  BY <2>1, <2>2
<1>5. new1 = {} /\ new2 = {} /\ cs \subseteq gone1 \cup gone2
    BY <1>3, <1>4
<1>6. NewIn(m, p, Written(p)) = {}
    BY <1>2, <1>5 DEF NewIn
<1>7. CASE \E s \in Written(p) : p.texts[s] = {} /\ Held(m, s) # {}
    BY <1>6, <1>7 DEF ClearsChunks
<1>8. CASE \A s \in Written(p) : p.texts[s] # {} \/ Held(m, s) = {}
    <2>1. ASSUME NEW s \in Written(p) PROVE Held(m, s) \cap (gone1 \cup gone2) \subseteq Stale(m, p)
                                              \/ p.texts[s] # {}
        BY <1>8
    <2>2. ASSUME NEW s \in Written(p) PROVE Held(m, s) \ Wanted(m, p, s) = {}
        <3>1. CASE Held(m, s) = {}
            BY <3>1
        <3>2. CASE p.texts[s] # {}
            <4>1. PICK x \in Texts : p.texts[s] = {x}
                <5>1. s \in Slices
                    BY <1>2 DEF Written, Parses, Slices
                <5>2. p.texts[s] \in {{}} \cup {{x} : x \in Texts}
                    BY <1>2, <5>1 DEF Parses
                <5>3. QED  BY <3>2, <5>2
            <4> DEFINE c == [of |-> m, slice |-> s, text |-> x]
            <4>2. c \in Wanted(m, p, s)
                BY <4>1 DEF Wanted
            <4>3. c \in Held(m, s)
                BY <1>6, <4>2 DEF NewIn
            <4>4. c \in cs
                BY <4>3 DEF Held, ChunksIn
            <4>5. c \notin Stale(m, p)
                <5>1. s \notin occurrences[m] \ p.carries
                    BY <1>1, <1>2, MailAssumption DEF Written, IInv, TypeOK
                <5>2. QED  BY <5>1 DEF Stale, Held
            <4>6. \A ss : c \notin GoneIn(m, p, ss)
                <5>1. \A r : c \in Held(m, r) => r = s
                    BY DEF Held
                <5>2. QED  BY <4>2, <5>1 DEF GoneIn
            <4>7. QED  BY <1>5, <4>4, <4>5, <4>6
        <3>3. QED  BY <1>8, <3>1, <3>2
    <2>3. gone1 \cup gone2 \subseteq Stale(m, p)
        BY <1>2, <2>2 DEF GoneIn
    <2>4. cs \subseteq Stale(m, p) /\ Stale(m, p) # {}
        BY <1>5, <2>3
    <2>5. QED  BY <1>6, <2>4 DEF ClearsChunks
<1>9. QED  BY <1>7, <1>8

\* What a step that takes a thread's last chunk writes for its vector.
Vacated(t) == HasChunks(t) /\ ~HasChunks(t)' /\ Members(t)' # {}

LEMMA CommitVacates ==
    ASSUME PInv, Commit, NEW t \in Threads, Vacated(t), Exact(t), t \notin moved
    PROVE  vector'[t] = Subject
<1> DEFINE b == Head(planned)
           state == Rewrite(b.of, b.parse)
<1>0. IInv /\ Plans
    BY DEF PInv
<1>1. t = ThreadOf[b.of]
    BY <1>0, CommitChunks DEF Vacated, HasChunks
<1>2. ChunksIn(stored, t) # {} /\ ChunksIn(stored', t) = {}
    BY DEF Vacated, HasChunks
<1>3. Prepared(b)
    <2>1. planned \in Seq([of : known, parse : Parses, fallback : BOOLEAN]) /\ planned # <<>>
        BY <1>0 DEF IInv, Batches, Commit
    <2>2. 1 \in DOMAIN planned /\ b = planned[1]
        BY <2>1, TailOf
    <2>3. QED  BY <1>0, <2>2 DEF Plans
<1>4. b.fallback
    BY <1>0, <1>1, <1>2, <1>3, CommitClears DEF Prepared
<1>5. Filled(state) = SumOf({})
    <2>1. b.of \in known /\ b.parse \in Parses /\ state.chunks = {}
        BY <1>0, <1>1, <1>2, CommitChunks
    <2>2. /\ state.chunks \in SUBSET Chunks /\ state.sum \in SumRows
          /\ Readable(state.sum) => state.sum = SumOf(state.chunks)
        BY <1>0, <1>1, <2>1, RewriteExact DEF IInv, Exact
    <2>3. QED  BY <2>1, <2>2, FilledShape
<1>6. Filled(state).count = 0
    BY <1>5, SumShape
<1>7. QED  BY <1>0, <1>1, <1>4, <1>6 DEF Commit, IInv, TypeOK

LEMMA ReapVacates ==
    ASSUME IInv, NEW r \in Threads, Reap(r), NEW t \in Threads, Vacated(t)
    PROVE  vector'[t] = Subject
<1>1. PICK dead \in SUBSET Members(r) \ {{}} :
        /\ ReapWhole(r, dead) \/ ReapPart(r, dead)
        /\ known' = known \ dead
    BY DEF Reap
<1>2. \A c \in stored : c \notin stored' => c \in ChunksIn(stored, r)
    BY <1>1 DEF ReapWhole, ReapPart
<1>3. t = r
    BY <1>2 DEF Vacated, HasChunks, ChunksIn
<1>4. CASE ReapWhole(r, dead)
    <2>1. Members(t)' = {}
        BY <1>1, <1>3, <1>4 DEF ReapWhole, Members
    <2>2. QED  BY <2>1 DEF Vacated
<1>5. CASE ReapPart(r, dead)
    <2> DEFINE lost == {c \in ChunksIn(stored, r) : c.of \in dead}
    <2>1. ChunksIn(stored, t) = lost
        BY <1>3, <1>5 DEF ReapPart, Vacated, HasChunks, ChunksIn
    <2>2. QED  BY <1>3, <1>5, <2>1 DEF ReapPart, IInv, TypeOK
<1>6. QED  BY <1>1, <1>4, <1>5

LEMMA StepVacates ==
    ASSUME PInv, [Next]_vars, NEW t \in Threads, Vacated(t), Exact(t), t \notin moved
    PROVE  vector'[t] = Subject
<1>0. IInv
    BY DEF PInv
<1>1. stored' # stored
    BY DEF Vacated, HasChunks
<1>2. CASE Commit
    BY <1>2, CommitVacates
<1>3. CASE \E r \in Threads : Reap(r)
    BY <1>0, <1>3, ReapVacates
<1>4. CASE \/ UNCHANGED vars \/ Plan \/ PlanFails \/ CommitFails \/ Crash
           \/ \E m \in Messages : Seed(m) \/ SeedFails(m) \/ Deliver(m) \/ Reparse(m)
           \/ \E r \in Threads : Backfill(r) \/ Check(r) \/ Garble(r) \/ Drift(r)
    BY <1>1, <1>4 DEF vars, Plan, PlanFails, CommitFails, Crash, Seed, SeedFails, Deliver,
                      Reparse, Backfill, Check, Garble, Drift
<1>5. QED  BY <1>2, <1>3, <1>4 DEF Next, Work

\* A thread that loses its last chunk gets the subject's vector, unless a batchmate
\* changed it after the plan was made.
THEOREM LastChunk == Spec => LastChunkTakesVector
<1>1. PInv /\ [Next]_vars =>
        [\A t \in Threads :
            (HasChunks(t) /\ ~HasChunks(t)' /\ Members(t)' # {}
                /\ Exact(t) /\ t \notin moved)
                => vector'[t] = Subject]_vars
    BY StepVacates DEF Vacated
<1>2. QED  BY <1>1, InitPlans, StepPlans, PTL DEF Spec, LastChunkTakesVector
=============================================================================
