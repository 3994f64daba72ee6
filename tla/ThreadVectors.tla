--------------------------- MODULE ThreadVectors ---------------------------
(* The vector of a thread and the running sum it is derived from: vector_sums.py,    *)
(* the chunk writes of database.py, and the parts of Phase 1, 2a and 2c of main.py   *)
(* and of the reaper that choose a thread's vector.  One thread of the process does  *)
(* all of this; each action is one transaction of it.  A stored chunk vector is the  *)
(* chunk it belongs to, so a sum is how often it counts each chunk.  A message       *)
(* stays in its thread, and its attachments have distinct payloads.                  *)
EXTENDS Integers, FiniteSets, Sequences

CONSTANTS
    Messages,       \* the messages of the mailbox
    ThreadOf,       \* the thread of each
    Payloads,       \* the contents an attachment can have (attachment_id)
    Body,           \* the slice of a message's chunks that is its body
    Texts,          \* the chunk texts a slice can hold
    Early,          \* messages indexed before there were sums (schema v10)
    BatchSize,      \* rows one batch takes (INDEXER_BATCH_SIZE)
    Events,         \* what may happen besides the indexer's own work
    MaxEvents       \* bound of the model: how many of these happen

ASSUME MailAssumption ==
    Body \notin Payloads /\ Early \subseteq Messages /\ Texts # {}
ASSUME BoundsAssumption == BatchSize \in Nat \ {0} /\ MaxEvents \in Nat

VARIABLES
    known,          \* messages with rows (message_thread_map)
    stored,         \* message_chunks with their vectors
    occurrences,    \* payloads of each message's attachments rows
    sums,           \* thread_vector_sums
    vector,         \* threads_vec
    due,            \* the reason of each message's queued job, or "none"
    seeded,         \* the batch: Phase 1 is committed
    planned,        \* the batch: Phase 2a has its plans
    moved,          \* threads a commit changed while the rest of its batch waits
    events          \* how many events have happened

vars == <<known, stored, occurrences, sums, vector, due, seeded, planned, moved, events>>

Threads == {ThreadOf[m] : m \in Messages}
Slices == Payloads \cup {Body}
Chunks == [of : Messages, slice : Slices, text : Texts]

ASSUME ChunksAssumption == IsFiniteSet(Chunks)

Members(t) == {m \in known : ThreadOf[m] = t}
ChunksIn(cs, t) == {c \in cs : ThreadOf[c.of] = t}
Held(m, s) == {c \in stored : c.of = m /\ c.slice = s}

\* Happens(e): an event of the instance, within the bound.
Happens(e) == e \in Events /\ events < MaxEvents /\ events' = events + 1

-----------------------------------------------------------------------------
\* The exact sum of a set of chunks, which _compute_thread_sums reads.
SumOf(cs) == [total |-> [c \in Chunks |-> IF c \in cs THEN 1 ELSE 0],
              count |-> Cardinality(cs)]
EmptySum == SumOf({})

\* No row, and one that cannot be decoded.
Missing == [total |-> EmptySum.total, count |-> -1]
Unreadable == [total |-> EmptySum.total, count |-> -2]
Readable(row) == row.count >= 0

\* Slip: the row that was just filled gets the change once more.
ApplyDeltaTwice(row, add, drop, now) ==
    LET base == IF Readable(row) THEN row ELSE SumOf(now)
        plus(c) == (IF c \in add THEN 1 ELSE 0) - (IF c \in drop THEN 1 ELSE 0)
    IN  [total |-> [c \in Chunks |-> base.total[c] + plus(c)],
         count |-> base.count + Cardinality(add) - Cardinality(drop)]

\* _apply_thread_sum_deltas, after chunks were added to and dropped from a thread
\* that now holds the chunks "now": a row that shows a missed write is recomputed.
ApplyDelta(row, add, drop, now) ==
    LET plus(c) == (IF c \in add THEN 1 ELSE 0) - (IF c \in drop THEN 1 ELSE 0)
        next == [total |-> [c \in Chunks |-> row.total[c] + plus(c)],
                 count |-> row.count + Cardinality(add) - Cardinality(drop)]
        missed == \/ next.count < 0
                  \/ next.count = 0 /\ \E c \in Chunks : next.total[c] # 0
    IN  IF ~Readable(row) \/ missed THEN SumOf(now) ELSE next

\* One write of chunks of one thread: the chunks and the sum in one transaction.
Edit(state, add, drop) ==
    LET now == (state.chunks \ drop) \cup add
    IN  [chunks |-> now,
         sum |-> IF add \cup drop = {} THEN state.sum
                 ELSE ApplyDelta(state.sum, add, drop, now)]

\* _thread_sums: the row, filled when there is none to read.
Filled(state) == IF Readable(state.sum) THEN state.sum ELSE SumOf(state.chunks)

InThread(t) == [chunks |-> ChunksIn(stored, t), sum |-> sums[t]]

\* What a threads_vec row can hold.
NoVector == [kind |-> "none", of |-> EmptySum]
Zero     == [kind |-> "zero", of |-> EmptySum]
Subject  == [kind |-> "subject", of |-> EmptySum]
Mean(sum) == [kind |-> "mean", of |-> sum]

-----------------------------------------------------------------------------
\* What a parse of a message can yield: the texts of its slices, the payloads it
\* carries, and those of them whose slice this pass leaves alone (deferred, or
\* resolved by an earlier pass of a continuation).
Parses ==
    {p \in [texts : [Slices -> {{}} \cup {{x} : x \in Texts}],
            carries : SUBSET Payloads, defers : SUBSET Payloads] :
        /\ p.defers \subseteq p.carries
        /\ \A s \in Payloads : s \notin p.carries \ p.defers => p.texts[s] = {}}

Written(p) == {Body} \cup (p.carries \ p.defers)
Wanted(m, p, s) == {[of |-> m, slice |-> s, text |-> x] : x \in p.texts[s]}
NewIn(m, p, ss) == UNION {Wanted(m, p, s) \ Held(m, s) : s \in ss}
GoneIn(m, p, ss) == UNION {Held(m, s) \ Wanted(m, p, s) : s \in ss}

\* Slip: the slices of dropped attachments stay.
StaleStays(m, p) == {}

\* The slices of payloads that no attachment of the parse carries any more.
Stale(m, p) == UNION {Held(m, s) : s \in occurrences[m] \ p.carries}

\* Slip: only the slices the parse writes are looked at.
ClearsWritten(m, p) == \E s \in Written(p) : p.texts[s] = {} /\ Held(m, s) # {}

\* Phase 2c will delete chunks of the message and may leave its thread without any.
ClearsChunks(m, p) ==
    \/ \E s \in Written(p) : p.texts[s] = {} /\ Held(m, s) # {}
    \/ Stale(m, p) # {} /\ ChunksIn(stored, ThreadOf[m]) \subseteq Stale(m, p)

\* A reparse of a message of a chunkless thread leaves the thread's vector.
KeepsVector(b, p) ==
    due[b.of] = "reparse" /\ b.kept /\ ~ClearsChunks(b.of, p)

\* Phase 2a embeds the subject beside the chunks.
ReservesFallback(b, p) ==
    /\ NewIn(b.of, p, Written(p)) = {}
    /\ ~KeepsVector(b, p)
    /\ ClearsChunks(b.of, p) \/ ChunksIn(stored, ThreadOf[b.of]) = {}

-----------------------------------------------------------------------------
Idle == seeded = <<>> /\ planned = <<>>
InBatch(m) == \E i \in DOMAIN seeded : seeded[i].of = m

\* get_phase1_seed_state fills a missing sum in a transaction of its own.
SeedSum(t) == IF Members(t) = {} THEN sums[t] ELSE Filled(InThread(t))

\* Phase 1: the message's thread is committed with the vector it has until Phase 2c.
Seed(m) ==
    LET t == ThreadOf[m]
        sum == SeedSum(t)
        prior == Readable(sum) /\ sum.count = 0 /\ vector[t].kind \notin {"none", "zero"}
    IN  /\ planned = <<>> /\ Len(seeded) < BatchSize
        /\ due[m] # "none" /\ ~InBatch(m)
        /\ known' = known \cup {m}
        /\ sums' = [sums EXCEPT ![t] = IF Members(t) = {} THEN EmptySum ELSE sum]
        /\ vector' = [vector EXCEPT ![t] =
                        IF Members(t) # {} /\ sum.count # 0 THEN Mean(sum)
                        ELSE IF prior THEN @ ELSE Zero]
        /\ seeded' = Append(seeded, [of |-> m, kept |-> prior])
        /\ UNCHANGED <<stored, occurrences, due, planned, moved, events>>

\* Phase 1 fails after the seed was read: only a filled sum stays.
SeedFails(m) ==
    /\ planned = <<>> /\ Len(seeded) < BatchSize
    /\ due[m] # "none" /\ ~InBatch(m) /\ Happens("fail")
    /\ sums' = [sums EXCEPT ![ThreadOf[m]] = SeedSum(ThreadOf[m])]
    /\ UNCHANGED <<known, stored, occurrences, vector, due, seeded, planned, moved>>

\* Phase 2a of the next message, from what is committed when it runs.
Plan ==
    /\ seeded # <<>>
    /\ \E p \in Parses :
        LET b == Head(seeded) IN
        planned' = Append(planned, [of |-> b.of, parse |-> p,
                                    fallback |-> ReservesFallback(b, p)])
    /\ seeded' = Tail(seeded)
    /\ UNCHANGED <<known, stored, occurrences, sums, vector, due, moved, events>>

PlanFails ==
    /\ seeded # <<>> /\ Happens("fail")
    /\ seeded' = Tail(seeded)
    /\ UNCHANGED <<known, stored, occurrences, sums, vector, due, planned, moved>>

\* The chunk writes of Phase 2c: the body, then the attachments and what is stale.
Rewrite(m, p) ==
    LET atts == Written(p) \ {Body}
        body == Edit(InThread(ThreadOf[m]), NewIn(m, p, {Body}), GoneIn(m, p, {Body}))
    IN  Edit(body, NewIn(m, p, atts), GoneIn(m, p, atts) \cup Stale(m, p))

\* The batch goes on with the next message; its plans are no longer waiting when
\* it was the last.
NextPlanned(t, changed) ==
    /\ planned' = Tail(planned)
    /\ moved' = IF Len(planned) = 1 THEN {}
                ELSE IF changed THEN moved \cup {t} ELSE moved

\* Phase 2c of the next message, in one transaction.
Commit ==
    /\ seeded = <<>> /\ planned # <<>>
    /\ LET b == Head(planned)
           t == ThreadOf[b.of]
           state == Rewrite(b.of, b.parse)
           sum == Filled(state)
       IN  /\ stored' = (stored \ ChunksIn(stored, t)) \cup state.chunks
           /\ occurrences' = [occurrences EXCEPT ![b.of] = b.parse.carries]
           /\ sums' = [sums EXCEPT ![t] = sum]
           /\ vector' = [vector EXCEPT ![t] = IF sum.count # 0 THEN Mean(sum)
                                               ELSE IF b.fallback THEN Subject ELSE @]
           /\ due' = [due EXCEPT ![b.of] = IF b.parse.defers = {} THEN "none" ELSE @]
           /\ NextPlanned(t, state.chunks # ChunksIn(stored, t))
    /\ UNCHANGED <<known, seeded, events>>

\* It has no vectors, or its transaction is rolled back: its job stays.
CommitFails ==
    /\ seeded = <<>> /\ planned # <<>> /\ Happens("fail")
    /\ NextPlanned(ThreadOf[Head(planned).of], FALSE)
    /\ UNCHANGED <<known, stored, occurrences, sums, vector, due, seeded>>

-----------------------------------------------------------------------------
\* delete_thread_completely and reap_thread_messages, of messages the reaper may
\* remove (Reaper.tla says which); their jobs go with them.
ReapWhole(t, dead) ==
    /\ dead = Members(t)
    /\ stored' = stored \ ChunksIn(stored, t)
    /\ sums' = [sums EXCEPT ![t] = Missing]
    /\ vector' = [vector EXCEPT ![t] = NoVector]

ReapPart(t, dead) ==
    LET lost == {c \in ChunksIn(stored, t) : c.of \in dead}
        state == Edit(InThread(t), {}, lost)
        survive == ChunksIn(stored, t) # lost      \* thread_has_chunks_outside
        sum == Filled(state)
    IN  /\ dead # Members(t)
        /\ survive => sum.count # 0                \* else it is rolled back
        /\ stored' = stored \ lost
        /\ sums' = [sums EXCEPT ![t] = IF survive THEN sum ELSE state.sum]
        /\ vector' = [vector EXCEPT ![t] = IF survive THEN Mean(sum) ELSE Subject]

Reap(t) ==
    /\ Idle /\ Happens("reap")
    /\ \E dead \in SUBSET Members(t) \ {{}} :
        /\ ReapWhole(t, dead) \/ ReapPart(t, dead)
        /\ known' = known \ dead
        /\ occurrences' = [m \in Messages |-> IF m \in dead THEN {} ELSE occurrences[m]]
        /\ due' = [m \in Messages |-> IF m \in dead THEN "none" ELSE due[m]]
    /\ UNCHANGED <<seeded, planned, moved>>

\* fill_missing_thread_vector_sums: a thread from before the sums gets its row.
Backfill(t) ==
    /\ Idle /\ Members(t) # {} /\ sums[t] = Missing
    /\ sums' = [sums EXCEPT ![t] = SumOf(ChunksIn(stored, t))]
    /\ UNCHANGED <<known, stored, occurrences, vector, due, seeded, planned, moved, events>>

\* Slip: the vector derived from the wrong row stays.
CheckSumOnly(t) ==
    LET sum == SumOf(ChunksIn(stored, t)) IN
    /\ Idle /\ Members(t) # {} /\ sums[t] \notin {Missing, sum}
    /\ sums' = [sums EXCEPT ![t] = sum]
    /\ UNCHANGED <<known, stored, occurrences, vector, due, seeded, planned, moved, events>>

\* reconcile_thread_vector_sums: a row that is not the sum of the thread's chunks
\* is repaired, and the vector with it.
Check(t) ==
    LET sum == SumOf(ChunksIn(stored, t)) IN
    /\ Idle /\ Members(t) # {} /\ sums[t] \notin {Missing, sum}
    /\ sums' = [sums EXCEPT ![t] = sum]
    /\ vector' = [vector EXCEPT ![t] = IF sum.count # 0 THEN Mean(sum) ELSE @]
    /\ UNCHANGED <<known, stored, occurrences, due, seeded, planned, moved, events>>

-----------------------------------------------------------------------------
\* A new message, a reparse of a known one, a restart of the process.
Deliver(m) ==
    /\ m \notin known /\ due[m] = "none" /\ Happens("deliver")
    /\ due' = [due EXCEPT ![m] = "new"]
    /\ UNCHANGED <<known, stored, occurrences, sums, vector, seeded, planned, moved>>

Reparse(m) ==
    /\ m \in known /\ due[m] = "none" /\ Happens("reparse")
    /\ due' = [due EXCEPT ![m] = "reparse"]
    /\ UNCHANGED <<known, stored, occurrences, sums, vector, seeded, planned, moved>>

Crash ==
    /\ ~Idle /\ Happens("crash")
    /\ seeded' = <<>> /\ planned' = <<>> /\ moved' = {}
    /\ UNCHANGED <<known, stored, occurrences, sums, vector, due>>

\* A row of another encoding, and one that a write of another release missed: what
\* the code refills and what its check is there to repair.
Garble(t) ==
    /\ Members(t) # {} /\ sums[t] # Unreadable /\ Happens("garble")
    /\ sums' = [sums EXCEPT ![t] = Unreadable]
    /\ UNCHANGED <<known, stored, occurrences, vector, due, seeded, planned, moved>>

Drift(t) ==
    /\ Readable(sums[t]) /\ Happens("drift")
    /\ \E c \in {d \in Chunks : ThreadOf[d.of] = t} :
        LET now == ChunksIn(stored, t)
        IN  sums' = [sums EXCEPT ![t] = SumOf(IF c \in now THEN now \ {c} ELSE now \cup {c})]
    /\ UNCHANGED <<known, stored, occurrences, vector, due, seeded, planned, moved>>

-----------------------------------------------------------------------------
First(m) == {[of |-> m, slice |-> Body, text |-> x] : x \in {CHOOSE x \in Texts : TRUE}}

Init ==
    /\ known = Early
    /\ stored = UNION {First(m) : m \in Early}
    /\ occurrences = [m \in Messages |-> {}]
    /\ sums = [t \in Threads |-> Missing]
    /\ vector = [t \in Threads |->
                    IF Members(t) = {} THEN NoVector ELSE Mean(SumOf(ChunksIn(stored, t)))]
    /\ due = [m \in Messages |-> "none"]
    /\ seeded = <<>> /\ planned = <<>> /\ moved = {} /\ events = 0

Work ==
    \/ \E m \in Messages : Seed(m)
    \/ Plan
    \/ Commit

Next ==
    \/ Work
    \/ \E m \in Messages : SeedFails(m) \/ Deliver(m) \/ Reparse(m)
    \/ PlanFails \/ CommitFails \/ Crash
    \/ \E t \in Threads : Reap(t) \/ Backfill(t) \/ Check(t) \/ Garble(t) \/ Drift(t)

Spec == Init /\ [][Next]_vars

\* The drain loop goes on, and the check comes to every thread between batches.
Fairness ==
    /\ WF_vars(Plan) /\ WF_vars(Commit)
    /\ \A m \in Messages : SF_vars(Seed(m))
    /\ \A t \in Threads : SF_vars(Check(t))

FairSpec == Spec /\ Fairness

-----------------------------------------------------------------------------
SumRows == [total : [Chunks -> Int], count : Int]

\* The shapes of the variables.
TypeOK ==
    /\ known \subseteq Messages /\ stored \subseteq Chunks
    /\ \A c \in stored : c.of \in known /\ (c.slice = Body \/ c.slice \in occurrences[c.of])
    /\ occurrences \in [Messages -> SUBSET Payloads]
    /\ sums \in [Threads -> SumRows]
    /\ vector \in [Threads -> [kind : {"none", "zero", "subject", "mean"}, of : SumRows]]
    /\ due \in [Messages -> {"none", "new", "reparse"}]
    /\ Len(seeded) + Len(planned) <= BatchSize
    /\ moved \subseteq Threads /\ events \in 0..MaxEvents

HasChunks(t) == ChunksIn(stored, t) # {}

\* The row is the exact sum of the thread's chunks, or there is none to read; the
\* vector of a thread with chunks is the mean of exactly those.
Exact(t) ==
    /\ Readable(sums[t]) => sums[t] = SumOf(ChunksIn(stored, t))
    /\ HasChunks(t) => vector[t] = Mean(SumOf(ChunksIn(stored, t)))

\* No write, of any order, failure or restart, makes a sum or a mean wrong: only a
\* row changed from outside does.
ExactStaysExact ==
    [][\A t \in Threads : Exact(t) => Exact(t)' \/ Drift(t)]_vars

\* A thread whose last chunk goes gets the subject's vector and never keeps that of
\* text it no longer holds, unless a batchmate changed the thread between the plan
\* and the commit.
LastChunkTakesVector ==
    [][\A t \in Threads :
        (HasChunks(t) /\ ~HasChunks(t)' /\ Members(t)' # {}
            /\ Exact(t) /\ t \notin moved)
            => vector'[t] = Subject]_vars

\* What a reader of the index needs of a thread: a vector that is not the
\* placeholder, and the right one.
Sound(t) ==
    /\ Exact(t) /\ sums[t] # Unreadable
    /\ vector[t] # Zero

\* A thread left with the placeholder by a failure, a garbled sum or a drifted one
\* is sound again in the end.
SoundAgain == \A t \in Threads : ~Sound(t) ~> Sound(t)
=============================================================================
