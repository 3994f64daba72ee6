-------------------------- MODULE AttachmentSlices --------------------------
(***************************************************************************)
(* The attachments of one message, as the pipeline stores them: a row per  *)
(* attachment (an occurrence), the text of each payload as one slice of    *)
(* chunks that every copy of the payload in the message shares, and the    *)
(* extraction cache that all messages share.  A pass extracts within a     *)
(* budget; what does not fit is deferred to a continuation, which leaves   *)
(* alone what an earlier pass resolved.                                    *)
(*                                                                         *)
(* Words stand for the text; how text is cut into chunks is left out.      *)
(* Which module a label selects does not change in the model.              *)
(***************************************************************************)
EXTENDS Integers, FiniteSets

CONSTANTS
    Occurrences,    \* numbered in the order the parser lists them
    Payload, Module, \* of each occurrence: its bytes, and what reads them
    Parses,         \* what releases of the parser find: sets of occurrences
    Shared,         \* the cache keys that other messages have as well
    Reading,        \* the words a version of a module reads for a key
    MaxVersion,     \* bound: versions of the extractors, of identification
    Upgrades,       \* what a restart may change, by name
    MaxTroubles     \* bound: restarts, failures and requeues, together

Key(o)   == <<Payload[o], Module[o]>>
Keys     == {Key(o) : o \in Occurrences}
Payloads == {Payload[o] : o \in Occurrences}
Versions == 1..MaxVersion
Words    == UNION {Reading[kv] : kv \in Keys \X Versions}

ASSUME SlicesAssumption ==
    /\ Occurrences \subseteq Nat /\ IsFiniteSet(Occurrences)
    /\ Parses \subseteq SUBSET Occurrences /\ Parses # {}
    /\ Shared \subseteq Keys
    /\ DOMAIN Reading = Keys \X Versions
    /\ MaxVersion \in Nat \ {0} /\ MaxTroubles \in Nat

VARIABLES
    release,    \* what runs: versions, parser, whether extraction is enabled
    cache,      \* attachment_extractions
    manifest,   \* the attachments Phase 1 stored the message with
    current,    \* attachment_rows_current
    rows,       \* attachments: text_complete, the deferral mark, the stamp
    slice,      \* message_chunks, by payload
    job,        \* the message's queue row: queued, and at the extract stage
    pc, plan,   \* where a pass is, and what Phase 2a prepared
    troubles

stored == <<cache, manifest, current, rows, slice>>
vars   == <<release, stored, job, pc, plan, troubles>>

\* A row of the cache.  "absent" is no row; otherwise whether the text is all of
\* the payload's (text_complete); a failed or declined extraction is a "no" with
\* nothing read.
Result == [read : SUBSET Words, whole : {"yes", "no"},
           version : Versions, identified : Versions]
Absent == [read |-> {}, whole |-> "absent", version |-> 1, identified |-> 1]
\* A row of the occurrences; version 0 is no stamp (nothing was read yet).
Row   == [whole : {"yes", "no", "unknown"}, deferred : BOOLEAN, version : {0} \cup Versions]
NoRow == [whole |-> "absent", deferred |-> FALSE, version |-> 0]

NoPlan == [results |-> <<>>, fresh |-> <<>>, hits |-> <<>>, deferred |-> {},
           chunks |-> [p \in Payloads |-> {}], rewritten |-> {}, stale |-> {}]

Stored == {o \in Occurrences : rows[o].whole # "absent"}
Of(p)  == {o \in Stored : Payload[o] = p}

Trouble == troubles < MaxTroubles /\ troubles' = troubles + 1

-----------------------------------------------------------------------------
\* What an extraction under the running release may yield: all the text, or a
\* part of it (a limit, a failure, a format that is declined).
Extraction(words, whole) ==
    [read |-> words, whole |-> whole,
     version |-> release.version, identified |-> release.identification]
Extractions(k) ==
    LET all == Reading[<<k, release.version>>]
    IN  {Extraction(all, "yes")} \cup {Extraction(part, "no") : part \in SUBSET all}

\* A cached row of this release and its identification, and one that is served
\* whatever else: a partial one may be due again (seven days, a raised limit,
\* OCR turned on).
UpToDate(r) ==
    /\ r.whole # "absent"
    /\ r.version = release.version /\ r.identified = release.identification
Settled(r) == UpToDate(r) /\ r.whole = "yes"

-----------------------------------------------------------------------------
\* Slip: Phase 1 leaves the rows certified as those of this message.
ParseStillCurrent ==
    /\ pc = "idle" /\ job.queued
    /\ manifest' = release.parse
    /\ pc' = "parsed"
    /\ UNCHANGED <<release, cache, current, rows, slice, job, plan, troubles>>

\* Phase 1 stores the message anew: its attachments are those of this parse, and
\* whether the rows are is not known until they are committed.
Parse ==
    /\ pc = "idle" /\ job.queued
    /\ manifest' = release.parse
    /\ current' = "unknown"
    /\ pc' = "parsed"
    /\ UNCHANGED <<release, cache, rows, slice, job, plan, troubles>>

\* What a continuation skips: its result applied in an earlier pass.
Kept ==
    IF job.continues
    THEN {o \in manifest : rows[o].whole \in {"yes", "no"} /\ ~rows[o].deferred}
    ELSE {}
Pending == manifest \ Kept
Wanted  == {Key(o) : o \in Pending}

PayloadsOf(occs) == {Payload[o] : o \in occs}
First(k, occs)   == CHOOSE o \in occs :
                        /\ Key(o) = k
                        /\ \A other \in occs : Key(other) = k => o <= other

\* Slip: the budget may be spent before anything was dispatched.
ExhaustedAtOnce(dispatched) == TRUE

\* The budget: something was dispatched before anything is put off.
Exhausted(dispatched) == dispatched # {}

\* The keys put off: from some point on in the message's order, all that neither
\* the cache nor the batch can serve, once the budget is spent.
PutOff(late, missing) ==
    /\ late \subseteq missing
    /\ late # {} => Exhausted(missing \ late)
    /\ \A k \in late : \A other \in missing \ late :
          First(other, Pending) < First(k, Pending)

\* The occurrences of the message that this parse no longer finds.
Stale == Stored \ manifest

\* Slip: what only stale occurrences read of a payload does not count.
ShrunkNever == {}

\* The kept copies that are read once more: their payload settles in this pass,
\* as a copy of it resolves, or as its slice also holds the text of a module
\* that only stale occurrences ran, and no copy of it is put off.
Shrunk ==
    {p \in PayloadsOf(Kept) :
        {Module[o] : o \in {s \in Stale : Payload[s] = p}}
            \ {Module[o] : o \in {s \in Kept : Payload[s] = p}} # {}}

Resolved(late) == {o \in Pending : Key(o) \notin late}
PutOffOf(late) == {k[1] : k \in late}
Settling(late) ==
    {o \in Kept : Payload[o] \in (PayloadsOf(Resolved(late)) \cup Shrunk) \ PutOffOf(late)}

\* What Phase 2a hands to Phase 2c.  A kept copy that is read again is served from
\* the batch, else from its cached row as it stands; only the former writes its
\* row.  (It has a cached row: the sweep takes those that no occurrence uses.)
Serves(k, fresh) == IF k \in DOMAIN fresh THEN fresh[k] ELSE cache[k]
Prepared(hits, late, fresh) ==
    LET done      == Resolved(late)
        settling  == Settling(late)
        rewrites  == {o \in settling : Key(o) \in DOMAIN fresh /\ o = First(Key(o), settling)}
        protected == PayloadsOf(Kept \ settling) \cup PutOffOf(late)
    IN  [results   |-> [o \in done \cup rewrites |-> Serves(Key(o), fresh)],
         fresh     |-> fresh,
         hits      |-> [k \in hits |-> cache[k]],
         deferred  |-> Pending \ done,
         chunks    |-> [p \in Payloads |->
                          UNION {Serves(Key(o), fresh).read :
                                    o \in {q \in done \cup settling : Payload[q] = p}}],
         rewritten |-> PayloadsOf(done \cup settling) \ protected,
         stale     |-> Stale]

\* Phase 2a.  hits are the keys the cache serves, fresh the results of this
\* batch, by key: extracted for this message or (lent) for another of the batch,
\* late the keys deferred.
Collect ==
    /\ pc = "parsed" /\ release.enabled
    /\ \E hits \in SUBSET Wanted, late \in SUBSET Wanted, lent \in SUBSET Shared :
       LET missing == Wanted \ (hits \cup lent)
           asked   == (missing \ late) \cup lent
       IN  /\ hits \subseteq {k \in Wanted : UpToDate(cache[k])} \ lent
           /\ {k \in Wanted \ lent : Settled(cache[k])} \subseteq hits
           /\ PutOff(late, missing)
           /\ lent \subseteq {k \in Wanted \cup {Key(o) : o \in Settling(late)} :
                                 ~Settled(cache[k])}
           /\ \E fresh \in [asked -> UNION {Extractions(k) : k \in asked}] :
                 /\ \A k \in asked : fresh[k] \in Extractions(k)
                 /\ plan' = Prepared(hits, late, fresh)
    /\ pc' = "planned"
    /\ UNCHANGED <<release, stored, job, troubles>>

\* With extraction disabled there are no plans, and nothing is dropped.
CollectNothing ==
    /\ pc = "parsed" /\ ~release.enabled
    /\ plan' = NoPlan
    /\ pc' = "planned"
    /\ UNCHANGED <<release, stored, job, troubles>>

\* Slip: an occurrence put off is marked though it never got a row.
RowsMarkedOnly ==
    [o \in Occurrences |->
        IF o \in plan.deferred THEN [rows[o] EXCEPT !.deferred = TRUE]
        ELSE IF o \in DOMAIN plan.results
             THEN [whole |-> plan.results[o].whole, deferred |-> FALSE,
                   version |-> plan.results[o].version]
        ELSE rows[o]]

\* Phase 2c's transaction.  A deferred copy keeps its stamp; the slice of a
\* payload that only stale occurrences carried goes with them, and a cached row
\* that no occurrence of any message uses any more.
RowsAfter ==
    [o \in Occurrences |->
        IF o \in plan.stale THEN NoRow
        ELSE IF o \in plan.deferred
             THEN [whole |-> "no", deferred |-> TRUE, version |-> rows[o].version]
        ELSE IF o \in DOMAIN plan.results
             THEN [whole |-> plan.results[o].whole, deferred |-> FALSE,
                   version |-> plan.results[o].version]
        ELSE rows[o]]

SliceAfter(carried) ==
    [p \in Payloads |->
        IF p \in PayloadsOf(plan.stale) \ carried THEN {}
        ELSE plan.chunks[p] \cup (IF p \in plan.rewritten THEN {} ELSE slice[p])]

CacheAfter(used) ==
    [k \in Keys |->
        IF k[1] \in PayloadsOf(plan.stale) /\ k \notin used THEN Absent
        ELSE IF k \in DOMAIN plan.fresh /\ k \in used THEN plan.fresh[k]
        ELSE IF k \in DOMAIN plan.hits /\ cache[k] = Absent THEN plan.hits[k]
        ELSE cache[k]]

Commit ==
    /\ pc = "planned"
    /\ rows' = RowsAfter
    /\ LET kept == {o \in Occurrences : RowsAfter[o].whole # "absent"}
       IN  /\ slice' = SliceAfter(PayloadsOf(kept))
           /\ \E elsewhere \in SUBSET Shared :
                 cache' = CacheAfter({Key(o) : o \in kept} \cup elsewhere)
    /\ current' = IF release.enabled THEN "yes" ELSE "no"
    /\ IF plan.deferred # {}
          THEN pc' = "idle" /\ job' = [queued |-> TRUE, continues |-> TRUE]
          ELSE pc' = "committed" /\ job' = job
    /\ plan' = NoPlan
    /\ UNCHANGED <<release, manifest, troubles>>

\* mark_succeeded, after a commit that put nothing off.
Succeed ==
    /\ pc = "committed"
    /\ job' = [queued |-> FALSE, continues |-> FALSE]
    /\ pc' = "idle"
    /\ UNCHANGED <<release, stored, plan, troubles>>

\* A chunking, embedding or database failure: the row is back in the queue at
\* another stage, and what the pass prepared is gone.
Fail ==
    /\ Trouble
    /\ pc \in {"parsed", "planned"}
    /\ job' = [queued |-> TRUE, continues |-> FALSE]
    /\ pc' = "idle" /\ plan' = NoPlan
    /\ UNCHANGED <<release, stored>>

\* The file is enqueued anew (a sweep, a reparse, its event): a full pass.
Enqueue ==
    /\ Trouble
    /\ pc = "idle"
    /\ job' = [queued |-> TRUE, continues |-> FALSE]
    /\ UNCHANGED <<release, stored, pc, plan>>

-----------------------------------------------------------------------------
\* Another message that has the key extracts it and commits: only if the cached
\* row would not have served it, in this pass's batch either (all its messages are
\* collected before one of them commits, and they share what one extracted).
PeerRefreshes(k) ==
    /\ Trouble
    /\ pc # "parsed" /\ release.enabled
    /\ k \in Shared /\ ~Settled(cache[k])
    /\ k \in DOMAIN plan.hits => ~Settled(plan.hits[k])
    /\ \E r \in IF k \in DOMAIN plan.fresh THEN {plan.fresh[k]} ELSE Extractions(k) :
          cache' = [cache EXCEPT ![k] = r]
    /\ UNCHANGED <<release, manifest, current, rows, slice, job, pc, plan>>

\* The last of the other messages that used the key goes, or no longer has it.
PeerDrops(k) ==
    /\ Trouble
    /\ pc # "parsed"
    /\ k \in Shared /\ cache[k] # Absent
    /\ \A o \in Stored : Key(o) # k
    /\ cache' = [cache EXCEPT ![k] = Absent]
    /\ UNCHANGED <<release, manifest, current, rows, slice, job, pc, plan>>

\* The process starts again, perhaps as another release or with another setting;
\* the pass under way is lost, and with it (if its step was charged) the stage.
Upgraded(kind) ==
    [release EXCEPT
        !.version        = IF kind = "extractors" THEN @ + 1 ELSE @,
        !.identification = IF kind = "identification" THEN @ + 1 ELSE @,
        !.enabled        = IF kind = "setting" THEN ~@ ELSE @]
Releases(kind) ==
    IF kind = "parser" THEN {[release EXCEPT !.parse = found] : found \in Parses}
                       ELSE {Upgraded(kind)}

\* The startup sweep, under release new and with the partial results a raised
\* limit reopens.  Whatever an older extractor read is whole no longer; with
\* extraction enabled neither is a result due a refresh, and the message is
\* queued for it, or for what the budget put off, if it is not already.
Outdated(new) ==
    {o \in Stored : cache[Key(o)] # Absent /\ cache[Key(o)].version < new.version}

\* Slip: a result is due only with its extractor.
DueByExtractor(new, reopened) == Outdated(new)

Due(new, reopened) ==
    {o \in Stored : /\ cache[Key(o)] # Absent
                    /\ \/ cache[Key(o)].identified < new.identification
                       \/ Key(o) \in reopened}
\* Slip: only a refresh queues a message.
RequeuedForRefresh(new, reopened) == Outdated(new) \cup Due(new, reopened)

Requeued(new, reopened) ==
    Outdated(new) \cup Due(new, reopened) \cup {o \in Stored : rows[o].deferred}

Swept(new, reopened) ==
    /\ rows' = [o \in Occurrences |->
          IF \/ o \in Stored /\ rows[o].version \in 1..new.version - 1
             \/ o \in Due(new, reopened) /\ new.enabled
          THEN [rows[o] EXCEPT !.whole = "unknown"] ELSE rows[o]]
    /\ \E stage \in {job.continues, FALSE} :
          job' = [queued    |-> job.queued \/ (new.enabled /\ Requeued(new, reopened) # {}),
                  continues |-> stage]

Restart ==
    /\ Trouble
    /\ \E kind \in Upgrades \cup {"none"} :
          \E new \in Releases(kind), reopened \in SUBSET {k \in Keys : cache[k].whole = "no"} :
             /\ kind # "limits" => reopened = {}
             /\ {new.version, new.identification} \subseteq Versions
             /\ release' = new
             /\ Swept(new, reopened)
    /\ pc' = "idle" /\ plan' = NoPlan
    /\ UNCHANGED <<cache, manifest, current, slice>>

-----------------------------------------------------------------------------
Init ==
    /\ \E found \in Parses, enabled \in BOOLEAN :
          release = [version |-> 1, identification |-> 1,
                     parse |-> found, enabled |-> enabled]
    /\ cache = [k \in Keys |-> Absent]
    /\ manifest = {} /\ current = "unknown"
    /\ rows = [o \in Occurrences |-> NoRow]
    /\ slice = [p \in Payloads |-> {}]
    /\ job = [queued |-> TRUE, continues |-> FALSE]
    /\ pc = "idle" /\ plan = NoPlan
    /\ troubles = 0

Pass == Parse \/ Collect \/ CollectNothing \/ Commit \/ Succeed
Peer == \E k \in Shared : PeerRefreshes(k) \/ PeerDrops(k)
Next == Pass \/ Fail \/ Enqueue \/ Restart \/ Peer

Spec == Init /\ [][Next]_vars

\* The drain loop comes back to a queued message and takes its pass on.
FairSpec == Spec /\ WF_vars(Pass)

-----------------------------------------------------------------------------
TypeOK ==
    /\ release \in [version : Versions, identification : Versions,
                    parse : Parses, enabled : BOOLEAN]
    /\ cache \in [Keys -> Result \cup {Absent}]
    /\ manifest \subseteq Occurrences
    /\ current \in {"yes", "no", "unknown"}
    /\ rows \in [Occurrences -> Row \cup {NoRow}]
    /\ slice \in [Payloads -> SUBSET Words]
    /\ job \in [queued : BOOLEAN, continues : BOOLEAN]
    /\ pc \in {"idle", "parsed", "planned", "committed"}
    /\ troubles \in 0..MaxTroubles

\* "Always describes the committed chunks" (set_attachment_text_complete,
\* database.py:2553): a row whose text is complete has all its text in the
\* slice of its payload.
CompleteMeansIndexed ==
    \A o \in Stored :
        rows[o].whole = "yes" => Reading[<<Key(o), rows[o].version>>] \subseteq slice[Payload[o]]

\* _compile_attachment_text_words: whether the message has an attachment with a
\* word.  (Phase 1's manifest is complete here; a cut one only adds unknowns.)
TextVerdict(w) ==
    IF current = "yes" /\ manifest # {} /\ w \in UNION {slice[p] : p \in Payloads} THEN "yes"
    ELSE IF \/ manifest = {}
            \/ /\ current = "yes" /\ Stored # {}
               /\ \A o \in Stored : rows[o].whole = "yes"
         THEN "no"
    ELSE "unknown"

\* The reader rules a word out only if no attachment of the message, read whole
\* by the running extractors, has it.
AbsenceIsTrue ==
    \A w \in Words :
        TextVerdict(w) = "no" =>
            \A o \in manifest : w \notin Reading[<<Key(o), release.version>>]

\* Whatever is still queued, a payload whose copies are all complete has exactly
\* their text: nothing an earlier pass kept for a copy since refreshed, and
\* nothing of an occurrence the parse no longer finds.
SettledSlicesAreExact ==
    \A p \in Payloads :
        (\A o \in Of(p) : rows[o].whole = "yes") =>
            slice[p] = UNION {Reading[<<Key(o), release.version>>] : o \in Of(p)}

\* "A deferral is never left behind" (_requeue_stale_extractions): while
\* extraction is enabled, what the budget put off has a job to finish it, though
\* a pass with extraction disabled may have ended the one it had.
DeferralsAreQueued ==
    release.enabled /\ (\E o \in Stored : rows[o].deferred) => job.queued

\* Each pass resolves something, so a message whose extraction is continued is
\* done in the end.
DeferralsEnd == job.queued ~> ~job.queued
=============================================================================
