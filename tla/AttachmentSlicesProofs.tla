----------------------- MODULE AttachmentSlicesProofs -----------------------
(***************************************************************************)
(* The safety of AttachmentSlices, for any attachments, labels, texts,     *)
(* versions and bounds.                                                    *)
(***************************************************************************)
EXTENDS AttachmentSlices, TLAPS

-----------------------------------------------------------------------------
\* A result of the running release, all the text of its key if it says so.
Sound(r, k) ==
    /\ r \in Result
    /\ r.version = release.version /\ r.identified = release.identification
    /\ r.whole = "yes" => r.read = Reading[<<k, r.version>>]

\* What the cache calls complete is, for the version it names; and no row is
\* identified by a version yet to come.
CacheHonest ==
    \A k \in Keys :
        /\ cache[k].whole = "yes" => cache[k].read = Reading[<<k, cache[k].version>>]
        /\ cache[k].identified <= release.identification

\* A row recorded complete is of the running extractors, and its cached row is
\* still there, of the same version, and (with extraction enabled) not due.
Vouched ==
    \A o \in Occurrences :
        rows[o].whole = "yes" =>
            /\ rows[o].version = release.version
            /\ cache[Key(o)].whole = "yes"
            /\ cache[Key(o)].version = release.version
            /\ release.enabled => cache[Key(o)].identified = release.identification

CurrentIsParsed == current = "yes" => manifest = Stored

PassHasJob == pc # "idle" => job.queued

DoneIsWhole ==
    pc = "committed" /\ release.enabled => \A o \in Occurrences : ~rows[o].deferred

Planned    == pc = "planned" /\ release.enabled
NoPlanLeft == ~Planned => plan = NoPlan

\* What the plan says of the attachments it handles and of those it passes over.
Handles ==
    /\ plan.stale = Stored \ manifest
    /\ plan.deferred \subseteq manifest
    /\ DOMAIN plan.results \subseteq manifest \ plan.deferred
    /\ \A o \in DOMAIN plan.results :
          /\ \/ /\ Key(o) \in DOMAIN plan.fresh
                /\ plan.results[o] = plan.fresh[Key(o)]
             \/ /\ Key(o) \in DOMAIN plan.hits \ DOMAIN plan.fresh
                /\ plan.results[o] = plan.hits[Key(o)]
          /\ plan.results[o].read \subseteq plan.chunks[Payload[o]]
PassesOver ==
    \A o \in manifest \ (plan.deferred \cup DOMAIN plan.results) :
        /\ o \in Stored /\ ~rows[o].deferred
        /\ rows[o].whole = "yes" =>
              /\ Key(o) \notin DOMAIN plan.fresh
              /\ Payload[o] \in plan.rewritten =>
                    Reading[<<Key(o), release.version>>] \subseteq plan.chunks[Payload[o]]

\* What it says of the cache: its results are sound, and a whole one that the
\* cache served is still cached, if not purged.
Serving ==
    /\ DOMAIN plan.fresh \subseteq Keys /\ DOMAIN plan.hits \subseteq Keys
    /\ \A k \in DOMAIN plan.fresh : Sound(plan.fresh[k], k)
    /\ \A k \in DOMAIN plan.hits :
          /\ Sound(plan.hits[k], k)
          /\ plan.hits[k].whole = "yes" => cache[k] \in {plan.hits[k], Absent}
    /\ plan.chunks \in [Payloads -> SUBSET Words]

PlanOK == Planned => Handles /\ PassesOver /\ Serving

Inv ==
    /\ TypeOK /\ CacheHonest /\ Vouched /\ CompleteMeansIndexed
    /\ CurrentIsParsed /\ PassHasJob /\ DoneIsWhole /\ DeferralsAreQueued
    /\ NoPlanLeft /\ PlanOK

-----------------------------------------------------------------------------
LEMMA KeyOf == \A o \in Occurrences : Key(o) \in Keys /\ Payload[o] \in Payloads
BY DEF Keys, Payloads

LEMMA Readings == \A k \in Keys, v \in Versions : Reading[<<k, v>>] \in SUBSET Words
BY DEF Words

LEMMA ExtractionsSound ==
    ASSUME TypeOK, NEW k \in Keys, NEW r \in Extractions(k)
    PROVE  Sound(r, k)
<1>1. release.version \in Versions /\ release.identification \in Versions
    BY DEF TypeOK
<1>2. Reading[<<k, release.version>>] \in SUBSET Words
    BY <1>1, Readings
<1>3. PICK words \in SUBSET Reading[<<k, release.version>>], whole \in {"yes", "no"} :
          /\ r = Extraction(words, whole)
          /\ whole = "yes" => words = Reading[<<k, release.version>>]
    BY DEF Extractions
<1> QED
    BY <1>1, <1>2, <1>3 DEF Sound, Extraction, Result

LEMMA Initially == Init => Inv
<1> SUFFICES ASSUME Init PROVE Inv
    OBVIOUS
<1> USE SlicesAssumption DEF Init
<1>1. TypeOK
    BY DEF TypeOK, Versions, Absent, NoRow
<1>2. CacheHonest
    BY DEF CacheHonest, Absent
<1>3. /\ Vouched /\ CompleteMeansIndexed /\ CurrentIsParsed /\ PassHasJob
      /\ DoneIsWhole /\ DeferralsAreQueued
    BY DEF Vouched, CompleteMeansIndexed, CurrentIsParsed, PassHasJob, DoneIsWhole,
           DeferralsAreQueued, Stored, NoRow
<1>4. NoPlanLeft /\ PlanOK
    BY DEF NoPlanLeft, PlanOK, Planned
<1> QED
    BY <1>1, <1>2, <1>3, <1>4 DEF Inv

-----------------------------------------------------------------------------
(* The steps that write no row, no slice and no cached result.             *)

\* A step that leaves what is stored alone keeps what is said of that.
LEMMA Untouched ==
    ASSUME Inv, UNCHANGED <<release, cache, rows, slice>>
    PROVE  CacheHonest' /\ Vouched' /\ CompleteMeansIndexed' /\ Stored' = Stored
BY DEF Inv, CacheHonest, Vouched, CompleteMeansIndexed, Stored

LEMMA ParseKeeps == ASSUME Inv, Parse PROVE Inv'
<1> USE DEF Inv, Parse
<1>1. CacheHonest' /\ Vouched' /\ CompleteMeansIndexed' /\ Stored' = Stored
    BY Untouched
<1>2. TypeOK'
    BY SlicesAssumption DEF TypeOK
<1>3. CurrentIsParsed' /\ PassHasJob' /\ DoneIsWhole' /\ DeferralsAreQueued'
    BY DEF CurrentIsParsed, PassHasJob, DoneIsWhole, DeferralsAreQueued
<1>4. NoPlanLeft' /\ PlanOK'
    BY DEF NoPlanLeft, PlanOK, Planned
<1> QED
    BY <1>1, <1>2, <1>3, <1>4

LEMMA CollectNothingKeeps == ASSUME Inv, CollectNothing PROVE Inv'
<1> USE DEF Inv, CollectNothing, stored
<1>1. CacheHonest' /\ Vouched' /\ CompleteMeansIndexed' /\ Stored' = Stored
    BY Untouched
<1>2. TypeOK'
    BY DEF TypeOK
<1>3. CurrentIsParsed' /\ PassHasJob' /\ DoneIsWhole' /\ DeferralsAreQueued'
    BY <1>1 DEF CurrentIsParsed, PassHasJob, DoneIsWhole, DeferralsAreQueued
<1>4. NoPlanLeft' /\ PlanOK'
    BY DEF NoPlanLeft, PlanOK, Planned
<1> QED
    BY <1>1, <1>2, <1>3, <1>4

\* Nothing was put off in a pass that ended so, or extraction is disabled.
LEMMA SucceedKeeps == ASSUME Inv, Succeed PROVE Inv'
<1> USE DEF Inv, Succeed, stored
<1>1. CacheHonest' /\ Vouched' /\ CompleteMeansIndexed' /\ Stored' = Stored
    BY Untouched
<1>2. TypeOK'
    BY DEF TypeOK
<1>3. CurrentIsParsed' /\ PassHasJob' /\ DoneIsWhole'
    BY <1>1 DEF CurrentIsParsed, PassHasJob, DoneIsWhole
<1>4. DeferralsAreQueued'
    BY <1>1 DEF DeferralsAreQueued, DoneIsWhole, Stored
<1>5. NoPlanLeft' /\ PlanOK'
    BY DEF NoPlanLeft, PlanOK, Planned
<1> QED
    BY <1>1, <1>2, <1>3, <1>4, <1>5

LEMMA FailKeeps == ASSUME Inv, Fail PROVE Inv'
<1> USE DEF Inv, Fail, stored
<1>1. CacheHonest' /\ Vouched' /\ CompleteMeansIndexed' /\ Stored' = Stored
    BY Untouched
<1>2. TypeOK'
    BY SlicesAssumption DEF TypeOK, Trouble
<1>3. CurrentIsParsed' /\ PassHasJob' /\ DoneIsWhole' /\ DeferralsAreQueued'
    BY <1>1 DEF CurrentIsParsed, PassHasJob, DoneIsWhole, DeferralsAreQueued
<1>4. NoPlanLeft' /\ PlanOK'
    BY DEF NoPlanLeft, PlanOK, Planned
<1> QED
    BY <1>1, <1>2, <1>3, <1>4

LEMMA EnqueueKeeps == ASSUME Inv, Enqueue PROVE Inv'
<1> USE DEF Inv, Enqueue, stored
<1>1. CacheHonest' /\ Vouched' /\ CompleteMeansIndexed' /\ Stored' = Stored
    BY Untouched
<1>2. TypeOK'
    BY SlicesAssumption DEF TypeOK, Trouble
<1>3. CurrentIsParsed' /\ PassHasJob' /\ DoneIsWhole' /\ DeferralsAreQueued'
    BY <1>1 DEF CurrentIsParsed, PassHasJob, DoneIsWhole, DeferralsAreQueued
<1>4. NoPlanLeft' /\ PlanOK'
    BY DEF NoPlanLeft, PlanOK, Planned
<1> QED
    BY <1>1, <1>2, <1>3, <1>4

-----------------------------------------------------------------------------
(* The other messages.                                                     *)

LEMMA StillServing ==
    ASSUME Serving, UNCHANGED <<plan, release>>,
           \A j \in DOMAIN plan.hits :
              plan.hits[j].whole = "yes" => cache'[j] \in {plan.hits[j], Absent}
    PROVE  Serving'
BY DEF Serving, Sound

\* A refresh that could touch the cached row of a complete attachment would have
\* found it settled.
LEMMA PeerRefreshesKeeps ==
    ASSUME Inv, NEW k \in Shared, PeerRefreshes(k) PROVE Inv'
<1> USE DEF Inv, PeerRefreshes
<1>1. k \in Keys /\ cache \in [Keys -> Result \cup {Absent}]
    BY SlicesAssumption DEF TypeOK
<1>2. PICK r : Sound(r, k) /\ cache' = [cache EXCEPT ![k] = r]
    <2>1. CASE k \in DOMAIN plan.fresh
        <3>1. Planned
            BY <2>1 DEF NoPlanLeft, NoPlan
        <3> QED
            BY <2>1, <3>1 DEF PlanOK, Serving
    <2>2. CASE k \notin DOMAIN plan.fresh
        BY <1>1, <2>2, ExtractionsSound
    <2> QED
        BY <2>1, <2>2
<1>3. Sound(r, k)' /\ r \in Result
    BY <1>2 DEF Sound
<1>4. TypeOK'
    BY <1>1, <1>2, <1>3, SlicesAssumption DEF TypeOK, Trouble
<1>5. CacheHonest'
    BY <1>1, <1>2, <1>3 DEF CacheHonest, Sound, TypeOK, Versions
<1>6. \A o \in Occurrences : rows[o].whole = "yes" => Key(o) # k
    BY DEF Vouched, Settled, UpToDate
<1>7. Vouched'
    BY <1>1, <1>2, <1>6, KeyOf DEF Vouched
<1>8. Stored' = Stored
    BY DEF Stored
<1>9. /\ CompleteMeansIndexed' /\ CurrentIsParsed' /\ PassHasJob' /\ DoneIsWhole'
      /\ DeferralsAreQueued' /\ NoPlanLeft'
    BY <1>8 DEF CompleteMeansIndexed, CurrentIsParsed, PassHasJob, DoneIsWhole,
                DeferralsAreQueued, NoPlanLeft, Planned
<1>10. PlanOK'
    <2> SUFFICES ASSUME Planned' PROVE Handles' /\ PassesOver' /\ Serving'
        BY DEF PlanOK
    <2>1. Planned /\ Handles /\ PassesOver /\ Serving
        BY DEF PlanOK, Planned
    <2>2. Handles' /\ PassesOver'
        BY <1>8, <2>1 DEF Handles, PassesOver
    <2>3. k \in DOMAIN plan.hits => plan.hits[k].whole # "yes"
        BY <2>1 DEF Serving, Sound, Settled, UpToDate
    <2>4. ASSUME NEW j \in DOMAIN plan.hits, plan.hits[j].whole = "yes"
          PROVE  cache'[j] \in {plan.hits[j], Absent}
        BY <1>1, <1>2, <2>1, <2>3, <2>4 DEF Serving
    <2> QED
        BY <2>1, <2>2, <2>4, StillServing
<1> QED
    BY <1>4, <1>5, <1>7, <1>9, <1>10

LEMMA PeerDropsKeeps ==
    ASSUME Inv, NEW k \in Shared, PeerDrops(k) PROVE Inv'
<1> USE DEF Inv, PeerDrops
<1>1. k \in Keys /\ cache \in [Keys -> Result \cup {Absent}]
    BY SlicesAssumption DEF TypeOK
<1>2. cache' = [cache EXCEPT ![k] = Absent]
    OBVIOUS
<1>4. TypeOK'
    BY <1>1, <1>2, SlicesAssumption DEF TypeOK, Trouble
<1>5. CacheHonest'
    BY <1>1, <1>2 DEF CacheHonest, Absent, TypeOK, Versions
<1>6. \A o \in Occurrences : rows[o].whole = "yes" => Key(o) # k
    BY DEF Stored
<1>7. Vouched'
    BY <1>1, <1>2, <1>6, KeyOf DEF Vouched
<1>8. Stored' = Stored
    BY DEF Stored
<1>9. /\ CompleteMeansIndexed' /\ CurrentIsParsed' /\ PassHasJob' /\ DoneIsWhole'
      /\ DeferralsAreQueued' /\ NoPlanLeft'
    BY <1>8 DEF CompleteMeansIndexed, CurrentIsParsed, PassHasJob, DoneIsWhole,
                DeferralsAreQueued, NoPlanLeft, Planned
<1>10. PlanOK'
    <2> SUFFICES ASSUME Planned' PROVE Handles' /\ PassesOver' /\ Serving'
        BY DEF PlanOK
    <2>1. Planned /\ Handles /\ PassesOver /\ Serving
        BY DEF PlanOK, Planned
    <2>2. Handles' /\ PassesOver'
        BY <1>8, <2>1 DEF Handles, PassesOver
    <2>3. ASSUME NEW j \in DOMAIN plan.hits, plan.hits[j].whole = "yes"
          PROVE  cache'[j] \in {plan.hits[j], Absent}
        BY <1>1, <1>2, <2>1, <2>3 DEF Serving
    <2> QED
        BY <2>1, <2>2, <2>3, StillServing
<1> QED
    BY <1>4, <1>5, <1>7, <1>9, <1>10

-----------------------------------------------------------------------------
(* A restart and its sweep.                                                *)

\* Versions only grow.
LEMMA NewRelease ==
    ASSUME TypeOK, NEW kind, NEW new \in Releases(kind),
           {new.version, new.identification} \subseteq Versions
    PROVE  /\ new \in [version : Versions, identification : Versions,
                       parse : Parses, enabled : BOOLEAN]
           /\ new.version >= release.version
           /\ new.identification >= release.identification
<1>1. /\ release \in [version : Versions, identification : Versions,
                      parse : Parses, enabled : BOOLEAN]
      /\ Versions \subseteq Nat
    BY SlicesAssumption DEF TypeOK, Versions
<1>2. CASE kind = "parser"
    <2>1. PICK found \in Parses : new = [release EXCEPT !.parse = found]
        BY <1>2 DEF Releases
    <2> QED
        BY <1>1, <2>1
<1>3. CASE kind # "parser"
    <2>1. new = Upgraded(kind)
        BY <1>3 DEF Releases
    <2>2. /\ new.version \in {release.version, release.version + 1}
          /\ new.identification \in {release.identification, release.identification + 1}
          /\ new.parse = release.parse
          /\ new.enabled \in BOOLEAN
          /\ new = [version |-> new.version, identification |-> new.identification,
                    parse |-> new.parse, enabled |-> new.enabled]
        BY <1>1, <2>1 DEF Upgraded
    <2>3. new.version >= release.version /\ new.identification >= release.identification
        BY <1>1, <2>2
    <2> QED
        BY <1>1, <2>2, <2>3
<1> QED
    BY <1>2, <1>3

\* What the sweep leaves of the rows: all but what vouches for their text.
LEMMA SweptRows ==
    ASSUME TypeOK, NEW new, NEW reopened, Swept(new, reopened)
    PROVE  /\ rows' \in [Occurrences -> Row \cup {NoRow}]
           /\ Stored' = Stored
           /\ \A o \in Occurrences :
                 /\ rows'[o].deferred = rows[o].deferred
                 /\ rows'[o].version = rows[o].version
                 /\ rows'[o].whole = "yes" =>
                       /\ rows[o].whole = "yes"
                       /\ rows[o].version \notin 1..new.version - 1
                       /\ new.enabled => o \notin Due(new, reopened)
<1> DEFINE due(o) == \/ o \in Stored /\ rows[o].version \in 1..new.version - 1
                     \/ o \in Due(new, reopened) /\ new.enabled
<1>1. rows' = [o \in Occurrences |->
                  IF due(o) THEN [rows[o] EXCEPT !.whole = "unknown"] ELSE rows[o]]
    BY DEF Swept
<1>2. \A o \in Occurrences : due(o) => o \in Stored
    BY DEF Due
<1> HIDE DEF due
<1>3. \A o \in Occurrences :
          /\ rows[o] \in Row \cup {NoRow}
          /\ o \in Stored <=> rows[o].whole # "absent"
          /\ o \in Stored => rows[o] \in Row
    BY DEF TypeOK, Stored, NoRow
<1>4. ASSUME NEW o \in Occurrences
      PROVE  /\ rows'[o] \in Row \cup {NoRow}
             /\ rows'[o].whole # "absent" <=> rows[o].whole # "absent"
             /\ rows'[o].deferred = rows[o].deferred
             /\ rows'[o].version = rows[o].version
             /\ rows'[o].whole = "yes" => rows[o].whole = "yes" /\ ~due(o)
    <2>1. CASE due(o)
        <3>1. rows[o] \in Row /\ rows'[o] = [rows[o] EXCEPT !.whole = "unknown"]
            BY <1>1, <1>2, <1>3, <2>1
        <3> QED
            BY <1>2, <1>3, <2>1, <3>1 DEF Row
    <2>2. CASE ~due(o)
        BY <1>1, <1>3, <2>2
    <2> QED
        BY <2>1, <2>2
<1>5. Stored' = Stored
    BY <1>4 DEF Stored
<1>6. rows' \in [Occurrences -> Row \cup {NoRow}]
    BY <1>1, <1>4
<1>7. \A o \in Occurrences : ~due(o) /\ rows[o].whole = "yes" =>
          /\ rows[o].version \notin 1..new.version - 1
          /\ new.enabled => o \notin Due(new, reopened)
    BY <1>3 DEF due
<1> QED
    BY <1>4, <1>5, <1>6, <1>7

LEMMA RestartKeeps == ASSUME Inv, Restart PROVE Inv'
<1>1. PICK kind \in Upgrades \cup {"none"} :
          \E new \in Releases(kind), reopened \in SUBSET {k \in Keys : cache[k].whole = "no"} :
             /\ {new.version, new.identification} \subseteq Versions
             /\ release' = new
             /\ Swept(new, reopened)
    BY DEF Restart
<1>2. PICK reopened \in SUBSET {k \in Keys : cache[k].whole = "no"} :
          /\ release' \in Releases(kind)
          /\ {release'.version, release'.identification} \subseteq Versions
          /\ Swept(release', reopened)
    BY <1>1
<1>3. /\ pc' = "idle" /\ plan' = NoPlan
      /\ UNCHANGED <<cache, manifest, current, slice>>
      /\ Trouble
    BY DEF Restart
<1>4. /\ release' \in [version : Versions, identification : Versions,
                       parse : Parses, enabled : BOOLEAN]
      /\ release'.version >= release.version
      /\ release'.identification >= release.identification
    BY <1>2, NewRelease DEF Inv
<1>5. /\ rows' \in [Occurrences -> Row \cup {NoRow}]
      /\ Stored' = Stored
      /\ \A o \in Occurrences :
            /\ rows'[o].deferred = rows[o].deferred
            /\ rows'[o].version = rows[o].version
            /\ rows'[o].whole = "yes" =>
                  /\ rows[o].whole = "yes"
                  /\ rows[o].version \notin 1..release'.version - 1
                  /\ release'.enabled => o \notin Due(release', reopened)
    BY <1>2, SweptRows DEF Inv
<1>6. /\ job' \in [queued : BOOLEAN, continues : BOOLEAN]
      /\ job'.queued = (job.queued \/ (release'.enabled /\ Requeued(release', reopened) # {}))
    <2>1. PICK stage \in {job.continues, FALSE} :
              job' = [queued    |-> job.queued \/ (release'.enabled
                                                     /\ Requeued(release', reopened) # {}),
                      continues |-> stage]
        BY <1>2 DEF Swept
    <2>2. job.queued \in BOOLEAN /\ job.continues \in BOOLEAN
        BY DEF Inv, TypeOK
    <2> QED
        BY <2>1, <2>2
<1>7. TypeOK'
    <2>1. TypeOK
        BY DEF Inv
    <2>2. troubles' \in 0..MaxTroubles
        BY <1>3, <2>1, SlicesAssumption DEF TypeOK, Trouble
    <2> QED
        BY <1>3, <1>4, <1>5, <1>6, <2>1, <2>2 DEF TypeOK
<1>8. /\ release.version \in Nat /\ release'.version \in Nat
      /\ release.identification \in Nat /\ release'.identification \in Nat
      /\ \A k \in Keys : cache[k].identified \in Nat
    BY <1>7 DEF Inv, TypeOK, Versions, Result, Absent
<1>9. CacheHonest'
    BY <1>3, <1>4, <1>8 DEF Inv, CacheHonest
<1>10. Vouched'
    <2> SUFFICES ASSUME NEW o \in Occurrences, rows'[o].whole = "yes"
                 PROVE  /\ rows'[o].version = release'.version
                        /\ cache'[Key(o)].whole = "yes"
                        /\ cache'[Key(o)].version = release'.version
                        /\ release'.enabled =>
                              cache'[Key(o)].identified = release'.identification
        BY DEF Vouched
    <2>1. /\ rows[o].version = release.version
          /\ cache[Key(o)].whole = "yes" /\ cache[Key(o)].version = release.version
        BY <1>5 DEF Inv, Vouched
    <2>2. release.version >= 1
        BY DEF Inv, TypeOK, Versions
    <2>3. release.version = release'.version
        BY <1>4, <1>5, <1>8, <2>1, <2>2
    <2>4. ASSUME release'.enabled
          PROVE  cache[Key(o)].identified = release'.identification
        <3>1. o \in Stored
            BY <1>5 DEF Stored
        <3>2. ~(cache[Key(o)].identified < release'.identification)
            BY <1>5, <2>1, <2>4, <3>1 DEF Due, Absent
        <3>3. cache[Key(o)].identified <= release.identification
            BY KeyOf DEF Inv, CacheHonest
        <3> QED
            BY <1>4, <1>8, <3>2, <3>3, KeyOf
    <2> QED
        BY <1>3, <1>5, <2>1, <2>3, <2>4
<1>11. CompleteMeansIndexed' /\ CurrentIsParsed'
    BY <1>3, <1>5 DEF Inv, CompleteMeansIndexed, CurrentIsParsed, Stored
<1>12. DeferralsAreQueued'
    <2> SUFFICES ASSUME release'.enabled, NEW o \in Stored, rows[o].deferred
                 PROVE  job'.queued
        BY <1>5 DEF DeferralsAreQueued, Stored
    <2> QED
        BY <1>6 DEF Requeued
<1>13. PassHasJob' /\ DoneIsWhole' /\ NoPlanLeft' /\ PlanOK'
    BY <1>3 DEF PassHasJob, DoneIsWhole, NoPlanLeft, PlanOK, Planned
<1> QED
    BY <1>7, <1>9, <1>10, <1>11, <1>12, <1>13 DEF Inv

-----------------------------------------------------------------------------
(* Phase 2a.                                                               *)

LEMMA CollectKeeps == ASSUME Inv, Collect PROVE Inv'
<1>1. /\ pc = "parsed" /\ release.enabled /\ pc' = "planned"
      /\ UNCHANGED <<release, stored, job, troubles>>
    BY DEF Collect
<1>2. PICK hits \in SUBSET Wanted, late \in SUBSET Wanted, lent \in SUBSET Shared :
          \E fresh \in [((Wanted \ (hits \cup lent)) \ late) \cup lent ->
                           UNION {Extractions(k) : k \in ((Wanted \ (hits \cup lent)) \ late)
                                                            \cup lent}] :
             /\ hits \subseteq {k \in Wanted : UpToDate(cache[k])} \ lent
             /\ {k \in Wanted \ lent : Settled(cache[k])} \subseteq hits
             /\ lent \subseteq {k \in Wanted \cup {Key(o) : o \in Settling(late)} :
                                   ~Settled(cache[k])}
             /\ \A k \in ((Wanted \ (hits \cup lent)) \ late) \cup lent :
                   fresh[k] \in Extractions(k)
             /\ plan' = Prepared(hits, late, fresh)
    BY DEF Collect
<1> DEFINE asked == ((Wanted \ (hits \cup lent)) \ late) \cup lent
<1>3. PICK fresh \in [asked -> UNION {Extractions(k) : k \in asked}] :
          /\ \A k \in asked : fresh[k] \in Extractions(k)
          /\ plan' = Prepared(hits, late, fresh)
    BY <1>2
<1>4. /\ hits \subseteq {k \in Wanted : UpToDate(cache[k])} \ lent
      /\ {k \in Wanted \ lent : Settled(cache[k])} \subseteq hits
      /\ \A k \in lent : ~Settled(cache[k])
      /\ DOMAIN fresh = asked
    BY <1>2
<1>5. Wanted \subseteq Keys /\ Kept \subseteq manifest /\ manifest \subseteq Occurrences
    BY DEF Inv, TypeOK, Wanted, Pending, Kept, Keys
<1>6. asked \subseteq Keys
    BY <1>5, SlicesAssumption
<1> DEFINE done      == Resolved(late)
           settling  == Settling(late)
           rewrites  == {o \in settling : Key(o) \in DOMAIN fresh /\ o = First(Key(o), settling)}
           protected == PayloadsOf(Kept \ settling) \cup PutOffOf(late)
<1>7. /\ plan'.results = [o \in done \cup rewrites |-> Serves(Key(o), fresh)]
      /\ plan'.fresh = fresh
      /\ plan'.hits = [k \in hits |-> cache[k]]
      /\ plan'.deferred = Pending \ done
      /\ plan'.chunks = [p \in Payloads |->
                           UNION {Serves(Key(o), fresh).read :
                                     o \in {q \in done \cup settling : Payload[q] = p}}]
      /\ plan'.rewritten = PayloadsOf(done \cup settling) \ protected
      /\ plan'.stale = Stored \ manifest
    BY <1>3 DEF Prepared, Stale
<1>8. /\ done = {o \in Pending : Key(o) \notin late}
      /\ settling \subseteq Kept /\ rewrites \subseteq settling
      /\ Pending = manifest \ Kept
    BY DEF Resolved, Settling, Pending
<1>9. \A k \in asked : Sound(fresh[k], k)
    BY <1>3, <1>6, ExtractionsSound DEF Inv
<1>10. \A k \in hits : Sound(cache[k], k) /\ k \in Keys
    <2> SUFFICES ASSUME NEW k \in hits PROVE Sound(cache[k], k) /\ k \in Keys
        OBVIOUS
    <2>1. UpToDate(cache[k]) /\ k \in Keys
        BY <1>4, <1>5
    <2>2. cache[k] \in Result
        BY <2>1 DEF Inv, TypeOK, UpToDate, Absent
    <2> QED
        BY <2>1, <2>2 DEF Inv, CacheHonest, Sound, UpToDate
<1>11. \A o \in done : Key(o) \in asked \/ Key(o) \in hits
    <2> SUFFICES ASSUME NEW o \in done PROVE Key(o) \in asked \/ Key(o) \in hits
        OBVIOUS
    <2>1. Key(o) \in Wanted \ late
        BY <1>8 DEF Wanted
    <2> QED
        BY <2>1
<1> HIDE DEF asked, done, settling, rewrites, protected
<1>12. (plan.stale = Stored \ manifest)' /\ (plan.deferred \subseteq manifest)'
    BY <1>1, <1>7, <1>8 DEF stored, Stored
<1>13. DOMAIN plan'.results \subseteq manifest \ plan'.deferred
    BY <1>5, <1>7, <1>8
<1>14. Handles'
    <2> SUFFICES ASSUME NEW o \in DOMAIN plan'.results
                 PROVE  /\ \/ /\ Key(o) \in DOMAIN plan'.fresh
                              /\ plan'.results[o] = plan'.fresh[Key(o)]
                           \/ /\ Key(o) \in DOMAIN plan'.hits \ DOMAIN plan'.fresh
                              /\ plan'.results[o] = plan'.hits[Key(o)]
                        /\ plan'.results[o].read \subseteq plan'.chunks[Payload[o]]
        BY <1>1, <1>12, <1>13 DEF Handles, stored
    <2>1. o \in done \cup rewrites /\ plan'.results[o] = Serves(Key(o), fresh)
        BY <1>7
    <2>2. Key(o) \notin DOMAIN fresh => Key(o) \in hits
        BY <1>4, <1>11, <2>1 DEF rewrites
    <2>3. o \in Occurrences /\ Payload[o] \in Payloads
        BY <1>5, <1>8, <2>1, KeyOf
    <2>4. plan'.results[o].read \subseteq plan'.chunks[Payload[o]]
        BY <1>7, <1>8, <2>1, <2>3
    <2> QED
        BY <1>7, <2>1, <2>2, <2>4 DEF Serves
<1>15. PassesOver'
    <2> SUFFICES ASSUME NEW o \in manifest \ (plan'.deferred \cup DOMAIN plan'.results)
                 PROVE  /\ o \in Stored /\ ~rows[o].deferred
                        /\ rows[o].whole = "yes" =>
                              /\ Key(o) \notin DOMAIN plan'.fresh
                              /\ Payload[o] \in plan'.rewritten =>
                                    Reading[<<Key(o), release.version>>]
                                        \subseteq plan'.chunks[Payload[o]]
        BY <1>1 DEF PassesOver, stored, Stored
    <2>1. o \in Kept /\ o \in Occurrences
        BY <1>5, <1>7, <1>8
    <2>2. o \in Stored /\ ~rows[o].deferred
        BY <2>1 DEF Kept, Stored
    <2>3. ASSUME rows[o].whole = "yes"
          PROVE  /\ Key(o) \notin asked
                 /\ Payload[o] \in plan'.rewritten =>
                       Reading[<<Key(o), release.version>>] \subseteq plan'.chunks[Payload[o]]
        <3>1. /\ Settled(cache[Key(o)]) /\ Key(o) \in Keys
              /\ cache[Key(o)].read = Reading[<<Key(o), release.version>>]
            BY <1>1, <2>1, <2>3, KeyOf DEF Inv, Vouched, CacheHonest, Settled, UpToDate, Absent
        <3>2. Key(o) \notin asked
            BY <1>4, <3>1 DEF asked
        <3>3. ASSUME Payload[o] \in plan'.rewritten PROVE o \in settling
            BY <1>7, <2>1, <3>3 DEF protected, PayloadsOf
        <3>4. Serves(Key(o), fresh).read = Reading[<<Key(o), release.version>>]
            BY <1>4, <3>1, <3>2 DEF Serves
        <3> QED
            BY <1>7, <2>1, <3>2, <3>3, <3>4, KeyOf
    <2> QED
        BY <1>4, <1>7, <2>2, <2>3
<1>16. Serving'
    <2>1. \A k \in Keys : cache[k].read \in SUBSET Words
        BY DEF Inv, TypeOK, Result, Absent
    <2>2. \A k \in Keys : Serves(k, fresh).read \in SUBSET Words
        BY <1>4, <1>9, <2>1 DEF Serves, Sound, Result
    <2>3. \A o \in done \cup settling : Key(o) \in Keys
        BY <1>5, <1>8, KeyOf
    <2>4. plan'.chunks \in [Payloads -> SUBSET Words]
        BY <1>7, <2>2, <2>3
    <2>5. (\A k \in DOMAIN plan.fresh : Sound(plan.fresh[k], k))'
        BY <1>1, <1>4, <1>7, <1>9 DEF Sound
    <2>6. (\A k \in DOMAIN plan.hits :
               Sound(plan.hits[k], k) /\ cache[k] = plan.hits[k])'
        BY <1>1, <1>7, <1>10 DEF Sound, stored
    <2> QED
        BY <1>4, <1>6, <1>7, <1>10, <2>4, <2>5, <2>6 DEF Serving
<1>17. CacheHonest' /\ Vouched' /\ CompleteMeansIndexed' /\ Stored' = Stored
    BY <1>1, Untouched DEF stored
<1>18. TypeOK' /\ CurrentIsParsed' /\ PassHasJob' /\ DoneIsWhole' /\ DeferralsAreQueued'
    BY <1>1, <1>17 DEF Inv, TypeOK, stored, CurrentIsParsed, PassHasJob, DoneIsWhole,
                       DeferralsAreQueued
<1>19. NoPlanLeft' /\ PlanOK'
    BY <1>1, <1>14, <1>15, <1>16 DEF NoPlanLeft, PlanOK, Planned
<1> QED
    BY <1>17, <1>18, <1>19 DEF Inv

-----------------------------------------------------------------------------
(* Phase 2c.                                                               *)

\* With extraction disabled the transaction changes no row, slice or result.
LEMMA NothingCommitted ==
    ASSUME Inv, Commit, ~release.enabled PROVE Inv'
<1>1. plan = NoPlan /\ pc = "planned"
    BY DEF Inv, NoPlanLeft, Planned, Commit
<1>2. /\ plan.stale = {} /\ plan.deferred = {} /\ plan.rewritten = {}
      /\ DOMAIN plan.results = {} /\ DOMAIN plan.fresh = {} /\ DOMAIN plan.hits = {}
      /\ plan.chunks = [p \in Payloads |-> {}]
    BY <1>1 DEF NoPlan
<1>3. UNCHANGED <<release, cache, rows, slice, manifest, troubles, job>>
    <2>1. PICK elsewhere \in SUBSET Shared :
              cache' = CacheAfter({Key(o) : o \in {q \in Occurrences :
                                                      RowsAfter[q].whole # "absent"}}
                                     \cup elsewhere)
        BY DEF Commit
    <2>2. cache' = cache
        <3>1. PayloadsOf(plan.stale) = {}
            BY <1>2 DEF PayloadsOf
        <3>2. cache' = [k \in Keys |-> cache[k]]
            BY <1>2, <2>1, <3>1 DEF CacheAfter
        <3> QED
            BY <3>2 DEF Inv, TypeOK
    <2>3. rows' = rows
        <3>1. rows' = [o \in Occurrences |-> rows[o]]
            BY <1>2 DEF Commit, RowsAfter
        <3> QED
            BY <3>1 DEF Inv, TypeOK
    <2>4. slice' = slice
        <3>1. \A carried : SliceAfter(carried) = [p \in Payloads |-> slice[p]]
            BY <1>2 DEF SliceAfter, PayloadsOf
        <3> QED
            BY <3>1 DEF Inv, TypeOK, Commit
    <2> QED
        BY <1>2, <2>2, <2>3, <2>4 DEF Commit
<1>4. pc' = "committed" /\ current' = "no" /\ plan' = NoPlan
    BY <1>2 DEF Commit
<1>5. CacheHonest' /\ Vouched' /\ CompleteMeansIndexed' /\ Stored' = Stored
    BY <1>3, Untouched
<1>6. TypeOK'
    BY <1>3, <1>4 DEF Inv, TypeOK
<1>7. CurrentIsParsed' /\ PassHasJob' /\ DoneIsWhole' /\ DeferralsAreQueued'
    BY <1>1, <1>3, <1>4 DEF Inv, CurrentIsParsed, PassHasJob, DoneIsWhole, DeferralsAreQueued
<1>8. NoPlanLeft' /\ PlanOK'
    BY <1>4 DEF NoPlanLeft, PlanOK, Planned
<1> QED
    BY <1>5, <1>6, <1>7, <1>8 DEF Inv

\* What a plan is at its commit.
LEMMA RowsCommitted ==
    ASSUME Inv, Planned, Commit
    PROVE  /\ rows' \in [Occurrences -> Row \cup {NoRow}]
           /\ Stored' = manifest
           /\ \A o \in Occurrences :
                 /\ o \in DOMAIN plan.results =>
                       /\ rows'[o].whole = plan.results[o].whole /\ ~rows'[o].deferred
                       /\ rows'[o].version = plan.results[o].version
                 /\ o \notin DOMAIN plan.results /\ rows'[o].whole = "yes" =>
                       /\ o \in manifest \ (plan.deferred \cup DOMAIN plan.results)
                       /\ rows[o].whole = "yes" /\ rows'[o].version = rows[o].version
                 /\ rows'[o].deferred => o \in plan.deferred
<1>1. Handles /\ PassesOver /\ Serving
    BY DEF Inv, PlanOK
<1>2. rows' = RowsAfter
    BY DEF Commit
<1>3. manifest \subseteq Occurrences /\ rows \in [Occurrences -> Row \cup {NoRow}]
    BY DEF Inv, TypeOK
<1>4. \A o \in DOMAIN plan.results : plan.results[o] \in Result
    BY <1>1 DEF Handles, Serving, Sound
<1>5. ASSUME NEW o \in Occurrences
      PROVE  /\ rows'[o] \in Row \cup {NoRow}
             /\ rows'[o].whole # "absent" <=> o \in manifest
             /\ o \in DOMAIN plan.results =>
                   /\ rows'[o].whole = plan.results[o].whole /\ ~rows'[o].deferred
                   /\ rows'[o].version = plan.results[o].version
             /\ o \notin DOMAIN plan.results /\ rows'[o].whole = "yes" =>
                   /\ o \in manifest \ (plan.deferred \cup DOMAIN plan.results)
                   /\ rows[o].whole = "yes" /\ rows'[o].version = rows[o].version
             /\ rows'[o].deferred => o \in plan.deferred
    <2>1. CASE o \in plan.stale
        <3>1. rows'[o] = NoRow /\ o \notin manifest
            BY <1>1, <1>2, <2>1 DEF RowsAfter, Handles
        <3> QED
            BY <1>1, <3>1 DEF NoRow, Handles
    <2>2. CASE o \in plan.deferred
        <3>1. /\ rows'[o] = [whole |-> "no", deferred |-> TRUE, version |-> rows[o].version]
              /\ o \in manifest /\ o \notin DOMAIN plan.results
            BY <1>1, <1>2, <2>2 DEF RowsAfter, Handles
        <3>2. rows[o].version \in {0} \cup Versions
            BY <1>3 DEF Row, NoRow
        <3> QED
            BY <2>2, <3>1, <3>2 DEF Row
    <2>3. CASE o \in DOMAIN plan.results
        <3>1. /\ rows'[o] = [whole |-> plan.results[o].whole, deferred |-> FALSE,
                             version |-> plan.results[o].version]
              /\ o \in manifest
            BY <1>1, <1>2, <2>3 DEF RowsAfter, Handles
        <3>2. plan.results[o].whole \in {"yes", "no"} /\ plan.results[o].version \in Versions
            BY <1>4, <2>3 DEF Result
        <3> QED
            BY <2>3, <3>1, <3>2 DEF Row
    <2>4. CASE o \notin plan.stale \cup plan.deferred \cup DOMAIN plan.results
        <3>1. rows'[o] = rows[o]
            BY <1>2, <2>4 DEF RowsAfter
        <3>2. rows[o].whole # "absent" <=> o \in Stored
            BY DEF Stored
        <3>3. o \in Stored <=> o \in manifest
            BY <1>1, <2>4 DEF Handles, PassesOver
        <3>4. o \in manifest => ~rows[o].deferred
            BY <1>1, <2>4 DEF PassesOver
        <3>5. o \notin Stored => ~rows[o].deferred
            BY <1>3, <3>2 DEF Row, NoRow
        <3> QED
            BY <1>3, <2>4, <3>1, <3>2, <3>3, <3>4, <3>5
    <2> QED
        BY <2>1, <2>2, <2>3, <2>4
<1>6. rows' \in [Occurrences -> Row \cup {NoRow}]
    <2>1. rows' = [o \in Occurrences |-> rows'[o]]
        BY <1>2 DEF RowsAfter
    <2> QED
        BY <1>5, <2>1
<1>7. Stored' = manifest
    BY <1>3, <1>5 DEF Stored
<1> QED
    BY <1>5, <1>6, <1>7

\* The cache after a commit: still honest, and what the rows vouch for is in it.
LEMMA CacheCommitted ==
    ASSUME Inv, Planned, Commit
    PROVE  /\ cache' \in [Keys -> Result \cup {Absent}]
           /\ CacheHonest'
           /\ \A o \in Stored' :
                 /\ o \in DOMAIN plan.results /\ plan.results[o].whole = "yes" =>
                        cache'[Key(o)] = plan.results[o]
                 /\ o \notin DOMAIN plan.results /\ rows'[o].whole = "yes" =>
                        cache'[Key(o)] = cache[Key(o)]
<1>1. Handles /\ PassesOver /\ Serving
    BY DEF Inv, PlanOK
<1>2. PICK elsewhere \in SUBSET Shared :
          cache' = CacheAfter({Key(o) : o \in {q \in Occurrences :
                                                  RowsAfter[q].whole # "absent"}}
                                 \cup elsewhere)
    BY DEF Commit
<1> DEFINE used == {Key(o) : o \in {q \in Occurrences : RowsAfter[q].whole # "absent"}}
                      \cup elsewhere
<1>3. cache' = CacheAfter(used)
    BY <1>2
<1>4. \A o \in Stored' : Key(o) \in used
    BY DEF Commit, Stored
<1> HIDE DEF used
<1>5. \A k \in Keys :
          /\ k \in used => cache'[k] = IF k \in DOMAIN plan.fresh THEN plan.fresh[k]
                                       ELSE IF k \in DOMAIN plan.hits /\ cache[k] = Absent
                                            THEN plan.hits[k] ELSE cache[k]
          /\ \/ cache'[k] = Absent
             \/ k \in DOMAIN plan.fresh /\ cache'[k] = plan.fresh[k]
             \/ k \in DOMAIN plan.hits /\ cache'[k] = plan.hits[k]
             \/ cache'[k] = cache[k]
    BY <1>3 DEF CacheAfter
<1>6. \A k \in Keys : cache[k] \in Result \cup {Absent}
    BY DEF Inv, TypeOK
<1>7. \A k \in Keys :
          /\ k \in DOMAIN plan.fresh => Sound(plan.fresh[k], k)
          /\ k \in DOMAIN plan.hits => Sound(plan.hits[k], k)
    BY <1>1 DEF Serving
<1>8. cache' \in [Keys -> Result \cup {Absent}]
    <2>1. \A k \in Keys : cache'[k] \in Result \cup {Absent}
        BY <1>5, <1>6, <1>7 DEF Sound
    <2>2. cache' = [k \in Keys |-> cache'[k]]
        BY <1>3 DEF CacheAfter
    <2> QED
        BY <2>1, <2>2
<1>9. CacheHonest'
    <2>1. release' = release /\ release.identification \in Nat
                             /\ release.identification >= 1
        BY DEF Inv, TypeOK, Versions, Commit
    <2> SUFFICES ASSUME NEW k \in Keys
                 PROVE  /\ cache'[k].whole = "yes" =>
                              cache'[k].read = Reading[<<k, cache'[k].version>>]
                        /\ cache'[k].identified <= release.identification
        BY <2>1 DEF CacheHonest
    <2>2. CASE cache'[k] = Absent
        BY <2>1, <2>2 DEF Absent
    <2>3. CASE Sound(cache'[k], k)
        BY <2>1, <2>3 DEF Sound
    <2>4. CASE cache'[k] = cache[k]
        BY <2>4 DEF Inv, CacheHonest
    <2> QED
        BY <1>5, <1>7, <2>2, <2>3, <2>4
<1>10. ASSUME NEW o \in Stored', o \in DOMAIN plan.results, plan.results[o].whole = "yes"
       PROVE  cache'[Key(o)] = plan.results[o]
    <2>1. o \in Occurrences /\ Key(o) \in Keys /\ Key(o) \in used
        BY <1>4, KeyOf DEF Stored
    <2>2. CASE Key(o) \in DOMAIN plan.fresh /\ plan.results[o] = plan.fresh[Key(o)]
        BY <1>5, <2>1, <2>2
    <2>3. CASE /\ Key(o) \in DOMAIN plan.hits \ DOMAIN plan.fresh
               /\ plan.results[o] = plan.hits[Key(o)]
        <3>1. cache[Key(o)] \in {plan.hits[Key(o)], Absent}
            BY <1>1, <1>10, <2>3 DEF Serving
        <3> QED
            BY <1>5, <2>1, <2>3, <3>1
    <2> QED
        BY <1>1, <1>10, <2>2, <2>3 DEF Handles
<1>11. ASSUME NEW o \in Stored', o \notin DOMAIN plan.results, rows'[o].whole = "yes"
       PROVE  cache'[Key(o)] = cache[Key(o)]
    <2>1. o \in Occurrences /\ Key(o) \in Keys /\ Key(o) \in used
        BY <1>4, KeyOf DEF Stored
    <2>2. /\ o \in manifest \ (plan.deferred \cup DOMAIN plan.results)
          /\ rows[o].whole = "yes"
        BY <1>11, <2>1, RowsCommitted
    <2>3. Key(o) \notin DOMAIN plan.fresh
        BY <1>1, <2>2 DEF PassesOver
    <2>4. cache[Key(o)] # Absent
        BY <2>1, <2>2 DEF Inv, Vouched, Absent
    <2> QED
        BY <1>5, <2>1, <2>3, <2>4
<1> QED
    BY <1>8, <1>9, <1>10, <1>11

LEMMA PlannedCommitKeeps == ASSUME Inv, Planned, Commit PROVE Inv'
<1>1. Handles /\ PassesOver /\ Serving
    BY DEF Inv, PlanOK
<1>2. /\ UNCHANGED <<release, manifest, troubles>> /\ release.enabled
      /\ current' = "yes" /\ plan' = NoPlan
      /\ \/ plan.deferred # {} /\ pc' = "idle" /\ job' = [queued |-> TRUE, continues |-> TRUE]
         \/ plan.deferred = {} /\ pc' = "committed" /\ job' = job
    BY DEF Commit, Planned
<1>3. job.queued
    BY DEF Inv, PassHasJob, Planned
<1>4. /\ rows' \in [Occurrences -> Row \cup {NoRow}]
      /\ Stored' = manifest
      /\ \A o \in Occurrences :
            /\ o \in DOMAIN plan.results =>
                  /\ rows'[o].whole = plan.results[o].whole /\ ~rows'[o].deferred
                  /\ rows'[o].version = plan.results[o].version
            /\ o \notin DOMAIN plan.results /\ rows'[o].whole = "yes" =>
                  /\ o \in manifest \ (plan.deferred \cup DOMAIN plan.results)
                  /\ rows[o].whole = "yes" /\ rows'[o].version = rows[o].version
            /\ rows'[o].deferred => o \in plan.deferred
    BY RowsCommitted
<1>5. /\ cache' \in [Keys -> Result \cup {Absent}]
      /\ CacheHonest'
      /\ \A o \in Stored' :
            /\ o \in DOMAIN plan.results /\ plan.results[o].whole = "yes" =>
                   cache'[Key(o)] = plan.results[o]
            /\ o \notin DOMAIN plan.results /\ rows'[o].whole = "yes" =>
                   cache'[Key(o)] = cache[Key(o)]
    BY CacheCommitted
<1>6. \A o \in DOMAIN plan.results :
          /\ Sound(plan.results[o], Key(o))
          /\ plan.results[o].read \subseteq plan.chunks[Payload[o]]
    BY <1>1 DEF Handles, Serving
<1>7. PICK carried :
          /\ slice' = SliceAfter(carried)
          /\ \A o \in Stored' : Payload[o] \in carried
    <2> DEFINE kept == {o \in Occurrences : RowsAfter[o].whole # "absent"}
    <2>1. rows' = RowsAfter /\ slice' = SliceAfter(PayloadsOf(kept))
        BY DEF Commit
    <2>2. \A o \in Stored' : o \in kept
        BY <2>1 DEF Stored
    <2>3. \A o \in Stored' : Payload[o] \in PayloadsOf(kept)
        BY <2>2 DEF PayloadsOf
    <2> QED
        BY <2>1, <2>3
<1>8. slice' \in [Payloads -> SUBSET Words]
    BY <1>1, <1>7 DEF Inv, TypeOK, SliceAfter, Serving
<1>9. TypeOK'
    <2>1. job' \in [queued : BOOLEAN, continues : BOOLEAN]
        <3>1. job \in [queued : BOOLEAN, continues : BOOLEAN]
            BY DEF Inv, TypeOK
        <3>2. [queued |-> TRUE, continues |-> TRUE] \in [queued : BOOLEAN, continues : BOOLEAN]
            OBVIOUS
        <3>3. job' \in {job, [queued |-> TRUE, continues |-> TRUE]}
            BY <1>2
        <3> QED
            BY <3>1, <3>2, <3>3
    <2>2. pc' \in {"idle", "parsed", "planned", "committed"}
        BY <1>2
    <2>3. TypeOK
        BY DEF Inv
    <2>4. /\ release' = release /\ manifest' = manifest /\ troubles' = troubles
          /\ current' = "yes"
        BY <1>2
    <2> QED
        BY <2>1, <2>2, <2>3, <2>4, <1>4, <1>5, <1>8 DEF TypeOK
<1>10. ASSUME NEW o \in Occurrences, rows'[o].whole = "yes" PROVE o \in Stored'
    BY <1>10 DEF Stored
<1>11. Vouched'
    <2> SUFFICES ASSUME NEW o \in Occurrences, rows'[o].whole = "yes"
                 PROVE  /\ rows'[o].version = release.version
                        /\ cache'[Key(o)].whole = "yes"
                        /\ cache'[Key(o)].version = release.version
                        /\ cache'[Key(o)].identified = release.identification
        BY <1>2 DEF Vouched
    <2>1. CASE o \in DOMAIN plan.results
        <3>1. /\ plan.results[o].whole = "yes"
              /\ rows'[o].version = plan.results[o].version
            BY <1>4, <2>1
        <3>2. cache'[Key(o)] = plan.results[o]
            BY <1>5, <1>10, <2>1, <3>1
        <3>3. /\ plan.results[o].version = release.version
              /\ plan.results[o].identified = release.identification
            BY <1>6, <2>1 DEF Sound
        <3> QED
            BY <3>1, <3>2, <3>3
    <2>2. CASE o \notin DOMAIN plan.results
        <3>1. rows[o].whole = "yes" /\ rows'[o].version = rows[o].version
            BY <1>4, <2>2
        <3>2. cache'[Key(o)] = cache[Key(o)]
            BY <1>5, <1>10, <2>2
        <3> QED
            BY <1>2, <3>1, <3>2 DEF Inv, Vouched
    <2> QED
        BY <2>1, <2>2
<1>12. CompleteMeansIndexed'
    <2> SUFFICES ASSUME NEW o \in Stored', rows'[o].whole = "yes"
                 PROVE  Reading[<<Key(o), rows'[o].version>>] \subseteq slice'[Payload[o]]
        BY DEF CompleteMeansIndexed
    <2>1. o \in Occurrences /\ Payload[o] \in Payloads
        BY KeyOf DEF Stored
    <2>2. slice'[Payload[o]] = plan.chunks[Payload[o]] \cup
              (IF Payload[o] \in plan.rewritten THEN {} ELSE slice[Payload[o]])
        BY <1>7, <2>1 DEF SliceAfter
    <2>3. CASE o \in DOMAIN plan.results
        BY <1>4, <1>6, <2>1, <2>2, <2>3 DEF Sound
    <2>4. CASE o \notin DOMAIN plan.results
        <3>1. /\ o \in manifest \ (plan.deferred \cup DOMAIN plan.results)
              /\ rows[o].whole = "yes" /\ rows'[o].version = rows[o].version
            BY <1>4, <2>1, <2>4
        <3>2. rows[o].version = release.version
            BY <2>1, <3>1 DEF Inv, Vouched
        <3>3. Reading[<<Key(o), release.version>>] \subseteq slice[Payload[o]]
            BY <2>1, <3>1, <3>2 DEF Inv, CompleteMeansIndexed, Stored
        <3>4. Payload[o] \in plan.rewritten =>
                  Reading[<<Key(o), release.version>>] \subseteq plan.chunks[Payload[o]]
            BY <1>1, <3>1 DEF PassesOver
        <3> QED
            BY <2>2, <3>1, <3>2, <3>3, <3>4
    <2> QED
        BY <2>3, <2>4
<1>13. CurrentIsParsed' /\ PassHasJob'
    BY <1>2, <1>3, <1>4 DEF CurrentIsParsed, PassHasJob
<1>14. DoneIsWhole' /\ DeferralsAreQueued'
    BY <1>2, <1>3, <1>4 DEF DoneIsWhole, DeferralsAreQueued
<1>15. NoPlanLeft' /\ PlanOK'
    BY <1>2 DEF NoPlanLeft, PlanOK, Planned
<1> QED
    BY <1>5, <1>9, <1>11, <1>12, <1>13, <1>14, <1>15 DEF Inv

-----------------------------------------------------------------------------
(* The theorems.                                                           *)

LEMMA Steps == Inv /\ [Next]_vars => Inv'
<1> SUFFICES ASSUME Inv, [Next]_vars PROVE Inv'
    OBVIOUS
<1>1. CASE Pass
    <2>1. CASE Commit
        <3>1. pc = "planned"
            BY <2>1 DEF Commit
        <3> QED
            BY <2>1, <3>1, NothingCommitted, PlannedCommitKeeps DEF Planned
    <2> QED
        BY <1>1, <2>1, ParseKeeps, CollectKeeps, CollectNothingKeeps, SucceedKeeps DEF Pass
<1>2. CASE Peer
    BY <1>2, PeerRefreshesKeeps, PeerDropsKeeps DEF Peer
<1>3. CASE UNCHANGED vars
    <2> USE <1>3 DEF Inv, vars, stored
    <2>1. CacheHonest' /\ Vouched' /\ CompleteMeansIndexed' /\ Stored' = Stored
        BY Untouched
    <2>2. TypeOK'
        BY DEF TypeOK
    <2>3. CurrentIsParsed' /\ PassHasJob' /\ DoneIsWhole' /\ DeferralsAreQueued'
        BY <2>1 DEF CurrentIsParsed, PassHasJob, DoneIsWhole, DeferralsAreQueued
    <2>4. Planned' = Planned /\ NoPlanLeft'
        BY DEF NoPlanLeft, Planned
    <2>5. PlanOK'
        <3> SUFFICES ASSUME Planned PROVE Handles' /\ PassesOver' /\ Serving'
            BY <2>4 DEF PlanOK
        <3>1. Handles /\ PassesOver /\ Serving
            BY DEF PlanOK
        <3>2. Handles' /\ PassesOver'
            BY <2>1, <3>1 DEF Handles, PassesOver
        <3>3. \A k \in DOMAIN plan.hits :
                  plan.hits[k].whole = "yes" => cache'[k] \in {plan.hits[k], Absent}
            BY <3>1 DEF Serving
        <3> QED
            BY <3>1, <3>2, <3>3, StillServing
    <2> QED
        BY <2>1, <2>2, <2>3, <2>4, <2>5
<1> QED
    BY <1>1, <1>2, <1>3, FailKeeps, EnqueueKeeps, RestartKeeps DEF Next

LEMMA Invariance == Spec => []Inv
<1>1. Inv /\ [Next]_vars => Inv'
    BY Steps
<1> QED
    BY Initially, <1>1, PTL DEF Spec

\* Every variable keeps its shape: the tables of the message's attachments, its
\* chunks and the cache, whatever the passes, restarts and other messages do.
THEOREM TypeCorrect == Spec => []TypeOK
<1>1. Inv => TypeOK
    BY DEF Inv
<1> QED
    BY Invariance, <1>1, PTL

\* A row whose text is recorded complete has all of it in its payload's chunks,
\* though copies share the chunks and other messages refresh or purge the results.
THEOREM CompleteIsIndexed == Spec => []CompleteMeansIndexed
<1>1. Inv => CompleteMeansIndexed
    BY DEF Inv
<1> QED
    BY Invariance, <1>1, PTL

\* The search rules a word out only if the running extractors read it in none of
\* the message's attachments.
THEOREM AbsenceTrue == Spec => []AbsenceIsTrue
<1>1. Inv => AbsenceIsTrue
    <2> SUFFICES ASSUME Inv, NEW w \in Words, TextVerdict(w) = "no", NEW o \in manifest
                 PROVE  w \notin Reading[<<Key(o), release.version>>]
        BY DEF AbsenceIsTrue
    <2>1. current = "yes" /\ \A q \in Stored : rows[q].whole = "yes"
        BY DEF TextVerdict
    <2>2. o \in Stored /\ o \in Occurrences
        BY <2>1 DEF Inv, CurrentIsParsed, Stored
    <2>3. Reading[<<Key(o), release.version>>] \subseteq slice[Payload[o]]
        BY <2>1, <2>2 DEF Inv, Vouched, CompleteMeansIndexed
    <2>4. w \notin UNION {slice[p] : p \in Payloads}
        BY <2>1 DEF TextVerdict
    <2> QED
        BY <2>2, <2>3, <2>4, KeyOf
<1> QED
    BY Invariance, <1>1, PTL

\* While extraction is enabled an attachment put off has a job to finish it, even
\* if a pass without extraction ended the one it had.
THEOREM DeferralsQueued == Spec => []DeferralsAreQueued
<1>1. Inv => DeferralsAreQueued
    BY DEF Inv
<1> QED
    BY Invariance, <1>1, PTL

-----------------------------------------------------------------------------
(***************************************************************************)
(* SettledSlicesAreExact.  What a slice may still hold of an older version *)
(* or of a stale occurrence cannot be bounded while a copy of its payload  *)
(* waits; what can is the slice of a payload each of whose keys some copy  *)
(* has read whole.  A pass that leaves such a slice as it was found every  *)
(* key of it so: a copy put off has a key that nothing has read whole, and *)
(* a stale copy whose module no kept one shares brings the payload back.   *)
(***************************************************************************)

CopiesIn(table, p) ==
    {o \in Occurrences : table[o].whole # "absent" /\ Payload[o] = p}
ReadWhole(table, p) ==
    \A o \in CopiesIn(table, p) :
        \E other \in CopiesIn(table, p) :
            Key(other) = Key(o) /\ table[other].whole = "yes"
TextOf(table, p, version) ==
    UNION {Reading[<<Key(o), version>>] : o \in CopiesIn(table, p)}

Exact(table, slices, version) ==
    \A p \in Payloads :
        ReadWhole(table, p) => slices[p] \subseteq TextOf(table, p, version)

\* The slices are exact, and those a planned pass would commit are.
Committed  == SliceAfter(PayloadsOf({o \in Occurrences : RowsAfter[o].whole # "absent"}))
ExactNow   == Exact(rows, slice, release.version)
ExactAfter == pc = "planned" => Exact(RowsAfter, Committed, release.version)
ExactInv   == ExactNow /\ ExactAfter

\* The attachments of the tables when nothing changes them.
LEMMA ExactUntouched ==
    ASSUME ExactInv, UNCHANGED <<rows, slice, release>>,
           pc' # "planned" \/ (pc = "planned" /\ plan' = plan)
    PROVE  ExactInv'
<1>1. ExactNow'
    BY DEF ExactInv, ExactNow
<1>2. ASSUME pc' = "planned" PROVE RowsAfter' = RowsAfter /\ Committed' = Committed
    <2>1. plan' = plan /\ pc = "planned"
        BY <1>2
    <2>2. RowsAfter' = RowsAfter
        BY <2>1 DEF RowsAfter
    <2> QED
        BY <2>1, <2>2 DEF Committed, SliceAfter
<1> QED
    BY <1>1, <1>2 DEF ExactInv, ExactAfter

\* A pass without extraction would commit what is there.
LEMMA NothingExact ==
    ASSUME Inv, ExactInv, CollectNothing PROVE ExactInv'
<1>1. UNCHANGED <<rows, slice, release>> /\ plan' = NoPlan
    BY DEF CollectNothing, stored
<1>2. /\ plan'.stale = {} /\ plan'.deferred = {} /\ plan'.rewritten = {}
      /\ DOMAIN plan'.results = {} /\ plan'.chunks = [p \in Payloads |-> {}]
    BY <1>1 DEF NoPlan
<1>3. RowsAfter' = rows
    <2>1. RowsAfter' = [o \in Occurrences |-> rows[o]]
        BY <1>1, <1>2 DEF RowsAfter
    <2> QED
        BY <2>1 DEF Inv, TypeOK
<1>4. Committed' = slice
    <2>1. Committed' = [p \in Payloads |-> slice[p]]
        BY <1>1, <1>2 DEF Committed, SliceAfter, PayloadsOf
    <2> QED
        BY <2>1 DEF Inv, TypeOK
<1> QED
    BY <1>1, <1>3, <1>4 DEF ExactInv, ExactNow, ExactAfter

\* The sweep of another release leaves no copy of an older version read whole.
LEMMA RestartExact ==
    ASSUME Inv, ExactInv, Restart PROVE ExactInv'
<1>1. PICK kind \in Upgrades \cup {"none"} :
          \E new \in Releases(kind), reopened \in SUBSET {k \in Keys : cache[k].whole = "no"} :
             /\ {new.version, new.identification} \subseteq Versions
             /\ release' = new
             /\ Swept(new, reopened)
    BY DEF Restart
<1>2. PICK new \in Releases(kind), reopened \in SUBSET {k \in Keys : cache[k].whole = "no"} :
          /\ {new.version, new.identification} \subseteq Versions
          /\ release' = new
          /\ Swept(new, reopened)
    BY <1>1
<1>3. new.version >= release.version /\ new.version \in Nat /\ release.version \in 1..MaxVersion
    BY <1>2, NewRelease, SlicesAssumption DEF Inv, TypeOK, Versions
<1>4. /\ Stored' = Stored
      /\ \A o \in Occurrences : rows'[o].whole = "yes" =>
             rows[o].whole = "yes" /\ rows[o].version \notin 1..new.version - 1
    BY <1>2, SweptRows DEF Inv
<1>5. \A p : CopiesIn(rows', p) = CopiesIn(rows, p)
    BY <1>4 DEF CopiesIn, Stored
<1>6. UNCHANGED slice /\ pc' = "idle"
    BY DEF Restart
<1>7. Exact(rows', slice, new.version)
    <2> SUFFICES ASSUME NEW p \in Payloads, ReadWhole(rows', p)
                 PROVE  slice[p] \subseteq TextOf(rows', p, new.version)
        BY DEF Exact
    <2>1. ReadWhole(rows, p)
        BY <1>4, <1>5 DEF ReadWhole, CopiesIn
    <2>2. slice[p] \subseteq TextOf(rows, p, release.version)
        BY <2>1 DEF ExactInv, ExactNow, Exact
    <2>3. CASE CopiesIn(rows, p) = {}
        BY <1>5, <2>2, <2>3 DEF TextOf
    <2>4. CASE CopiesIn(rows, p) # {}
        <3>1. PICK o \in Occurrences : rows'[o].whole = "yes"
            BY <1>5, <2>4 DEF ReadWhole, CopiesIn
        <3>2. rows[o].version = release.version
            BY <1>4, <3>1 DEF Inv, Vouched
        <3>3. new.version = release.version
            BY <1>3, <1>4, <3>1, <3>2
        <3> QED
            BY <1>5, <2>2, <3>3 DEF TextOf
    <2> QED
        BY <2>3, <2>4
<1> QED
    BY <1>2, <1>6, <1>7 DEF ExactInv, ExactNow, ExactAfter

LEMMA CommitExact ==
    ASSUME ExactInv, Commit PROVE ExactInv'
<1>1. pc = "planned" /\ pc' # "planned" /\ UNCHANGED release
    BY DEF Commit
<1>2. rows' = RowsAfter /\ slice' = Committed
    BY DEF Commit, Committed
<1> QED
    BY <1>1, <1>2 DEF ExactInv, ExactNow, ExactAfter

\* A plan of Phase 2a: an attachment whose row will say it is whole is served the
\* whole text of its key, to every copy with that key, and none of those waits.
LEMMA CollectExact ==
    ASSUME Inv, ExactInv, Collect PROVE ExactInv'
<1>1. /\ pc = "parsed" /\ release.enabled
      /\ UNCHANGED <<release, stored>>
    BY DEF Collect
<1>2. PICK hits \in SUBSET Wanted, late \in SUBSET Wanted, lent \in SUBSET Shared :
          \E fresh \in [((Wanted \ (hits \cup lent)) \ late) \cup lent ->
                           UNION {Extractions(k) : k \in ((Wanted \ (hits \cup lent)) \ late)
                                                            \cup lent}] :
             /\ hits \subseteq {k \in Wanted : UpToDate(cache[k])} \ lent
             /\ {k \in Wanted \ lent : Settled(cache[k])} \subseteq hits
             /\ late \subseteq Wanted \ (hits \cup lent)
             /\ lent \subseteq {k \in Wanted \cup {Key(o) : o \in Settling(late)} :
                                   ~Settled(cache[k])}
             /\ \A k \in ((Wanted \ (hits \cup lent)) \ late) \cup lent :
                   fresh[k] \in Extractions(k)
             /\ plan' = Prepared(hits, late, fresh)
    BY DEF Collect, PutOff
<1> DEFINE asked == ((Wanted \ (hits \cup lent)) \ late) \cup lent
<1>3. PICK fresh \in [asked -> UNION {Extractions(k) : k \in asked}] :
          /\ \A k \in asked : fresh[k] \in Extractions(k)
          /\ plan' = Prepared(hits, late, fresh)
    BY <1>2
<1>4. /\ hits \subseteq {k \in Wanted : UpToDate(cache[k])} \ lent
      /\ {k \in Wanted \ lent : Settled(cache[k])} \subseteq hits
      /\ late \subseteq Wanted \ (hits \cup lent)
      /\ \A k \in lent : ~Settled(cache[k])
      /\ DOMAIN fresh = asked
    BY <1>2
<1>5. Wanted \subseteq Keys /\ Kept \subseteq manifest /\ manifest \subseteq Occurrences
    BY DEF Inv, TypeOK, Wanted, Pending, Kept, Keys
<1>6. asked \subseteq Keys
    BY <1>5, SlicesAssumption
<1> DEFINE done      == Resolved(late)
           settling  == Settling(late)
           rewrites  == {o \in settling : Key(o) \in DOMAIN fresh /\ o = First(Key(o), settling)}
           protected == PayloadsOf(Kept \ settling) \cup PutOffOf(late)
           Served(k) == Serves(k, fresh)
           after     == RowsAfter'
<1>7. /\ plan'.results = [o \in done \cup rewrites |-> Served(Key(o))]
      /\ plan'.deferred = Pending \ done
      /\ plan'.chunks = [p \in Payloads |->
                           UNION {Served(Key(o)).read :
                                     o \in {q \in done \cup settling : Payload[q] = p}}]
      /\ plan'.rewritten = PayloadsOf(done \cup settling) \ protected
      /\ plan'.stale = Stored \ manifest
    BY <1>3 DEF Prepared, Stale
<1>8. /\ done = {o \in Pending : Key(o) \notin late}
      /\ settling = {o \in Kept : Payload[o] \in (PayloadsOf(done) \cup Shrunk) \ PutOffOf(late)}
      /\ settling \subseteq Kept /\ rewrites \subseteq settling
      /\ Pending = manifest \ Kept
      /\ \A o \in rewrites : Key(o) \in asked
    BY <1>4 DEF Resolved, Settling, Pending
<1>9. \A k \in Keys :
          Served(k) = IF k \in asked THEN fresh[k] ELSE cache[k]
    BY <1>4 DEF Serves
\* What a result that is whole holds.
<1>10. ASSUME NEW o \in done \cup rewrites, Served(Key(o)).whole = "yes"
       PROVE  Served(Key(o)).read = Reading[<<Key(o), release.version>>]
    <2>1. Key(o) \in Keys
        BY <1>5, <1>8, KeyOf
    <2>2. CASE Key(o) \in asked
        <3>1. Sound(fresh[Key(o)], Key(o))
            BY <1>3, <2>1, <2>2, ExtractionsSound DEF Inv
        <3> QED
            BY <1>9, <1>10, <2>1, <2>2, <3>1 DEF Sound
    <2>3. CASE Key(o) \notin asked
        <3>1. Key(o) \in Wanted \ late
            BY <1>8, <2>3 DEF Wanted
        <3>2. UpToDate(cache[Key(o)])
            BY <1>4, <2>3, <3>1
        <3> QED
            BY <1>9, <1>10, <2>1, <2>3, <3>2 DEF Inv, CacheHonest, UpToDate
    <2> QED
        BY <2>2, <2>3
<1>11. ASSUME NEW o \in Kept, rows[o].whole = "yes"
       PROVE  /\ Key(o) \notin asked /\ Key(o) \notin late
              /\ Served(Key(o)).read = Reading[<<Key(o), release.version>>]
    <2>1. /\ Settled(cache[Key(o)]) /\ Key(o) \in Keys
          /\ cache[Key(o)].read = Reading[<<Key(o), release.version>>]
        BY <1>1, <1>5, <1>11, KeyOf DEF Inv, Vouched, CacheHonest, Settled, UpToDate, Absent
    <2>2. Key(o) \notin asked /\ Key(o) \notin late
        BY <1>4, <2>1
    <2> QED
        BY <1>9, <2>1, <2>2
<1> HIDE DEF asked, done, settling, rewrites, protected, Served, after
\* The rows the plan leaves behind.
<1>12. ASSUME NEW o \in Occurrences
       PROVE  /\ o \in manifest <=> after[o].whole # "absent"
              /\ after[o].whole = "yes" =>
                    /\ o \in done \cup rewrites => Served(Key(o)).whole = "yes"
                    /\ o \notin done \cup rewrites => o \in Kept /\ rows[o].whole = "yes"
    <2>1. after[o] =
              IF o \in Stored \ manifest THEN NoRow
              ELSE IF o \in Pending \ done
                   THEN [whole |-> "no", deferred |-> TRUE, version |-> rows[o].version]
              ELSE IF o \in done \cup rewrites
                   THEN [whole |-> Served(Key(o)).whole, deferred |-> FALSE,
                         version |-> Served(Key(o)).version]
              ELSE rows[o]
        BY <1>1, <1>7 DEF after, RowsAfter, stored
    <2>2. o \in done \cup rewrites => Served(Key(o)).whole # "absent"
        <3>1. CASE Key(o) \in asked
            <4>1. Sound(fresh[Key(o)], Key(o))
                BY <1>3, <1>6, <3>1, ExtractionsSound DEF Inv
            <4> QED
                BY <1>6, <1>9, <3>1, <4>1 DEF Sound, Result
        <3>2. CASE o \in done /\ Key(o) \notin asked
            <4>1. Key(o) \in Wanted \ late
                BY <1>8, <3>2 DEF Wanted
            <4>2. UpToDate(cache[Key(o)])
                BY <1>4, <3>2, <4>1 DEF asked
            <4> QED
                BY <1>5, <1>9, <3>2, <4>1, <4>2 DEF UpToDate
        <3> QED
            BY <1>8, <3>1, <3>2
    <2>3. o \in Kept => rows[o].whole # "absent"
        BY DEF Kept
    <2>4. o \in Stored <=> rows[o].whole # "absent"
        BY DEF Stored
    <2>5. rewrites \subseteq manifest /\ rewrites \cap Pending = {} /\ done \subseteq manifest
        BY <1>5, <1>8
    <2>6. CASE o \in Stored \ manifest
        BY <2>1, <2>6 DEF NoRow
    <2>7. CASE o \in Pending \ done
        <3>1. after[o].whole = "no" /\ o \in manifest
            BY <1>8, <2>1, <2>7
        <3> QED
            BY <3>1
    <2>8. CASE o \in done \cup rewrites
        <3>1. after[o].whole = Served(Key(o)).whole /\ o \in manifest
            BY <2>1, <2>5, <2>8
        <3> QED
            BY <2>2, <2>8, <3>1
    <2>9. CASE o \notin (Stored \ manifest) \cup Pending \cup rewrites
        <3>1. after[o] = rows[o]
            BY <1>8, <2>1, <2>9
        <3>2. o \in manifest => o \in Kept
            BY <1>8, <2>9
        <3>3. o \notin manifest => o \notin Stored
            BY <2>9
        <3> QED
            BY <1>8, <2>3, <2>4, <2>9, <3>1, <3>2, <3>3
    <2> QED
        BY <2>6, <2>7, <2>8, <2>9
\* So a key that some copy has read whole waits nowhere, and is served whole.
<1>13. ASSUME NEW p \in Payloads, ReadWhole(after, p), NEW o \in manifest, Payload[o] = p
       PROVE  /\ Key(o) \notin late
              /\ Served(Key(o)).read = Reading[<<Key(o), release.version>>]
    <2>1. o \in CopiesIn(after, p)
        BY <1>5, <1>12, <1>13 DEF CopiesIn
    <2>2. PICK other \in CopiesIn(after, p) : Key(other) = Key(o) /\ after[other].whole = "yes"
        BY <1>13, <2>1 DEF ReadWhole
    <2>3. other \in Occurrences
        BY <2>2 DEF CopiesIn
    <2>4. CASE other \in done \cup rewrites
        <3>1. Served(Key(other)).read = Reading[<<Key(other), release.version>>]
            BY <1>10, <1>12, <2>2, <2>3, <2>4
        <3>2. Key(other) \notin late
            BY <1>4, <1>8, <2>4 DEF asked
        <3> QED
            BY <2>2, <3>1, <3>2
    <2>5. CASE other \notin done \cup rewrites
        <3>1. other \in Kept /\ rows[other].whole = "yes"
            BY <1>12, <2>2, <2>3, <2>5
        <3> QED
            BY <1>11, <2>2, <3>1
    <2> QED
        BY <2>4, <2>5
<1>14. ASSUME NEW p \in Payloads, ReadWhole(after, p)
       PROVE  Committed'[p] \subseteq TextOf(after, p, release.version)
    <2> DEFINE carried == PayloadsOf({o \in Occurrences : after[o].whole # "absent"})
    <2>1. Committed'[p] =
              IF p \in PayloadsOf(Stored \ manifest) \ carried THEN {}
              ELSE plan'.chunks[p] \cup (IF p \in plan'.rewritten THEN {} ELSE slice[p])
        BY <1>1, <1>7 DEF Committed, SliceAfter, after, stored
    <2>2. CopiesIn(after, p) = {o \in manifest : Payload[o] = p}
        BY <1>5, <1>12 DEF CopiesIn
    <2>3. plan'.chunks[p] =
              UNION {Served(Key(o)).read : o \in {q \in done \cup settling : Payload[q] = p}}
        BY <1>7
    <2>4. plan'.chunks[p] \subseteq TextOf(after, p, release.version)
        <3>1. \A o \in done \cup settling : o \in manifest
            BY <1>5, <1>8
        <3>2. \A o \in {q \in done \cup settling : Payload[q] = p} :
                  /\ o \in CopiesIn(after, p)
                  /\ Served(Key(o)).read = Reading[<<Key(o), release.version>>]
            BY <1>13, <1>14, <2>2, <3>1
        <3> QED
            BY <2>3, <3>2 DEF TextOf
    <2>5. CASE p \in plan'.rewritten \/ p \in PayloadsOf(Stored \ manifest) \ carried
        BY <2>1, <2>4, <2>5
    <2>6. CASE p \notin plan'.rewritten /\ p \notin PayloadsOf(Stored \ manifest) \ carried
        \* Every copy the parse still finds was kept, and is not read again.
        <3>1. p \notin PutOffOf(late)
            <4> SUFFICES ASSUME p \in PutOffOf(late) PROVE FALSE
                OBVIOUS
            <4>1. PICK k \in late : k[1] = p
                BY DEF PutOffOf
            <4>2. PICK o \in Pending : Key(o) = k
                BY <1>4, <4>1 DEF Wanted
            <4>3. Payload[o] = p /\ o \in manifest
                BY <1>8, <4>1, <4>2 DEF Key
            <4> QED
                BY <1>13, <1>14, <4>1, <4>2, <4>3
        <3>2. \A o \in manifest : Payload[o] = p => o \in Kept \/ o \in done
            BY <1>8, <1>13, <1>14
        <3>3. \A o \in Kept \ settling : Payload[o] = p => p \notin PayloadsOf(done) \cup Shrunk
            BY <1>8, <3>1
        <3>4. p \in PayloadsOf(done \cup settling) => \E o \in Kept \ settling : Payload[o] = p
            BY <1>7, <2>6, <3>1 DEF protected, PayloadsOf
        <3>5. \A o \in manifest : Payload[o] = p => o \in Kept \ settling
            <4>1. CASE \E o \in Kept \ settling : Payload[o] = p
                <5>1. p \notin PayloadsOf(done) \cup Shrunk
                    BY <3>3, <4>1
                <5>2. \A o \in done \cup settling : Payload[o] # p
                    BY <1>8, <5>1 DEF PayloadsOf
                <5> QED
                    BY <3>2, <5>2
            <4>2. CASE p \notin PayloadsOf(done \cup settling)
                BY <3>2, <4>2 DEF PayloadsOf
            <4> QED
                BY <3>4, <4>1, <4>2
        <3>6. plan'.chunks[p] = {}
            BY <1>5, <1>8, <2>3, <3>5
        <3>7. \A o \in manifest : Payload[o] = p =>
                  /\ o \in CopiesIn(rows, p) /\ o \notin done \cup rewrites
            BY <1>5, <1>8, <3>5 DEF CopiesIn, Kept
        \* A copy the parse lost has the module of a kept one, or there is none.
        <3>8. ASSUME NEW o \in CopiesIn(rows, p)
              PROVE  \E kept \in CopiesIn(after, p) : Key(kept) = Key(o)
            <4>1. CASE o \in manifest
                BY <2>2, <4>1 DEF CopiesIn
            <4>2. CASE o \notin manifest
                <5>1. o \in Stale /\ Payload[o] = p
                    BY <4>2 DEF Stale, Stored, CopiesIn
                <5>2. p \in PayloadsOf(Stored \ manifest)
                    BY <5>1 DEF Stale, PayloadsOf
                <5>3. PICK kept \in CopiesIn(after, p) : TRUE
                    BY <2>6, <5>2 DEF PayloadsOf, CopiesIn
                <5>4. kept \in Kept \ settling /\ Payload[kept] = p
                    BY <2>2, <3>5, <5>3
                <5>5. p \notin Shrunk /\ p \in PayloadsOf(Kept)
                    BY <3>3, <5>4 DEF PayloadsOf
                <5>6. \E same \in Kept : Payload[same] = p /\ Module[same] = Module[o]
                    BY <5>1, <5>5 DEF Shrunk
                <5> QED
                    BY <1>5, <2>2, <5>1, <5>6 DEF Key
            <4> QED
                BY <4>1, <4>2
        <3>9. ReadWhole(rows, p)
            <4> SUFFICES ASSUME NEW o \in CopiesIn(rows, p)
                         PROVE  \E other \in CopiesIn(rows, p) :
                                    Key(other) = Key(o) /\ rows[other].whole = "yes"
                BY DEF ReadWhole
            <4>1. PICK kept \in CopiesIn(after, p) : Key(kept) = Key(o)
                BY <3>8
            <4>2. PICK other \in CopiesIn(after, p) :
                      Key(other) = Key(kept) /\ after[other].whole = "yes"
                BY <1>14, <4>1 DEF ReadWhole
            <4>3. other \in Occurrences /\ other \in manifest /\ Payload[other] = p
                BY <1>5, <2>2, <4>2
            <4>4. other \in CopiesIn(rows, p) /\ rows[other].whole = "yes"
                BY <1>12, <3>7, <4>2, <4>3
            <4> QED
                BY <4>1, <4>2, <4>4
        <3>10. slice[p] \subseteq TextOf(rows, p, release.version)
            BY <3>9 DEF ExactInv, ExactNow, Exact
        <3>11. TextOf(rows, p, release.version) \subseteq TextOf(after, p, release.version)
            BY <3>8 DEF TextOf
        <3> QED
            BY <2>1, <2>6, <3>6, <3>10, <3>11
    <2> QED
        BY <2>5, <2>6
<1>15. ExactNow'
    BY <1>1 DEF ExactInv, ExactNow, stored
<1>16. ExactAfter'
    <2>1. Exact(after, Committed', release.version)
        BY <1>14 DEF Exact
    <2> QED
        BY <1>1, <2>1 DEF ExactAfter, after
<1> QED
    BY <1>15, <1>16 DEF ExactInv

\* SettledSlicesAreExact: when every copy of a payload is complete, its chunks
\* are exactly the text of its copies under the running extractors, though passes
\* share them, keep each other's results and lose attachments to a new parser.
THEOREM SlicesExact == Spec => []SettledSlicesAreExact
<1>1. Init => ExactInv
    BY DEF Init, ExactInv, ExactNow, ExactAfter, Exact
<1>2. Inv /\ ExactInv /\ [Next]_vars => ExactInv'
    <2> SUFFICES ASSUME Inv, ExactInv, [Next]_vars PROVE ExactInv'
        OBVIOUS
    <2>1. CASE Parse \/ Succeed \/ Fail \/ Enqueue
        BY <2>1, ExactUntouched DEF Parse, Succeed, Fail, Enqueue, stored
    <2>2. CASE Peer
        BY <2>2, ExactUntouched DEF Peer, PeerRefreshes, PeerDrops
    <2>3. CASE UNCHANGED vars
        BY <2>3, ExactUntouched DEF vars, stored
    <2> QED
        BY <2>1, <2>2, <2>3, NothingExact, CollectExact, CommitExact, RestartExact
           DEF Next, Pass
<1>3. Inv /\ ExactInv => SettledSlicesAreExact
    <2> SUFFICES ASSUME Inv, ExactInv, NEW p \in Payloads, \A o \in Of(p) : rows[o].whole = "yes"
                 PROVE  slice[p] = UNION {Reading[<<Key(o), release.version>>] : o \in Of(p)}
        BY DEF SettledSlicesAreExact
    <2>1. CopiesIn(rows, p) = Of(p)
        BY DEF CopiesIn, Of, Stored
    <2>2. ReadWhole(rows, p)
        BY <2>1 DEF ReadWhole
    <2>3. slice[p] \subseteq UNION {Reading[<<Key(o), release.version>>] : o \in Of(p)}
        BY <2>1, <2>2 DEF ExactInv, ExactNow, Exact, TextOf
    <2>4. \A o \in Of(p) : Reading[<<Key(o), release.version>>] \subseteq slice[p]
        BY DEF Inv, Vouched, CompleteMeansIndexed, Of, Stored
    <2> QED
        BY <2>3, <2>4
<1> QED
    BY Invariance, <1>1, <1>2, <1>3, PTL DEF Spec
=============================================================================
