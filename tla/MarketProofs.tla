---------------------------- MODULE MarketProofs ----------------------------
(* What holds of Marketplace and MarketClient for any number of submissions, *)
(* of requests, of tools and versions, and whatever is offered.              *)
EXTENDS MarketClient, FiniteSetTheorems, TLAPS

-----------------------------------------------------------------------------
(* Type correctness of the Worker *)

LEMMA EmptyIndexTyped == EmptyIndex \in IndexDoc
  BY DEF EmptyIndex, IndexDoc

LEMMA NewWorkTyped == NewWork \in WorkState
  BY EmptyIndexTyped DEF NewWork, WorkState, Decisions

LEMMA OfferTyped ==
  ASSUME NEW o \in Offers
  PROVE  o.id \in Ids /\ o.author \in Authors /\ o.body \in Bodies /\ o.version \in Versions
  BY DEF Ids, Authors, Bodies, Versions

LEMMA WorkTyped ==
  ASSUME MTypeOK, NEW w \in Works
  PROVE  /\ work[w] \in WorkState
         /\ work[w].doc \in IndexDoc /\ work[w].base \in IndexDoc
         /\ work[w].decision \in Decisions \cup {"none"}
         /\ work[w].seen \in Nat
  BY DEF MTypeOK, WorkState

LEMMA AtOffers ==
  ASSUME MTypeOK, NEW w \in Works, NEW pc \in Submitted, At(w, pc)
  PROVE  /\ work[w].offer \in Offers
         /\ work[w].offer.id \in Ids /\ work[w].offer.author \in Authors
         /\ work[w].offer.body \in Bodies /\ work[w].offer.version \in Versions
<1>1. work[w].offer \in Offers
  BY DEF MTypeOK, At
<1> QED
  BY <1>1, OfferTyped

\* An update of one submission keeps the type of all.
LEMMA WorkUpdate ==
  ASSUME MTypeOK, NEW w \in Works, NEW x \in WorkState,
         x.pc \in Submitted => x.offer \in Offers, work' = [work EXCEPT ![w] = x]
  PROVE  /\ work' \in [Works -> WorkState]
         /\ \A u \in Works : work'[u].pc \in Submitted => work'[u].offer \in Offers
  BY DEF MTypeOK

LEMMA RespondTyped ==
  ASSUME MTypeOK, NEW w \in Works, Respond(w)
  PROVE  /\ work' \in [Works -> WorkState]
         /\ \A u \in Works : work'[u].pc \in Submitted => work'[u].offer \in Offers
<1> DEFINE x == [NewWork EXCEPT !.pc = "done"]
<1>1. x \in WorkState /\ x.pc \notin Submitted
  BY NewWorkTyped DEF WorkState, Submitted
<1> QED
  BY <1>1, WorkUpdate DEF Respond

LEMMA GotoTyped ==
  ASSUME MTypeOK, NEW w \in Works, NEW pc \in Submitted \cup {"sig", "catalog"}, Goto(w, pc),
         pc \in Submitted => work[w].offer \in Offers
  PROVE  /\ work' \in [Works -> WorkState]
         /\ \A u \in Works : work'[u].pc \in Submitted => work'[u].offer \in Offers
<1> DEFINE x == [work[w] EXCEPT !.pc = pc]
<1>1. x \in WorkState /\ x.offer = work[w].offer /\ x.pc = pc
  BY WorkTyped DEF WorkState
<1>2. work' = [work EXCEPT ![w] = x]
  BY DEF Goto
<1> QED
  BY <1>1, <1>2, WorkUpdate

LEMMA DecidedTyped ==
  ASSUME MTypeOK, NEW w \in Works, NEW d \in Decisions, work[w].offer \in Offers, Decided(w, d)
  PROVE  /\ work' \in [Works -> WorkState]
         /\ \A u \in Works : work'[u].pc \in Submitted => work'[u].offer \in Offers
<1>1. CASE d = "reject"
  BY <1>1, RespondTyped DEF Decided
<1>2. CASE d # "reject"
  <2> DEFINE x == [work[w] EXCEPT !.decision = d, !.pc = After(d)]
  <2>1. After(d) \in Submitted
    BY <1>2 DEF After, Decisions, Submitted
  <2>2. x \in WorkState /\ x.offer = work[w].offer
    BY <2>1, WorkTyped DEF WorkState
  <2>3. work' = [work EXCEPT ![w] = x]
    BY <1>2 DEF Decided
  <2> QED BY <2>2, <2>3, WorkUpdate
<1> QED
  BY <1>1, <1>2

\* The new entry and the index it goes into.
LEMMA UpsertTyped ==
  ASSUME NEW ix \in IndexDoc, NEW v \in VersionRow
  PROVE  /\ UpsertVersion(ix, v) \in IndexDoc
         /\ UpsertVersion(ix, v).versions =
              {x \in ix.versions : <<x.id, x.version>> # <<v.id, v.version>>} \cup {v}
         /\ \A n \in Nat : /\ [UpsertVersion(ix, v) EXCEPT !.at = n] \in IndexDoc
                           /\ [UpsertVersion(ix, v) EXCEPT !.at = n].versions
                                = UpsertVersion(ix, v).versions
<1> DEFINE new == {x \in ix.versions : <<x.id, x.version>> # <<v.id, v.version>>} \cup {v}
           lat == [ix.latest EXCEPT ![v.id] = v.version]
<1>1. ix.versions \in SUBSET VersionRow /\ ix.latest \in [Ids -> Versions \cup {Nothing}] /\ ix.at \in Nat
  BY DEF IndexDoc
<1>2. v.id \in Ids /\ v.version \in Versions
  BY DEF VersionRow
<1>3. new \in SUBSET VersionRow
  BY <1>1
<1>4. lat \in [Ids -> Versions \cup {Nothing}]
  BY <1>1, <1>2
<1>5. UpsertVersion(ix, v) = [ix EXCEPT !.versions = new, !.latest = lat]
  BY DEF UpsertVersion, IndexDoc
<1> HIDE DEF new, lat
<1>6. UpsertVersion(ix, v) \in IndexDoc /\ UpsertVersion(ix, v).versions = new
  BY <1>3, <1>4, <1>5 DEF IndexDoc
<1>7. ASSUME NEW n \in Nat
      PROVE  /\ [UpsertVersion(ix, v) EXCEPT !.at = n] \in IndexDoc
             /\ [UpsertVersion(ix, v) EXCEPT !.at = n].versions = UpsertVersion(ix, v).versions
  BY <1>6 DEF IndexDoc
<1> QED
  BY <1>6, <1>7 DEF new

\* What Merge makes of the submission and of the index it loaded.
Entry(w) ==
  LET o == work[w].offer IN
  [id |-> o.id, version |-> o.version, body |-> o.body, verified |-> work[w].decision = "pass"]
Loaded == IF index = Nothing THEN EmptyIndex ELSE index

LEMMA MergeMakes ==
  ASSUME MTypeOK, NEW w \in Works, Merge(w)
  PROVE  /\ Entry(w) \in VersionRow /\ Loaded \in IndexDoc /\ clock' \in Nat
         /\ \E doc \in IndexDoc :
              /\ doc.versions = {x \in Loaded.versions :
                   <<x.id, x.version>> # <<Entry(w).id, Entry(w).version>>} \cup {Entry(w)}
              /\ work' = [work EXCEPT ![w] = [work[w] EXCEPT !.base = Loaded, !.pc = "index", !.doc = doc]]
<1>1. Entry(w) \in VersionRow
  BY AtOffers DEF Merge, Entry, VersionRow, Submitted
<1>2. Loaded \in IndexDoc
  BY EmptyIndexTyped DEF MTypeOK, Loaded
<1>3. clock' \in Nat
  BY DEF MTypeOK, Merge
<1> DEFINE doc == [UpsertVersion(Loaded, Entry(w)) EXCEPT !.at = clock']
<1>4. doc \in IndexDoc /\ doc.versions = {x \in Loaded.versions :
        <<x.id, x.version>> # <<Entry(w).id, Entry(w).version>>} \cup {Entry(w)}
  BY <1>1, <1>2, <1>3, UpsertTyped
<1>5. work' = [work EXCEPT ![w] = [work[w] EXCEPT !.base = Loaded, !.pc = "index", !.doc = doc]]
  BY DEF Merge, Entry, Loaded
<1> HIDE DEF doc
<1> QED
  BY <1>1, <1>2, <1>3, <1>4, <1>5

LEMMA WorkerTypes == MTypeOK /\ [MNext]_mvars => MTypeOK'
<1> SUFFICES ASSUME MTypeOK, [MNext]_mvars PROVE MTypeOK'
  OBVIOUS
<1>1. ASSUME NEW w \in Works, NEW o \in Offers, Submit(w, o) PROVE MTypeOK'
  <2>1. CASE Respond(w)
    BY <1>1, <2>1, RespondTyped DEF Submit, bucket, MTypeOK
  <2>2. CASE work' = [work EXCEPT ![w] = [@ EXCEPT !.offer = o, !.seen = rate[o.author], !.pc = "count"]]
    <3> DEFINE x == [work[w] EXCEPT !.offer = o, !.seen = rate[o.author], !.pc = "count"]
    <3>1. rate[o.author] \in Nat
      BY OfferTyped DEF MTypeOK
    <3>2. x \in WorkState /\ x.offer = o
      BY <3>1, WorkTyped DEF WorkState, Submitted
    <3>3. work' = [work EXCEPT ![w] = x]
      BY <2>2
    <3> QED BY <1>1, <3>2, <3>3, WorkUpdate DEF Submit, bucket, MTypeOK
  <2> QED BY <1>1, <2>1, <2>2 DEF Submit
<1>2. ASSUME NEW w \in Works, Count(w) PROVE MTypeOK'
  <2> DEFINE x == [work[w] EXCEPT !.seen = 0, !.pc = "lookup"]
  <2>1. work[w].offer \in Offers /\ work[w].offer.author \in Authors
    BY <1>2, AtOffers DEF Count, Submitted
  <2>2. x \in WorkState /\ x.offer = work[w].offer
    BY WorkTyped DEF WorkState, Submitted
  <2>3. work' = [work EXCEPT ![w] = x]
    BY <1>2 DEF Count
  <2>4. rate' \in [Authors -> Nat]
    BY <1>2, <2>1 DEF Count, Counted, MTypeOK
  <2> QED BY <1>2, <2>1, <2>2, <2>3, <2>4, WorkUpdate DEF Count, bucket, MTypeOK
<1>3. ASSUME NEW w \in Works, Lookup(w) PROVE MTypeOK'
  <2>1. work[w].offer \in Offers /\ work[w].offer.body \in Bodies
    BY <1>3, AtOffers DEF Lookup, Submitted
  <2>2. VerdictOf(work[w].offer.body) \in Decisions \cup {"none"}
    BY <2>1 DEF VerdictOf, MTypeOK
  <2>3. Goto(w, "review") \/ \E d \in Decisions : Decided(w, d)
    BY <1>3, <2>2 DEF Lookup
  <2>4. /\ work' \in [Works -> WorkState]
        /\ \A u \in Works : work'[u].pc \in Submitted => work'[u].offer \in Offers
    BY <2>1, <2>3, GotoTyped, DecidedTyped DEF Submitted
  <2> QED BY <1>3, <2>4 DEF Lookup, bucket, MTypeOK
<1>4. ASSUME NEW w \in Works, Review(w) PROVE MTypeOK'
  <2>1. PICK d \in Decisions : work' = [work EXCEPT ![w] = [@ EXCEPT !.decision = d, !.pc = "remember"]]
    BY <1>4 DEF Review
  <2> DEFINE x == [work[w] EXCEPT !.decision = d, !.pc = "remember"]
  <2>2. work[w].offer \in Offers
    BY <1>4, AtOffers DEF Review, Submitted
  <2>3. x \in WorkState /\ x.offer = work[w].offer
    BY WorkTyped DEF WorkState, Submitted
  <2>4. work' = [work EXCEPT ![w] = x]
    BY <2>1
  <2> QED BY <1>4, <2>2, <2>3, <2>4, WorkUpdate DEF Review, bucket, MTypeOK
<1>5. ASSUME NEW w \in Works, CacheVerdict(w) PROVE MTypeOK'
  <2>1. work[w].offer \in Offers /\ work[w].offer.body \in Bodies
    BY <1>5, AtOffers DEF CacheVerdict, Submitted
  <2>2. work[w].decision \in Decisions \cup {"none"}
    BY WorkTyped
  <2>3. verdicts' \in [Bodies -> Decisions \cup {"none"}]
    BY <1>5, <2>1, <2>2 DEF CacheVerdict, MTypeOK
  <2>4. CASE work[w].decision \in Decisions
    BY <1>5, <2>1, <2>3, <2>4, DecidedTyped DEF CacheVerdict, bucket, MTypeOK
  <2>5. CASE work[w].decision = "none"
    <3> DEFINE x == [work[w] EXCEPT !.decision = "none", !.pc = "done"]
    <3>1. x \in WorkState /\ x.pc \notin Submitted
      BY WorkTyped DEF WorkState, Submitted
    <3>2. work' = [work EXCEPT ![w] = x]
      BY <1>5, <2>5 DEF CacheVerdict, Decided, After
    <3> QED BY <1>5, <2>3, <3>1, <3>2, WorkUpdate DEF CacheVerdict, bucket, MTypeOK
  <2> QED BY <2>2, <2>4, <2>5
<1>6. ASSUME NEW w \in Works, QueueForHuman(w) PROVE MTypeOK'
  <2>1. /\ work[w].offer \in Offers
        /\ work[w].offer.id \in Ids /\ work[w].offer.version \in Versions
    BY <1>6, AtOffers DEF QueueForHuman, Submitted
  <2>2. flagged' \subseteq Ids \X Versions
    BY <1>6, <2>1 DEF QueueForHuman, MTypeOK
  <2>3. "artifact" \in Submitted
    BY DEF Submitted
  <2> QED BY <1>6, <2>1, <2>2, <2>3, GotoTyped DEF QueueForHuman, bucket, MTypeOK
<1>7. ASSUME NEW w \in Works, PutArtifact(w) PROVE MTypeOK'
  <2>1. /\ work[w].offer \in Offers /\ work[w].offer.body \in Bodies
        /\ work[w].offer.id \in Ids /\ work[w].offer.version \in Versions
    BY <1>7, AtOffers DEF PutArtifact, Submitted
  <2>2. zips' \in [Ids \X Versions -> Bodies \cup {Nothing}]
    BY <1>7, <2>1 DEF PutArtifact, MTypeOK
  <2>3. "merge" \in Submitted
    BY DEF Submitted
  <2> QED BY <1>7, <2>1, <2>2, <2>3, GotoTyped DEF PutArtifact, MTypeOK
<1>8. ASSUME NEW w \in Works, Merge(w) PROVE MTypeOK'
  <2>1. PICK doc \in IndexDoc :
          work' = [work EXCEPT ![w] = [work[w] EXCEPT !.base = Loaded, !.pc = "index", !.doc = doc]]
    BY <1>8, MergeMakes
  <2> DEFINE x == [work[w] EXCEPT !.base = Loaded, !.pc = "index", !.doc = doc]
  <2>2. work[w].offer \in Offers
    BY <1>8, AtOffers DEF Merge, Submitted
  <2>3. x \in WorkState /\ x.offer = work[w].offer
    BY <1>8, MergeMakes, WorkTyped DEF WorkState, Submitted
  <2> HIDE DEF x
  <2>4. /\ work' \in [Works -> WorkState]
        /\ \A u \in Works : work'[u].pc \in Submitted => work'[u].offer \in Offers
    <3>1. work' = [work EXCEPT ![w] = x]
      BY <2>1 DEF x
    <3> QED BY <1>8, <2>2, <2>3, <3>1, WorkUpdate
  <2>5. clock' \in Nat /\ UNCHANGED <<rate, verdicts, flagged, zips, index, sig, catalog, reviewed, torn>>
    BY <1>8, MergeMakes DEF Merge
  <2> QED BY <2>4, <2>5 DEF MTypeOK
<1>9. ASSUME NEW w \in Works, PutIndex(w) PROVE MTypeOK'
  <2> DEFINE x == [NewWork EXCEPT !.pc = "sig", !.doc = work[w].doc]
  <2>1. work[w].doc \in IndexDoc
    BY WorkTyped
  <2>2. x \in WorkState /\ x.pc \notin Submitted
    BY <2>1, NewWorkTyped DEF WorkState, Submitted
  <2>3. torn' \in BOOLEAN
    BY <1>9 DEF PutIndex
  <2> QED BY <1>9, <2>1, <2>2, <2>3, WorkUpdate DEF PutIndex, MTypeOK
<1>10. ASSUME NEW w \in Works, PutSig(w) PROVE MTypeOK'
  BY <1>10, WorkTyped, GotoTyped DEF PutSig, SignedDoc, MTypeOK, Submitted
<1>11. ASSUME NEW w \in Works, PutCatalog(w) PROVE MTypeOK'
  <2>1. Catalog(work[w].doc) \subseteq VersionRow
    BY WorkTyped DEF Catalog, IndexDoc
  <2> QED BY <1>11, <2>1, RespondTyped DEF PutCatalog, MTypeOK
<1>12. ASSUME NEW w \in Works, Dies(w) PROVE MTypeOK'
  BY <1>12, RespondTyped DEF Dies, MTypeOK
<1>13. ASSUME UNCHANGED mvars PROVE MTypeOK'
  BY <1>13 DEF mvars, MTypeOK
<1> QED
  BY <1>1, <1>2, <1>3, <1>4, <1>5, <1>6, <1>7, <1>8, <1>9, <1>10, <1>11, <1>12, <1>13
  DEF MNext, MStep

-----------------------------------------------------------------------------
(* What a review earned, and who waits for a human *)

\* Among reviews R, the decision that a body got.
Judged(R, b, d) == \E r \in R : r.body = b /\ r.decision = d

\* An index whose entries were earned by reviews in R, the unverified queued in F.
Sound(R, F, ix) ==
  \A v \in ix.versions :
    /\ Judged(R, v.body, IF v.verified THEN "pass" ELSE "flag")
    /\ ~v.verified => <<v.id, v.version>> \in F

\* A decision in hand is that of the submission's own body, a flagged
\* submission is queued before it is published, the index it makes is sound.
FineWork(R, F, x) ==
  /\ x.pc \in {"remember", "queue", "artifact", "merge"} => Judged(R, x.offer.body, x.decision)
  /\ x.pc \in {"artifact", "merge"} => x.decision \in {"pass", "flag"}
  /\ x.pc \in {"artifact", "merge"} /\ x.decision = "flag" =>
       <<x.offer.id, x.offer.version>> \in F
  /\ x.pc = "queue" => x.decision = "flag"
  /\ x.pc = "index" => Sound(R, F, x.doc)

\* A cached verdict is one of a review, and the stored index is sound.
ReviewInv ==
  /\ MTypeOK
  /\ \A w \in Works : FineWork(reviewed, flagged, work[w])
  /\ \A b \in Bodies : verdicts[b] # "none" => Judged(reviewed, b, verdicts[b])
  /\ index # Nothing => Sound(reviewed, flagged, index)

\* Neither reviews nor the queue for a human ever shrink, so what is sound stays so.
LEMMA MoreIsSound ==
  ASSUME NEW R, NEW S, NEW F, NEW G, R \subseteq S, F \subseteq G
  PROVE  /\ \A b, d : Judged(R, b, d) => Judged(S, b, d)
         /\ \A ix : Sound(R, F, ix) => Sound(S, G, ix)
         /\ \A x : FineWork(R, F, x) => FineWork(S, G, x)
<1>1. \A b, d : Judged(R, b, d) => Judged(S, b, d)
  BY DEF Judged
<1>2. \A ix : Sound(R, F, ix) => Sound(S, G, ix)
  BY <1>1 DEF Sound
<1>3. \A x : FineWork(R, F, x) => FineWork(S, G, x)
  BY <1>1, <1>2 DEF FineWork
<1> QED
  BY <1>1, <1>2, <1>3

\* What must be shown of a step that gives one submission a new state x.
LEMMA FineUpdate ==
  ASSUME ReviewInv, MTypeOK', NEW w \in Works, NEW x,
         work' = [work EXCEPT ![w] = x], FineWork(reviewed', flagged', x),
         reviewed \subseteq reviewed', flagged \subseteq flagged',
         \A b \in Bodies : verdicts'[b] = verdicts[b]
                             \/ Judged(reviewed', b, verdicts'[b]),
         index' = index \/ Sound(reviewed', flagged', index')
  PROVE  ReviewInv'
<1>1. \A u \in Works : FineWork(reviewed', flagged', work'[u])
  <2> TAKE u \in Works
  <2>1. CASE u = w
    BY <2>1 DEF ReviewInv, MTypeOK
  <2>2. CASE u # w
    BY <2>2, MoreIsSound DEF ReviewInv, MTypeOK
  <2> QED BY <2>1, <2>2
<1>2. \A b \in Bodies : verdicts'[b] # "none" => Judged(reviewed', b, verdicts'[b])
  BY MoreIsSound DEF ReviewInv
<1>3. index' # Nothing => Sound(reviewed', flagged', index')
  BY MoreIsSound DEF ReviewInv
<1> QED
  BY <1>1, <1>2, <1>3 DEF ReviewInv

LEMMA FineDone ==
  ASSUME NEW R, NEW F, NEW x, x.pc \in {"new", "count", "lookup", "review", "sig", "catalog", "done"}
  PROVE  FineWork(R, F, x)
  BY DEF FineWork

LEMMA FineQuiet ==
  ASSUME ReviewInv, MTypeOK', NEW w \in Works, NEW x,
         work' = [work EXCEPT ![w] = x],
         x.pc \in {"new", "count", "lookup", "review", "sig", "catalog", "done"},
         reviewed' = reviewed, flagged' = flagged,
         \A b \in Bodies : verdicts'[b] = verdicts[b]
                             \/ Judged(reviewed, b, verdicts'[b]),
         index' = index \/ Sound(reviewed, flagged, index')
  PROVE  ReviewInv'
<1>1. FineWork(reviewed', flagged', x)
  BY FineDone
<1> QED
  BY <1>1, FineUpdate

\* The same for a request that has ended.
LEMMA FineRespond ==
  ASSUME ReviewInv, MTypeOK', NEW w \in Works, Respond(w),
         UNCHANGED <<reviewed, flagged, verdicts, index>>
  PROVE  ReviewInv'
<1> DEFINE x == [NewWork EXCEPT !.pc = "done"]
<1>1. x.pc = "done"
  BY DEF NewWork
<1>2. work' = [work EXCEPT ![w] = x]
  BY DEF Respond
<1> HIDE DEF x
<1>3. FineWork(reviewed', flagged', x)
  BY <1>1, FineDone
<1> QED
  BY <1>2, <1>3, FineUpdate

\* After lookup or review: on with a decision that the body got.
LEMMA FineDecided ==
  ASSUME ReviewInv, MTypeOK', NEW w \in Works, NEW d \in Decisions, Decided(w, d),
         d # "reject", Judged(reviewed, work[w].offer.body, d),
         UNCHANGED <<reviewed, flagged, index>>,
         \A b \in Bodies : verdicts'[b] = verdicts[b]
                             \/ Judged(reviewed, b, verdicts'[b])
  PROVE  ReviewInv'
<1> DEFINE x == [work[w] EXCEPT !.decision = d, !.pc = After(d)]
<1>1. work' = [work EXCEPT ![w] = x]
  BY DEF Decided
<1>2. After(d) = IF d = "pass" THEN "artifact" ELSE "queue"
  BY DEF After, Decisions
<1>3. d \in {"pass", "flag"}
  BY DEF Decisions
<1>4. x.pc = After(d) /\ x.decision = d /\ x.offer = work[w].offer
  BY WorkTyped DEF ReviewInv, WorkState
<1> HIDE DEF x
<1>5. FineWork(reviewed, flagged, x)
  BY <1>2, <1>3, <1>4 DEF FineWork
<1> QED
  BY <1>1, <1>5, FineUpdate

LEMMA ReviewStep == ReviewInv /\ [MNext]_mvars => ReviewInv'
<1> SUFFICES ASSUME ReviewInv, [MNext]_mvars PROVE ReviewInv'
  OBVIOUS
<1>0. MTypeOK /\ MTypeOK'
  BY WorkerTypes DEF ReviewInv
<1>1. ASSUME NEW w \in Works, NEW o \in Offers, Submit(w, o) PROVE ReviewInv'
  <2>1. UNCHANGED <<reviewed, flagged, verdicts, index>>
    BY <1>1 DEF Submit, bucket
  <2>2. CASE work' = [work EXCEPT ![w] = [@ EXCEPT !.offer = o, !.seen = rate[o.author], !.pc = "count"]]
    <3> DEFINE x == [work[w] EXCEPT !.offer = o, !.seen = rate[o.author], !.pc = "count"]
    <3>1. x.pc = "count"
      BY <1>0, WorkTyped DEF WorkState
    <3>2. work' = [work EXCEPT ![w] = x]
      BY <2>2
    <3> HIDE DEF x
    <3> QED BY <1>0, <2>1, <3>1, <3>2, FineQuiet
  <2> QED BY <1>0, <1>1, <2>1, <2>2, FineRespond DEF Submit
<1>2. ASSUME NEW w \in Works, Count(w) PROVE ReviewInv'
  <2> DEFINE x == [work[w] EXCEPT !.seen = 0, !.pc = "lookup"]
  <2>1. UNCHANGED <<reviewed, flagged, verdicts, index>>
    BY <1>2 DEF Count, bucket
  <2>2. x.pc = "lookup"
    BY <1>0, WorkTyped DEF WorkState
  <2>3. work' = [work EXCEPT ![w] = x]
    BY <1>2 DEF Count
  <2> HIDE DEF x
  <2> QED BY <1>0, <2>1, <2>2, <2>3, FineQuiet
<1>3. ASSUME NEW w \in Works, Lookup(w) PROVE ReviewInv'
  <2> DEFINE d == VerdictOf(work[w].offer.body)
  <2>1. UNCHANGED <<reviewed, flagged, verdicts, index>>
    BY <1>3 DEF Lookup, bucket
  <2>2. work[w].offer.body \in Bodies
    BY <1>0, <1>3, AtOffers DEF Lookup, Submitted
  <2>3. d \in Decisions \cup {"none"} /\ (d # "none" => Judged(reviewed, work[w].offer.body, d))
    BY <2>2 DEF VerdictOf, ReviewInv, MTypeOK
  <2>4. CASE d = "none"
    <3> DEFINE x == [work[w] EXCEPT !.pc = "review"]
    <3>1. x.pc = "review"
      BY <1>0, WorkTyped DEF WorkState
    <3>2. work' = [work EXCEPT ![w] = x]
      BY <1>3, <2>4 DEF Lookup, Goto
    <3> HIDE DEF x
    <3> QED BY <1>0, <2>1, <3>1, <3>2, FineQuiet
  <2>5. CASE d = "reject"
    BY <1>0, <1>3, <2>1, <2>5, FineRespond DEF Lookup, Decided
  <2>6. CASE d \in Decisions /\ d # "reject"
    <3>1. Decided(w, d)
      BY <1>3, <2>6 DEF Lookup, Decisions
    <3> HIDE DEF d
    <3> QED BY <1>0, <2>1, <2>3, <2>6, <3>1, FineDecided DEF Decisions
  <2> QED BY <2>3, <2>4, <2>5, <2>6
<1>4. ASSUME NEW w \in Works, Review(w) PROVE ReviewInv'
  <2> DEFINE o == work[w].offer
  <2>1. PICK d \in Decisions :
          /\ work' = [work EXCEPT ![w] = [@ EXCEPT !.decision = d, !.pc = "remember"]]
          /\ reviewed' = reviewed \cup
               {[by |-> w, author |-> o.author, body |-> o.body, decision |-> d]}
    BY <1>4 DEF Review
  <2> DEFINE x == [work[w] EXCEPT !.decision = d, !.pc = "remember"]
  <2>2. UNCHANGED <<flagged, verdicts, index>>
    BY <1>4 DEF Review, bucket
  <2>3. x.pc = "remember" /\ x.decision = d /\ x.offer = o
    BY <1>0, WorkTyped DEF WorkState
  <2>4. work' = [work EXCEPT ![w] = x]
    BY <2>1
  <2>5. Judged(reviewed', o.body, d)
    <3> DEFINE r == [by |-> w, author |-> o.author, body |-> o.body, decision |-> d]
    <3>1. r.body = o.body /\ r.decision = d
      OBVIOUS
    <3>2. r \in reviewed'
      BY <2>1
    <3> HIDE DEF r
    <3> QED BY <3>1, <3>2 DEF Judged
  <2> HIDE DEF x
  <2>6. FineWork(reviewed', flagged', x)
    BY <2>3, <2>5 DEF FineWork
  <2>7. reviewed \subseteq reviewed'
    BY <2>1
  <2> QED BY <1>0, <2>2, <2>4, <2>6, <2>7, FineUpdate
<1>5. ASSUME NEW w \in Works, CacheVerdict(w) PROVE ReviewInv'
  <2> DEFINE d == work[w].decision
             b == work[w].offer.body
  <2>1. UNCHANGED <<reviewed, flagged, index>>
    BY <1>5 DEF CacheVerdict, bucket
  <2>2. b \in Bodies /\ d \in Decisions \cup {"none"}
    BY <1>0, <1>5, AtOffers, WorkTyped DEF CacheVerdict, Submitted
  <2>3. Judged(reviewed, b, d)
    BY <1>5 DEF CacheVerdict, At, ReviewInv, FineWork
  <2>4. \A c \in Bodies : verdicts'[c] = verdicts[c] \/ Judged(reviewed, c, verdicts'[c])
    BY <1>0, <1>5, <2>2, <2>3 DEF CacheVerdict, MTypeOK
  <2>5. CASE d = "reject" \/ d = "none"
    <3>1. PICK x : work' = [work EXCEPT ![w] = x] /\ x.pc = "done"
      <4>1. CASE d = "reject"
        <5> DEFINE y == [NewWork EXCEPT !.pc = "done"]
        <5>1. work' = [work EXCEPT ![w] = y]
          BY <1>5, <4>1 DEF CacheVerdict, Decided, Respond
        <5>2. y.pc = "done"
          BY DEF NewWork
        <5> HIDE DEF y
        <5> QED BY <5>1, <5>2
      <4>2. CASE d = "none"
        <5> DEFINE y == [work[w] EXCEPT !.decision = "none", !.pc = "done"]
        <5>1. work' = [work EXCEPT ![w] = y]
          BY <1>5, <4>2 DEF CacheVerdict, Decided, After
        <5>2. y.pc = "done"
          BY <1>0, WorkTyped DEF WorkState
        <5> HIDE DEF y
        <5> QED BY <5>1, <5>2
      <4> QED BY <2>5, <4>1, <4>2
    <3> QED BY <1>0, <2>1, <2>4, <3>1, FineQuiet
  <2>6. CASE d \in Decisions /\ d # "reject"
    <3>1. Decided(w, d)
      BY <1>5 DEF CacheVerdict
    <3> QED BY <1>0, <2>1, <2>3, <2>4, <2>6, <3>1, FineDecided
  <2> QED BY <2>2, <2>5, <2>6
<1>6. ASSUME NEW w \in Works, QueueForHuman(w) PROVE ReviewInv'
  <2> DEFINE x == [work[w] EXCEPT !.pc = "artifact"]
  <2>1. UNCHANGED <<reviewed, verdicts, index>> /\ flagged \subseteq flagged'
    BY <1>6 DEF QueueForHuman, bucket
  <2>2. x.pc = "artifact" /\ x.decision = work[w].decision /\ x.offer = work[w].offer
    BY <1>0, WorkTyped DEF WorkState
  <2>3. work' = [work EXCEPT ![w] = x]
    BY <1>6 DEF QueueForHuman, Goto
  <2>4. Judged(reviewed, x.offer.body, x.decision) /\ x.decision = "flag"
    BY <1>6, <2>2 DEF QueueForHuman, At, ReviewInv, FineWork
  <2>5. <<x.offer.id, x.offer.version>> \in flagged'
    BY <1>6, <2>2 DEF QueueForHuman
  <2> HIDE DEF x
  <2>6. FineWork(reviewed', flagged', x)
    BY <2>1, <2>2, <2>4, <2>5 DEF FineWork
  <2> QED BY <1>0, <2>1, <2>3, <2>6, FineUpdate
<1>7. ASSUME NEW w \in Works, PutArtifact(w) PROVE ReviewInv'
  <2> DEFINE x == [work[w] EXCEPT !.pc = "merge"]
  <2>1. UNCHANGED <<reviewed, flagged, verdicts, index>>
    BY <1>7 DEF PutArtifact
  <2>2. x.pc = "merge" /\ x.decision = work[w].decision /\ x.offer = work[w].offer
    BY <1>0, WorkTyped DEF WorkState
  <2>3. work' = [work EXCEPT ![w] = x]
    BY <1>7 DEF PutArtifact, Goto
  <2>4. FineWork(reviewed, flagged, work[w]) /\ work[w].pc = "artifact"
    BY <1>7 DEF PutArtifact, At, ReviewInv
  <2> HIDE DEF x
  <2>5. FineWork(reviewed', flagged', x)
    BY <2>1, <2>2, <2>4 DEF FineWork
  <2> QED BY <1>0, <2>1, <2>3, <2>5, FineUpdate
<1>8. ASSUME NEW w \in Works, Merge(w) PROVE ReviewInv'
  <2>1. PICK doc \in IndexDoc :
          /\ doc.versions = {x \in Loaded.versions :
               <<x.id, x.version>> # <<Entry(w).id, Entry(w).version>>} \cup {Entry(w)}
          /\ work' = [work EXCEPT ![w] = [work[w] EXCEPT !.base = Loaded, !.pc = "index", !.doc = doc]]
    BY <1>0, <1>8, MergeMakes
  <2> DEFINE x == [work[w] EXCEPT !.base = Loaded, !.pc = "index", !.doc = doc]
  <2>2. UNCHANGED <<reviewed, flagged, verdicts, index>>
    BY <1>8 DEF Merge
  <2>3. x.pc = "index" /\ x.doc = doc
    BY <1>0, WorkTyped DEF WorkState
  <2>4. FineWork(reviewed, flagged, work[w]) /\ work[w].pc = "merge"
    BY <1>8 DEF Merge, At, ReviewInv
  <2>5. /\ Judged(reviewed, Entry(w).body, IF Entry(w).verified THEN "pass" ELSE "flag")
        /\ ~Entry(w).verified => <<Entry(w).id, Entry(w).version>> \in flagged
    BY <2>4 DEF FineWork, Entry
  <2>6. Sound(reviewed, flagged, Loaded)
    BY DEF ReviewInv, Loaded, EmptyIndex, Sound
  <2>7. Sound(reviewed, flagged, doc)
    BY <2>1, <2>5, <2>6 DEF Sound
  <2> HIDE DEF x
  <2>8. FineWork(reviewed', flagged', x)
    BY <2>2, <2>3, <2>7 DEF FineWork
  <2>9. work' = [work EXCEPT ![w] = x]
    BY <2>1 DEF x
  <2> QED BY <1>0, <2>2, <2>8, <2>9, FineUpdate
<1>9. ASSUME NEW w \in Works, PutIndex(w) PROVE ReviewInv'
  <2> DEFINE x == [NewWork EXCEPT !.pc = "sig", !.doc = work[w].doc]
  <2>1. UNCHANGED <<reviewed, flagged, verdicts>> /\ index' = work[w].doc
    BY <1>9 DEF PutIndex
  <2>2. Sound(reviewed, flagged, work[w].doc)
    BY <1>9 DEF PutIndex, At, ReviewInv, FineWork
  <2>3. x.pc = "sig"
    BY DEF NewWork
  <2>4. work' = [work EXCEPT ![w] = x]
    BY <1>9 DEF PutIndex
  <2> HIDE DEF x
  <2> QED BY <1>0, <2>1, <2>2, <2>3, <2>4, FineQuiet
<1>10. ASSUME NEW w \in Works, PutSig(w) PROVE ReviewInv'
  <2> DEFINE x == [work[w] EXCEPT !.pc = "catalog"]
  <2>1. UNCHANGED <<reviewed, flagged, verdicts, index>>
    BY <1>10 DEF PutSig
  <2>2. x.pc = "catalog"
    BY <1>0, WorkTyped DEF WorkState
  <2>3. work' = [work EXCEPT ![w] = x]
    BY <1>10 DEF PutSig, Goto
  <2> HIDE DEF x
  <2> QED BY <1>0, <2>1, <2>2, <2>3, FineQuiet
<1>11. ASSUME NEW w \in Works, PutCatalog(w) \/ Dies(w) PROVE ReviewInv'
  BY <1>0, <1>11, FineRespond DEF PutCatalog, Dies
<1>12. ASSUME UNCHANGED mvars PROVE ReviewInv'
  BY <1>0, <1>12 DEF mvars, ReviewInv
<1> QED
  BY <1>1, <1>2, <1>3, <1>4, <1>5, <1>6, <1>7, <1>8, <1>9, <1>10, <1>11, <1>12
  DEF MNext, MStep

-----------------------------------------------------------------------------
(* Publishing *)

\* Behind an index that no overlap or death tore: one publish at most, which
\* carries that index on, or all three objects in agreement.
Repairing ==
  index # Nothing /\ ~torn =>
    /\ \A u, v \in Works : Publishing(u) /\ Publishing(v) => u = v
    /\ \A w \in Works : Publishing(w) => work[w].doc = index
    /\ \A w \in Works : work[w].pc = "catalog" => sig = index
    /\ (\A w \in Works : ~Publishing(w)) => sig = index /\ catalog = Catalog(index)

\* An index in the making lists what the one it was made from lists.
Growing ==
  \A w \in Works : work[w].pc = "index" => Listed(work[w].base) \subseteq Listed(work[w].doc)

PublishInv == MTypeOK /\ Repairing /\ Growing

LEMMA UpsertGrows ==
  ASSUME NEW ix \in IndexDoc, NEW doc \in IndexDoc, NEW v \in VersionRow,
         doc.versions = {x \in ix.versions : <<x.id, x.version>> # <<v.id, v.version>>} \cup {v}
  PROVE  Listed(ix) \subseteq Listed(doc)
<1>1. ix # Nothing /\ doc # Nothing
  BY NothingAssumption
<1> SUFFICES ASSUME NEW x \in ix.versions
             PROVE  \E y \in doc.versions : <<x.id, x.version>> = <<y.id, y.version>>
  BY <1>1 DEF Listed
<1>2. CASE <<x.id, x.version>> = <<v.id, v.version>>
  BY <1>2
<1>3. CASE <<x.id, x.version>> # <<v.id, v.version>>
  BY <1>3
<1> QED
  BY <1>2, <1>3

\* A step before the first put touches neither the objects nor who publishes them.
LEMMA BeforePut ==
  ASSUME PublishInv, MTypeOK', NEW w \in Works, NEW x, work' = [work EXCEPT ![w] = x],
         work[w].pc \notin {"sig", "catalog"}, x.pc \notin {"sig", "catalog"},
         x.pc = "index" => Listed(x.base) \subseteq Listed(x.doc),
         UNCHANGED <<index, sig, catalog, torn>>
  PROVE  PublishInv'
<1>1. \A u \in Works : u # w => work'[u] = work[u]
  BY DEF PublishInv, MTypeOK
<1>2. work'[w] = x
  BY DEF PublishInv, MTypeOK
<1>3. \A u \in Works : Publishing(u)' = Publishing(u)
  BY <1>1, <1>2 DEF Publishing
<1>4. \A u \in Works : Publishing(u) => u # w
  BY DEF Publishing
<1>5. Repairing'
  <2>1. \A u \in Works : work'[u].pc = "catalog" => work[u].pc = "catalog"
    BY <1>1, <1>2
  <2>2. Catalog(index)' = Catalog(index)
    BY DEF Catalog
  <2> QED BY <1>1, <1>3, <1>4, <2>1, <2>2 DEF PublishInv, Repairing
<1>6. Growing'
  BY <1>1, <1>2 DEF PublishInv, Growing, Listed
<1> QED
  BY <1>5, <1>6 DEF PublishInv

\* Every step but the three puts and a death in between is such a step.
EarlyStep(w) ==
  \/ \E o \in Offers : Submit(w, o)
  \/ Count(w) \/ Lookup(w) \/ Review(w) \/ CacheVerdict(w) \/ QueueForHuman(w) \/ PutArtifact(w)

LEMMA EarlyStepMoves ==
  ASSUME MTypeOK, NEW w \in Works, EarlyStep(w)
  PROVE  /\ UNCHANGED <<index, sig, catalog, torn>>
         /\ work[w].pc \notin {"sig", "catalog"}
         /\ \E x : work' = [work EXCEPT ![w] = x] /\ x.pc \notin {"index", "sig", "catalog"}
<1>1. UNCHANGED <<index, sig, catalog, torn>>
  BY DEF EarlyStep, Submit, Count, Lookup, Review, CacheVerdict, QueueForHuman, PutArtifact, bucket
<1>2. work[w].pc \notin {"sig", "catalog"}
  BY DEF EarlyStep, Submit, Count, Lookup, Review, CacheVerdict, QueueForHuman, PutArtifact, At
<1>3. work[w] \in WorkState
  BY WorkTyped
<1>4. ASSUME NEW pc \in {"review", "artifact", "merge"}, Goto(w, pc)
      PROVE  \E x : work' = [work EXCEPT ![w] = x] /\ x.pc \notin {"index", "sig", "catalog"}
  <2> DEFINE x == [work[w] EXCEPT !.pc = pc]
  <2>1. work' = [work EXCEPT ![w] = x] /\ x.pc = pc
    BY <1>3, <1>4 DEF Goto, WorkState
  <2> HIDE DEF x
  <2> QED BY <2>1
<1>5. ASSUME Respond(w)
      PROVE  \E x : work' = [work EXCEPT ![w] = x] /\ x.pc \notin {"index", "sig", "catalog"}
  <2> DEFINE x == [NewWork EXCEPT !.pc = "done"]
  <2>1. work' = [work EXCEPT ![w] = x] /\ x.pc = "done"
    BY <1>5 DEF Respond, NewWork
  <2> HIDE DEF x
  <2> QED BY <2>1
<1>6. ASSUME NEW d, Decided(w, d)
      PROVE  \E x : work' = [work EXCEPT ![w] = x] /\ x.pc \notin {"index", "sig", "catalog"}
  <2> DEFINE x == [work[w] EXCEPT !.decision = d, !.pc = After(d)]
  <2>1. CASE d # "reject"
    <3>1. work' = [work EXCEPT ![w] = x] /\ x.pc = After(d)
      BY <1>3, <1>6, <2>1 DEF Decided, WorkState
    <3>2. After(d) \in {"artifact", "queue", "done"}
      BY DEF After
    <3> HIDE DEF x
    <3> QED BY <3>1, <3>2
  <2>2. CASE d = "reject"
    BY <1>5, <1>6, <2>2 DEF Decided
  <2> QED BY <2>1, <2>2
<1>7. ASSUME NEW o \in Offers, Submit(w, o)
      PROVE  \E x : work' = [work EXCEPT ![w] = x] /\ x.pc \notin {"index", "sig", "catalog"}
  <2> DEFINE x == [work[w] EXCEPT !.offer = o, !.seen = rate[o.author], !.pc = "count"]
  <2>1. CASE work' = [work EXCEPT ![w] = [@ EXCEPT !.offer = o, !.seen = rate[o.author], !.pc = "count"]]
    <3>1. work' = [work EXCEPT ![w] = x] /\ x.pc = "count"
      BY <1>3, <2>1 DEF WorkState
    <3> HIDE DEF x
    <3> QED BY <3>1
  <2> QED BY <1>5, <1>7, <2>1 DEF Submit
<1>8. ASSUME Count(w)
      PROVE  \E x : work' = [work EXCEPT ![w] = x] /\ x.pc \notin {"index", "sig", "catalog"}
  <2> DEFINE x == [work[w] EXCEPT !.seen = 0, !.pc = "lookup"]
  <2>1. work' = [work EXCEPT ![w] = x] /\ x.pc = "lookup"
    BY <1>3, <1>8 DEF Count, WorkState
  <2> HIDE DEF x
  <2> QED BY <2>1
<1>9. ASSUME Review(w)
      PROVE  \E x : work' = [work EXCEPT ![w] = x] /\ x.pc \notin {"index", "sig", "catalog"}
  <2>1. PICK d \in Decisions : work' = [work EXCEPT ![w] = [@ EXCEPT !.decision = d, !.pc = "remember"]]
    BY <1>9 DEF Review
  <2> DEFINE x == [work[w] EXCEPT !.decision = d, !.pc = "remember"]
  <2>2. work' = [work EXCEPT ![w] = x] /\ x.pc = "remember"
    BY <1>3, <2>1 DEF WorkState
  <2> HIDE DEF x
  <2> QED BY <2>2
<1>10. \E x : work' = [work EXCEPT ![w] = x] /\ x.pc \notin {"index", "sig", "catalog"}
  BY <1>4, <1>6, <1>7, <1>8, <1>9
  DEF EarlyStep, Lookup, CacheVerdict, QueueForHuman, PutArtifact
<1> QED
  BY <1>1, <1>2, <1>10

LEMMA PublishStep == PublishInv /\ [MNext]_mvars => PublishInv'
<1> SUFFICES ASSUME PublishInv, [MNext]_mvars PROVE PublishInv'
  OBVIOUS
<1>0. MTypeOK /\ MTypeOK'
  BY WorkerTypes DEF PublishInv
<1>1. ASSUME NEW w \in Works, EarlyStep(w) PROVE PublishInv'
  <2>1. PICK x : work' = [work EXCEPT ![w] = x] /\ x.pc \notin {"index", "sig", "catalog"}
    BY <1>0, <1>1, EarlyStepMoves
  <2>2. UNCHANGED <<index, sig, catalog, torn>> /\ work[w].pc \notin {"sig", "catalog"}
    BY <1>0, <1>1, EarlyStepMoves
  <2> QED BY <1>0, <2>1, <2>2, BeforePut
<1>2. ASSUME NEW w \in Works, Merge(w) PROVE PublishInv'
  <2>1. PICK doc \in IndexDoc :
          /\ doc.versions = {x \in Loaded.versions :
               <<x.id, x.version>> # <<Entry(w).id, Entry(w).version>>} \cup {Entry(w)}
          /\ work' = [work EXCEPT ![w] = [work[w] EXCEPT !.base = Loaded, !.pc = "index", !.doc = doc]]
    BY <1>0, <1>2, MergeMakes
  <2> DEFINE x == [work[w] EXCEPT !.base = Loaded, !.pc = "index", !.doc = doc]
  <2>2. x.pc = "index" /\ x.base = Loaded /\ x.doc = doc
    BY <1>0, WorkTyped DEF WorkState
  <2>3. Listed(Loaded) \subseteq Listed(doc)
    BY <1>0, <1>2, <2>1, MergeMakes, UpsertGrows
  <2>4. work[w].pc = "merge" /\ UNCHANGED <<index, sig, catalog, torn>>
    BY <1>2 DEF Merge, At
  <2>5. work' = [work EXCEPT ![w] = x]
    BY <2>1
  <2> HIDE DEF x
  <2> QED BY <1>0, <2>2, <2>3, <2>4, <2>5, BeforePut
<1>3. ASSUME NEW w \in Works, PutIndex(w) PROVE PublishInv'
  <2> DEFINE x == [NewWork EXCEPT !.pc = "sig", !.doc = work[w].doc]
  <2>1. x.pc = "sig" /\ x.doc = work[w].doc
    BY DEF NewWork
  <2>2. work' = [work EXCEPT ![w] = x] /\ index' = work[w].doc
    BY <1>3 DEF PutIndex
  <2>3. torn' = \E u \in Works \ {w} : Publishing(u)
    BY <1>3 DEF PutIndex
  <2> HIDE DEF x
  <2>4. work'[w] = x /\ \A u \in Works : u # w => work'[u] = work[u]
    BY <1>0, <2>2 DEF MTypeOK
  <2>5. Repairing'
    <3> SUFFICES ASSUME ~torn' PROVE Repairing'
      BY DEF Repairing
    <3>1. \A u \in Works : u # w => ~Publishing(u)
      BY <2>3
    <3>2. \A u \in Works : Publishing(u)' => u = w
      BY <2>4, <3>1 DEF Publishing
    <3>3. Publishing(w)'
      BY <2>1, <2>4 DEF Publishing
    <3>4. \A u \in Works : work'[u].pc # "catalog"
      BY <2>1, <2>4, <3>1 DEF Publishing
    <3> QED BY <2>1, <2>2, <2>4, <3>2, <3>3, <3>4 DEF Repairing
  <2>6. Growing'
    BY <2>1, <2>4 DEF PublishInv, Growing
  <2> QED BY <1>0, <2>5, <2>6 DEF PublishInv
<1>4. ASSUME NEW w \in Works, PutSig(w) PROVE PublishInv'
  <2> DEFINE x == [work[w] EXCEPT !.pc = "catalog"]
  <2>1. x.pc = "catalog" /\ x.doc = work[w].doc
    BY <1>0, WorkTyped DEF WorkState
  <2>2. work' = [work EXCEPT ![w] = x] /\ sig' = work[w].doc /\ UNCHANGED <<index, catalog, torn>>
    BY <1>4 DEF PutSig, SignedDoc, Goto
  <2> HIDE DEF x
  <2>3. work'[w] = x /\ \A u \in Works : u # w => work'[u] = work[u]
    BY <1>0, <2>2 DEF MTypeOK
  <2>4. Publishing(w) /\ Publishing(w)'
    BY <1>4, <2>1, <2>3 DEF PutSig, At, Publishing
  <2>5. \A u \in Works : Publishing(u)' = Publishing(u)
    BY <2>3, <2>4 DEF Publishing
  <2>6. Repairing'
    BY <2>1, <2>2, <2>3, <2>4, <2>5 DEF PublishInv, Repairing
  <2>7. Growing'
    BY <2>1, <2>3 DEF PublishInv, Growing
  <2> QED BY <1>0, <2>6, <2>7 DEF PublishInv
<1>5. ASSUME NEW w \in Works, PutCatalog(w) PROVE PublishInv'
  <2> DEFINE x == [NewWork EXCEPT !.pc = "done"]
  <2>1. x.pc = "done"
    BY DEF NewWork
  <2>2. /\ work' = [work EXCEPT ![w] = x] /\ catalog' = Catalog(work[w].doc)
        /\ UNCHANGED <<index, sig, torn>>
    BY <1>5 DEF PutCatalog, Respond
  <2> HIDE DEF x
  <2>3. work'[w] = x /\ \A u \in Works : u # w => work'[u] = work[u]
    BY <1>0, <2>2 DEF MTypeOK
  <2>4. Publishing(w) /\ work[w].pc = "catalog" /\ ~Publishing(w)'
    BY <1>5, <2>1, <2>3 DEF PutCatalog, At, Publishing
  <2>5. \A u \in Works : u # w => Publishing(u)' = Publishing(u)
    BY <2>3 DEF Publishing
  <2>6. Repairing'
    <3> SUFFICES ASSUME index # Nothing, ~torn PROVE Repairing'
      BY <2>2 DEF Repairing
    <3>1. sig = index /\ work[w].doc = index /\ \A u \in Works : Publishing(u) => u = w
      BY <2>4 DEF PublishInv, Repairing
    <3>2. \A u \in Works : ~Publishing(u)'
      BY <2>4, <2>5, <3>1
    <3>3. \A u \in Works : work'[u].pc # "catalog"
      BY <3>2 DEF Publishing
    <3>4. catalog' = Catalog(index)'
      BY <2>2, <3>1 DEF Catalog
    <3> QED BY <2>2, <3>1, <3>2, <3>3, <3>4 DEF Repairing
  <2>7. Growing'
    BY <2>1, <2>3 DEF PublishInv, Growing
  <2> QED BY <1>0, <2>6, <2>7 DEF PublishInv
<1>6. ASSUME NEW w \in Works, Dies(w) PROVE PublishInv'
  <2> DEFINE x == [NewWork EXCEPT !.pc = "done"]
  <2>1. x.pc = "done"
    BY DEF NewWork
  <2>2. /\ work' = [work EXCEPT ![w] = x] /\ torn' = (torn \/ Publishing(w))
        /\ UNCHANGED <<index, sig, catalog>>
    BY <1>6 DEF Dies, Respond
  <2> HIDE DEF x
  <2>3. CASE Publishing(w)
    <3>1. Repairing'
      BY <2>2, <2>3 DEF Repairing
    <3>2. Growing'
      BY <1>0, <2>1, <2>2 DEF PublishInv, Growing, MTypeOK
    <3> QED BY <1>0, <3>1, <3>2 DEF PublishInv
  <2>4. CASE ~Publishing(w)
    <3>1. torn' = torn /\ work[w].pc \notin {"sig", "catalog"}
      BY <1>0, <2>2, <2>4 DEF Publishing, MTypeOK
    <3> QED BY <1>0, <2>1, <2>2, <3>1, BeforePut
  <2> QED BY <2>3, <2>4
<1>7. ASSUME UNCHANGED mvars PROVE PublishInv'
  BY <1>0, <1>7 DEF mvars, PublishInv, Repairing, Growing, Publishing, Catalog
<1> QED
  BY <1>1, <1>2, <1>3, <1>4, <1>5, <1>6, <1>7 DEF MNext, MStep, EarlyStep

-----------------------------------------------------------------------------
(* The day's budget *)

\* Of an author, in work W: the submissions that are counted and may still be
\* reviewed; and in R: the reviews paid for.
Spending(W, a)  == {w \in Works : W[w].pc \in {"lookup", "review"} /\ W[w].offer.author = a}
ReviewsOf(R, a) == {r \in R : r.author = a}

\* What is spent and what may still be spent is counted.
BudgetInv ==
  /\ MTypeOK
  /\ \A a \in Authors :
       /\ IsFiniteSet(Spending(work, a)) /\ IsFiniteSet(ReviewsOf(reviewed, a))
       /\ Cardinality(Spending(work, a)) + Cardinality(ReviewsOf(reviewed, a)) <= rate[a]

LEMMA Sizes ==
  ASSUME NEW S, IsFiniteSet(S)
  PROVE  /\ Cardinality(S) \in Nat
         /\ \A T \in SUBSET S : IsFiniteSet(T) /\ Cardinality(T) <= Cardinality(S)
         /\ \A x : IsFiniteSet(S \cup {x}) /\ Cardinality(S \cup {x}) <= Cardinality(S) + 1
         /\ \A x \in S : IsFiniteSet(S \ {x}) /\ Cardinality(S \ {x}) = Cardinality(S) - 1
<1>1. Cardinality(S) \in Nat
  BY FS_CardinalityType
<1>2. \A T \in SUBSET S : IsFiniteSet(T) /\ Cardinality(T) <= Cardinality(S)
  BY FS_Subset
<1>3. \A x : IsFiniteSet(S \cup {x}) /\ Cardinality(S \cup {x}) <= Cardinality(S) + 1
  BY <1>1, FS_AddElement
<1>4. \A x \in S : IsFiniteSet(S \ {x}) /\ Cardinality(S \ {x}) = Cardinality(S) - 1
  BY <1>1, FS_RemoveElement
<1> QED
  BY <1>1, <1>2, <1>3, <1>4

\* A step that neither counts nor reviews, and leaves no more to be reviewed.
LEMMA SpendsNothing ==
  ASSUME BudgetInv, MTypeOK', UNCHANGED <<rate, reviewed>>,
         \A a \in Authors : Spending(work', a) \subseteq Spending(work, a)
  PROVE  BudgetInv'
<1> SUFFICES ASSUME NEW a \in Authors
             PROVE  /\ IsFiniteSet(Spending(work', a)) /\ IsFiniteSet(ReviewsOf(reviewed, a))
                    /\ Cardinality(Spending(work', a)) + Cardinality(ReviewsOf(reviewed, a)) <= rate[a]
  BY DEF BudgetInv
<1> DEFINE P == Spending(work, a)
           Q == Spending(work', a)
           R == ReviewsOf(reviewed, a)
<1>1. /\ IsFiniteSet(P) /\ IsFiniteSet(R) /\ Q \in SUBSET P
      /\ Cardinality(P) + Cardinality(R) <= rate[a] /\ rate[a] \in Nat
  BY DEF BudgetInv, MTypeOK
<1> HIDE DEF P, Q, R
<1>2. IsFiniteSet(Q) /\ Cardinality(Q) <= Cardinality(P)
  BY <1>1, Sizes
<1>3. Cardinality(P) \in Nat /\ Cardinality(Q) \in Nat /\ Cardinality(R) \in Nat
  BY <1>1, <1>2, Sizes
<1>4. Cardinality(Q) + Cardinality(R) <= rate[a]
  BY <1>1, <1>2, <1>3
<1> QED
  BY <1>1, <1>2, <1>4 DEF P, Q, R

\* In particular one that moves a submission on, or ends it.
LEMMA MovesOn ==
  ASSUME BudgetInv, MTypeOK', UNCHANGED <<rate, reviewed>>, NEW w \in Works, NEW x,
         work' = [work EXCEPT ![w] = x],
         x.pc \in {"lookup", "review"} =>
           work[w].pc \in {"lookup", "review"} /\ x.offer = work[w].offer
  PROVE  BudgetInv'
<1>1. work'[w] = x /\ \A u \in Works : u # w => work'[u] = work[u]
  BY DEF BudgetInv, MTypeOK
<1>2. \A a \in Authors : Spending(work', a) \subseteq Spending(work, a)
  BY <1>1 DEF Spending
<1> QED
  BY <1>2, SpendsNothing

LEMMA CountAdds == ASSUME BudgetInv, MTypeOK', NEW w \in Works, Count(w) PROVE BudgetInv'
<1> DEFINE x == [work[w] EXCEPT !.seen = 0, !.pc = "lookup"]
           b == work[w].offer.author
<1>1. b \in Authors /\ work[w].pc = "count"
  BY AtOffers DEF BudgetInv, Count, At, Submitted
<1>2. x.pc = "lookup" /\ x.offer = work[w].offer
  BY WorkTyped DEF BudgetInv, WorkState
<1>3. work' = [work EXCEPT ![w] = x] /\ reviewed' = reviewed /\ rate' = [rate EXCEPT ![b] = rate[b] + 1]
  BY DEF Count, Counted
<1> HIDE DEF x
<1>4. work'[w] = x /\ \A u \in Works : u # w => work'[u] = work[u]
  BY <1>3 DEF BudgetInv, MTypeOK
<1> SUFFICES ASSUME NEW a \in Authors
             PROVE  /\ IsFiniteSet(Spending(work', a)) /\ IsFiniteSet(ReviewsOf(reviewed, a))
                    /\ Cardinality(Spending(work', a)) + Cardinality(ReviewsOf(reviewed, a)) <= rate'[a]
  BY <1>3 DEF BudgetInv
<1> DEFINE P == Spending(work, a)
           R == ReviewsOf(reviewed, a)
<1>5. /\ IsFiniteSet(P) /\ IsFiniteSet(R)
      /\ Cardinality(P) + Cardinality(R) <= rate[a] /\ rate[a] \in Nat
  BY DEF BudgetInv, MTypeOK
<1>6. CASE a = b
  <2>1. Spending(work', a) = P \cup {w}
    BY <1>2, <1>4, <1>6 DEF Spending
  <2>2. rate'[a] = rate[a] + 1
    BY <1>1, <1>3, <1>6 DEF BudgetInv, MTypeOK
  <2> HIDE DEF P, R
  <2>3. IsFiniteSet(P \cup {w}) /\ Cardinality(P \cup {w}) <= Cardinality(P) + 1
    BY <1>5, Sizes
  <2>4. Cardinality(P) \in Nat /\ Cardinality(R) \in Nat /\ Cardinality(P \cup {w}) \in Nat
    BY <1>5, <2>3, Sizes
  <2>5. Cardinality(P \cup {w}) + Cardinality(R) <= rate'[a]
    BY <1>5, <2>2, <2>3, <2>4
  <2> QED BY <1>5, <2>1, <2>3, <2>5 DEF R
<1>7. CASE a # b
  <2>1. Spending(work', a) = P
    BY <1>1, <1>2, <1>4, <1>7 DEF Spending
  <2>2. rate'[a] = rate[a]
    BY <1>3, <1>7 DEF BudgetInv, MTypeOK
  <2> QED BY <1>5, <2>1, <2>2
<1> QED
  BY <1>6, <1>7

LEMMA ReviewSpends == ASSUME BudgetInv, MTypeOK', NEW w \in Works, Review(w) PROVE BudgetInv'
<1> DEFINE o == work[w].offer
<1>1. PICK d \in Decisions :
        /\ work' = [work EXCEPT ![w] = [@ EXCEPT !.decision = d, !.pc = "remember"]]
        /\ reviewed' = reviewed \cup
             {[by |-> w, author |-> o.author, body |-> o.body, decision |-> d]}
  BY DEF Review
<1> DEFINE x == [work[w] EXCEPT !.decision = d, !.pc = "remember"]
           r == [by |-> w, author |-> o.author, body |-> o.body, decision |-> d]
<1>2. work[w].pc = "review" /\ rate' = rate
  BY DEF Review, At
<1>3. x.pc = "remember"
  BY WorkTyped DEF BudgetInv, WorkState
<1>4. work' = [work EXCEPT ![w] = x] /\ reviewed' = reviewed \cup {r} /\ r.author = o.author
  BY <1>1
<1> HIDE DEF x, r
<1>5. work'[w] = x /\ \A u \in Works : u # w => work'[u] = work[u]
  BY <1>4 DEF BudgetInv, MTypeOK
<1> SUFFICES ASSUME NEW a \in Authors
             PROVE  /\ IsFiniteSet(Spending(work', a)) /\ IsFiniteSet(ReviewsOf(reviewed', a))
                    /\ Cardinality(Spending(work', a)) + Cardinality(ReviewsOf(reviewed', a)) <= rate[a]
  BY <1>2 DEF BudgetInv
<1> DEFINE P == Spending(work, a)
           R == ReviewsOf(reviewed, a)
<1>6. /\ IsFiniteSet(P) /\ IsFiniteSet(R)
      /\ Cardinality(P) + Cardinality(R) <= rate[a] /\ rate[a] \in Nat
  BY DEF BudgetInv, MTypeOK
<1>7. CASE a = o.author
  <2>1. Spending(work', a) = P \ {w} /\ w \in P
    BY <1>2, <1>3, <1>5, <1>7 DEF Spending
  <2>2. ReviewsOf(reviewed', a) = R \cup {r}
    BY <1>4, <1>7 DEF ReviewsOf
  <2> HIDE DEF P, R
  <2>3. /\ IsFiniteSet(P \ {w}) /\ Cardinality(P \ {w}) = Cardinality(P) - 1
        /\ IsFiniteSet(R \cup {r}) /\ Cardinality(R \cup {r}) <= Cardinality(R) + 1
    BY <1>6, <2>1, Sizes
  <2>4. /\ Cardinality(P) \in Nat /\ Cardinality(R) \in Nat
        /\ Cardinality(P \ {w}) \in Nat /\ Cardinality(R \cup {r}) \in Nat
    BY <1>6, <2>3, Sizes
  <2>5. Cardinality(P \ {w}) + Cardinality(R \cup {r}) <= rate[a]
    BY <1>6, <2>3, <2>4
  <2> QED BY <2>1, <2>2, <2>3, <2>5
<1>8. CASE a # o.author
  <2>1. Spending(work', a) = P
    BY <1>3, <1>5, <1>8 DEF Spending
  <2>2. ReviewsOf(reviewed', a) = R
    BY <1>4, <1>8 DEF ReviewsOf
  <2> QED BY <1>6, <2>1, <2>2
<1> QED
  BY <1>7, <1>8

LEMMA BudgetStep == BudgetInv /\ [MNext]_mvars => BudgetInv'
<1> SUFFICES ASSUME BudgetInv, [MNext]_mvars PROVE BudgetInv'
  OBVIOUS
<1>0. MTypeOK /\ MTypeOK'
  BY WorkerTypes DEF BudgetInv
<1>1. ASSUME NEW w \in Works, Respond(w), UNCHANGED <<rate, reviewed>> PROVE BudgetInv'
  <2> DEFINE x == [NewWork EXCEPT !.pc = "done"]
  <2>1. work' = [work EXCEPT ![w] = x] /\ x.pc = "done"
    BY <1>1 DEF Respond, NewWork
  <2> HIDE DEF x
  <2> QED BY <1>0, <1>1, <2>1, MovesOn
<1>2. ASSUME NEW w \in Works, NEW pc, Goto(w, pc), UNCHANGED <<rate, reviewed>>,
             pc \in {"lookup", "review"} => work[w].pc \in {"lookup", "review"}
      PROVE  BudgetInv'
  <2> DEFINE x == [work[w] EXCEPT !.pc = pc]
  <2>1. work' = [work EXCEPT ![w] = x] /\ x.pc = pc /\ x.offer = work[w].offer
    BY <1>0, <1>2, WorkTyped DEF Goto, WorkState
  <2> HIDE DEF x
  <2> QED BY <1>0, <1>2, <2>1, MovesOn
<1>3. ASSUME NEW w \in Works, NEW d, Decided(w, d), UNCHANGED <<rate, reviewed>> PROVE BudgetInv'
  <2> DEFINE x == [work[w] EXCEPT !.decision = d, !.pc = After(d)]
  <2>1. CASE d # "reject"
    <3>1. work' = [work EXCEPT ![w] = x] /\ x.pc = After(d)
      BY <1>0, <1>3, <2>1, WorkTyped DEF Decided, WorkState
    <3>2. After(d) \notin {"lookup", "review"}
      BY DEF After
    <3> HIDE DEF x
    <3> QED BY <1>0, <1>3, <3>1, <3>2, MovesOn
  <2>2. CASE d = "reject"
    BY <1>1, <1>3, <2>2 DEF Decided
  <2> QED BY <2>1, <2>2
<1>4. ASSUME NEW w \in Works, NEW o \in Offers, Submit(w, o) PROVE BudgetInv'
  <2> DEFINE x == [work[w] EXCEPT !.offer = o, !.seen = rate[o.author], !.pc = "count"]
  <2>1. UNCHANGED <<rate, reviewed>>
    BY <1>4 DEF Submit
  <2>2. CASE work' = [work EXCEPT ![w] = [@ EXCEPT !.offer = o, !.seen = rate[o.author], !.pc = "count"]]
    <3>1. work' = [work EXCEPT ![w] = x] /\ x.pc = "count"
      BY <1>0, <2>2, WorkTyped DEF WorkState
    <3> HIDE DEF x
    <3> QED BY <1>0, <2>1, <3>1, MovesOn
  <2> QED BY <1>1, <1>4, <2>1, <2>2 DEF Submit
<1>5. ASSUME NEW w \in Works, Count(w) \/ Review(w) PROVE BudgetInv'
  BY <1>0, <1>5, CountAdds, ReviewSpends
<1>6. ASSUME NEW w \in Works, Lookup(w) \/ CacheVerdict(w) PROVE BudgetInv'
  BY <1>2, <1>3, <1>6 DEF Lookup, CacheVerdict, At
<1>7. ASSUME NEW w \in Works, QueueForHuman(w) \/ PutArtifact(w) \/ PutSig(w) PROVE BudgetInv'
  BY <1>2, <1>7 DEF QueueForHuman, PutArtifact, PutSig
<1>8. ASSUME NEW w \in Works, Merge(w) PROVE BudgetInv'
  <2>1. PICK doc \in IndexDoc :
          work' = [work EXCEPT ![w] = [work[w] EXCEPT !.base = Loaded, !.pc = "index", !.doc = doc]]
    BY <1>0, <1>8, MergeMakes
  <2> DEFINE x == [work[w] EXCEPT !.base = Loaded, !.pc = "index", !.doc = doc]
  <2>2. work' = [work EXCEPT ![w] = x] /\ x.pc = "index"
    BY <1>0, <2>1, WorkTyped DEF WorkState
  <2>3. UNCHANGED <<rate, reviewed>>
    BY <1>8 DEF Merge
  <2> HIDE DEF x
  <2> QED BY <1>0, <2>2, <2>3, MovesOn
<1>9. ASSUME NEW w \in Works, PutIndex(w) PROVE BudgetInv'
  <2> DEFINE x == [NewWork EXCEPT !.pc = "sig", !.doc = work[w].doc]
  <2>1. work' = [work EXCEPT ![w] = x] /\ x.pc = "sig" /\ UNCHANGED <<rate, reviewed>>
    BY <1>9 DEF PutIndex, NewWork
  <2> HIDE DEF x
  <2> QED BY <1>0, <2>1, MovesOn
<1>10. ASSUME NEW w \in Works, PutCatalog(w) \/ Dies(w) PROVE BudgetInv'
  BY <1>1, <1>10 DEF PutCatalog, Dies
<1>11. ASSUME UNCHANGED mvars PROVE BudgetInv'
  BY <1>0, <1>11 DEF mvars, BudgetInv
<1> QED
  BY <1>4, <1>5, <1>6, <1>7, <1>8, <1>9, <1>10, <1>11 DEF MNext, MStep

-----------------------------------------------------------------------------
(* The client *)

LEMMA GetTyped ==
  ASSUME TypeOK, NEW r \in Gets
  PROVE  /\ get[r] \in GetState
         /\ get[r].raw \in IndexDoc \cup {Nothing} /\ get[r].ver \in VersionRow \cup {Nothing}
  BY DEF TypeOK, GetState

LEMMA NoGetTyped == NoGet \in GetState
  BY DEF NoGet, GetState

\* In a state of the reviews R and the queue F: what a request holds is sound.
\* It holds an index that was published, one no older than the one it compared
\* with, an entry of a sound index, an artifact that is that entry's body.
FineGet(R, F, x) ==
  /\ x.pc \in {"sig", "fresh", "cache"} => Sound(R, F, x.raw)
  /\ x.pc = "cache" => x.seen = Nothing \/ x.raw.at >= x.seen.at
  /\ x.pc \in {"zip", "install"} => Judged(R, x.ver.body, IF x.ver.verified THEN "pass" ELSE "flag")
  /\ x.pc = "install" => x.zip = x.ver.body

\* What its next step uses.
ReadyGet(x) ==
  /\ x.pc \in {"sig", "fresh", "cache"} => x.raw # Nothing
  /\ x.pc = "find" => x.want # Nothing
  /\ x.pc \in {"zip", "install"} => x.ver \in VersionRow
  /\ x.pc = "install" => x.zip \in Bodies

ClientInv ==
  /\ TypeOK /\ ReviewInv
  /\ idx # Nothing => Sound(reviewed, flagged, idx)
  /\ \A r \in Gets : FineGet(reviewed, flagged, get[r])
  /\ \A i \in Names : rows[i] # Nothing =>
       Judged(reviewed, rows[i].body, IF rows[i].verified THEN "pass" ELSE "flag")

\* A step of the Worker leaves the client's side as it is.
LEMMA WorkerLeavesClient ==
  ASSUME ClientInv, [MNext]_mvars, UNCHANGED cvars
  PROVE  ClientInv'
<1>1. ReviewInv'
  BY ReviewStep DEF ClientInv
<1>2. reviewed \subseteq reviewed' /\ flagged \subseteq flagged'
  BY DEF MNext, MStep, mvars, Submit, Count, Lookup, Review, CacheVerdict, QueueForHuman, PutArtifact,
    Merge, PutIndex, PutSig, PutCatalog, Dies, bucket
<1>3. UNCHANGED <<idx, get, rows>>
  BY DEF cvars
<1>4. TypeOK'
  BY <1>1, <1>3 DEF ClientInv, TypeOK, ReviewInv
<1>5. idx # Nothing => Sound(reviewed', flagged', idx)
  BY <1>2, MoreIsSound DEF ClientInv
<1>6. \A r \in Gets : FineGet(reviewed', flagged', get[r])
  BY <1>2, MoreIsSound DEF ClientInv, FineGet
<1>7. \A i \in Names : rows[i] # Nothing =>
        Judged(reviewed', rows[i].body, IF rows[i].verified THEN "pass" ELSE "flag")
  BY <1>2, MoreIsSound DEF ClientInv
<1> QED
  BY <1>1, <1>3, <1>4, <1>5, <1>6, <1>7 DEF ClientInv

\* What must be shown of a step that gives one request a new state x.
LEMMA GetUpdate ==
  ASSUME ClientInv, UNCHANGED mvars, NEW r \in Gets, NEW x \in GetState,
         get' = [get EXCEPT ![r] = x], ReadyGet(x), FineGet(reviewed, flagged, x),
         idx' = idx \/ (idx' \in IndexDoc /\ idx' # Nothing /\ Sound(reviewed, flagged, idx')),
         x.pc = "find" => idx' # Nothing,
         rows' \in [Names -> [body : Bodies, verified : BOOLEAN] \cup {Nothing}],
         \A i \in Names : rows'[i] = rows[i]
           \/ Judged(reviewed, rows'[i].body, IF rows'[i].verified THEN "pass" ELSE "flag")
  PROVE  ClientInv'
<1>1. ReviewInv' /\ UNCHANGED <<reviewed, flagged>>
  BY ReviewStep DEF ClientInv, mvars
<1>2. get'[r] = x /\ (\A q \in Gets : q # r => get'[q] = get[q]) /\ get' \in [Gets -> GetState]
  BY DEF ClientInv, TypeOK
<1>3. idx # Nothing => idx' # Nothing
  OBVIOUS
<1>4. \A q \in Gets : get'[q].pc = "find" => idx' # Nothing
  BY <1>2, <1>3 DEF ClientInv, TypeOK
<1>5. \A q \in Gets : ReadyGet(get'[q])
  BY <1>2 DEF ClientInv, TypeOK, ReadyGet
<1>6. TypeOK'
  BY <1>1, <1>2, <1>4, <1>5 DEF ClientInv, TypeOK, ReadyGet, ReviewInv
<1>7. \A q \in Gets : FineGet(reviewed, flagged, get'[q])
  BY <1>2 DEF ClientInv
<1>8. idx' # Nothing => Sound(reviewed, flagged, idx')
  BY DEF ClientInv
<1>9. \A i \in Names : rows'[i] # Nothing =>
        Judged(reviewed, rows'[i].body, IF rows'[i].verified THEN "pass" ELSE "flag")
  BY DEF ClientInv
<1> QED
  BY <1>1, <1>6, <1>7, <1>8, <1>9 DEF ClientInv

LEMMA AnswerKeeps ==
  ASSUME ClientInv, NEW r \in Gets, Answer(r), UNCHANGED <<mvars, idx, rows>>
  PROVE  ClientInv'
<1>1. ReadyGet(NoGet) /\ FineGet(reviewed, flagged, NoGet) /\ NoGet.pc # "find"
  BY DEF NoGet, ReadyGet, FineGet
<1> QED
  BY <1>1, NoGetTyped, GetUpdate DEF Answer, ClientInv, TypeOK

LEMMA ClientStepKeeps ==
  ASSUME ClientInv, NEW r \in Gets, ClientStep(r)
  PROVE  ClientInv'
<1>0. TypeOK /\ get[r] \in GetState
  BY GetTyped DEF ClientInv
<1>1. rows \in [Names -> [body : Bodies, verified : BOOLEAN] \cup {Nothing}]
  BY <1>0 DEF TypeOK
<1>2. CASE Refresh(r)
  <2> DEFINE x == [get[r] EXCEPT !.pc = "index"]
  <2>1. x \in GetState /\ x.pc = "index"
    BY <1>0 DEF GetState
  <2>2. get' = [get EXCEPT ![r] = x] /\ UNCHANGED <<mvars, idx, rows>>
    BY <1>2 DEF Refresh
  <2> HIDE DEF x
  <2>3. ReadyGet(x) /\ FineGet(reviewed, flagged, x)
    BY <2>1 DEF ReadyGet, FineGet
  <2> QED BY <1>1, <2>1, <2>2, <2>3, GetUpdate
<1>3. ASSUME NEW i \in Ids, NEW v \in Wanted, Install(r, i, v) PROVE ClientInv'
  <2> DEFINE x == [get[r] EXCEPT !.want = <<i, v>>, !.pc = IF idx = Nothing THEN "index" ELSE "find"]
  <2>1. /\ x \in GetState /\ x.pc = (IF idx = Nothing THEN "index" ELSE "find")
        /\ x.want = <<i, v>>
    BY <1>0 DEF GetState
  <2>2. get' = [get EXCEPT ![r] = x] /\ UNCHANGED <<mvars, idx, rows>>
    BY <1>3 DEF Install
  <2> HIDE DEF x
  <2>3. ReadyGet(x) /\ FineGet(reviewed, flagged, x)
    BY <2>1, WantAssumption DEF ReadyGet, FineGet
  <2> QED BY <1>1, <2>1, <2>2, <2>3, GetUpdate
<1>4. CASE GetIndex(r)
  <2> DEFINE x == [get[r] EXCEPT !.pc = "sig", !.raw = index]
  <2>1. index # Nothing /\ index \in IndexDoc /\ Sound(reviewed, flagged, index)
    BY <1>4 DEF GetIndex, Found, ClientInv, ReviewInv, MTypeOK
  <2>2. x \in GetState /\ x.pc = "sig" /\ x.raw = index
    BY <1>0, <2>1 DEF GetState
  <2>3. get' = [get EXCEPT ![r] = x] /\ UNCHANGED <<mvars, idx, rows>>
    BY <1>4 DEF GetIndex
  <2> HIDE DEF x
  <2>4. ReadyGet(x) /\ FineGet(reviewed, flagged, x)
    BY <2>1, <2>2 DEF ReadyGet, FineGet
  <2> QED BY <1>1, <2>2, <2>3, <2>4, GetUpdate
<1>5. CASE GetSig(r)
  <2>1. UNCHANGED <<mvars, idx, rows>> /\ get[r].pc = "sig"
    BY <1>5 DEF GetSig, GetAt
  <2>2. CASE get' = [get EXCEPT ![r].pc = "fresh"]
    <3> DEFINE x == [get[r] EXCEPT !.pc = "fresh"]
    <3>1. x \in GetState /\ x.pc = "fresh" /\ x.raw = get[r].raw
      BY <1>0 DEF GetState
    <3>2. get' = [get EXCEPT ![r] = x]
      BY <2>2
    <3> HIDE DEF x
    <3>3. ReadyGet(x) /\ FineGet(reviewed, flagged, x)
      BY <1>0, <2>1, <3>1 DEF ReadyGet, FineGet, ClientInv, TypeOK
    <3> QED BY <1>1, <2>1, <3>1, <3>2, <3>3, GetUpdate
  <2> QED BY <1>5, <2>1, <2>2, AnswerKeeps DEF GetSig
<1>6. CASE CheckFresh(r)
  <2>1. UNCHANGED <<mvars, idx, rows>> /\ get[r].pc = "fresh"
    BY <1>6 DEF CheckFresh, GetAt
  <2>2. CASE ~Older(get[r].raw) /\ get' = [get EXCEPT ![r] = [@ EXCEPT !.pc = "cache", !.seen = idx]]
    <3> DEFINE x == [get[r] EXCEPT !.pc = "cache", !.seen = idx]
    <3>1. x \in GetState /\ x.pc = "cache" /\ x.raw = get[r].raw /\ x.seen = idx
      BY <1>0 DEF GetState, TypeOK
    <3>2. get' = [get EXCEPT ![r] = x]
      BY <2>2
    <3> HIDE DEF x
    <3>3. get[r].raw # Nothing /\ get[r].raw \in IndexDoc /\ Sound(reviewed, flagged, get[r].raw)
      BY <1>0, <2>1, GetTyped DEF ClientInv, TypeOK, FineGet
    <3>4. idx = Nothing \/ get[r].raw.at >= idx.at
      <4>1. idx \in IndexDoc \cup {Nothing}
        BY <1>0 DEF TypeOK
      <4>2. get[r].raw.at \in Nat /\ (idx # Nothing => idx.at \in Nat)
        BY <3>3, <4>1 DEF IndexDoc
      <4> QED BY <2>2, <4>2 DEF Older
    <3>5. ReadyGet(x) /\ FineGet(reviewed, flagged, x)
      BY <3>1, <3>3, <3>4 DEF ReadyGet, FineGet
    <3> QED BY <1>1, <2>1, <3>1, <3>2, <3>5, GetUpdate
  <2> QED BY <1>6, <2>1, <2>2, AnswerKeeps DEF CheckFresh
<1>7. CASE CacheIndex(r)
  <2>1. UNCHANGED <<mvars, rows>> /\ get[r].pc = "cache" /\ idx' = get[r].raw
    BY <1>7 DEF CacheIndex, GetAt
  <2>2. get[r].raw # Nothing /\ get[r].raw \in IndexDoc /\ Sound(reviewed, flagged, get[r].raw)
    BY <1>0, <2>1, GetTyped DEF ClientInv, TypeOK, FineGet
  <2>3. CASE Answer(r)
    <3>1. ReadyGet(NoGet) /\ FineGet(reviewed, flagged, NoGet) /\ NoGet.pc # "find"
      BY DEF NoGet, ReadyGet, FineGet
    <3>2. get' = [get EXCEPT ![r] = NoGet]
      BY <2>3 DEF Answer
    <3> QED BY <1>1, <2>1, <2>2, <3>1, <3>2, NoGetTyped, GetUpdate
  <2>4. CASE get[r].want # Nothing
    <3> DEFINE x == [NoGet EXCEPT !.pc = "find", !.want = get[r].want]
    <3>1. x \in GetState /\ x.pc = "find" /\ x.want = get[r].want
      BY <1>0, NoGetTyped DEF GetState
    <3>2. get' = [get EXCEPT ![r] = x]
      BY <1>7, <2>4 DEF CacheIndex
    <3> HIDE DEF x
    <3>3. ReadyGet(x) /\ FineGet(reviewed, flagged, x)
      BY <2>4, <3>1 DEF ReadyGet, FineGet
    <3> QED BY <1>1, <2>1, <2>2, <3>1, <3>2, <3>3, GetUpdate
  <2> QED BY <1>7, <2>3, <2>4 DEF CacheIndex
<1>8. CASE Find(r)
  <2>1. UNCHANGED <<mvars, idx, rows>> /\ get[r].pc = "find"
    BY <1>8 DEF Find, GetAt
  <2>2. ASSUME NEW v \in Matches(idx, get[r].want),
               get' = [get EXCEPT ![r] = [NoGet EXCEPT !.pc = "zip", !.ver = v]]
        PROVE  ClientInv'
    <3> DEFINE x == [NoGet EXCEPT !.pc = "zip", !.ver = v]
    <3>1. idx # Nothing /\ idx \in IndexDoc /\ Sound(reviewed, flagged, idx)
      BY <1>0, <2>1 DEF ClientInv, TypeOK
    <3>2. v \in idx.versions
      BY DEF Matches
    <3>3. v \in VersionRow
      BY <3>1, <3>2 DEF IndexDoc
    <3>4. Judged(reviewed, v.body, IF v.verified THEN "pass" ELSE "flag")
      BY <3>1, <3>2 DEF Sound
    <3>5. x \in GetState /\ x.pc = "zip" /\ x.ver = v
      BY <3>3, NoGetTyped DEF GetState
    <3>6. get' = [get EXCEPT ![r] = x]
      BY <2>2
    <3> HIDE DEF x
    <3>7. ReadyGet(x) /\ FineGet(reviewed, flagged, x)
      BY <3>3, <3>4, <3>5 DEF ReadyGet, FineGet
    <3> QED BY <1>1, <2>1, <3>5, <3>6, <3>7, GetUpdate
  <2> QED BY <1>8, <2>1, <2>2, AnswerKeeps DEF Find
<1>9. CASE GetZip(r)
  <2> DEFINE ver == get[r].ver
             zip == zips[<<ver.id, ver.version>>]
             x == [get[r] EXCEPT !.pc = "install", !.zip = zip]
  <2>1. UNCHANGED <<mvars, idx, rows>> /\ get[r].pc = "zip"
    BY <1>9 DEF GetZip, GetAt
  <2>2. CASE zip = ver.body /\ get' = [get EXCEPT ![r] = x]
    <3>1. ver \in VersionRow
      BY <1>0, <2>1 DEF TypeOK
    <3>2. zip \in Bodies
      BY <2>2, <3>1 DEF VersionRow
    <3>3. x \in GetState /\ x.pc = "install" /\ x.zip = zip /\ x.ver = ver
      BY <1>0, <3>2 DEF GetState
    <3>4. Judged(reviewed, ver.body, IF ver.verified THEN "pass" ELSE "flag")
      BY <2>1 DEF ClientInv, FineGet
    <3> HIDE DEF x, zip, ver
    <3>5. ReadyGet(x) /\ FineGet(reviewed, flagged, x)
      BY <2>2, <3>1, <3>2, <3>3, <3>4 DEF ReadyGet, FineGet
    <3> QED BY <1>1, <2>1, <2>2, <3>3, <3>5, GetUpdate
  <2>3. Answer(r) \/ (zip = ver.body /\ get' = [get EXCEPT ![r] = x])
    BY <1>9 DEF GetZip, HashMatches
  <2> QED BY <2>1, <2>2, <2>3, AnswerKeeps
<1>10. CASE InstallTool(r)
  <2> DEFINE ver == get[r].ver
             row == [body |-> get[r].zip, verified |-> ver.verified]
  <2>1. UNCHANGED <<mvars, idx>> /\ get[r].pc = "install" /\ get' = [get EXCEPT ![r] = NoGet]
    BY <1>10 DEF InstallTool, GetAt, Answer
  <2>2. ver \in VersionRow /\ get[r].zip \in Bodies
    BY <1>0, <2>1 DEF TypeOK
  <2>3. get[r].zip.name \in Names /\ ver.verified \in BOOLEAN
    BY <2>2 DEF VersionRow, Names
  <2>4. row \in [body : Bodies, verified : BOOLEAN] /\ row.body = get[r].zip /\ row.verified = ver.verified
    BY <2>2, <2>3
  <2>5. Judged(reviewed, row.body, IF row.verified THEN "pass" ELSE "flag")
    BY <2>1, <2>4 DEF ClientInv, FineGet
  <2>6. rows' = rows \/ rows' = [rows EXCEPT ![get[r].zip.name] = row]
    BY <1>10 DEF InstallTool
  <2>7. ReadyGet(NoGet) /\ FineGet(reviewed, flagged, NoGet) /\ NoGet.pc # "find"
    BY DEF NoGet, ReadyGet, FineGet
  <2> HIDE DEF row, ver
  <2>8. /\ rows' \in [Names -> [body : Bodies, verified : BOOLEAN] \cup {Nothing}]
        /\ \A i \in Names : rows'[i] = rows[i] \/ rows'[i] = row
    BY <1>1, <2>3, <2>4, <2>6
  <2> QED BY <2>1, <2>5, <2>7, <2>8, NoGetTyped, GetUpdate
<1>11. CASE GetFails(r)
  BY <1>11, AnswerKeeps DEF GetFails
<1> QED
  BY <1>2, <1>3, <1>4, <1>5, <1>6, <1>7, <1>8, <1>9, <1>10, <1>11 DEF ClientStep

-----------------------------------------------------------------------------
(* The theorems *)

LEMMA NothingYet == Init => ClientInv /\ PublishInv /\ BudgetInv
<1> SUFFICES ASSUME Init PROVE ClientInv /\ PublishInv /\ BudgetInv
  OBVIOUS
<1>1. MTypeOK
  BY NewWorkTyped, MarketplaceAssumption
     DEF Init, MInit, MTypeOK, NewWork, Submitted, Decisions
<1>2. NewWork.pc = "new" /\ NoGet.pc = "idle"
  BY DEF NewWork, NoGet
<1>3. \A w \in Works : work[w].pc = "new"
  BY <1>2 DEF Init, MInit
<1>4. \A r \in Gets : get[r] = NoGet /\ get[r].pc = "idle"
  BY <1>2 DEF Init
<1>5. index = Nothing /\ idx = Nothing /\ reviewed = {}
  BY DEF Init, MInit
<1>6. TypeOK
  BY <1>1, <1>4, NoGetTyped DEF Init, TypeOK
<1>7. ReviewInv
  BY <1>1, <1>3, <1>5 DEF Init, MInit, ReviewInv, FineWork
<1>8. ClientInv
  BY <1>4, <1>5, <1>6, <1>7 DEF Init, ClientInv, FineGet
<1>9. PublishInv
  BY <1>1, <1>3, <1>5 DEF PublishInv, Repairing, Growing
<1>10. BudgetInv
  <2> SUFFICES ASSUME NEW a \in Authors
               PROVE  /\ IsFiniteSet(Spending(work, a)) /\ IsFiniteSet(ReviewsOf(reviewed, a))
                      /\ Cardinality(Spending(work, a)) + Cardinality(ReviewsOf(reviewed, a)) <= rate[a]
    BY <1>1 DEF BudgetInv
  <2>1. Spending(work, a) = {} /\ ReviewsOf(reviewed, a) = {} /\ rate[a] = 0
    BY <1>3, <1>5 DEF Spending, ReviewsOf, Init, MInit
  <2> QED BY <2>1, FS_EmptySet
<1> QED
  BY <1>8, <1>9, <1>10

\* A request of the control plane takes no step of the Worker.
LEMMA ClientLeavesWorker == [Next]_vars => [MNext]_mvars
  BY DEF Next, vars, ClientStep, Refresh, Install, GetIndex, GetSig, CheckFresh, CacheIndex, Find,
     GetZip, InstallTool, GetFails

LEMMA ClientInvStep == ClientInv /\ [Next]_vars => ClientInv'
<1> SUFFICES ASSUME ClientInv, [Next]_vars PROVE ClientInv'
  OBVIOUS
<1>1. CASE MNext /\ UNCHANGED cvars
  BY <1>1, WorkerLeavesClient
<1>2. CASE \E r \in Gets : ClientStep(r)
  BY <1>2, ClientStepKeeps
<1>3. CASE UNCHANGED vars
  <2>1. [MNext]_mvars /\ UNCHANGED cvars
    BY <1>3 DEF vars
  <2> QED BY <2>1, WorkerLeavesClient
<1> QED
  BY <1>1, <1>2, <1>3 DEF Next

\* Whatever requests and submissions run at once: what the Worker indexes, what
\* the client caches and holds, and what is installed was earned by a review.
THEOREM ClientInductive == Spec => []ClientInv
  BY NothingYet, ClientInvStep, PTL DEF Spec

\* The three objects of a publish agree again after one that nothing disturbs,
\* and an index in the making loses nothing of the one it was made from.
THEOREM PublishInductive == Spec => []PublishInv
<1>1. PublishInv /\ [Next]_vars => PublishInv'
  BY PublishStep, ClientLeavesWorker
<1> QED
  BY <1>1, NothingYet, PTL DEF Spec

\* What an author's submissions have spent on reviews and may still spend is
\* counted in the author's row of the day.
THEOREM BudgetInductive == Spec => []BudgetInv
<1>1. BudgetInv /\ [Next]_vars => BudgetInv'
  BY BudgetStep, ClientLeavesWorker
<1> QED
  BY <1>1, NothingYet, PTL DEF Spec

\* Every variable of the Worker and the client keeps its type, and a request of
\* the control plane holds what its next step uses.
THEOREM MarketTypes == Spec => []TypeOK
<1>1. ClientInv => TypeOK
  BY DEF ClientInv
<1> QED
  BY <1>1, ClientInductive, PTL

\* Every entry of the index was passed, or flagged, by a review of its own body.
THEOREM BadgeIsEarnedCorrect == Spec => []BadgeIsEarned
<1>1. ClientInv => BadgeIsEarned
  BY DEF ClientInv, ReviewInv, Sound, Judged, BadgeIsEarned, Earned
<1> QED
  BY <1>1, ClientInductive, PTL

\* Every unverified entry of the index waits for a human.
THEOREM UnverifiedIsQueuedCorrect == Spec => []UnverifiedIsQueued
<1>1. ClientInv => UnverifiedIsQueued
  BY DEF ClientInv, ReviewInv, Sound, UnverifiedIsQueued
<1> QED
  BY <1>1, ClientInductive, PTL

\* No more reviews of an author are paid for than are counted.
THEOREM BudgetIsCountedCorrect == Spec => []BudgetIsCounted
<1>1. BudgetInv => BudgetIsCounted
  <2> SUFFICES ASSUME BudgetInv, NEW a \in Authors
               PROVE  Cardinality(ReviewsOf(reviewed, a)) <= rate[a]
    BY DEF BudgetIsCounted, ReviewsOf
  <2>1. /\ Cardinality(Spending(work, a)) \in Nat /\ Cardinality(ReviewsOf(reviewed, a)) \in Nat
        /\ Cardinality(Spending(work, a)) + Cardinality(ReviewsOf(reviewed, a)) <= rate[a]
    BY FS_CardinalityType DEF BudgetInv
  <2>2. rate[a] \in Nat
    BY DEF BudgetInv, MTypeOK
  <2> QED BY <2>1, <2>2
<1> QED
  BY <1>1, BudgetInductive, PTL

\* A publish that nothing disturbs leaves index, signature and catalog in
\* agreement, however they disagreed before.
THEOREM PublishRepairsCorrect == Spec => []PublishRepairs
<1>1. PublishInv => PublishRepairs
  BY DEF PublishInv, Repairing, PublishRepairs
<1> QED
  BY <1>1, PublishInductive, PTL

\* A version that is listed is lost only to a publish that read an older index.
THEOREM PublishedStaysCorrect == Spec => PublishedStays
<1>1. PublishInv /\ [Next]_vars =>
        [Listed(index) \ Listed(index') = {}
           \/ \E w \in Works : At(w, "index") /\ ~At(w, "index")'
                               /\ Listed(index) # Listed(work[w].base)]_mvars
  <2> SUFFICES ASSUME PublishInv, [MNext]_mvars
               PROVE  Listed(index) \ Listed(index') = {}
                        \/ \E w \in Works : At(w, "index") /\ ~At(w, "index")'
                                            /\ Listed(index) # Listed(work[w].base)
    BY ClientLeavesWorker
  <2>1. CASE index' = index
    BY <2>1
  <2>2. ASSUME NEW w \in Works, PutIndex(w)
        PROVE  Listed(index) \ Listed(index') = {}
                 \/ (At(w, "index") /\ ~At(w, "index")' /\ Listed(index) # Listed(work[w].base))
    <3>1. At(w, "index") /\ index' = work[w].doc
      BY <2>2 DEF PutIndex
    <3>2. Listed(work[w].base) \subseteq Listed(index')
      BY <3>1 DEF PublishInv, Growing, At
    <3> DEFINE x == [NewWork EXCEPT !.pc = "sig", !.doc = work[w].doc]
    <3>3. x.pc = "sig" /\ work' = [work EXCEPT ![w] = x]
      BY <2>2 DEF PutIndex, NewWork
    <3> HIDE DEF x
    <3>4. ~At(w, "index")'
      BY <3>3 DEF At, PublishInv, MTypeOK
    <3> QED BY <3>1, <3>2, <3>4
  <2>3. CASE \E w \in Works : PutIndex(w)
    BY <2>2, <2>3
  <2> QED
    BY <2>1, <2>3 DEF MNext, MStep, mvars, bucket, Submit, Count, Lookup, Review, CacheVerdict,
       QueueForHuman, PutArtifact, Merge, PutSig, PutCatalog, Dies
<1> QED
  BY <1>1, PublishInductive, PTL DEF Spec, PublishedStays

\* Manifest and source of every installed tool passed a review together, and
\* the badge is the one that this review gave.
THEOREM InstalledIsReviewedCorrect == Spec => []InstalledIsReviewed
<1>1. ClientInv => InstalledIsReviewed
  BY DEF ClientInv, Judged, InstalledIsReviewed, Earned
<1> QED
  BY <1>1, ClientInductive, PTL

\* The cached catalog goes back in time only where two refreshes overlap.
THEOREM NoRollbackCorrect == Spec => NoRollback
<1>1. ClientInv /\ [Next]_vars =>
        [idx # Nothing /\ idx' # idx
           => idx'.at >= idx.at
              \/ \E r \in Gets : GetAt(r, "cache") /\ ~GetAt(r, "cache")' /\ get[r].seen # idx]_vars
  <2> SUFFICES ASSUME ClientInv, Next, idx # Nothing, idx' # idx
               PROVE  idx'.at >= idx.at
                        \/ \E r \in Gets : GetAt(r, "cache") /\ ~GetAt(r, "cache")' /\ get[r].seen # idx
    BY DEF vars, cvars
  <2>1. PICK r \in Gets : CacheIndex(r)
    BY DEF Next, cvars, ClientStep, Refresh, Install, GetIndex, GetSig, CheckFresh, Find, GetZip,
       InstallTool, GetFails
  <2>2. GetAt(r, "cache") /\ idx' = get[r].raw
    BY <2>1 DEF CacheIndex
  <2> DEFINE x == IF get[r].want = Nothing THEN NoGet
                  ELSE [NoGet EXCEPT !.pc = "find", !.want = get[r].want]
  <2>3. get' = [get EXCEPT ![r] = x] /\ x.pc # "cache"
    BY <2>1 DEF CacheIndex, Answer, NoGet
  <2> HIDE DEF x
  <2>4. ~GetAt(r, "cache")'
    BY <2>3 DEF GetAt, ClientInv, TypeOK
  <2>5. get[r].seen = Nothing \/ get[r].raw.at >= get[r].seen.at
    BY <2>2 DEF ClientInv, FineGet, GetAt
  <2> QED BY <2>2, <2>4, <2>5
<1> QED
  BY <1>1, ClientInductive, PTL DEF Spec, NoRollback
=============================================================================
