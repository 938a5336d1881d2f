---------------------------- MODULE Marketplace ----------------------------
(***************************************************************************)
(* The marketplace Worker, cloudflare/src: a submission is counted against *)
(* its author's daily limit, reviewed once per content, and published to   *)
(* the bucket as a tool artifact, the signed index and the catalog that    *)
(* the browse page reads.                                                  *)
(*                                                                         *)
(* Works are the submissions of one day, each handled by one request; the  *)
(* platform runs them concurrently and may end one at any await.  An await *)
(* on the bucket, on D1 or on the model ends a step; what lies between two *)
(* awaits is one action.  A signature is the bytes it signs.  The review   *)
(* report (reviews/...) is written, never read, and left out.              *)
(***************************************************************************)
EXTENDS Naturals, FiniteSets, Sequences

CONSTANTS
  Works,                 \* submissions
  Offers,                \* what may be submitted: [id, author, version, body], a body [name, source]
  DailyLimit,            \* DAILY_LIMIT
  MayDie,                \* whether a request may end half-way
  Nothing                \* an object that is not in the bucket

Authors  == {o.author : o \in Offers}
Bodies   == {o.body : o \in Offers}
Ids      == {o.id : o \in Offers}
Versions == {o.version : o \in Offers}

Decisions == {"pass", "flag", "reject"}

ASSUME MarketplaceAssumption == DailyLimit \in Nat /\ MayDie \in BOOLEAN

VARIABLES
  rate,                  \* D1 rate: today's count of each author
  verdicts,              \* submissions/<hash>.json: cached decision of a body
  flagged,               \* D1 flagged: what waits for a human
  zips,                  \* tools/<id>/<version>/tool.zip
  index, sig, catalog,   \* v1/index.json, index.json.sig, catalog.json
  work,                  \* each submission: where it is, its locals
  clock,                 \* Date of the last publish
  reviewed,              \* history: reviews paid for, [by, body, decision]
  torn                   \* history: the last publish was overlapped or died

mvars == <<rate, verdicts, flagged, zips, index, sig, catalog, work, clock, reviewed, torn>>

EmptyIndex == [at |-> 0, versions |-> {}, latest |-> [i \in Ids |-> Nothing]]

NewWork ==
  [pc |-> "new", offer |-> Nothing, seen |-> 0, decision |-> "none",
   base |-> EmptyIndex, doc |-> EmptyIndex]

MInit ==
  /\ rate = [a \in Authors |-> 0]
  /\ verdicts = [b \in Bodies |-> "none"]
  /\ flagged = {}
  /\ zips = [k \in Ids \X Versions |-> Nothing]
  /\ index = Nothing /\ sig = Nothing /\ catalog = Nothing
  /\ work = [w \in Works |-> NewWork]
  /\ clock = 0
  /\ reviewed = {}
  /\ torn = FALSE

At(w, pc) == work[w].pc = pc
Goto(w, pc) == work' = [work EXCEPT ![w].pc = pc]

\* The response is sent; nothing of the request remains.
Respond(w) == work' = [work EXCEPT ![w] = [NewWork EXCEPT !.pc = "done"]]

bucket == <<zips, index, sig, catalog, clock, torn>>

-----------------------------------------------------------------------------
(* The daily limit and the review *)

\* overDailyLimit, its SELECT.
Submit(w, o) ==
  /\ At(w, "new")
  /\ IF rate[o.author] >= DailyLimit
     THEN Respond(w)
     ELSE work' = [work EXCEPT ![w] = [@ EXCEPT !.offer = o, !.seen = rate[o.author], !.pc = "count"]]
  /\ UNCHANGED <<rate, verdicts, flagged, bucket, reviewed>>

\* ON CONFLICT DO UPDATE SET count=count+1: D1 adds to what it has by now.
CountedFromSelect(w, a) == work[w].seen + 1
Counted(w, a) == rate[a] + 1

Count(w) ==
  LET a == work[w].offer.author IN
  /\ At(w, "count")
  /\ rate' = [rate EXCEPT ![a] = Counted(w, a)]
  /\ work' = [work EXCEPT ![w] = [@ EXCEPT !.seen = 0, !.pc = "lookup"]]
  /\ UNCHANGED <<verdicts, flagged, bucket, reviewed>>

\* decide's outcome: reject is the only hard block; a flagged submission is
\* queued for a human and then published like one that passed.
AfterUnqueued(d) == IF d = "reject" THEN "done" ELSE "artifact"
After(d) == CASE d = "pass" -> "artifact" [] d = "flag" -> "queue" [] OTHER -> "done"

Decided(w, d) ==
  IF d = "reject" THEN Respond(w)
  ELSE work' = [work EXCEPT ![w] = [@ EXCEPT !.decision = d, !.pc = After(d)]]

\* getCachedVerdict, by the hash of manifest and source.
VerdictOfAny(b) ==
  IF \E c \in Bodies : verdicts[c] # "none"
  THEN verdicts[CHOOSE c \in Bodies : verdicts[c] # "none"] ELSE "none"
VerdictOf(b) == verdicts[b]

Lookup(w) ==
  LET d == VerdictOf(work[w].offer.body) IN
  /\ At(w, "lookup")
  /\ IF d = "none" THEN Goto(w, "review") ELSE Decided(w, d)
  /\ UNCHANGED <<rate, verdicts, flagged, bucket, reviewed>>

\* The model's answer, and the thresholds on it: any of the three.
Review(w) ==
  LET o == work[w].offer IN
  /\ At(w, "review")
  /\ \E d \in Decisions :
       /\ work' = [work EXCEPT ![w] = [@ EXCEPT !.decision = d, !.pc = "remember"]]
       /\ reviewed' = reviewed \cup
                        {[by |-> w, author |-> o.author, body |-> o.body, decision |-> d]}
  /\ UNCHANGED <<rate, verdicts, flagged, bucket>>

CacheVerdict(w) ==
  /\ At(w, "remember")
  /\ verdicts' = [verdicts EXCEPT ![work[w].offer.body] = work[w].decision]
  /\ Decided(w, work[w].decision)
  /\ UNCHANGED <<rate, flagged, bucket, reviewed>>

QueueForHuman(w) ==
  /\ At(w, "queue")
  /\ flagged' = flagged \cup {<<work[w].offer.id, work[w].offer.version>>}
  /\ Goto(w, "artifact")
  /\ UNCHANGED <<rate, verdicts, bucket, reviewed>>

-----------------------------------------------------------------------------
(* publish *)

PutArtifact(w) ==
  LET o == work[w].offer IN
  /\ At(w, "artifact")
  /\ zips' = [zips EXCEPT ![<<o.id, o.version>>] = o.body]
  /\ Goto(w, "merge")
  /\ UNCHANGED <<rate, verdicts, flagged, index, sig, catalog, clock, reviewed, torn>>

\* upsertVersion: the version replaces one of the same number and is latest.
UpsertTool(ix, v) ==
  [ix EXCEPT !.versions = {x \in @ : x.id # v.id} \cup {v}, !.latest[v.id] = v.version]
UpsertVersion(ix, v) ==
  [ix EXCEPT !.versions = {x \in @ : <<x.id, x.version>> # <<v.id, v.version>>} \cup {v},
             !.latest[v.id] = v.version]

\* loadIndex, the date, the new entry and its signature.  Two dates may be
\* the same millisecond.
Merge(w) ==
  LET o    == work[w].offer
      base == IF index = Nothing THEN EmptyIndex ELSE index
      v    == [id |-> o.id, version |-> o.version, body |-> o.body,
               verified |-> work[w].decision = "pass"]
  IN
  /\ At(w, "merge")
  /\ clock' \in {clock, clock + 1}
  /\ work' = [work EXCEPT ![w] =
       [@ EXCEPT !.base = base, !.pc = "index",
                 !.doc = [UpsertVersion(base, v) EXCEPT !.at = clock']]]
  /\ UNCHANGED <<rate, verdicts, flagged, zips, index, sig, catalog, reviewed, torn>>

Publishing(w) == work[w].pc \in {"sig", "catalog"}

PutIndex(w) ==
  /\ At(w, "index")
  /\ index' = work[w].doc
  /\ torn' = \E u \in Works \ {w} : Publishing(u)
  /\ work' = [work EXCEPT ![w] = [NewWork EXCEPT !.pc = "sig", !.doc = work[w].doc]]
  /\ UNCHANGED <<rate, verdicts, flagged, zips, sig, catalog, clock, reviewed>>

SignedBefore(w) == IF sig = Nothing THEN work[w].doc ELSE sig
SignedDoc(w) == work[w].doc

PutSig(w) ==
  /\ At(w, "sig")
  /\ sig' = SignedDoc(w)
  /\ Goto(w, "catalog")
  /\ UNCHANGED <<rate, verdicts, flagged, zips, index, catalog, clock, reviewed, torn>>

\* buildCatalog: one row for each tool, at its latest version.
Catalog(ix) == {v \in ix.versions : v.version = ix.latest[v.id]}

PutCatalog(w) ==
  /\ At(w, "catalog")
  /\ catalog' = Catalog(work[w].doc)
  /\ Respond(w)
  /\ UNCHANGED <<rate, verdicts, flagged, zips, index, sig, clock, reviewed, torn>>

\* An await throws (500), or the platform ends the request.
Dies(w) ==
  /\ MayDie
  /\ work[w].pc \notin {"new", "done"}
  /\ Respond(w)
  /\ torn' = (torn \/ Publishing(w))
  /\ UNCHANGED <<rate, verdicts, flagged, zips, index, sig, catalog, clock, reviewed>>

-----------------------------------------------------------------------------
(* GET: the bucket's own domain, and the mirror in the Worker *)

\* The bucket key that host h answers /v1/<rel> with.  The mirror cuts off
\* "/v1/" (slice(4)), the domain does not.
Key(h, rel) == IF h = "mirror" THEN rel ELSE <<"v1">> \o rel

IndexKey    == <<"v1", "index.json">>
SigKey      == <<"v1", "index.json.sig">>
ArtifactKey == <<"tools", "tool.zip">>

-----------------------------------------------------------------------------
MStep(w) ==
  \/ \E o \in Offers : Submit(w, o)
  \/ Count(w) \/ Lookup(w) \/ Review(w) \/ CacheVerdict(w)
  \/ QueueForHuman(w) \/ PutArtifact(w) \/ Merge(w)
  \/ PutIndex(w) \/ PutSig(w) \/ PutCatalog(w)
  \/ Dies(w)

MNext == \E w \in Works : MStep(w)

-----------------------------------------------------------------------------
(* Properties *)

VersionRow == [id : Ids, version : Versions, body : Bodies, verified : BOOLEAN]

IndexDoc == [at : Nat, versions : SUBSET VersionRow, latest : [Ids -> Versions \cup {Nothing}]]

ASSUME NothingAssumption == Nothing \notin IndexDoc

\* Where a request still holds its submission.
Submitted ==
  {"count", "lookup", "review", "remember", "queue", "artifact", "merge", "index"}

WorkState ==
  [pc : Submitted \cup {"new", "sig", "catalog", "done"}, offer : Offers \cup {Nothing},
   seen : Nat, decision : Decisions \cup {"none"}, base : IndexDoc, doc : IndexDoc]

\* Every variable of the Worker has its type.
MTypeOK ==
  /\ rate \in [Authors -> Nat]
  /\ verdicts \in [Bodies -> Decisions \cup {"none"}]
  /\ flagged \subseteq Ids \X Versions
  /\ zips \in [Ids \X Versions -> Bodies \cup {Nothing}]
  /\ index = Nothing \/ index \in IndexDoc
  /\ sig = Nothing \/ sig \in IndexDoc
  /\ catalog = Nothing \/ catalog \subseteq VersionRow
  /\ work \in [Works -> WorkState]
  /\ \A w \in Works : work[w].pc \in Submitted => work[w].offer \in Offers
  /\ clock \in Nat /\ torn \in BOOLEAN

\* A review that answered this for this body.
Earned(body, verified) ==
  \E r \in reviewed : r.body = body /\ r.decision = IF verified THEN "pass" ELSE "flag"

\* "Rejected submissions are never published", and the badge is that of the
\* content it stands next to: whatever is cached, resubmitted or overtaken,
\* an index entry was passed (or flagged) by a review of its own body.
BadgeIsEarned ==
  index # Nothing => \A v \in index.versions : Earned(v.body, v.verified)

\* "Flagged ones publish as unverified" and wait for a human: no unverified
\* version is ever listed that no human is asked about.
UnverifiedIsQueued ==
  index # Nothing =>
    \A v \in index.versions : ~v.verified => <<v.id, v.version>> \in flagged

\* "Rate-limit BEFORE spending any AI budget": the day's reviews of an author
\* never exceed the day's count, however many submissions run at once.
BudgetIsCounted ==
  \A a \in Authors :
    Cardinality({r \in reviewed : r.author = a}) <= rate[a]

\* A publish that no other publish overlaps and that runs to its end leaves
\* index, signature and catalog in agreement, whatever went wrong before.
PublishRepairs ==
  index # Nothing /\ ~torn /\ (\A w \in Works : ~Publishing(w))
    => sig = index /\ catalog = Catalog(index)

Listed(ix) == IF ix = Nothing THEN {} ELSE {<<v.id, v.version>> : v \in ix.versions}

\* A version that is listed stays listed: an index loses one only to a
\* publish that had read the index before the version was put there.
PublishedStays ==
  [][Listed(index) \ Listed(index') = {}
       \/ \E w \in Works : At(w, "index") /\ ~At(w, "index")'
                           /\ Listed(index) # Listed(work[w].base)]_mvars

\* "The badge it shows can't drift from what the binary installs": with no
\* submission in progress, catalog.json shows what the index lists.
BadgeNeverDrifts ==
  (\A w \in Works : work[w].pc \in {"new", "done"}) /\ index # Nothing
    => catalog = Catalog(index)
=============================================================================
