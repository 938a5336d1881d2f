---------------------------- MODULE MarketClient ----------------------------
(***************************************************************************)
(* The marketplace and one Foundry that installs from it: registry.Client  *)
(* with the requests of the control plane that use it, next to the Worker  *)
(* that may be publishing meanwhile.                                       *)
(*                                                                         *)
(* Gets are the refresh and install requests (ctrlMarketRefresh and        *)
(* ctrlInstall); they share one Client, whose idx has no lock, and run     *)
(* concurrently.  Each GET is a step, and so is each use of idx.           *)
(***************************************************************************)
EXTENDS Marketplace

CONSTANTS
  Gets,                  \* control-plane requests
  Wanted,                \* versions asked for; Nothing is the latest
  Hosts                  \* what may answer the client: "domain", "mirror"

ASSUME WantAssumption == \A i \in Ids, v \in Wanted : Nothing # <<i, v>>

VARIABLES
  idx,                   \* Client.idx, the verified catalog
  get,                   \* each request: where it is, its locals
  rows                   \* what is installed under each name

\* The manifest's name, which an id has after its author: the key of a row.
Names == {b.name : b \in Bodies}

cvars == <<idx, get, rows>>
vars  == <<mvars, cvars>>

\* seen is idx as the freshness test read it, ver the entry that find
\* returned; a refresh wants Nothing.
NoGet ==
  [pc |-> "idle", want |-> Nothing, raw |-> Nothing, seen |-> Nothing,
   ver |-> Nothing, zip |-> Nothing]

Init ==
  /\ MInit
  /\ idx = Nothing
  /\ get = [r \in Gets |-> NoGet]
  /\ rows = [n \in Names |-> Nothing]

GetAt(r, pc) == get[r].pc = pc
Answer(r) == get' = [get EXCEPT ![r] = NoGet]

\* GET base/v1/rel finds the object that the bucket has under that key.
FoundMissing(rel, key, object) == \E h \in Hosts : Key(h, rel) = key
Found(rel, key, object) ==
  object # Nothing /\ \E h \in Hosts : Key(h, rel) = key

-----------------------------------------------------------------------------
(* EnsureIndex *)

Refresh(r) ==
  /\ GetAt(r, "idle")
  /\ get' = [get EXCEPT ![r].pc = "index"]
  /\ UNCHANGED <<mvars, idx, rows>>

\* Install asks for the index only when there is none; version "" is Nothing.
Install(r, i, v) ==
  /\ GetAt(r, "idle")
  /\ get' = [get EXCEPT ![r] = [@ EXCEPT !.want = <<i, v>>,
                                        !.pc = IF idx = Nothing THEN "index" ELSE "find"]]
  /\ UNCHANGED <<mvars, idx, rows>>

GetIndex(r) ==
  /\ GetAt(r, "index")
  /\ Found(<<"index.json">>, IndexKey, index)
  /\ get' = [get EXCEPT ![r] = [@ EXCEPT !.pc = "sig", !.raw = index]]
  /\ UNCHANGED <<mvars, idx, rows>>

VerifiesIndex(raw) == sig = raw

\* The detached signature, fetched after the index it is to match.
GetSig(r) ==
  /\ GetAt(r, "sig")
  /\ Found(<<"index.json.sig">>, SigKey, sig)
  /\ IF VerifiesIndex(get[r].raw)
     THEN get' = [get EXCEPT ![r].pc = "fresh"]
     ELSE Answer(r)
  /\ UNCHANGED <<mvars, idx, rows>>

OlderNeverChecked(raw) == FALSE
Older(raw) == idx # Nothing /\ raw.at < idx.at

CheckFresh(r) ==
  /\ GetAt(r, "fresh")
  /\ IF Older(get[r].raw)
     THEN Answer(r)
     ELSE get' = [get EXCEPT ![r] = [@ EXCEPT !.pc = "cache", !.seen = idx]]
  /\ UNCHANGED <<mvars, idx, rows>>

CacheIndex(r) ==
  /\ GetAt(r, "cache")
  /\ idx' = get[r].raw
  /\ IF get[r].want = Nothing
     THEN Answer(r)
     ELSE get' = [get EXCEPT ![r] = [NoGet EXCEPT !.pc = "find", !.want = get[r].want]]
  /\ UNCHANGED <<mvars, rows>>

-----------------------------------------------------------------------------
(* Install *)

\* find: the wanted version, or the latest.
Matches(ix, want) ==
  LET version == IF want[2] = Nothing THEN ix.latest[want[1]] ELSE want[2]
  IN  {v \in ix.versions : v.id = want[1] /\ v.version = version}

Find(r) ==
  /\ GetAt(r, "find")
  /\ IF Matches(idx, get[r].want) = {}
     THEN Answer(r)
     ELSE \E v \in Matches(idx, get[r].want) :
            get' = [get EXCEPT ![r] = [NoGet EXCEPT !.pc = "zip", !.ver = v]]
  /\ UNCHANGED <<mvars, idx, rows>>

\* zipSHA256 against the index entry.
HashUnchecked(zip, ver) == TRUE
HashMatches(zip, ver) == zip = ver.body

GetZip(r) ==
  LET ver == get[r].ver
      zip == zips[<<ver.id, ver.version>>]
  IN
  /\ GetAt(r, "zip")
  /\ Found(<<"tools", "tool.zip">>, ArtifactKey, zip)
  /\ IF HashMatches(zip, ver)
     THEN get' = [get EXCEPT ![r] = [@ EXCEPT !.pc = "install", !.zip = zip]]
     ELSE Answer(r)
  /\ UNCHANGED <<mvars, idx, rows>>

\* InstallMarketplace: the entry's signature is over name, version and source
\* (the rest of the manifest is bound by the hash alone), then PutTool, under
\* the name in the manifest.
InstallTool(r) ==
  LET ver == get[r].ver
      zip == get[r].zip
  IN
  /\ GetAt(r, "install")
  /\ rows' = IF zip.name = ver.body.name /\ zip.source = ver.body.source
             THEN [rows EXCEPT ![zip.name] = [body |-> zip, verified |-> ver.verified]]
             ELSE rows
  /\ Answer(r)
  /\ UNCHANGED <<mvars, idx>>

\* A GET fails: no route, a status other than 200, a timeout.
GetFails(r) ==
  /\ get[r].pc \in {"index", "sig", "zip"}
  /\ Answer(r)
  /\ UNCHANGED <<mvars, idx, rows>>

-----------------------------------------------------------------------------
ClientStep(r) ==
  \/ Refresh(r)
  \/ \E i \in Ids, v \in Wanted : Install(r, i, v)
  \/ GetIndex(r) \/ GetSig(r) \/ CheckFresh(r) \/ CacheIndex(r)
  \/ Find(r) \/ GetZip(r) \/ InstallTool(r) \/ GetFails(r)

Next ==
  \/ MNext /\ UNCHANGED cvars
  \/ \E r \in Gets : ClientStep(r)

Spec == Init /\ [][Next]_vars

-----------------------------------------------------------------------------
(* Properties *)

GetState ==
  [pc : {"idle", "index", "sig", "fresh", "cache", "find", "zip", "install"},
   want : (Ids \X Wanted) \cup {Nothing}, raw : IndexDoc \cup {Nothing},
   seen : IndexDoc \cup {Nothing}, ver : VersionRow \cup {Nothing}, zip : Bodies \cup {Nothing}]

\* Every variable has its type, and a request has what its next step uses.
TypeOK ==
  /\ MTypeOK
  /\ idx \in IndexDoc \cup {Nothing}
  /\ get \in [Gets -> GetState]
  /\ \A r \in Gets :
       /\ get[r].pc \in {"sig", "fresh", "cache"} => get[r].raw # Nothing
       /\ get[r].pc = "find" => idx # Nothing /\ get[r].want # Nothing
       /\ get[r].pc \in {"zip", "install"} => get[r].ver \in VersionRow
       /\ get[r].pc = "install" => get[r].zip \in Bodies
  /\ rows \in [Names -> [body : Bodies, verified : BOOLEAN] \cup {Nothing}]

\* "Even the verified catalog can't smuggle in code": however stale the
\* cached index is and whatever is being published, the manifest and source
\* that are installed passed a review together, and the badge is their own.
InstalledIsReviewed ==
  \A n \in Names : rows[n] # Nothing => Earned(rows[n].body, rows[n].verified)

\* "A fetched index older than the one already cached is rejected": the
\* cached catalog never goes back in time, except between two refreshes that
\* overlap, where the one that tested first may store last.
NoRollback ==
  [][idx # Nothing /\ idx' # idx
       => idx'.at >= idx.at
          \/ \E r \in Gets : GetAt(r, "cache") /\ ~GetAt(r, "cache")' /\ get[r].seen # idx]_vars
=============================================================================
