------------------------------ MODULE Registry ------------------------------
(***************************************************************************)
(* Installing, granting and running tools: internal/registry, the Run of   *)
(* internal/runtime and the two planes of internal/server.                 *)
(*                                                                         *)
(* Procs are the requests in flight (one goroutine each, net/http).  The   *)
(* tables tools, grants and quota live in the encrypted store; every       *)
(* method of the store is one critical section of Store.mu, so a request   *)
(* that makes several calls has one action per call and the requests       *)
(* interleave between them.  A manifest is its own hash, since Hash is the *)
(* SHA-256 of the canonical bytes.                                         *)
(***************************************************************************)
EXTENDS Naturals

CONSTANTS
  Names,                 \* tool names
  Packages,              \* artifacts: [name, manifest, source, verified]
  Signed,                \* those whose signature verifies under a pinned key
  Grants,                \* what a human may approve: [ns, quota]
  Procs,                 \* requests in flight
  NoTool, NoGrant        \* absent rows

Manifests  == {p.manifest : p \in Packages}
Sources    == {p.source : p \in Packages}
Namespaces == {g.ns : g \in Grants}

ASSUME RegistryAssumption ==
  /\ \A p \in Packages : p.name \in Names /\ p.verified \in BOOLEAN
  /\ Signed \subseteq Packages
  /\ \A g \in Grants : g.quota \in Nat

VARIABLES
  tools,                 \* table tools: the installed row of each name
  grants,                \* table grants: [grant, manifest] of each name
  quota,                 \* table quota: limit of each namespace, 0 if none
  req,                   \* each request: where it is, its locals
  approved,              \* history: the approvals that stand: what a human
                         \* approved, with the manifest they had in front of
                         \* them, and nobody has removed since
  stray                  \* history: names whose row of grants no approval
                         \* covered when it was stored or left behind

vars == <<tools, grants, quota, req, approved, stray>>

\* tool is what Run's Get returned, seen the manifest that the Get inside
\* Grant returned, grant what it checked; shown is history: the manifest
\* that was installed when the human sent the approval.
NoRequest ==
  [pc |-> "idle", name |-> NoTool, plane |-> "none", tool |-> NoTool,
   seen |-> NoTool, grant |-> NoGrant, shown |-> NoTool]

Init ==
  /\ tools = [n \in Names |-> NoTool]
  /\ grants = [n \in Names |-> NoGrant]
  /\ quota = [s \in Namespaces |-> 0]
  /\ req = [t \in Procs |-> NoRequest]
  /\ approved = {}
  /\ stray = {}

Installed(n) == tools[n] # NoTool

\* The request has its answer, a result or an error.
Respond(t) == req' = [req EXCEPT ![t] = NoRequest]

At(t, pc) == req[t].pc = pc

Approval(n, g, m) == [name |-> n, grant |-> g, manifest |-> m]

-----------------------------------------------------------------------------
(* Installing and removing: one call of the store each *)

RowSwapped(p, c, v) ==
  [class |-> c, manifest |-> p.source, source |-> p.manifest, verified |-> v]
Row(p, c, v) == [class |-> c, manifest |-> p.manifest, source |-> p.source, verified |-> v]

\* InstallDev: unsigned, replaces whatever has the name; PutTool leaves the
\* grant of that name alone.
InstallDev(p) ==
  /\ tools' = [tools EXCEPT ![p.name] = Row(p, "dev", FALSE)]
  /\ UNCHANGED <<grants, quota, req, approved, stray>>

\* verify: the signature over name, version and source, under a pinned key.
VerifiesAnything(p) == TRUE
Verifies(p) == p \in Signed

InstallMarketplace(p) ==
  /\ Verifies(p)
  /\ tools' = [tools EXCEPT ![p.name] = Row(p, "marketplace", p.verified)]
  /\ UNCHANGED <<grants, quota, req, approved, stray>>

\* To remove a tool is to withdraw what was approved for its name.
Withdrawn(n) == {a \in approved : a.name # n}

RemoveForgetsGrant(n) ==
  /\ tools' = [tools EXCEPT ![n] = NoTool]
  /\ approved' = Withdrawn(n)
  /\ stray' = stray \ {n}
  /\ UNCHANGED <<grants, quota, req>>

\* Remove: the tool and its grant, in one critical section.
Remove(n) ==
  /\ tools' = [tools EXCEPT ![n] = NoTool]
  /\ grants' = [grants EXCEPT ![n] = NoGrant]
  /\ approved' = Withdrawn(n)
  /\ stray' = stray \ {n}
  /\ UNCHANGED <<quota, req>>

\* Its second DELETE fails: the tool is gone, its grant is not.
RemoveFails(n) ==
  /\ Installed(n)
  /\ tools' = [tools EXCEPT ![n] = NoTool]
  /\ approved' = Withdrawn(n)
  /\ stray' = IF grants[n] = NoGrant THEN stray ELSE stray \cup {n}
  /\ UNCHANGED <<grants, quota, req>>

-----------------------------------------------------------------------------
(* ctrlGrant, SetGrant: read the tool, then store the grant *)

\* A human approves g, with the installed manifest in front of them.
AskGrant(t, n, g) ==
  /\ At(t, "idle")
  /\ Installed(n)
  /\ req' = [req EXCEPT ![t] = [NoRequest EXCEPT !.pc = "grantRead", !.name = n,
                                  !.grant = g, !.shown = tools[n].manifest]]
  /\ approved' = approved \cup {Approval(n, g, tools[n].manifest)}
  /\ UNCHANGED <<tools, grants, quota, stray>>

\* SetGrant's Get: the grant will carry the hash of the manifest found now.
GrantRead(t) ==
  LET n == req[t].name IN
  /\ At(t, "grantRead")
  /\ IF Installed(n)
     THEN req' = [req EXCEPT ![t] = [@ EXCEPT !.pc = "grantWrite", !.seen = tools[n].manifest]]
     ELSE Respond(t)
  /\ UNCHANGED <<tools, grants, quota, approved, stray>>

\* PutGrant, whatever has happened to the tool meanwhile.
GrantWrite(t) ==
  LET r == req[t] IN
  /\ At(t, "grantWrite")
  /\ grants' = [grants EXCEPT ![r.name] = [grant |-> r.grant, manifest |-> r.seen]]
  /\ stray' = IF Approval(r.name, r.grant, r.seen) \in approved
              THEN stray \ {r.name}
              ELSE stray \cup {r.name}
  /\ Respond(t)
  /\ UNCHANGED <<tools, quota, approved>>

-----------------------------------------------------------------------------
(* useRun, ctrlDevRun and Runtime.Run *)

\* A run request: the USE plane looks at the class first, the CONTROL plane
\* does not.
AskRun(t, n, plane) ==
  /\ At(t, "idle")
  /\ req' = [req EXCEPT ![t] = [NoRequest EXCEPT !.name = n, !.plane = plane,
                                  !.pc = IF plane = "use" THEN "class" ELSE "load"]]
  /\ UNCHANGED <<tools, grants, quota, approved, stray>>

\* useRun: not_found unless a marketplace tool has the name.
Usable(n) == Installed(n) /\ tools[n].class = "marketplace"

CheckClass(t) ==
  /\ At(t, "class")
  /\ IF Usable(req[t].name)
     THEN req' = [req EXCEPT ![t].pc = "load"]
     ELSE Respond(t)
  /\ UNCHANGED <<tools, grants, quota, approved, stray>>

\* Run's Get: the source that will run.
Load(t) ==
  LET n == req[t].name IN
  /\ At(t, "load")
  /\ IF Installed(n)
     THEN req' = [req EXCEPT ![t] = [@ EXCEPT !.pc = "grantTool", !.tool = tools[n]]]
     ELSE Respond(t)
  /\ UNCHANGED <<tools, grants, quota, approved, stray>>

\* Registry.Grant, its Get ...
GrantTool(t) ==
  LET n == req[t].name IN
  /\ At(t, "grantTool")
  /\ IF Installed(n)
     THEN req' = [req EXCEPT ![t] = [@ EXCEPT !.pc = "grantCheck", !.seen = tools[n].manifest]]
     ELSE Respond(t)
  /\ UNCHANGED <<tools, grants, quota, approved, stray>>

\* ... and its GetGrant: a grant for another manifest is no grant.
GrantedForAny(n, m) == grants[n] # NoGrant
Granted(n, m) == grants[n] # NoGrant /\ grants[n].manifest = m

GrantCheck(t) ==
  LET n == req[t].name IN
  /\ At(t, "grantCheck")
  /\ IF Granted(n, req[t].seen)
     THEN req' = [req EXCEPT ![t] = [@ EXCEPT !.pc = "quota", !.grant = grants[n].grant]]
     ELSE Respond(t)
  /\ UNCHANGED <<tools, grants, quota, approved, stray>>

\* The granted storage quota, if there is one, before the tool runs.
WithQuotaSkipped(g) == quota
WithQuota(g) == IF g.quota > 0 THEN [quota EXCEPT ![g.ns] = g.quota] ELSE quota

ApplyQuota(t) ==
  /\ At(t, "quota")
  /\ quota' = WithQuota(req[t].grant)
  /\ req' = [req EXCEPT ![t].pc = "run"]
  /\ UNCHANGED <<tools, grants, approved, stray>>

\* The sandbox has run the loaded source under the grant.
RunEnds(t) ==
  /\ At(t, "run")
  /\ Respond(t)
  /\ UNCHANGED <<tools, grants, quota, approved, stray>>

-----------------------------------------------------------------------------
GrantStep(t) == GrantRead(t) \/ GrantWrite(t)

RunStep(t) ==
  CheckClass(t) \/ Load(t) \/ GrantTool(t) \/ GrantCheck(t) \/ ApplyQuota(t) \/ RunEnds(t)

Next ==
  \/ \E p \in Packages : InstallDev(p) \/ InstallMarketplace(p)
  \/ \E n \in Names : Remove(n) \/ RemoveFails(n)
  \/ \E t \in Procs, n \in Names, g \in Grants : AskGrant(t, n, g)
  \/ \E t \in Procs, n \in Names, plane \in {"use", "control"} : AskRun(t, n, plane)
  \/ \E t \in Procs : GrantStep(t) \/ RunStep(t)

Spec == Init /\ [][Next]_vars

-----------------------------------------------------------------------------
(* Properties *)

ToolRow ==
  [class : {"dev", "marketplace"}, manifest : Manifests, source : Sources, verified : BOOLEAN]

Request ==
  [pc : {"idle", "grantRead", "grantWrite", "class", "load", "grantTool", "grantCheck",
         "quota", "run"},
   name : Names \cup {NoTool}, plane : {"none", "use", "control"},
   tool : ToolRow \cup {NoTool}, seen : Manifests \cup {NoTool},
   grant : Grants \cup {NoGrant}, shown : Manifests \cup {NoTool}]

Approvals == [name : Names, grant : Grants, manifest : Manifests]

\* Every variable has its type, and a request knows what its next call needs.
TypeOK ==
  /\ tools \in [Names -> ToolRow \cup {NoTool}]
  /\ grants \in [Names -> [grant : Grants, manifest : Manifests] \cup {NoGrant}]
  /\ quota \in [Namespaces -> Nat]
  /\ req \in [Procs -> Request]
  /\ approved \subseteq Approvals /\ stray \subseteq Names
  /\ \A t \in Procs :
       /\ req[t].pc # "idle" => req[t].name \in Names
       /\ req[t].pc \in {"grantRead", "grantWrite", "quota", "run"} => req[t].grant \in Grants
       /\ req[t].pc \in {"grantWrite", "grantCheck", "quota", "run"} => req[t].seen \in Manifests

Running(t) == At(t, "run")

\* "A tool can never silently escalate its capabilities": whatever is
\* installed, edited, removed and approved meanwhile, Run's check lets a tool
\* pass only with capabilities that a human approved for its name while the
\* manifest it is checked against was in front of them, and that nobody has
\* removed since.  A name's row may be a stray one in three cases only:
\* SetGrant found another manifest than the human had seen; the row was
\* stored after the tool had been removed; the removal's second DELETE
\* failed.
RunsAreApproved ==
  [][\A t \in Procs : At(t, "grantCheck") /\ At(t, "quota")' =>
       \/ Approval(req[t].name, req'[t].grant, req[t].seen) \in approved
       \/ req[t].name \in stray]_vars

SignedRow(n, row) ==
  row.class = "marketplace" =>
    \E p \in Signed : p.name = n /\ row = Row(p, "marketplace", p.verified)

\* Only signed code carries the marketplace class, in the table and in a run
\* that was loaded from it.
MarketplaceIsSigned ==
  /\ \A n \in Names : Installed(n) => SignedRow(n, tools[n])
  /\ \A t \in Procs : req[t].tool # NoTool => SignedRow(req[t].name, req[t].tool)

\* A tool whose grant names a quota never runs without one, whoever else uses
\* the namespace: its limit is then the quota of a grant for that namespace.
RunsAreLimited ==
  \A t \in Procs : Running(t) /\ req[t].grant.quota > 0 =>
    \E g \in Grants : /\ g.ns = req[t].grant.ns /\ g.quota > 0
                      /\ quota[g.ns] = g.quota

\* "Dev tools aren't runnable on the USE plane."
UsePlaneRunsMarketplaceOnly ==
  \A t \in Procs : Running(t) /\ req[t].plane = "use" => req[t].tool.class = "marketplace"

\* A grant is "bound to the manifest hash it was approved against".
GrantMatchesApproval ==
  \A t \in Procs : At(t, "grantWrite") => req[t].seen = req[t].shown
=============================================================================
