--------------------------- MODULE RegistryProofs ---------------------------
(***************************************************************************)
(* What holds of every set of tools, grants and requests.  One inductive   *)
(* invariant: every row of grants is an approval that stands or is known   *)
(* to be stray, marketplace rows are signed, and a run whose grant has a   *)
(* quota finds one in force.                                               *)
(***************************************************************************)
EXTENDS Registry, TLAPS

\* A stored grant is an approval that stands, unless its row is stray.
RowsAreCovered ==
  \A n \in Names : grants[n] # NoGrant =>
    \/ Approval(n, grants[n].grant, grants[n].manifest) \in approved
    \/ n \in stray

RInv ==
  /\ TypeOK
  /\ RowsAreCovered
  /\ MarketplaceIsSigned
  /\ RunsAreLimited

LEMMA InitRInv == Init => RInv
<1> SUFFICES ASSUME Init PROVE RInv
  OBVIOUS
<1>1. TypeOK
  BY DEF Init, TypeOK, NoRequest, Request
<1>2. RowsAreCovered
  BY DEF Init, RowsAreCovered
<1>3. MarketplaceIsSigned /\ RunsAreLimited
  BY DEF Init, MarketplaceIsSigned, RunsAreLimited, Running, At, Installed, NoRequest
<1> QED
  BY <1>1, <1>2, <1>3 DEF RInv

LEMMA InstallDevRInv ==
  ASSUME RInv, NEW p \in Packages, InstallDev(p)
  PROVE  RInv'
<1>1. TypeOK'
  BY RegistryAssumption DEF RInv, TypeOK, ToolRow, Request, Approvals, Manifests, Sources, Namespaces, InstallDev, Row
<1>2. RowsAreCovered'
  BY DEF RInv, RowsAreCovered, InstallDev
<1>3. MarketplaceIsSigned'
  <2>1. \A k \in Names : tools'[k] = IF k = p.name THEN Row(p, "dev", FALSE) ELSE tools[k]
    BY DEF RInv, TypeOK, InstallDev
  <2>2. Row(p, "dev", FALSE).class = "dev"
    BY DEF Row
  <2>3. SignedRow(p.name, Row(p, "dev", FALSE))
    BY <2>2 DEF SignedRow
  <2>4. ASSUME NEW k \in Names, tools'[k] # NoTool PROVE SignedRow(k, tools'[k])
    BY <2>1, <2>3, <2>4 DEF RInv, MarketplaceIsSigned, Installed
  <2>5. UNCHANGED req
    BY DEF InstallDev
  <2> QED
    BY <2>4, <2>5 DEF RInv, MarketplaceIsSigned, SignedRow, Installed
<1>4. RunsAreLimited'
  BY RegistryAssumption DEF RInv, TypeOK, Request, Namespaces, RunsAreLimited, Running, At, InstallDev, Row
<1> QED
  BY <1>1, <1>2, <1>3, <1>4 DEF RInv

LEMMA InstallMarketplaceRInv ==
  ASSUME RInv, NEW p \in Packages, InstallMarketplace(p)
  PROVE  RInv'
<1>1. TypeOK'
  BY RegistryAssumption DEF RInv, TypeOK, ToolRow, Request, Approvals, Manifests, Sources, Namespaces, InstallMarketplace, Row, Verifies
<1>2. RowsAreCovered'
  BY DEF RInv, RowsAreCovered, InstallMarketplace
<1>3. MarketplaceIsSigned'
  <2>1. \A k \in Names :
          tools'[k] = IF k = p.name THEN Row(p, "marketplace", p.verified) ELSE tools[k]
    BY DEF RInv, TypeOK, InstallMarketplace
  <2>2. SignedRow(p.name, Row(p, "marketplace", p.verified))
    BY DEF SignedRow, InstallMarketplace, Verifies
  <2> QED
    BY <2>1, <2>2 DEF RInv, MarketplaceIsSigned, SignedRow, Installed, InstallMarketplace
<1>4. RunsAreLimited'
  BY RegistryAssumption DEF RInv, TypeOK, Request, Namespaces, RunsAreLimited, Running, At, InstallMarketplace, Row, Verifies
<1> QED
  BY <1>1, <1>2, <1>3, <1>4 DEF RInv

LEMMA RemoveRInv ==
  ASSUME RInv, NEW n \in Names, Remove(n) \/ RemoveFails(n)
  PROVE  RInv'
<1>1. TypeOK'
  BY RegistryAssumption DEF RInv, TypeOK, ToolRow, Request, Approvals, Manifests, Sources, Namespaces,
     Remove, RemoveFails, Withdrawn
<1>2. RowsAreCovered'
  <2>1. \A k \in Names : k # n => grants'[k] = grants[k]
    BY DEF RInv, TypeOK, Remove, RemoveFails
  <2>2. \A k \in Names : \A g, m :
         k # n /\ Approval(k, g, m) \in approved => Approval(k, g, m) \in approved'
    BY DEF Remove, RemoveFails, Withdrawn, Approval
  <2>3. \A k \in Names : k # n /\ k \in stray => k \in stray'
    BY DEF Remove, RemoveFails
  <2>4. grants'[n] = NoGrant \/ n \in stray'
    BY DEF RInv, TypeOK, Remove, RemoveFails
  <2> QED
    BY <2>1, <2>2, <2>3, <2>4 DEF RInv, RowsAreCovered
<1>3. MarketplaceIsSigned'
  <2>1. \A k \in Names : tools'[k] = IF k = n THEN NoTool ELSE tools[k]
    BY DEF RInv, TypeOK, Remove, RemoveFails
  <2> QED
    BY <2>1 DEF RInv, MarketplaceIsSigned, Installed, SignedRow, Remove, RemoveFails
<1>4. RunsAreLimited'
  BY RegistryAssumption DEF RInv, TypeOK, Request, Namespaces, RunsAreLimited, Running, At,
     Remove, RemoveFails
<1> QED
  BY <1>1, <1>2, <1>3, <1>4 DEF RInv

\* A step of one request that does not start to run, stores nothing and
\* withdraws nothing keeps the invariant if what the request holds is sound.
LEMMA RequestMoves ==
  ASSUME RInv, NEW t \in Procs, NEW r \in Request,
         req' = [req EXCEPT ![t] = r],
         UNCHANGED <<tools, grants, quota, stray>>,
         approved \subseteq approved', approved' \subseteq Approvals,
         r.pc # "run",
         r.pc # "idle" => r.name \in Names,
         r.pc \in {"grantRead", "grantWrite", "quota"} => r.grant \in Grants,
         r.pc \in {"grantWrite", "grantCheck", "quota"} => r.seen \in Manifests,
         r.tool # NoTool => SignedRow(r.name, r.tool)
  PROVE  RInv'
<1>1. \A u \in Procs : req'[u] = IF u = t THEN r ELSE req[u]
  BY DEF RInv, TypeOK
<1>2. TypeOK'
  <2>1. req' \in [Procs -> Request]
    BY DEF RInv, TypeOK
  <2> QED
    BY <1>1, <2>1 DEF RInv, TypeOK
<1>3. RowsAreCovered'
  BY DEF RInv, RowsAreCovered
<1>4. MarketplaceIsSigned'
  BY <1>1 DEF RInv, MarketplaceIsSigned, Installed, SignedRow
<1>5. RunsAreLimited'
  BY <1>1 DEF RInv, RunsAreLimited, Running, At
<1> QED
  BY <1>2, <1>3, <1>4, <1>5 DEF RInv

\* Answering a request.
LEMMA RespondRInv ==
  ASSUME RInv, NEW t \in Procs, Respond(t), UNCHANGED <<tools, grants, quota, approved, stray>>
  PROVE  RInv'
<1>1. NoRequest \in Request
  BY DEF NoRequest, Request
<1>2. NoRequest.pc = "idle" /\ NoRequest.tool = NoTool
  BY DEF NoRequest
<1>3. approved \subseteq Approvals
  BY DEF RInv, TypeOK
<1> QED
  BY <1>1, <1>2, <1>3, RequestMoves DEF Respond

\* The installed row of a name is typed, and signed if it is a marketplace tool.
LEMMA InstalledRow ==
  ASSUME RInv, NEW n \in Names, Installed(n)
  PROVE  tools[n] \in ToolRow /\ tools[n].manifest \in Manifests /\ SignedRow(n, tools[n])
  BY DEF RInv, TypeOK, ToolRow, Installed, MarketplaceIsSigned

LEMMA AskGrantRInv ==
  ASSUME RInv, NEW t \in Procs, NEW n \in Names, NEW g \in Grants, AskGrant(t, n, g)
  PROVE  RInv'
<1> DEFINE r == [NoRequest EXCEPT !.pc = "grantRead", !.name = n, !.grant = g,
                                  !.shown = tools[n].manifest]
<1>1. tools[n].manifest \in Manifests
  BY InstalledRow DEF AskGrant
<1>2. r \in Request
  BY <1>1 DEF NoRequest, Request
<1>3. r.pc = "grantRead" /\ r.name = n /\ r.grant = g /\ r.tool = NoTool
  BY DEF NoRequest
<1>4. req' = [req EXCEPT ![t] = r] /\ UNCHANGED <<tools, grants, quota, stray>>
  BY DEF AskGrant
<1>5. approved \subseteq approved' /\ approved' \subseteq Approvals
  BY <1>1 DEF AskGrant, Approval, Approvals, RInv, TypeOK
<1> HIDE DEF r
<1> QED
  BY <1>2, <1>3, <1>4, <1>5, RequestMoves

LEMMA GrantReadRInv ==
  ASSUME RInv, NEW t \in Procs, GrantRead(t)
  PROVE  RInv'
<1> DEFINE n == req[t].name
           r == [req[t] EXCEPT !.pc = "grantWrite", !.seen = tools[n].manifest]
<1>1. /\ req[t] \in Request /\ n \in Names /\ req[t].pc = "grantRead"
      /\ req[t].tool # NoTool => SignedRow(n, req[t].tool)
      /\ UNCHANGED <<tools, grants, quota, approved, stray>> /\ approved \subseteq Approvals
  BY DEF RInv, TypeOK, MarketplaceIsSigned, GrantRead, At
<1>2. CASE ~(Installed(n))
  BY <1>1, <1>2, RespondRInv DEF GrantRead
<1>3. CASE Installed(n)
  <2>1. tools[n] \in ToolRow /\ tools[n].manifest \in Manifests /\ SignedRow(n, tools[n])
    BY <1>1, <1>3, InstalledRow
  <2>5. req[t].grant \in Grants
    BY <1>1 DEF RInv, TypeOK
  <2>2. r \in Request
    BY <1>1, <2>1 DEF Request
  <2>3. req' = [req EXCEPT ![t] = r]
    BY <1>1, <1>3 DEF RInv, TypeOK, GrantRead
  <2>4. r.name = n /\ r.tool = req[t].tool /\ r.pc = "grantWrite" /\ r.grant = req[t].grant
        /\ r.seen = tools[n].manifest
    BY <1>1, <2>1 DEF Request
  <2> HIDE DEF r
  <2> QED
    BY <1>1, <2>2, <2>3, <2>4, <2>1, <2>5, RequestMoves
<1> QED
  BY <1>2, <1>3

LEMMA GrantWriteRInv ==
  ASSUME RInv, NEW t \in Procs, GrantWrite(t)
  PROVE  RInv'
<1> DEFINE n == req[t].name
<1>1. /\ n \in Names /\ req[t].grant \in Grants /\ req[t].seen \in Manifests
      /\ UNCHANGED <<tools, quota, approved>>
      /\ grants' = [grants EXCEPT ![n] = [grant |-> req[t].grant, manifest |-> req[t].seen]]
  BY DEF RInv, TypeOK, GrantWrite, At
<1>2. \A u \in Procs : req'[u] = IF u = t THEN NoRequest ELSE req[u]
  BY DEF RInv, TypeOK, GrantWrite, Respond
<1>3. TypeOK'
  <2>1. NoRequest \in Request
    BY DEF NoRequest, Request
  <2>2. req' \in [Procs -> Request]
    BY <2>1 DEF RInv, TypeOK, GrantWrite, Respond
  <2>3. grants' \in [Names -> [grant : Grants, manifest : Manifests] \cup {NoGrant}]
    BY <1>1 DEF RInv, TypeOK
  <2>4. stray' \subseteq Names
    BY <1>1 DEF RInv, TypeOK, GrantWrite
  <2>5. NoRequest.pc = "idle"
    BY DEF NoRequest
  <2> QED
    BY <1>1, <1>2, <2>2, <2>3, <2>4, <2>5 DEF RInv, TypeOK
<1>4. RowsAreCovered'
  <2>1. \A k \in Names : k # n => grants'[k] = grants[k] /\ (k \in stray => k \in stray')
    BY <1>1 DEF RInv, TypeOK, GrantWrite
  <2>2. grants'[n].grant = req[t].grant /\ grants'[n].manifest = req[t].seen
    BY <1>1 DEF RInv, TypeOK
  <2>3. Approval(n, req[t].grant, req[t].seen) \in approved \/ n \in stray'
    BY <1>1 DEF GrantWrite
  <2> QED
    BY <1>1, <2>1, <2>2, <2>3 DEF RInv, RowsAreCovered
<1>5. MarketplaceIsSigned'
  BY <1>1, <1>2 DEF RInv, MarketplaceIsSigned, SignedRow, Installed, NoRequest
<1>6. RunsAreLimited'
  BY <1>1, <1>2 DEF RInv, RunsAreLimited, Running, At, NoRequest
<1> QED
  BY <1>3, <1>4, <1>5, <1>6 DEF RInv

LEMMA AskRunRInv ==
  ASSUME RInv, NEW t \in Procs, NEW n \in Names, NEW plane \in {"use", "control"},
         AskRun(t, n, plane)
  PROVE  RInv'
<1> DEFINE r == [NoRequest EXCEPT !.name = n, !.plane = plane,
                                  !.pc = IF plane = "use" THEN "class" ELSE "load"]
<1>1. r \in Request
  BY DEF NoRequest, Request
<1>2. r.pc \in {"class", "load"} /\ r.name = n /\ r.tool = NoTool
  BY DEF NoRequest
<1>3. req' = [req EXCEPT ![t] = r] /\ UNCHANGED <<tools, grants, quota, approved, stray>>
  BY DEF AskRun
<1>4. approved \subseteq Approvals
  BY DEF RInv, TypeOK
<1> HIDE DEF r
<1> QED
  BY <1>1, <1>2, <1>3, <1>4, RequestMoves

LEMMA CheckClassRInv ==
  ASSUME RInv, NEW t \in Procs, CheckClass(t)
  PROVE  RInv'
<1> DEFINE n == req[t].name
           r == [req[t] EXCEPT !.pc = "load"]
<1>1. /\ req[t] \in Request /\ n \in Names /\ req[t].pc = "class"
      /\ req[t].tool # NoTool => SignedRow(n, req[t].tool)
      /\ UNCHANGED <<tools, grants, quota, approved, stray>> /\ approved \subseteq Approvals
  BY DEF RInv, TypeOK, MarketplaceIsSigned, CheckClass, At
<1>2. CASE ~(Usable(n))
  BY <1>1, <1>2, RespondRInv DEF CheckClass
<1>3. CASE Usable(n)
  <2>2. r \in Request
    BY <1>1 DEF Request
  <2>3. req' = [req EXCEPT ![t] = r]
    BY <1>1, <1>3 DEF RInv, TypeOK, CheckClass
  <2>4. r.name = n /\ r.tool = req[t].tool /\ r.pc = "load"
    BY <1>1 DEF Request
  <2> HIDE DEF r
  <2> QED
    BY <1>1, <2>2, <2>3, <2>4, RequestMoves
<1> QED
  BY <1>2, <1>3

LEMMA LoadRInv ==
  ASSUME RInv, NEW t \in Procs, Load(t)
  PROVE  RInv'
<1> DEFINE n == req[t].name
           r == [req[t] EXCEPT !.pc = "grantTool", !.tool = tools[n]]
<1>1. /\ req[t] \in Request /\ n \in Names /\ req[t].pc = "load"
      /\ req[t].tool # NoTool => SignedRow(n, req[t].tool)
      /\ UNCHANGED <<tools, grants, quota, approved, stray>> /\ approved \subseteq Approvals
  BY DEF RInv, TypeOK, MarketplaceIsSigned, Load, At
<1>2. CASE ~(Installed(n))
  BY <1>1, <1>2, RespondRInv DEF Load
<1>3. CASE Installed(n)
  <2>1. tools[n] \in ToolRow /\ tools[n].manifest \in Manifests /\ SignedRow(n, tools[n])
    BY <1>1, <1>3, InstalledRow
  <2>2. r \in Request
    BY <1>1, <2>1 DEF Request
  <2>3. req' = [req EXCEPT ![t] = r]
    BY <1>1, <1>3 DEF RInv, TypeOK, Load
  <2>4. r.name = n /\ r.tool = tools[n] /\ r.pc = "grantTool"
    BY <1>1, <2>1 DEF Request
  <2> HIDE DEF r
  <2> QED
    BY <1>1, <2>2, <2>3, <2>4, <2>1, RequestMoves
<1> QED
  BY <1>2, <1>3

LEMMA GrantToolRInv ==
  ASSUME RInv, NEW t \in Procs, GrantTool(t)
  PROVE  RInv'
<1> DEFINE n == req[t].name
           r == [req[t] EXCEPT !.pc = "grantCheck", !.seen = tools[n].manifest]
<1>1. /\ req[t] \in Request /\ n \in Names /\ req[t].pc = "grantTool"
      /\ req[t].tool # NoTool => SignedRow(n, req[t].tool)
      /\ UNCHANGED <<tools, grants, quota, approved, stray>> /\ approved \subseteq Approvals
  BY DEF RInv, TypeOK, MarketplaceIsSigned, GrantTool, At
<1>2. CASE ~(Installed(n))
  BY <1>1, <1>2, RespondRInv DEF GrantTool
<1>3. CASE Installed(n)
  <2>1. tools[n] \in ToolRow /\ tools[n].manifest \in Manifests /\ SignedRow(n, tools[n])
    BY <1>1, <1>3, InstalledRow
  <2>2. r \in Request
    BY <1>1, <2>1 DEF Request
  <2>3. req' = [req EXCEPT ![t] = r]
    BY <1>1, <1>3 DEF RInv, TypeOK, GrantTool
  <2>4. r.name = n /\ r.tool = req[t].tool /\ r.pc = "grantCheck" /\ r.seen = tools[n].manifest
    BY <1>1, <2>1 DEF Request
  <2> HIDE DEF r
  <2> QED
    BY <1>1, <2>2, <2>3, <2>4, <2>1, RequestMoves
<1> QED
  BY <1>2, <1>3

LEMMA GrantCheckRInv ==
  ASSUME RInv, NEW t \in Procs, GrantCheck(t)
  PROVE  RInv'
<1> DEFINE n == req[t].name
           r == [req[t] EXCEPT !.pc = "quota", !.grant = grants[n].grant]
<1>1. /\ req[t] \in Request /\ n \in Names /\ req[t].pc = "grantCheck"
      /\ req[t].tool # NoTool => SignedRow(n, req[t].tool)
      /\ UNCHANGED <<tools, grants, quota, approved, stray>> /\ approved \subseteq Approvals
  BY DEF RInv, TypeOK, MarketplaceIsSigned, GrantCheck, At
<1>2. CASE ~(Granted(n, req[t].seen))
  BY <1>1, <1>2, RespondRInv DEF GrantCheck
<1>3. CASE Granted(n, req[t].seen)
  <2>1. grants[n].grant \in Grants /\ req[t].seen \in Manifests
    BY <1>1, <1>3 DEF RInv, TypeOK, Granted
  <2>2. r \in Request
    BY <1>1, <2>1 DEF Request
  <2>3. req' = [req EXCEPT ![t] = r]
    BY <1>1, <1>3 DEF RInv, TypeOK, GrantCheck
  <2>4. r.name = n /\ r.tool = req[t].tool /\ r.pc = "quota" /\ r.grant = grants[n].grant
        /\ r.seen = req[t].seen
    BY <1>1, <2>1 DEF Request
  <2> HIDE DEF r
  <2> QED
    BY <1>1, <2>2, <2>3, <2>4, <2>1, RequestMoves
<1> QED
  BY <1>2, <1>3

LEMMA ApplyQuotaRInv ==
  ASSUME RInv, NEW t \in Procs, ApplyQuota(t)
  PROVE  RInv'
<1> DEFINE g == req[t].grant
<1>1. /\ req[t] \in Request /\ req[t].pc = "quota"
      /\ g \in Grants /\ g.quota \in Nat /\ g.ns \in Namespaces
      /\ UNCHANGED <<tools, grants, approved, stray>>
  BY RegistryAssumption DEF RInv, TypeOK, Namespaces, ApplyQuota, At
<1>2. \A u \in Procs : /\ req'[u].name = req[u].name /\ req'[u].grant = req[u].grant
                       /\ req'[u].seen = req[u].seen /\ req'[u].tool = req[u].tool
                       /\ req'[u].pc = IF u = t THEN "run" ELSE req[u].pc
  BY <1>1 DEF RInv, TypeOK, Request, ApplyQuota
<1>3. quota' = IF g.quota > 0 THEN [quota EXCEPT ![g.ns] = g.quota] ELSE quota
  BY DEF ApplyQuota, WithQuota
<1>4. TypeOK'
  <2>1. quota' \in [Namespaces -> Nat]
    BY <1>1, <1>3 DEF RInv, TypeOK
  <2>2. [req[t] EXCEPT !.pc = "run"] \in Request
    BY <1>1 DEF Request
  <2>3. req' \in [Procs -> Request]
    BY <2>2 DEF RInv, TypeOK, ApplyQuota
  <2> QED
    BY <1>1, <1>2, <2>1, <2>3 DEF RInv, TypeOK
<1>5. RowsAreCovered'
  BY <1>1 DEF RInv, RowsAreCovered
<1>6. MarketplaceIsSigned'
  BY <1>1, <1>2 DEF RInv, MarketplaceIsSigned, SignedRow, Installed
<1>7. RunsAreLimited'
  <2> SUFFICES ASSUME NEW u \in Procs, req'[u].pc = "run", req'[u].grant.quota > 0
               PROVE  \E h \in Grants : /\ h.ns = req[u].grant.ns /\ h.quota > 0
                                        /\ quota'[h.ns] = h.quota
    BY <1>1, <1>2 DEF RunsAreLimited, Running, At
  <2>1. req[u].grant \in Grants /\ req[u].grant.ns \in Namespaces
    BY <1>1, <1>2 DEF RInv, TypeOK, Namespaces
  <2>2. CASE g.quota > 0 /\ req[u].grant.ns = g.ns
    <3>1. quota'[g.ns] = g.quota
      BY <1>1, <1>3, <2>2 DEF RInv, TypeOK
    <3> QED
      BY <1>1, <2>2, <3>1
  <2>3. CASE ~(g.quota > 0 /\ req[u].grant.ns = g.ns)
    <3>1. quota'[req[u].grant.ns] = quota[req[u].grant.ns]
      BY <1>1, <1>3, <2>1, <2>3 DEF RInv, TypeOK
    <3>2. u # t /\ req[u].pc = "run" /\ req[u].grant.quota > 0
      BY <1>2, <2>3
    <3>3. PICK h \in Grants : h.ns = req[u].grant.ns /\ h.quota > 0 /\ quota[h.ns] = h.quota
      BY <3>2 DEF RInv, RunsAreLimited, Running, At
    <3> QED
      BY <3>1, <3>3
  <2> QED
    BY <2>2, <2>3
<1> QED
  BY <1>4, <1>5, <1>6, <1>7 DEF RInv

LEMMA RunEndsRInv ==
  ASSUME RInv, NEW t \in Procs, RunEnds(t)
  PROVE  RInv'
  BY RespondRInv DEF RunEnds

LEMMA NextRInv == RInv /\ [Next]_vars => RInv'
<1> SUFFICES ASSUME RInv, [Next]_vars PROVE RInv'
  OBVIOUS
<1>1. CASE UNCHANGED vars
  BY <1>1 DEF vars, RInv, TypeOK, RowsAreCovered, MarketplaceIsSigned,
     SignedRow, Installed, RunsAreLimited, Running, At
<1>2. ASSUME NEW p \in Packages, InstallDev(p) \/ InstallMarketplace(p) PROVE RInv'
  BY <1>2, InstallDevRInv, InstallMarketplaceRInv
<1>3. ASSUME NEW n \in Names, Remove(n) \/ RemoveFails(n) PROVE RInv'
  BY <1>3, RemoveRInv
<1>4. ASSUME NEW t \in Procs, NEW n \in Names, NEW g \in Grants, AskGrant(t, n, g) PROVE RInv'
  BY <1>4, AskGrantRInv
<1>5. ASSUME NEW t \in Procs, NEW n \in Names, NEW plane \in {"use", "control"},
             AskRun(t, n, plane)
      PROVE  RInv'
  BY <1>5, AskRunRInv
<1>6. ASSUME NEW t \in Procs, GrantStep(t) PROVE RInv'
  BY <1>6, GrantReadRInv, GrantWriteRInv DEF GrantStep
<1>7. ASSUME NEW t \in Procs, RunStep(t) PROVE RInv'
  BY <1>7, CheckClassRInv, LoadRInv, GrantToolRInv, GrantCheckRInv, ApplyQuotaRInv, RunEndsRInv
  DEF RunStep
<1> QED
  BY <1>1, <1>2, <1>3, <1>4, <1>5, <1>6, <1>7 DEF Next

-----------------------------------------------------------------------------
(* Two reads of one row.  SetGrant reads a manifest that a human has seen      *)
(* before, Run loads what useRun has judged, and checks the grant against a    *)
(* manifest it reads again.  What can come between is another row.             *)

\* No step touches the row of a tool while a grant for it is being stored, none
\* puts another row in the place of one that a run is about to read for a second
\* time, and no removal leaves the grant behind.
Undisturbed ==
  /\ \A t \in Procs : req[t].pc \in {"grantRead", "grantWrite"} =>
       tools'[req[t].name] = tools[req[t].name]
  /\ \A t \in Procs : req[t].pc \in {"load", "grantTool"} =>
       tools'[req[t].name] \in {tools[req[t].name], NoTool}
  /\ \A n \in Names : Installed(n) /\ tools'[n] = NoTool => grants'[n] = NoGrant

\* A tool passes Run's check only with capabilities that a human approved, with
\* the very manifest it was loaded with in front of them, and that nobody has
\* removed since.
RunsUnderOwnGrant ==
  [][\A t \in Procs : At(t, "grantCheck") /\ At(t, "quota")' =>
       Approval(req[t].name, req'[t].grant, req[t].tool.manifest) \in approved]_vars

\* What a request has read of a row agrees with what is there, and in the end with
\* what it has read of it before.
ReadsAgree(r, row) ==
  /\ r.pc \in {"grantRead", "grantWrite"} => row # NoTool /\ row.manifest = r.shown
  /\ r.pc = "grantWrite" => r.seen = r.shown
  /\ r.pc = "load" /\ r.plane = "use" => row = NoTool \/ row.class = "marketplace"
  /\ r.pc = "grantTool" => row \in {NoTool, r.tool}
  /\ r.pc \in {"grantCheck", "quota", "run"} => r.tool.manifest = r.seen
  /\ r.pc \in {"grantTool", "grantCheck", "quota", "run"} /\ r.plane = "use" =>
       r.tool.class = "marketplace"

AllReadsAgree == \A t \in Procs : ReadsAgree(req[t], tools[req[t].name])

\* No row is stray, and the approval that a request is about to store stands.
NothingStray ==
  /\ stray = {}
  /\ \A t \in Procs : req[t].pc \in {"grantRead", "grantWrite"} =>
       Approval(req[t].name, req[t].grant, req[t].shown) \in approved

LEMMA OneRequestReads ==
  ASSUME RInv, AllReadsAgree, NEW t \in Procs, NEW r, req' = [req EXCEPT ![t] = r],
         UNCHANGED tools, ReadsAgree(r, tools[r.name])
  PROVE  AllReadsAgree'
<1>1. \A u \in Procs : req'[u] = IF u = t THEN r ELSE req[u]
  BY DEF RInv, TypeOK
<1> QED
  BY <1>1 DEF AllReadsAgree

LEMMA AnsweredReads ==
  ASSUME RInv, AllReadsAgree, NEW t \in Procs, Respond(t), UNCHANGED tools
  PROVE  AllReadsAgree'
<1>1. ReadsAgree(NoRequest, tools[NoRequest.name])
  BY DEF ReadsAgree, NoRequest
<1> QED
  BY <1>1, OneRequestReads DEF Respond

LEMMA AskedReads ==
  ASSUME RInv, AllReadsAgree, NEW t \in Procs, NEW n \in Names,
         \/ \E g \in Grants : AskGrant(t, n, g)
         \/ \E plane \in {"use", "control"} : AskRun(t, n, plane)
  PROVE  AllReadsAgree'
<1>1. CASE \E g \in Grants : AskGrant(t, n, g)
  <2>1. PICK g \in Grants : AskGrant(t, n, g)
    BY <1>1
  <2> DEFINE r == [NoRequest EXCEPT !.pc = "grantRead", !.name = n,
                                    !.grant = g, !.shown = tools[n].manifest]
  <2>2. ReadsAgree(r, tools[r.name])
    BY <2>1 DEF ReadsAgree, NoRequest, AskGrant, Installed
  <2>3. req' = [req EXCEPT ![t] = r] /\ UNCHANGED tools
    BY <2>1 DEF AskGrant
  <2> HIDE DEF r
  <2> QED BY <2>2, <2>3, OneRequestReads
<1>2. CASE \E plane \in {"use", "control"} : AskRun(t, n, plane)
  <2>1. PICK plane \in {"use", "control"} : AskRun(t, n, plane)
    BY <1>2
  <2> DEFINE r == [NoRequest EXCEPT !.name = n, !.plane = plane,
                                    !.pc = IF plane = "use" THEN "class" ELSE "load"]
  <2>2. ReadsAgree(r, tools[r.name])
    BY DEF ReadsAgree, NoRequest
  <2>3. req' = [req EXCEPT ![t] = r] /\ UNCHANGED tools
    BY <2>1 DEF AskRun
  <2> HIDE DEF r
  <2> QED BY <2>2, <2>3, OneRequestReads
<1> QED
  BY <1>1, <1>2

LEMMA GrantReads ==
  ASSUME RInv, AllReadsAgree, NEW t \in Procs, GrantStep(t)
  PROVE  AllReadsAgree'
<1> DEFINE n == req[t].name
           row == tools[n]
           r == [req[t] EXCEPT !.pc = "grantWrite", !.seen = row.manifest]
<1>1. ReadsAgree(req[t], row) /\ req[t] \in Request
  BY DEF AllReadsAgree, RInv, TypeOK
<1>2. CASE GrantRead(t) /\ Installed(n)
  <2>1. r.pc = "grantWrite" /\ r.name = n /\ r.shown = req[t].shown /\ r.seen = row.manifest
    BY <1>1 DEF Request
  <2>2. ReadsAgree(r, tools[r.name])
    BY <1>1, <1>2, <2>1 DEF GrantRead, At, Installed, ReadsAgree
  <2>3. req' = [req EXCEPT ![t] = r] /\ UNCHANGED tools
    BY <1>2 DEF GrantRead
  <2> HIDE DEF r
  <2> QED BY <2>2, <2>3, OneRequestReads
<1>3. CASE (GrantRead(t) /\ ~Installed(n)) \/ GrantWrite(t)
  BY <1>3, AnsweredReads DEF GrantRead, GrantWrite
<1> QED
  BY <1>2, <1>3 DEF GrantStep

LEMMA RunReads ==
  ASSUME RInv, AllReadsAgree, NEW t \in Procs, RunStep(t)
  PROVE  AllReadsAgree'
<1> DEFINE n == req[t].name
           row == tools[n]
<1>1. ReadsAgree(req[t], row) /\ req[t] \in Request /\ UNCHANGED tools
  BY DEF AllReadsAgree, RInv, TypeOK, RunStep, CheckClass, Load, GrantTool, GrantCheck,
         ApplyQuota, RunEnds
<1>2. CASE Respond(t)
  BY <1>1, <1>2, AnsweredReads
<1>3. CASE CheckClass(t) /\ ~Respond(t)
  <2> DEFINE r == [req[t] EXCEPT !.pc = "load"]
  <2>1. r.pc = "load" /\ r.name = n
    BY <1>1 DEF Request
  <2>2. ReadsAgree(r, tools[r.name]) /\ req' = [req EXCEPT ![t] = r]
    BY <1>3, <2>1 DEF CheckClass, Usable, ReadsAgree
  <2> HIDE DEF r
  <2> QED BY <1>1, <2>2, OneRequestReads
<1>4. CASE Load(t) /\ ~Respond(t)
  <2> DEFINE r == [req[t] EXCEPT !.pc = "grantTool", !.tool = row]
  <2>1. r.pc = "grantTool" /\ r.name = n /\ r.plane = req[t].plane /\ r.tool = row
    BY <1>1 DEF Request
  <2>2. req[t].pc = "load" /\ row # NoTool /\ req' = [req EXCEPT ![t] = r]
    BY <1>4 DEF Load, At, Installed
  <2>3. ReadsAgree(r, tools[r.name])
    BY <1>1, <2>1, <2>2 DEF ReadsAgree
  <2> HIDE DEF r
  <2> QED BY <1>1, <2>2, <2>3, OneRequestReads
<1>5. CASE GrantTool(t) /\ ~Respond(t)
  <2> DEFINE r == [req[t] EXCEPT !.pc = "grantCheck", !.seen = row.manifest]
  <2>1. /\ r.pc = "grantCheck" /\ r.name = n /\ r.plane = req[t].plane
        /\ r.tool = req[t].tool /\ r.seen = row.manifest
    BY <1>1 DEF Request
  <2>2. req[t].pc = "grantTool" /\ row # NoTool /\ req' = [req EXCEPT ![t] = r]
    BY <1>5 DEF GrantTool, At, Installed
  <2>3. ReadsAgree(r, tools[r.name])
    BY <1>1, <2>1, <2>2 DEF ReadsAgree
  <2> HIDE DEF r
  <2> QED BY <1>1, <2>2, <2>3, OneRequestReads
<1>6. CASE GrantCheck(t) /\ ~Respond(t)
  <2> DEFINE r == [req[t] EXCEPT !.pc = "quota", !.grant = grants[n].grant]
  <2>1. /\ r.pc = "quota" /\ r.name = n /\ r.plane = req[t].plane
        /\ r.tool = req[t].tool /\ r.seen = req[t].seen
    BY <1>1 DEF Request
  <2>2. req[t].pc = "grantCheck" /\ req' = [req EXCEPT ![t] = r]
    BY <1>6 DEF GrantCheck, At
  <2>3. ReadsAgree(r, tools[r.name])
    BY <1>1, <2>1, <2>2 DEF ReadsAgree
  <2> HIDE DEF r
  <2> QED BY <1>1, <2>2, <2>3, OneRequestReads
<1>7. CASE ApplyQuota(t)
  <2> DEFINE r == [req[t] EXCEPT !.pc = "run"]
  <2>1. /\ r.pc = "run" /\ r.name = n /\ r.plane = req[t].plane
        /\ r.tool = req[t].tool /\ r.seen = req[t].seen
    BY <1>1 DEF Request
  <2>2. req[t].pc = "quota" /\ req' = [req EXCEPT ![t] = r]
    BY <1>7 DEF ApplyQuota, At
  <2>3. ReadsAgree(r, tools[r.name])
    BY <1>1, <2>1, <2>2 DEF ReadsAgree
  <2> HIDE DEF r
  <2> QED BY <1>1, <2>2, <2>3, OneRequestReads
<1> QED
  BY <1>2, <1>3, <1>4, <1>5, <1>6, <1>7 DEF RunStep, RunEnds

\* Installing and removing changes no request; whoever is about to read for a
\* second time finds the same row or none.
LEMMA UndisturbedReads ==
  ASSUME AllReadsAgree, Undisturbed, UNCHANGED req
  PROVE  AllReadsAgree'
  BY DEF AllReadsAgree, Undisturbed, ReadsAgree

LEMMA NextReads ==
  RInv /\ AllReadsAgree /\ [Next]_vars /\ [Undisturbed]_vars => AllReadsAgree'
<1> SUFFICES ASSUME RInv, AllReadsAgree, [Next]_vars, [Undisturbed]_vars PROVE AllReadsAgree'
  OBVIOUS
<1>1. CASE UNCHANGED vars
  BY <1>1 DEF vars, AllReadsAgree
<1>2. CASE Undisturbed /\ UNCHANGED req
  BY <1>2, UndisturbedReads
<1>3. ASSUME NEW p \in Packages, InstallDev(p) \/ InstallMarketplace(p) PROVE UNCHANGED req
  BY <1>3 DEF InstallDev, InstallMarketplace
<1>4. ASSUME NEW n \in Names, Remove(n) \/ RemoveFails(n) PROVE UNCHANGED req
  BY <1>4 DEF Remove, RemoveFails
<1>5. ASSUME NEW t \in Procs, NEW n \in Names,
             \/ \E g \in Grants : AskGrant(t, n, g)
             \/ \E plane \in {"use", "control"} : AskRun(t, n, plane)
      PROVE  AllReadsAgree'
  BY <1>5, AskedReads
<1>6. ASSUME NEW t \in Procs, GrantStep(t) \/ RunStep(t) PROVE AllReadsAgree'
  BY <1>6, GrantReads, RunReads
<1> QED
  BY <1>1, <1>2, <1>3, <1>4, <1>5, <1>6 DEF Next

\* A request that is about to store a grant, or asks for one, leaves no stray row.
LEMMA GrantStrays ==
  ASSUME RInv, AllReadsAgree, NothingStray, NEW t \in Procs,
         GrantStep(t) \/ \E n \in Names, g \in Grants : AskGrant(t, n, g)
  PROVE  NothingStray'
<1>1. req \in [Procs -> Request]
  BY DEF RInv, TypeOK
<1>2. CASE Respond(t) /\ UNCHANGED <<approved, stray>>
  <2>1. \A u \in Procs : req'[u] = req[u] \/ req'[u].pc = "idle"
    BY <1>1, <1>2 DEF Respond, NoRequest
  <2> QED BY <1>2, <2>1 DEF NothingStray
<1>3. CASE GrantRead(t) /\ ~Respond(t)
  <2>1. UNCHANGED <<approved, stray>> /\ req[t].pc = "grantRead"
    BY <1>3 DEF GrantRead, At
  <2>2. \A u \in Procs : /\ req'[u].name = req[u].name /\ req'[u].grant = req[u].grant
                         /\ req'[u].shown = req[u].shown
                         /\ req'[u].pc = IF u = t THEN "grantWrite" ELSE req[u].pc
    <3> DEFINE r == [req[t] EXCEPT !.pc = "grantWrite", !.seen = tools[req[t].name].manifest]
    <3>1. req[t] \in Request
      BY <1>1
    <3>2. req' = [req EXCEPT ![t] = r]
      BY <1>3 DEF GrantRead
    <3>3. /\ r.name = req[t].name /\ r.grant = req[t].grant /\ r.shown = req[t].shown
          /\ r.pc = "grantWrite"
      BY <3>1 DEF Request
    <3> HIDE DEF r
    <3> QED BY <1>1, <3>2, <3>3
  <2> QED BY <2>1, <2>2 DEF NothingStray
<1>4. CASE GrantWrite(t)
  <2>1. /\ req[t].pc = "grantWrite" /\ req[t].seen = req[t].shown
        /\ Approval(req[t].name, req[t].grant, req[t].seen) \in approved
    BY <1>4 DEF GrantWrite, At, AllReadsAgree, ReadsAgree, NothingStray
  <2>2. stray' = stray
    BY <1>4, <2>1 DEF GrantWrite, NothingStray
  <2> QED BY <1>2, <1>4, <2>2 DEF GrantWrite
<1>5. ASSUME NEW n \in Names, NEW g \in Grants, AskGrant(t, n, g) PROVE NothingStray'
  <2> DEFINE r == [NoRequest EXCEPT !.pc = "grantRead", !.name = n,
                                    !.grant = g, !.shown = tools[n].manifest]
  <2>1. \A u \in Procs : req'[u] = IF u = t THEN r ELSE req[u]
    BY <1>1, <1>5 DEF AskGrant
  <2>2. r.name = n /\ r.grant = g /\ r.shown = tools[n].manifest
    BY DEF NoRequest
  <2>3. approved' = approved \cup {Approval(n, g, tools[n].manifest)} /\ stray' = stray
    BY <1>5 DEF AskGrant
  <2> HIDE DEF r
  <2> QED BY <2>1, <2>2, <2>3 DEF NothingStray
<1> QED
  BY <1>2, <1>3, <1>4, <1>5 DEF GrantStep, GrantRead, GrantWrite

LEMMA NextStrays ==
  RInv /\ AllReadsAgree /\ NothingStray /\ [Next]_vars /\ [Undisturbed]_vars => NothingStray'
<1> SUFFICES ASSUME RInv, AllReadsAgree, NothingStray, [Next]_vars, [Undisturbed]_vars
             PROVE  NothingStray'
  OBVIOUS
<1>0. req \in [Procs -> Request] /\ tools \in [Names -> ToolRow \cup {NoTool}]
  BY DEF RInv, TypeOK
<1>1. CASE UNCHANGED <<req, approved, stray>>
  BY <1>1 DEF NothingStray
<1>2. ASSUME NEW p \in Packages, InstallDev(p) \/ InstallMarketplace(p)
      PROVE  UNCHANGED <<req, approved, stray>>
  BY <1>2 DEF InstallDev, InstallMarketplace
<1>3. ASSUME NEW n \in Names, Remove(n) \/ RemoveFails(n), ~UNCHANGED vars PROVE NothingStray'
  <2>1. Undisturbed /\ tools'[n] = NoTool /\ UNCHANGED req
    BY <1>0, <1>3 DEF Remove, RemoveFails
  <2>2. stray' = {}
    <3>1. CASE Remove(n)
      BY <3>1 DEF Remove, NothingStray
    <3>2. CASE RemoveFails(n)
      BY <2>1, <3>2 DEF RemoveFails, Undisturbed, NothingStray
    <3> QED BY <1>3, <3>1, <3>2
  <2>3. ASSUME NEW t \in Procs, req[t].pc \in {"grantRead", "grantWrite"} PROVE req[t].name # n
    BY <2>1, <2>3 DEF Undisturbed, AllReadsAgree, ReadsAgree
  <2>4. approved' = Withdrawn(n)
    BY <1>3 DEF Remove, RemoveFails
  <2> QED BY <2>1, <2>2, <2>3, <2>4 DEF NothingStray, Withdrawn, Approval
<1>4. ASSUME NEW t \in Procs, NEW n \in Names, NEW g \in Grants, AskGrant(t, n, g)
      PROVE  NothingStray'
  BY <1>4, GrantStrays
<1>5. ASSUME NEW t \in Procs, NEW n \in Names, NEW plane \in {"use", "control"},
             AskRun(t, n, plane)
      PROVE  NothingStray'
  <2>1. UNCHANGED <<approved, stray>>
    BY <1>5 DEF AskRun
  <2>2. \A u \in Procs : req'[u] = req[u] \/ req'[u].pc \in {"class", "load"}
    BY <1>0, <1>5 DEF AskRun, NoRequest
  <2> QED BY <2>1, <2>2 DEF NothingStray
<1>6. ASSUME NEW t \in Procs, GrantStep(t) PROVE NothingStray'
  BY <1>6, GrantStrays
<1>7. ASSUME NEW t \in Procs, RunStep(t) PROVE NothingStray'
  <2>1. UNCHANGED <<approved, stray>>
    BY <1>7 DEF RunStep, CheckClass, Load, GrantTool, GrantCheck, ApplyQuota, RunEnds
  <2> DEFINE Past == {"idle", "load", "grantTool", "grantCheck", "quota", "run"}
  <2>2. \A u \in Procs : req'[u] = req[u] \/ req'[u].pc \in Past
    <3>1. req[t] \in Request
      BY <1>0
    <3>2. CASE Respond(t)
      BY <1>0, <3>2 DEF Respond, NoRequest
    <3>3. CASE ~Respond(t) /\ CheckClass(t)
      BY <1>0, <3>1, <3>3 DEF CheckClass, Request
    <3>4. CASE ~Respond(t) /\ Load(t)
      BY <1>0, <3>1, <3>4 DEF Load, Request
    <3>5. CASE ~Respond(t) /\ GrantTool(t)
      BY <1>0, <3>1, <3>5 DEF GrantTool, Request
    <3>6. CASE ~Respond(t) /\ GrantCheck(t)
      BY <1>0, <3>1, <3>6 DEF GrantCheck, Request
    <3>7. CASE ~Respond(t) /\ ApplyQuota(t)
      BY <1>0, <3>1, <3>7 DEF ApplyQuota, Request
    <3> QED BY <1>7, <3>2, <3>3, <3>4, <3>5, <3>6, <3>7 DEF RunStep, RunEnds
  <2> QED BY <2>1, <2>2 DEF NothingStray
<1> QED
  BY <1>1, <1>2, <1>3, <1>4, <1>5, <1>6, <1>7 DEF Next, vars

\* A request that passes the check holds what is stored for the manifest it saw.
LEMMA PassesGranted ==
  ASSUME RInv, NEW t \in Procs, [Next]_vars, At(t, "grantCheck"), At(t, "quota")'
  PROVE  /\ req[t].name \in Names
         /\ Granted(req[t].name, req[t].seen)
         /\ req'[t].grant = grants[req[t].name].grant
<1>0. req \in [Procs -> Request] /\ req[t].name \in Names
  BY DEF RInv, TypeOK, At
<1>1. req'[t] # req[t]
  BY DEF At
<1>2. ASSUME NEW u \in Procs, u # t,
             \/ GrantStep(u) \/ RunStep(u)
             \/ (\E n \in Names, g \in Grants : AskGrant(u, n, g))
             \/ (\E n \in Names, plane \in {"use", "control"} : AskRun(u, n, plane))
      PROVE  FALSE
  BY <1>0, <1>1, <1>2 DEF GrantStep, RunStep, GrantRead, GrantWrite, CheckClass, Load, GrantTool,
     GrantCheck, ApplyQuota, RunEnds, AskGrant, AskRun, Respond
<1>3. GrantCheck(t)
  BY <1>0, <1>1, <1>2 DEF Next, vars, InstallDev, InstallMarketplace, Remove, RemoveFails, GrantStep,
     RunStep, GrantRead, GrantWrite, CheckClass, Load, GrantTool, ApplyQuota, RunEnds, AskGrant,
     AskRun, At
<1>4. Granted(req[t].name, req[t].seen)
  BY <1>0, <1>3 DEF GrantCheck, Respond, NoRequest, At
<1> QED
  BY <1>0, <1>3, <1>4 DEF GrantCheck, Request

-----------------------------------------------------------------------------
(* The theorems *)

\* The invariant holds whatever installs, removals, approvals and runs overlap.
THEOREM RegistryInductive == Spec => []RInv
  BY InitRInv, NextRInv, PTL DEF Spec

\* Every variable of the registry keeps its type.
THEOREM RegistryTypeCorrect == Spec => []TypeOK
<1>1. RInv => TypeOK
  BY DEF RInv
<1> QED
  BY <1>1, RegistryInductive, PTL

\* No tool passes the check with capabilities that nobody approved with its
\* manifest in front of them, or that were removed since, save under a row that
\* a rebinding, a late store or a failed removal made stray.
THEOREM RunsAreApprovedCorrect == Spec => RunsAreApproved
<1> DEFINE Approved(t) == \/ Approval(req[t].name, req'[t].grant, req[t].seen) \in approved
                          \/ req[t].name \in stray
           Passes == \A t \in Procs : At(t, "grantCheck") /\ At(t, "quota")' => Approved(t)
<1>1. RInv /\ [Next]_vars => Passes
  BY PassesGranted DEF RInv, RowsAreCovered, Granted
<1>2. RInv /\ [Next]_vars => [Passes]_vars
  BY <1>1
<1> QED
  BY <1>2, RegistryInductive, PTL DEF Spec, RunsAreApproved

\* No unsigned code ever carries the marketplace class.
THEOREM MarketplaceIsSignedCorrect == Spec => []MarketplaceIsSigned
<1>1. RInv => MarketplaceIsSigned
  BY DEF RInv
<1> QED
  BY <1>1, RegistryInductive, PTL

\* No run whose grant has a quota is ever without an approved limit.
THEOREM RunsAreLimitedCorrect == Spec => []RunsAreLimited
<1>1. RInv => RunsAreLimited
  BY DEF RInv
<1> QED
  BY <1>1, RegistryInductive, PTL

\* Only an install or a removal that comes between two reads of one row of a
\* request, or a removal that leaves the grant behind, lets the USE plane run dev
\* code, binds a grant to a manifest nobody has seen, or lets a tool run under
\* capabilities not approved for the very manifest it was loaded with.
THEOREM UndisturbedCorrect ==
  Spec /\ [][Undisturbed]_vars =>
    [](UsePlaneRunsMarketplaceOnly /\ GrantMatchesApproval) /\ RunsUnderOwnGrant
<1>1. Init => AllReadsAgree /\ NothingStray
  BY DEF Init, AllReadsAgree, ReadsAgree, NothingStray, NoRequest
<1>2. RInv /\ AllReadsAgree => UsePlaneRunsMarketplaceOnly /\ GrantMatchesApproval
  BY DEF RInv, AllReadsAgree, ReadsAgree, UsePlaneRunsMarketplaceOnly, GrantMatchesApproval,
         Running, At
<1> DEFINE Passes ==
      \A t \in Procs : At(t, "grantCheck") /\ At(t, "quota")' =>
        Approval(req[t].name, req'[t].grant, req[t].tool.manifest) \in approved
<1>3. RInv /\ AllReadsAgree /\ NothingStray /\ [Next]_vars => Passes
  BY PassesGranted DEF RInv, RowsAreCovered, Granted, NothingStray, AllReadsAgree, ReadsAgree, At
<1>4. RInv /\ AllReadsAgree /\ NothingStray /\ [Next]_vars => [Passes]_vars
  BY <1>3
<1> QED
  BY <1>1, <1>2, <1>4, NextReads, NextStrays, RegistryInductive, PTL DEF Spec, RunsUnderOwnGrant
=============================================================================
