---------------------------- MODULE MCRegistry ----------------------------
(* Registry with one tool name in three artifacts.                       *)
EXTENDS Registry, TLC

CONSTANTS n1, m1, m2, src1, src2, src3, shared

Pkg(n, m, s, v) == [name |-> n, manifest |-> m, source |-> s, verified |-> v]

\* n1 is published twice, verified and then not; a local edit keeps the
\* manifest and changes the source.
First  == Pkg(n1, m1, src1, TRUE)
Update == Pkg(n1, m2, src2, FALSE)
Edited == Pkg(n1, m1, src3, FALSE)

OneTool   == {First, Update, Edited}
Published == {First, Update}

\* Approvals with a quota and without one.
Offers == {[ns |-> shared, quota |-> q] : q \in {0, 1}}
OneApproval == {[ns |-> shared, quota |-> 1]}

CONSTANTS p1, p2

Requests == Permutations({p1, p2})
=============================================================================
