----------------------------- MODULE MCMarket -----------------------------
(* MarketClient with one tool, offered in two versions and three contents. *)
EXTENDS MarketClient, TLC

CONSTANTS ann, tool, v1, v2, m1, m2, src1, src2

Offer(v, m, s) ==
  [id |-> tool, author |-> ann, version |-> v, body |-> [name |-> tool, manifest |-> m, source |-> s]]

\* The first two differ in the manifest only.
Contents == {Offer(v1, m1, src1), Offer(v1, m2, src1), Offer(v2, m1, src2)}

CONSTANTS w1, w2, r1

Submissions == Permutations({w1, w2})
=============================================================================
