------------------------------ MODULE MCStore ------------------------------
(* Store on a small drive, with one or with two Store values.             *)
EXTENDS Store, TLC

CONSTANTS s1, s2

\* Two Store values opened in either order, with two writes and one write.
TwoStores == (s1 :> 2 @@ s2 :> 1)

\* One Store value with three writes.
OneStore == (s1 :> 3)
=============================================================================
