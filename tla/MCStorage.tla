----------------------------- MODULE MCStorage -----------------------------
(* Storage with one namespace, two queues and two messages.               *)
EXTENDS Storage

CONSTANTS x, y

\* The bytes of the two messages.
OneEach == [m \in {x, y} |-> 1]
=============================================================================
