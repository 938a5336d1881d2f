------------------------------- MODULE MCApp -------------------------------
(* App with two requests in the GUI, one server and one reseal at a time.  *)
EXTENDS App

CONSTANTS q1, q2, s1, r1, pw1
=============================================================================
