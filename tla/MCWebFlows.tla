------------------------------ MODULE MCWebFlows ------------------------------
(* Model values for checking WebFlows: a good and a bad time span and answer, a
   stored and an unknown group, and the blank tag a file may contain. *)
EXTENDS WebFlows

CONSTANTS s1, bad, a1, a2, empty, g1, gone, blank
=============================================================================
