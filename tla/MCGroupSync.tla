---------------------------- MODULE MCGroupSync -----------------------------
(* Model values for checking GroupSync: two groups, a member with an id and
   one without. *)
EXTENDS GroupSync

CONSTANTS u1, anon, g1, g2
=============================================================================
