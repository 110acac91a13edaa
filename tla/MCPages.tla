-------------------------------- MODULE MCPages --------------------------------
(* Model values for checking Pages: a text in the titles of both groups, the same
   with a blank behind it, as only the second title has it, the ids of the groups,
   and both ids with a comma between them. *)
EXTENDS Pages

CONSTANTS none, t, pad, g1, g2, both, e1, e2

AllTexts == {none, t, pad, g1, g2, both}
TrimText == [x \in AllTexts |-> IF x = pad THEN t ELSE x]
PiecesOf == [x \in AllTexts |-> IF x = both THEN <<g1, g2>> ELSE <<x>>]
OfferedFor ==
  [x \in AllTexts |-> CASE x = t -> <<g1, g2>> [] x = pad -> <<g2>> [] OTHER -> <<>>]
Uploaded == {<<pad, none, g1>>, <<g2>>}
=============================================================================
