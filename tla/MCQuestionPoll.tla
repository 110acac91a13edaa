---------------------------- MODULE MCQuestionPoll ----------------------------
(* Model values for checking QuestionPoll: two entries with one title, one with
   another, and one without a title; a stored and an unknown group. *)
EXTENDS QuestionPoll, TLC

CONSTANTS u1, u2, e1, e2, f1, bad, g1, gone

MCTitleOf == (e1 :> "e") @@ (e2 :> "e") @@ (f1 :> "f") @@ (bad :> "")
MCTitles == {"e", "f", ""}
UserSymmetry == Permutations(Users)
=============================================================================
