--------------------------- MODULE MCDatePollLife ---------------------------
(* Model values and symmetry for checking DatePollLife. *)
EXTENDS DatePollLife, TLC

UserSymmetry == Permutations(Users)
=============================================================================
