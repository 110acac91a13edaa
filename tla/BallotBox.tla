----------------------------- MODULE BallotBox ------------------------------
(***************************************************************************)
(* What voting on a poll promises: each voter has one ballot in the box,   *)
(* casting a ballot replaces the voter's own at once and leaves the others *)
(* as they are.  Nothing else touches the box.                             *)
(***************************************************************************)
CONSTANTS Users,      \* everybody
          Participants, \* those who take part
          Ballots,    \* what can be cast
          Empty       \* the ballot of a user who has not voted

VARIABLE box

Init == box = [u \in Users |-> Empty]

Cast(u, b) == box' = [box EXCEPT ![u] = b]

Next == \E u \in Participants, b \in Ballots : Cast(u, b)

Spec == Init /\ [][Next]_box
=============================================================================
