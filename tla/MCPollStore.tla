----------------------------- MODULE MCPollStore -----------------------------
(* Model values for checking PollStore.  Of any two settings, one is on without
   the other in some dto, so that they cannot change places unnoticed. *)
EXTENDS PollStore, TLC

CONSTANTS u1, u2, l1, l2, e1, e2, g1, i1, i2, i3

Settings == {"voteIsEditable", "openForOwnEntries", "singleChoice",
             "priorityChoice", "anonymous"}

On(fields) == [f \in Settings |-> f \in fields]

MCDtos == {On({"voteIsEditable", "singleChoice"}),
           On({"voteIsEditable", "openForOwnEntries", "priorityChoice"}),
           On({"openForOwnEntries", "anonymous"})}

MCSymmetry ==
  UNION {Permutations(S) : S \in {Users, Links, Slots, NewIds}}
=============================================================================
