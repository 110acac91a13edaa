---------------------------- MODULE MCPollVoting ----------------------------
(* Model values and symmetry for checking PollVoting. *)
EXTENDS PollVoting, TLC

EntrySymmetry == Permutations(Entries)

ThreadEntrySymmetry == Permutations(Threads) \cup EntrySymmetry
=============================================================================
