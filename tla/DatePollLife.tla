---------------------------- MODULE DatePollLife ----------------------------
(***************************************************************************)
(* One DatePoll aggregate over its whole life: users cast and change their *)
(* ballots, and the voting period ends.  This is the aggregate as          *)
(* its public methods allow it to be used: a caller may pass any set of    *)
(* the poll's entries, and entries of its own when the poll is open for    *)
(* them.                                                                   *)
(***************************************************************************)
EXTENDS DatePoll

CONSTANT Listed     \* the entries the creator listed

ASSUME ListedType == Listed \subseteq Entries

VARIABLES poll,     \* the aggregate
          ended     \* the clock has passed metaInf.timespan.endDate

vars == <<poll, ended>>

Choices == SUBSET (IF OpenForOwnEntries THEN Entries ELSE Listed)

Init ==
  /\ poll = FreshPoll(Listed)
  /\ ended = FALSE

Cast(u, sel) ==
  /\ poll' = CastBallot(poll, u, sel, ended)
  /\ UNCHANGED ended

PeriodEnds ==
  /\ ~ended
  /\ ended' = TRUE
  /\ UNCHANGED poll

Next ==
  \/ \E u \in Users, yes, maybe \in Choices :
       Cast(u, [k \in Kinds |-> IF k = "yes" THEN yes ELSE maybe])
  \/ PeriodEnds

Spec == Init /\ [][Next]_vars
-----------------------------------------------------------------------------
\* Aggregate and clock have the values they should; no
\* counter is decremented below zero.
TypeOK ==
  /\ poll \in Poll
  /\ \A k \in Kinds, e \in poll.entries : poll.count[k][e] >= 0
  /\ ended \in BOOLEAN

\* After any sequence of casts and changes of mind, of any users, the counter
\* of each entry is the number of ballots that select it (updateYes and
\* updateMaybe only move it by the difference of the old and new selection).
CountersExact == TallyExact(poll)

\* In a single choice poll nobody ever holds two yes votes, also not after a
\* refused attempt to select two (DatePoll.castBallot, the early return).
OneYesPerUser ==
  SingleChoice => \A u \in Users : Cardinality(poll.ballots[u]["yes"]) <= 1

\* Casting the ballot a user already has changes nothing.  The repository
\* relies on it: it replays some ballots twice, and a member of several groups
\* once per group (DatePollRepositoryImpl.load).
RecastIsNoop ==
  ~poll.terminated =>
    \A u \in Users : CastBallot(poll, u, poll.ballots[u], FALSE) = poll

\* Two users' ballots can be cast in either order.  The repository replays
\* them in the arbitrary order of a HashSet.
CastsCommute ==
  ~poll.terminated =>
    \A u \in Users : \A v \in Users \ {u} : \A w \in Users :
      LET s == poll.ballots[w]
          r == [k \in Kinds |-> Listed \ poll.ballots[w][k]]
      IN  CastBallot(CastBallot(poll, u, s, FALSE), v, r, FALSE)
            = CastBallot(CastBallot(poll, v, r, FALSE), u, s, FALSE)

\* Once the end date has passed a cast changes no ballot, counter or entry.
FrozenAfterEnd ==
  [][ended =>
       /\ poll'.ballots = poll.ballots
       /\ poll'.count   = poll.count
       /\ poll'.entries = poll.entries]_vars
=============================================================================
