------------------------------ MODULE DatePoll ------------------------------
(***************************************************************************)
(* The DatePoll aggregate as it is held in memory by one request: its      *)
(* entries with their vote counters, one ballot per user, and the flag     *)
(* that says the poll is over.  The operators are the methods of           *)
(* DatePoll.java and DatePollBallot.java as functions from one aggregate   *)
(* to the next; the clock is passed in as the Boolean `over'.              *)
(*                                                                         *)
(* A DatePollEntry is identified by its time span and a ballot by its      *)
(* user.  updateYes and updateMaybe are the same code on two fields, so    *)
(* both are UpdateSelection on a kind.  A user without a ballot and a user *)
(* with an empty one are not distinguished: nothing in the code does.  Nor *)
(* is the voting record modelled: nothing in the code ever writes it.      *)
(***************************************************************************)
EXTENDS Integers, FiniteSets

CONSTANTS Users,              \* everybody who can be logged in
          Entries,            \* every time span that can be voted on
          SingleChoice,       \* DatePollConfig.singleChoice
          PriorityChoice,     \* DatePollConfig.priorityChoice
          OpenForOwnEntries   \* DatePollConfig.openForOwnEntries

ASSUME UsersFinite == IsFiniteSet(Users)
ASSUME EntriesFinite == IsFiniteSet(Entries)
ASSUME ConfigType ==
  /\ SingleChoice \in BOOLEAN
  /\ PriorityChoice \in BOOLEAN
  /\ OpenForOwnEntries \in BOOLEAN

\* DatePollConfig.validate: a poll never has both options.
ASSUME ConfigConsistent == ~(SingleChoice /\ PriorityChoice)
-----------------------------------------------------------------------------
Kinds == {"yes", "maybe"}

\* What one user selects: a set of entries for each kind.
Selection == [Kinds -> SUBSET Entries]

NoSelection == [k \in Kinds |-> {}]

Poll == [entries    : SUBSET Entries,
         count      : [Kinds -> [Entries -> Int]],
         ballots    : [Users -> Selection],
         terminated : BOOLEAN]

\* The aggregate as pollOf builds it from the database rows: counters at
\* zero and no ballots.
FreshPoll(entries) ==
  [entries    |-> entries,
   count      |-> [k \in Kinds |-> [e \in Entries |-> 0]],
   ballots    |-> [u \in Users |-> NoSelection],
   terminated |-> FALSE]
-----------------------------------------------------------------------------
\* Faulty: the end of the period is not noticed.
UpdatePollStatus_NoticesNothing(poll, over) == poll

UpdatePollStatus(poll, over) ==
  [poll EXCEPT !.terminated = @ \/ over]

\* Faulty: the proposed entries take the place of the poll's.
AggregateNewEntries_Overwrites(poll, sel) ==
  IF OpenForOwnEntries
    THEN [poll EXCEPT !.entries = sel["yes"] \cup sel["maybe"]]
    ELSE poll

\* Entries a form proposes are new objects, so their counters are zero and
\* the filter in the code only keeps out those the poll has already.
AggregateNewEntries(poll, sel) ==
  IF OpenForOwnEntries
    THEN [poll EXCEPT !.entries = @ \cup sel["yes"] \cup sel["maybe"]]
    ELSE poll

Recount(counter, inc, dec) ==
  [e \in Entries |-> CASE e \in inc -> counter[e] + 1
                       [] e \in dec -> counter[e] - 1
                       [] OTHER     -> counter[e]]

\* Faulty: counts what is selected again, not only what is new.
UpdateSelection_CountsAgain(poll, user, kind, new) ==
  [poll EXCEPT
    !.count[kind] = Recount(@, new \cap poll.entries,
                               (poll.ballots[user][kind] \ new) \cap poll.entries),
    !.ballots[user][kind] = new]

\* Faulty: counts down all that is not selected, selected before or not.
UpdateSelection_CountsDownAll(poll, user, kind, new) ==
  [poll EXCEPT
    !.count[kind] = Recount(@, (new \ poll.ballots[user][kind]) \cap poll.entries,
                               poll.entries \ new),
    !.ballots[user][kind] = new]

UpdateSelection(poll, user, kind, new) ==
  LET old == poll.ballots[user][kind]
  IN  [poll EXCEPT
        !.count[kind] = Recount(@, (new \ old) \cap poll.entries,
                                   (old \ new) \cap poll.entries),
        !.ballots[user][kind] = new]

\* Faulty: any number of entries in a single choice poll.
Refuses_AllowsTwo(poll, sel) == poll.terminated

Refuses(poll, sel) ==
  \/ poll.terminated
  \/ SingleChoice /\ Cardinality(sel["yes"]) > 1

CastBallot(poll, user, sel, over) ==
  LET now   == UpdatePollStatus(poll, over)
      grown == AggregateNewEntries(now, sel)
  IN  IF Refuses(now, sel)
        THEN now
        ELSE UpdateSelection(
               UpdateSelection(grown, user, "yes", sel["yes"]),
               user, "maybe", sel["maybe"])
-----------------------------------------------------------------------------
Voters(poll, kind, e) == {u \in Users : e \in poll.ballots[u][kind]}

\* The counters shown on the result page are the number of ballots that
\* select the entry, although they are only ever moved up and down by one.
TallyExact(poll) ==
  \A k \in Kinds, e \in poll.entries :
    poll.count[k][e] = Cardinality(Voters(poll, k, e))
=============================================================================
