----------------------------- MODULE PollVoting -----------------------------
(***************************************************************************)
(* Voting on one published DatePoll, end to end: HTTP requests of several  *)
(* users handled by several server threads against one database.           *)
(*                                                                         *)
(* A request that votes                                                    *)
(*   - loads the poll: one query for its rows, then for each user of the   *)
(*     poll's groups one query for the yes votes and one for the maybe     *)
(*     votes, replayed into the aggregate with castBallot,                 *)
(*   - checks that its user takes part and casts the new ballot,           *)
(*   - saves the poll: one transaction replaces ALL entry rows by new      *)
(*     ones, which drops every stored vote, and then each vote of the      *)
(*     aggregate is put back by a transaction of its own.                  *)
(* No transaction spans these steps; the session only ties the request to  *)
(* the generation of entry rows it has read, and deleting rows that are    *)
(* gone already fails the request.  A request that shows the results only  *)
(* loads.  The group synchronisation changes the members at any time.      *)
(***************************************************************************)
EXTENDS DatePoll

CONSTANTS Threads,          \* server threads
          Creator,          \* the user who published the poll
          Members,          \* users of the poll's groups to begin with
          Open,             \* DatePollConfig.open: a public poll
          Events,           \* what the environment does in this instance
          MaxRequests       \* bound on the number of requests

ASSUME CreatorType == Creator \in Users
ASSUME MembersType == Members \subseteq Users
ASSUME OpenType == Open \in BOOLEAN
ASSUME EventsType == Events \subseteq {"end", "sync", "dbError"}
ASSUME MaxRequestsType == MaxRequests \in Nat

VARIABLES ended,      \* the clock has passed the end of the voting period
          members,    \* users of the groups the poll is published to
          gen,        \* generation of the stored entry rows
          votes,      \* the stored votes, as <<user, kind, entry>>
          req,        \* what each thread is doing
          served,     \* number of requests begun
          inTime,     \* history: votes submitted before the end
          acked,      \* history: each user's last answered vote
          torn        \* history: a load began while votes were put back

vars == <<ended, members, gen, votes, req, served, inTime, acked, torn>>

VoteRow == Users \X Kinds \X Entries

RowsOf(user, sel) == {r \in VoteRow : r[1] = user /\ r[3] \in sel[r[2]]}

AllRows(poll) == {r \in VoteRow : r[3] \in poll.ballots[r[1]][r[2]]}

Stored(user) == [k \in Kinds |-> {e \in Entries : <<user, k, e>> \in votes}]

\* What the form lets a user submit: a radio button for a single choice,
\* otherwise a checkbox per entry, and with priorities a second one that
\* excludes the first.
FormSelections ==
  {sel \in Selection :
     /\ sel["yes"] \cap sel["maybe"] = {}
     /\ SingleChoice => Cardinality(sel["yes"]) = 1
     /\ ~PriorityChoice => sel["maybe"] = {}}
-----------------------------------------------------------------------------
Pcs == {"idle",       \* no request
        "loading",    \* between the replays of two users
        "querying",   \* yes votes read, maybe votes still to read
        "saving",     \* the new ballot is cast in memory
        "restoring",  \* rows replaced, votes being put back
        "shown"}      \* results rendered

Request == [pc      : Pcs,
            vote    : BOOLEAN,          \* a vote, or a view of the results
            user    : Users,
            sel     : Selection,
            rowsGen : Nat,              \* generation the session has loaded
            group   : SUBSET Users,     \* users of the poll's groups, as loaded
            toLoad  : SUBSET Users,     \* of those, still to be replayed
            loading : Users,            \* the one being replayed
            yes     : SUBSET Entries,   \* and its yes votes
            poll    : Poll,
            todo    : SUBSET VoteRow]   \* votes still to be put back

\* A thread without a request; the other fields have no meaning.
NoRequest == [pc      |-> "idle",
              vote    |-> FALSE,
              user    |-> Creator,
              sel     |-> NoSelection,
              rowsGen |-> 0,
              group   |-> {},
              toLoad  |-> {},
              loading |-> Creator,
              yes     |-> {},
              poll    |-> FreshPoll(Entries),
              todo    |-> {}]

\* The users of the poll's groups.  Every save adds a group that holds just
\* the creator, so the creator is always one of them.
GroupUsers == members \cup {Creator}

\* The poll has been published: one save without votes, by the creator.
Init ==
  /\ ended = FALSE
  /\ members = Members
  /\ gen = 0
  /\ votes = {}
  /\ req = [t \in Threads |-> NoRequest]
  /\ served = 0
  /\ inTime = {}
  /\ acked = [u \in Users |-> NoSelection]
  /\ torn = FALSE
-----------------------------------------------------------------------------
\* The first query of load: entry rows and groups enter the session.
Begin(t, isVote, u, sel) ==
  /\ req[t].pc = "idle"
  /\ served < MaxRequests
  /\ served' = served + 1
  /\ req' = [req EXCEPT ![t] =
       [NoRequest EXCEPT !.pc = "loading", !.vote = isVote,
                         !.user = u, !.sel = sel, !.rowsGen = gen,
                         !.group = GroupUsers, !.toLoad = GroupUsers]]
  /\ torn' = (torn \/ \E s \in Threads : req[s].pc = "restoring")
  /\ UNCHANGED <<ended, members, gen, votes, acked>>

BeginVote(t, u, sel) ==
  /\ Begin(t, TRUE, u, sel)
  /\ inTime' = IF ended THEN inTime ELSE inTime \cup RowsOf(u, sel)

BeginView(t) ==
  /\ Begin(t, FALSE, Creator, NoSelection)
  /\ UNCHANGED inTime

QueryYes(t, u) ==
  /\ req[t].pc = "loading"
  /\ u \in req[t].toLoad
  /\ req' = [req EXCEPT ![t].pc = "querying",
                        ![t].toLoad = @ \ {u},
                        ![t].loading = u,
                        ![t].yes = Stored(u)["yes"]]
  /\ UNCHANGED <<ended, members, gen, votes, served, inTime, acked, torn>>

\* Faulty: the second query asks for the yes votes again.
QueryMaybe_ReadsYes(t) ==
  /\ req[t].pc = "querying"
  /\ req' = [req EXCEPT
       ![t].pc = "loading",
       ![t].poll = CastBallot(@, req[t].loading,
                              [k \in Kinds |-> req[t].yes], ended),
       ![t].loading = Creator,
       ![t].yes = {}]
  /\ UNCHANGED <<ended, members, gen, votes, served, inTime, acked, torn>>

\* The second query and the replay.  A ballot without yes votes is cast twice.
QueryMaybe(t) ==
  LET u      == req[t].loading
      sel    == [k \in Kinds |-> IF k = "yes" THEN req[t].yes
                                              ELSE Stored(u)["maybe"]]
      once   == CastBallot(req[t].poll, u, sel, ended)
      replay == IF sel["yes"] = {} THEN CastBallot(once, u, sel, ended)
                                   ELSE once
  IN  /\ req[t].pc = "querying"
      /\ req' = [req EXCEPT ![t].pc = "loading", ![t].poll = replay,
                            ![t].loading = Creator, ![t].yes = {}]
      /\ UNCHANGED <<ended, members, gen, votes, served, inTime, acked, torn>>

Loaded(t) == req[t].pc = "loading" /\ req[t].toLoad = {}

\* checkUserIsParticipant; the groups are those the session has loaded.
TakesPart(t) == Open \/ req[t].user \in req[t].group

Vote(t) ==
  /\ Loaded(t) /\ req[t].vote /\ TakesPart(t)
  /\ req' = [req EXCEPT
       ![t].pc = "saving",
       ![t].poll = CastBallot(@, req[t].user, req[t].sel, ended)]
  /\ UNCHANGED <<ended, members, gen, votes, served, inTime, acked, torn>>

\* IllegalArgumentException: the user does not take part in this poll.
Deny(t) ==
  /\ Loaded(t) /\ req[t].vote /\ ~TakesPart(t)
  /\ req' = [req EXCEPT ![t] = NoRequest]
  /\ UNCHANGED <<ended, members, gen, votes, served, inTime, acked, torn>>

ShowResults(t) ==
  /\ Loaded(t) /\ ~req[t].vote
  /\ req' = [req EXCEPT ![t].pc = "shown"]
  /\ UNCHANGED <<ended, members, gen, votes, served, inTime, acked, torn>>
-----------------------------------------------------------------------------
\* Faulty: rows that are gone already are not missed.
RowsUnchanged_NotChecked(t) == TRUE

\* Deleting the rows the session has loaded finds them all.
RowsUnchanged(t) == req[t].rowsGen = gen

\* Faulty: the votes on the deleted rows stay.
ReplaceRows_KeepsVotes(t) ==
  /\ req[t].pc = "saving"
  /\ RowsUnchanged(t)
  /\ gen' = gen + 1
  /\ votes' = votes
  /\ req' = [req EXCEPT ![t].pc = "restoring",
                        ![t].todo = AllRows(req[t].poll)]
  /\ UNCHANGED <<ended, members, served, inTime, acked, torn>>

\* The first transaction of save: new entry rows, the loaded ones deleted
\* together with every vote on them.
ReplaceRows(t) ==
  /\ req[t].pc = "saving"
  /\ RowsUnchanged(t)
  /\ gen' = gen + 1
  /\ votes' = {}
  /\ req' = [req EXCEPT ![t].pc = "restoring",
                        ![t].todo = AllRows(req[t].poll)]
  /\ UNCHANGED <<ended, members, served, inTime, acked, torn>>

\* Faulty: the failure is not noticed.
StaleRows_Unnoticed(t) == FALSE

\* The rows to delete were replaced by another request meanwhile: the
\* transaction is rolled back and the request fails.
StaleRows(t) ==
  /\ req[t].pc = "saving"
  /\ ~RowsUnchanged(t)
  /\ req' = [req EXCEPT ![t] = NoRequest]
  /\ UNCHANGED <<ended, members, gen, votes, served, inTime, acked, torn>>

\* The votes are put back ballot by ballot, yes votes before maybe votes.
NextRows(t) ==
  LET todo   == req[t].todo
      begun  == {r \in todo : \E q \in AllRows(req[t].poll) \ todo : q[1] = r[1]}
      ballot == IF begun = {} THEN todo ELSE begun
  IN  {r \in ballot : r[2] = "maybe" =>
                        \A q \in todo : q[1] = r[1] => q[2] = "maybe"}

\* Each goes to the entry row stored for its time span at that moment.
RestoreVote(t, row) ==
  /\ req[t].pc = "restoring"
  /\ row \in NextRows(t)
  /\ votes' = votes \cup {row}
  /\ req' = [req EXCEPT ![t].todo = @ \ {row}]
  /\ UNCHANGED <<ended, members, gen, served, inTime, acked, torn>>

FinishVote(t) ==
  /\ req[t].pc = "restoring"
  /\ req[t].todo = {}
  /\ acked' = [acked EXCEPT ![req[t].user] = req[t].poll.ballots[req[t].user]]
  /\ req' = [req EXCEPT ![t] = NoRequest]
  /\ UNCHANGED <<ended, members, gen, votes, served, inTime, torn>>

FinishView(t) ==
  /\ req[t].pc = "shown"
  /\ req' = [req EXCEPT ![t] = NoRequest]
  /\ UNCHANGED <<ended, members, gen, votes, served, inTime, acked, torn>>

\* A query or transaction of the request fails; what it committed stays.
DbError(t) ==
  /\ "dbError" \in Events
  /\ req[t].pc \in {"loading", "querying", "saving", "restoring"}
  /\ req' = [req EXCEPT ![t] = NoRequest]
  /\ UNCHANGED <<ended, members, gen, votes, served, inTime, acked, torn>>
-----------------------------------------------------------------------------
PeriodEnds ==
  /\ "end" \in Events
  /\ ~ended
  /\ ended' = TRUE
  /\ UNCHANGED <<members, gen, votes, req, served, inTime, acked, torn>>

\* GroupSyncService stores the users a group has now.  Next leaves the creator
\* out, whom GroupUsers adds: saving gives the creator a group of their own.
SyncMembers(now) ==
  /\ "sync" \in Events
  /\ members' = now
  /\ UNCHANGED <<ended, gen, votes, req, served, inTime, acked, torn>>

\* What a thread does of its own accord once it has a request.
Work(t) ==
  \/ \E u \in Users : QueryYes(t, u)
  \/ QueryMaybe(t)
  \/ Vote(t)
  \/ Deny(t)
  \/ ShowResults(t)
  \/ ReplaceRows(t)
  \/ StaleRows(t)
  \/ \E row \in VoteRow : RestoreVote(t, row)
  \/ FinishVote(t)
  \/ FinishView(t)

\* The bound is used up and every request answered.
Quiet ==
  /\ served = MaxRequests
  /\ \A t \in Threads : req[t].pc = "idle"
  /\ UNCHANGED vars

Next ==
  \/ \E t \in Threads, u \in Users, sel \in FormSelections : BeginVote(t, u, sel)
  \/ \E t \in Threads : BeginView(t)
  \/ \E t \in Threads : Work(t)
  \/ \E t \in Threads : DbError(t)
  \/ PeriodEnds
  \/ \E now \in SUBSET (Users \ {Creator}) : SyncMembers(now)
  \/ Quiet

Spec == Init /\ [][Next]_vars

\* A servlet thread that has a request keeps running it.  Nothing is assumed
\* of users, clock, synchronisation or database errors.
FairSpec == Spec /\ \A t \in Threads : WF_vars(Work(t))
-----------------------------------------------------------------------------
\* The state variables have the values they should; no request holds a counter
\* below zero.
TypeOK ==
  /\ ended \in BOOLEAN
  /\ members \subseteq Users
  /\ gen \in Nat
  /\ votes \subseteq VoteRow
  /\ req \in [Threads -> Request]
  /\ \A t \in Threads, k \in Kinds :
       \A e \in req[t].poll.entries : req[t].poll.count[k][e] >= 0
  /\ served \in 0..MaxRequests
  /\ inTime \subseteq VoteRow
  /\ acked \in [Users -> Selection]
  /\ torn \in BOOLEAN

\* In every aggregate a request holds in memory the counters are the number of
\* its ballots, whatever mix of old and new votes the replay has read.
TalliesExact == \A t \in Threads : TallyExact(req[t].poll)

\* Every stored vote was submitted by the user it is counted for, and before
\* the end date: requests that put back each other's votes, fail half way or
\* straddle the end date never invent, misattribute or backdate one.
OnlyTimelyVotes == votes \subseteq inTime

Count(rows, k, e) == Cardinality({u \in Users : <<u, k, e>> \in rows})

ShowsStored(t) ==
  \A k \in Kinds, e \in Entries : req[t].poll.count[k][e] = Count(votes, k, e)

\* With one request at a time a result page shows exactly the stored votes
\* (ResultController, DatePollInfoAdapter.getAllDatePollResultDto).
ShownIsStored == \A t \in Threads : req[t].pc = "shown" => ShowsStored(t)

Quiescent == \A t \in Threads : req[t].pc = "idle"

AckedIsStored == \A u \in Users : Stored(u) = acked[u]

\* Requests may overlap in any way as long as none begins to load while
\* another puts votes back: then deleting the loaded rows is a lock that makes
\* all but one of the overlapping saves fail, and no answered vote is lost.
NoVoteLost == Quiescent /\ ~torn => AckedIsStored

AtMostOneYes == \A u \in Users : Cardinality(Stored(u)["yes"]) <= 1

\* Under the same condition nobody has two stored yes votes in a single choice
\* poll, however many tabs the user votes from at once.
OneYesUnlessTorn == SingleChoice /\ ~torn => AtMostOneYes

\* Each request is answered or fails, whatever the others do to its rows.
RequestAnswered ==
  \A t \in Threads : req[t].pc # "idle" ~> req[t].pc = "idle"
-----------------------------------------------------------------------------
\* With one request at a time the database implements a ballot box in which
\* each vote takes effect at once; votes still to be put back count as in it.
InBox(user) ==
  [k \in Kinds |->
     {e \in Entries : \/ <<user, k, e>> \in votes
                      \/ \E t \in Threads : <<user, k, e>> \in req[t].todo}]

Box == INSTANCE BallotBox WITH Participants <- Members \cup {Creator}, Empty <- NoSelection,
                               Ballots <- FormSelections,
                               box <- [u \in Users |-> InBox(u)]
BallotBoxSpec == Box!Spec
-----------------------------------------------------------------------------
\* What the documents say and the code does not do.

\* arc42-template-DE.md: the results of finished polls are presented.
FinalResultsComplete ==
  \A t \in Threads : req[t].pc = "shown" /\ ended => ShowsStored(t)

\* fileupload.md: in a public poll all logged in users may take part.
PublicResultsComplete ==
  Open => \A t \in Threads : req[t].pc = "shown" => ShowsStored(t)

\* DatePollRepositoryImpl.load: all entries a user voted for are loaded, and
\* save stores the aggregate, so a vote that was answered stays.
VotesKept == Quiescent => AckedIsStored
=============================================================================
