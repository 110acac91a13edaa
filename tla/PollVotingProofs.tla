-------------------------- MODULE PollVotingProofs --------------------------
(***************************************************************************)
(* What is proved of voting, for any number of users, entries, threads and *)
(* requests.  In all configurations and whatever the environment does:     *)
(* types, exact tallies in every aggregate held by a request, the origin   *)
(* of every stored vote, and one yes vote in a single choice poll.  While  *)
(* the environment does nothing: no answered vote is lost.  With a single  *)
(* thread: results are those stored, and voting implements BallotBox.      *)
(***************************************************************************)
EXTENDS PollVoting, DatePollProofs

\* What holds of a request at every step: its aggregate is good, and the votes
\* it has read, holds in ballots or still has to put back were all submitted
\* in time.  Only its user's own selection may be late, and then the poll is
\* over, which castBallot sees because the clock never runs back.
ReqGood(r) ==
  /\ r \in Request
  /\ GoodPoll(r.poll)
  /\ \A e \in r.yes : <<r.loading, "yes", e>> \in inTime
  /\ AllRows(r.poll) \subseteq inTime
  /\ r.todo \subseteq inTime
  /\ RowsOf(r.user, r.sel) \subseteq inTime \/ ended

\* The variables other than req have their types and every stored vote was
\* submitted in time.
StoreGood ==
  /\ ended \in BOOLEAN
  /\ members \subseteq Users
  /\ gen \in Nat
  /\ votes \subseteq inTime
  /\ served \in 0..MaxRequests
  /\ inTime \subseteq VoteRow
  /\ acked \in [Users -> Selection]
  /\ torn \in BOOLEAN

VotingInv ==
  /\ StoreGood
  /\ req \in [Threads -> Request]
  /\ \A t \in Threads : ReqGood(req[t])

\* A fresh aggregate has no ballots, so no rows.
LEMMA FreshRows == AllRows(FreshPoll(Entries)) = {}
BY DEF AllRows, FreshPoll, NoSelection, VoteRow

LEMMA NoRequestGood == inTime \subseteq VoteRow => ReqGood(NoRequest)
<1>1. GoodPoll(FreshPoll(Entries))
  BY FreshPollGood
<1>2. NoSelection \in Selection
  BY DEF NoSelection, Selection
<1>3. NoRequest \in Request
  BY <1>1, <1>2, CreatorType DEF NoRequest, Request, Pcs, GoodPoll
<1>4. RowsOf(Creator, NoSelection) = {}
  BY DEF RowsOf, NoSelection, VoteRow
<1> QED BY <1>1, <1>3, <1>4, FreshRows DEF ReqGood, NoRequest

LEMMA VotingInit == Init => VotingInv
<1> SUFFICES ASSUME Init PROVE VotingInv
  OBVIOUS
<1>1. NoSelection \in Selection
  BY DEF NoSelection, Selection
<1>2. StoreGood
  <2>1. ended \in BOOLEAN
    BY DEF Init
  <2>2. served \in 0..MaxRequests /\ gen \in Nat
    BY MaxRequestsType DEF Init
  <2>3. acked \in [Users -> Selection]
    BY <1>1 DEF Init
  <2>4. members \subseteq Users
    BY MembersType DEF Init
  <2>5. votes \subseteq inTime /\ inTime \subseteq VoteRow /\ torn \in BOOLEAN
    BY DEF Init
  <2> QED BY <2>1, <2>2, <2>3, <2>4, <2>5 DEF StoreGood
<1>3. ReqGood(NoRequest)
  BY <1>2, NoRequestGood DEF StoreGood
<1> QED BY <1>2, <1>3 DEF Init, VotingInv, ReqGood

\* Casting adds to the rows of an aggregate at most those of the selection
\* cast, and after the end it adds none.
LEMMA CastRows ==
  ASSUME NEW p, GoodPoll(p), NEW u \in Users, NEW sel \in Selection,
         NEW over \in BOOLEAN
  PROVE  LET q == CastBallot(p, u, sel, over)
         IN  /\ AllRows(q) \subseteq AllRows(p) \cup RowsOf(u, sel)
             /\ over => AllRows(q) = AllRows(p)
<1> DEFINE q == CastBallot(p, u, sel, over)
           now == UpdatePollStatus(p, over)
<1>1. CASE Refuses(now, sel)
  <2>1. q = now
    BY <1>1, CastBallots
  <2>2. q.ballots = p.ballots
    BY <2>1, StatusFields DEF GoodPoll
  <2> HIDE DEF q
  <2> QED BY <2>2 DEF AllRows, q
<1>2. CASE ~Refuses(now, sel)
  <2>1. \A v \in Users, k \in Kinds :
          q.ballots[v][k] = IF v = u THEN sel[k] ELSE p.ballots[v][k]
    BY <1>2, CastBallots
  <2>2. ~over
    BY <1>2, StatusFields DEF Refuses, GoodPoll
  <2> HIDE DEF q
  <2>3. AllRows(q) \subseteq AllRows(p) \cup RowsOf(u, sel)
    <3> SUFFICES ASSUME NEW r \in AllRows(q), r \notin RowsOf(u, sel)
                 PROVE  r \in AllRows(p)
      OBVIOUS
    <3>1. r \in VoteRow /\ r[1] \in Users /\ r[2] \in Kinds
      BY DEF AllRows, VoteRow
    <3> QED BY <2>1, <3>1 DEF AllRows, RowsOf
  <2> QED BY <2>2, <2>3 DEF q
<1> QED BY <1>1, <1>2

\* A step that changes the request of one thread, and the history only by
\* growing it, keeps the invariant if the new request is good.
LEMMA ReqStep ==
  ASSUME VotingInv, NEW t \in Threads, NEW r,
         req' = [req EXCEPT ![t] = r],
         ReqGood(r)', StoreGood',
         inTime \subseteq inTime', ended => ended'
  PROVE  VotingInv'
<1>1. r \in Request
  BY DEF ReqGood
<1>2. req' \in [Threads -> Request]
  BY <1>1 DEF VotingInv
<1>3. ASSUME NEW s \in Threads PROVE ReqGood(req[s])'
  <2>1. CASE s = t
    BY <2>1 DEF VotingInv
  <2>2. CASE s # t
    <3>1. req'[s] = req[s]
      BY <2>2 DEF VotingInv
    <3> QED BY <3>1 DEF VotingInv, ReqGood
  <2> QED BY <2>1, <2>2
<1> QED BY <1>2, <1>3 DEF VotingInv

\* A step after which no request has changed, and the history and the store
\* are still good, keeps the invariant.
LEMMA EnvironmentStep ==
  ASSUME VotingInv, UNCHANGED req, StoreGood',
         inTime \subseteq inTime', ended => ended'
  PROVE  VotingInv'
<1>1. ASSUME NEW s \in Threads PROVE ReqGood(req[s])'
  BY DEF VotingInv, ReqGood
<1> QED BY <1>1 DEF VotingInv

\* A thread drops its request, and the store stays good.
LEMMA DropStep ==
  ASSUME VotingInv, NEW t \in Threads,
         req' = [req EXCEPT ![t] = NoRequest],
         StoreGood', inTime' = inTime, ended => ended'
  PROVE  VotingInv'
<1>1. ReqGood(NoRequest)'
  <2>1. ReqGood(NoRequest)
    BY NoRequestGood DEF VotingInv, StoreGood
  <2>2. AllRows(NoRequest.poll) \subseteq inTime' /\ RowsOf(NoRequest.user, NoRequest.sel) \subseteq inTime'
    <3>1. RowsOf(NoRequest.user, NoRequest.sel) = {}
      BY DEF NoRequest, RowsOf, NoSelection, VoteRow
    <3> QED BY <2>1, <3>1 DEF ReqGood
  <2> QED BY <2>1, <2>2 DEF ReqGood
<1> QED BY <1>1, ReqStep

\* What a selection of some kinds and entries is, and what its rows are.
LEMMA SelectionParts ==
  ASSUME NEW u \in Users, NEW Y \in SUBSET Entries, NEW M \in SUBSET Entries,
         NEW sel, sel = [k \in Kinds |-> IF k = "yes" THEN Y ELSE M],
         NEW S, \A e \in Y : <<u, "yes", e>> \in S,
                \A e \in M : <<u, "maybe", e>> \in S
  PROVE  sel \in Selection /\ RowsOf(u, sel) \subseteq S
<1>1. sel \in Selection
  BY DEF Selection
<1> SUFFICES ASSUME NEW r \in RowsOf(u, sel) PROVE r \in S
  BY <1>1
<1>2. /\ r \in VoteRow /\ r[1] = u
      /\ r[3] \in sel[r[2]] /\ r[2] \in Kinds
      /\ r = <<r[1], r[2], r[3]>>
  BY DEF RowsOf, VoteRow
<1>3. CASE r[2] = "yes"
  BY <1>2, <1>3
<1>4. CASE r[2] = "maybe"
  BY <1>2, <1>4
<1> QED BY <1>2, <1>3, <1>4 DEF Kinds

\* A request of good fields that differs from a good one only in fields that
\* name no vote is good.
LEMMA SameStore ==
  ASSUME VotingInv, UNCHANGED <<ended, members, gen, votes, inTime, torn>>,
         served' \in 0..MaxRequests, acked' \in [Users -> Selection]
  PROVE  /\ StoreGood'
         /\ inTime \subseteq inTime' /\ ended => ended'
         /\ \A r : ReqGood(r) => ReqGood(r)'
<1>1. StoreGood'
  BY DEF VotingInv, StoreGood
<1>2. ended' = ended
  OBVIOUS
<1>3. \A r : ReqGood(r) => ReqGood(r)'
  BY <1>2 DEF ReqGood
<1> QED BY <1>1, <1>2, <1>3
-----------------------------------------------------------------------------
LEMMA BeginStep ==
  ASSUME VotingInv, NEW t \in Threads, NEW isVote \in BOOLEAN,
         NEW u \in Users, NEW sel \in Selection, Begin(t, isVote, u, sel),
         inTime' \subseteq VoteRow, inTime \subseteq inTime',
         RowsOf(u, sel) \subseteq inTime' \/ ended'
  PROVE  VotingInv'
<1>0. PICK r : r = [NoRequest EXCEPT !.pc = "loading", !.vote = isVote,
                      !.user = u, !.sel = sel, !.rowsGen = gen,
                      !.group = GroupUsers, !.toLoad = GroupUsers]
  OBVIOUS
<1>1. GroupUsers \subseteq Users
  BY CreatorType DEF VotingInv, StoreGood, GroupUsers
<1>2. ReqGood(NoRequest)
  BY NoRequestGood DEF VotingInv, StoreGood
<1>3. r \in Request
  BY <1>0, <1>1, <1>2 DEF ReqGood, Request, Pcs, VotingInv, StoreGood
<1>4. /\ r.poll = NoRequest.poll /\ r.yes = {} /\ r.todo = {}
      /\ r.user = u /\ r.sel = sel
  BY <1>0 DEF NoRequest
<1>5. AllRows(r.poll) \subseteq inTime'
  BY <1>2, <1>4 DEF ReqGood
<1>6. ReqGood(r)'
  BY <1>2, <1>3, <1>4, <1>5 DEF ReqGood
<1>7. StoreGood'
  <2>1. served' \in 0..MaxRequests
    BY MaxRequestsType DEF Begin, VotingInv, StoreGood
  <2>2. torn' \in BOOLEAN
    BY DEF Begin, VotingInv, StoreGood
  <2> QED BY <2>1, <2>2 DEF Begin, VotingInv, StoreGood
<1>8. req' = [req EXCEPT ![t] = r] /\ ended' = ended
  BY <1>0 DEF Begin
<1> QED BY <1>6, <1>7, <1>8, ReqStep

LEMMA FormSelection == FormSelections \subseteq Selection
BY DEF FormSelections

LEMMA BeginVoteStep ==
  ASSUME VotingInv, NEW t \in Threads, NEW u \in Users,
         NEW sel \in FormSelections, BeginVote(t, u, sel)
  PROVE  VotingInv'
<1>1. RowsOf(u, sel) \subseteq VoteRow
  BY DEF RowsOf
<1>2. ended' = ended
  BY DEF BeginVote, Begin
<1>3. inTime' \subseteq VoteRow /\ inTime \subseteq inTime'
  BY <1>1 DEF BeginVote, VotingInv, StoreGood
<1>4. RowsOf(u, sel) \subseteq inTime' \/ ended'
  BY <1>2 DEF BeginVote
<1> QED BY <1>3, <1>4, FormSelection, BeginStep DEF BeginVote

LEMMA BeginViewStep ==
  ASSUME VotingInv, NEW t \in Threads, BeginView(t)
  PROVE  VotingInv'
<1>1. NoSelection \in Selection
  BY DEF NoSelection, Selection
<1>2. RowsOf(Creator, NoSelection) = {}
  BY DEF RowsOf, NoSelection, VoteRow
<1>3. inTime' \subseteq VoteRow /\ inTime \subseteq inTime'
  BY DEF BeginView, VotingInv, StoreGood
<1> QED BY <1>1, <1>2, <1>3, CreatorType, BeginStep DEF BeginView

LEMMA QueryYesStep ==
  ASSUME VotingInv, NEW t \in Threads, NEW u \in Users, QueryYes(t, u)
  PROVE  VotingInv'
<1> DEFINE r == [req[t] EXCEPT !.pc = "querying", !.toLoad = @ \ {u},
                               !.loading = u, !.yes = Stored(u)["yes"]]
<1>1. ReqGood(req[t]) /\ req[t] \in Request
  BY DEF VotingInv, ReqGood
<1>2. Stored(u)["yes"] = {e \in Entries : <<u, "yes", e>> \in votes}
  BY DEF Stored, Kinds
<1>3. /\ r \in Request /\ r.poll = req[t].poll /\ r.todo = req[t].todo
      /\ r.user = req[t].user /\ r.sel = req[t].sel
      /\ r.loading = u /\ r.yes = Stored(u)["yes"]
  BY <1>1, <1>2 DEF Request, Pcs
<1>4. ReqGood(r)
  <2> HIDE DEF r
  <2> QED BY <1>1, <1>2, <1>3 DEF ReqGood, VotingInv, StoreGood
<1>5. req' = [req EXCEPT ![t] = r]
  BY DEF QueryYes, VotingInv
<1> HIDE DEF r
<1> QED BY <1>4, <1>5, SameStore, ReqStep DEF QueryYes, VotingInv, StoreGood

\* The replay casts votes that are stored, so they were submitted in time.
LEMMA QueryMaybeStep ==
  ASSUME VotingInv, NEW t \in Threads, QueryMaybe(t)
  PROVE  VotingInv'
<1> DEFINE u      == req[t].loading
           maybe  == {e \in Entries : <<u, "maybe", e>> \in votes}
           sel    == [k \in Kinds |-> IF k = "yes" THEN req[t].yes ELSE maybe]
           once   == CastBallot(req[t].poll, u, sel, ended)
           replay == IF sel["yes"] = {} THEN CastBallot(once, u, sel, ended)
                                        ELSE once
           r == [req[t] EXCEPT !.pc = "loading", !.poll = replay,
                               !.loading = Creator, !.yes = {}]
<1>1. ReqGood(req[t]) /\ req[t] \in Request
  BY DEF VotingInv, ReqGood
<1>2. ended \in BOOLEAN /\ u \in Users /\ req[t].yes \in SUBSET Entries
  BY <1>1 DEF VotingInv, StoreGood, Request
<1>3. sel \in Selection /\ RowsOf(u, sel) \subseteq inTime
  <2>1. \A e \in req[t].yes : <<u, "yes", e>> \in inTime
    BY <1>1 DEF ReqGood
  <2>2. \A e \in maybe : <<u, "maybe", e>> \in inTime
    BY DEF VotingInv, StoreGood
  <2>3. maybe \in SUBSET Entries
    OBVIOUS
  <2>4. sel = [k \in Kinds |-> IF k = "yes" THEN req[t].yes ELSE maybe]
    OBVIOUS
  <2> HIDE DEF u, maybe, sel
  <2> QED BY <1>2, <2>1, <2>2, <2>3, <2>4, SelectionParts
<1>4. req' = [req EXCEPT ![t] = r]
  <2>1. Stored(u)["maybe"] = maybe
    BY DEF Stored, Kinds
  <2>2. sel = [k \in Kinds |-> IF k = "yes" THEN req[t].yes
                                           ELSE Stored(u)["maybe"]]
    BY <2>1
  <2> HIDE DEF maybe
  <2> QED BY <2>2, Zenon DEF QueryMaybe, VotingInv
<1> HIDE DEF sel
<1>5. GoodPoll(once) /\ AllRows(once) \subseteq inTime
  <2>1. GoodPoll(req[t].poll) /\ AllRows(req[t].poll) \subseteq inTime
    BY <1>1 DEF ReqGood
  <2> HIDE DEF u
  <2> QED BY <1>2, <1>3, <2>1, CastBallotGood, CastRows
<1> HIDE DEF once
<1>6. GoodPoll(replay) /\ AllRows(replay) \subseteq inTime
  <2> HIDE DEF u
  <2>1. CASE sel["yes"] = {}
    BY <1>2, <1>3, <1>5, <2>1, CastBallotGood, CastRows
  <2>2. CASE sel["yes"] # {}
    BY <1>5, <2>2
  <2> QED BY <2>1, <2>2
<1> HIDE DEF replay
<1>7. /\ r \in Request /\ r.poll = replay /\ r.todo = req[t].todo
      /\ r.user = req[t].user /\ r.sel = req[t].sel /\ r.yes = {}
  BY <1>1, <1>6, CreatorType DEF Request, Pcs, GoodPoll
<1>8. ReqGood(r)
  <2> HIDE DEF r
  <2> QED BY <1>1, <1>6, <1>7 DEF ReqGood
<1> HIDE DEF r
<1> QED BY <1>4, <1>8, SameStore, ReqStep DEF QueryMaybe, VotingInv, StoreGood

\* A vote that is late is refused, because the poll is over for castBallot too.
LEMMA VoteStep ==
  ASSUME VotingInv, NEW t \in Threads, Vote(t)
  PROVE  VotingInv'
<1>1. ReqGood(req[t]) /\ req[t] \in Request
  BY DEF VotingInv, ReqGood
<1>2. PICK p : p = CastBallot(req[t].poll, req[t].user, req[t].sel, ended)
  OBVIOUS
<1>3. /\ req[t].user \in Users /\ req[t].sel \in Selection
      /\ ended \in BOOLEAN /\ GoodPoll(req[t].poll)
  BY <1>1 DEF VotingInv, StoreGood, Request, ReqGood
<1>4. GoodPoll(p)
  BY <1>2, <1>3, CastBallotGood
<1>5. AllRows(p) \subseteq inTime
  <2>1. /\ AllRows(p) \subseteq AllRows(req[t].poll)
                                \cup RowsOf(req[t].user, req[t].sel)
        /\ ended => AllRows(p) = AllRows(req[t].poll)
    BY <1>2, <1>3, CastRows
  <2> QED BY <1>1, <2>1 DEF ReqGood
<1>6. PICK r : r = [req[t] EXCEPT !.pc = "saving", !.poll = p]
  OBVIOUS
<1>7. /\ r \in Request /\ r.poll = p /\ r.todo = req[t].todo
      /\ r.user = req[t].user /\ r.sel = req[t].sel
      /\ r.loading = req[t].loading /\ r.yes = req[t].yes
  BY <1>1, <1>4, <1>6 DEF Request, Pcs, GoodPoll
<1>8. ReqGood(r)
  BY <1>1, <1>4, <1>5, <1>7 DEF ReqGood
<1>9. req' = [req EXCEPT ![t] = r]
  BY <1>2, <1>6 DEF Vote, VotingInv
<1> QED BY <1>8, <1>9, SameStore, ReqStep DEF Vote, VotingInv, StoreGood

LEMMA ShowStep ==
  ASSUME VotingInv, NEW t \in Threads, ShowResults(t)
  PROVE  VotingInv'
<1>1. ReqGood(req[t]) /\ req[t] \in Request
  BY DEF VotingInv, ReqGood
<1>2. PICK r : r = [req[t] EXCEPT !.pc = "shown"]
  OBVIOUS
<1>3. /\ r \in Request /\ r.poll = req[t].poll /\ r.todo = req[t].todo
      /\ r.user = req[t].user /\ r.sel = req[t].sel
      /\ r.loading = req[t].loading /\ r.yes = req[t].yes
  BY <1>1, <1>2 DEF Request, Pcs
<1>4. ReqGood(r)
  BY <1>1, <1>3 DEF ReqGood
<1>5. req' = [req EXCEPT ![t] = r]
  BY <1>2 DEF ShowResults, VotingInv
<1> QED BY <1>4, <1>5, SameStore, ReqStep DEF ShowResults, VotingInv, StoreGood

\* The request drops out: it is denied, fails, or has shown its page.
LEMMA DropOut ==
  ASSUME VotingInv, NEW t \in Threads,
         Deny(t) \/ StaleRows(t) \/ FinishView(t) \/ DbError(t)
  PROVE  VotingInv'
<1>1. /\ req' = [req EXCEPT ![t] = NoRequest]
      /\ UNCHANGED <<ended, members, gen, votes, served, inTime, acked, torn>>
  BY DEF Deny, StaleRows, FinishView, DbError
<1> QED BY <1>1, SameStore, DropStep DEF VotingInv, StoreGood

\* The votes to put back are those of the aggregate.
LEMMA ReplaceStep ==
  ASSUME VotingInv, NEW t \in Threads, ReplaceRows(t)
  PROVE  VotingInv'
<1>1. ReqGood(req[t]) /\ req[t] \in Request
  BY DEF VotingInv, ReqGood
<1>2. AllRows(req[t].poll) \subseteq inTime /\ AllRows(req[t].poll) \subseteq VoteRow
  BY <1>1 DEF ReqGood, AllRows
<1>3. PICK r : r = [req[t] EXCEPT !.pc = "restoring",
                                  !.todo = AllRows(req[t].poll)]
  OBVIOUS
<1>4. /\ r \in Request /\ r.poll = req[t].poll /\ r.todo = AllRows(req[t].poll)
      /\ r.user = req[t].user /\ r.sel = req[t].sel
      /\ r.loading = req[t].loading /\ r.yes = req[t].yes
  BY <1>1, <1>2, <1>3 DEF Request, Pcs
<1>5. UNCHANGED <<inTime, ended>>
  BY DEF ReplaceRows
<1>6. ReqGood(r)'
  BY <1>1, <1>2, <1>4, <1>5 DEF ReqGood
<1>7. StoreGood'
  BY DEF ReplaceRows, VotingInv, StoreGood
<1>8. req' = [req EXCEPT ![t] = r]
  BY <1>3 DEF ReplaceRows, VotingInv
<1> QED BY <1>5, <1>6, <1>7, <1>8, ReqStep

LEMMA RestoreStep ==
  ASSUME VotingInv, NEW t \in Threads, NEW row \in VoteRow, RestoreVote(t, row)
  PROVE  VotingInv'
<1>1. ReqGood(req[t]) /\ req[t] \in Request
  BY DEF VotingInv, ReqGood
<1>2. row \in req[t].todo
  BY DEF RestoreVote, NextRows
<1>3. PICK r : r = [req[t] EXCEPT !.todo = @ \ {row}]
  OBVIOUS
<1>4. /\ r \in Request /\ r.poll = req[t].poll /\ r.todo = req[t].todo \ {row}
      /\ r.user = req[t].user /\ r.sel = req[t].sel
      /\ r.loading = req[t].loading /\ r.yes = req[t].yes
  BY <1>1, <1>3 DEF Request
<1>5. UNCHANGED <<inTime, ended>>
  BY DEF RestoreVote
<1>6. ReqGood(r)'
  BY <1>1, <1>4, <1>5 DEF ReqGood
<1>7. StoreGood'
  BY <1>1, <1>2 DEF RestoreVote, VotingInv, StoreGood, ReqGood
<1>8. req' = [req EXCEPT ![t] = r]
  BY <1>3 DEF RestoreVote, VotingInv
<1> QED BY <1>5, <1>6, <1>7, <1>8, ReqStep

LEMMA FinishStep ==
  ASSUME VotingInv, NEW t \in Threads, FinishVote(t)
  PROVE  VotingInv'
<1>1. req[t] \in Request
  BY DEF VotingInv
<1>2. req[t].poll.ballots[req[t].user] \in Selection
  BY <1>1 DEF Request, Poll
<1>3. acked' \in [Users -> Selection]
  BY <1>2 DEF FinishVote, VotingInv, StoreGood
<1> QED BY <1>3, SameStore, DropStep DEF FinishVote, VotingInv, StoreGood

LEMMA PeriodStep ==
  ASSUME VotingInv, PeriodEnds
  PROVE  VotingInv'
<1>1. ended' \in BOOLEAN /\ (ended => ended')
  BY DEF PeriodEnds
<1>2. UNCHANGED <<members, gen, votes, req, served, inTime, acked, torn>>
  BY DEF PeriodEnds
<1> QED BY <1>1, <1>2, EnvironmentStep DEF VotingInv, StoreGood

LEMMA SyncStep ==
  ASSUME VotingInv, NEW now \in SUBSET (Users \ {Creator}), SyncMembers(now)
  PROVE  VotingInv'
<1>1. StoreGood' /\ UNCHANGED <<req, inTime, ended>>
  BY DEF SyncMembers, VotingInv, StoreGood
<1> QED BY <1>1, EnvironmentStep
-----------------------------------------------------------------------------
LEMMA WorkStep ==
  ASSUME VotingInv, NEW t \in Threads, Work(t)
  PROVE  VotingInv'
<1>1. CASE \E u \in Users : QueryYes(t, u)
  BY <1>1, QueryYesStep
<1>2. CASE QueryMaybe(t)
  BY <1>2, QueryMaybeStep
<1>3. CASE Vote(t)
  BY <1>3, VoteStep
<1>4. CASE Deny(t) \/ StaleRows(t) \/ FinishView(t)
  BY <1>4, DropOut
<1>5. CASE ShowResults(t)
  BY <1>5, ShowStep
<1>6. CASE ReplaceRows(t)
  BY <1>6, ReplaceStep
<1>7. CASE \E row \in VoteRow : RestoreVote(t, row)
  BY <1>7, RestoreStep
<1>8. CASE FinishVote(t)
  BY <1>8, FinishStep
<1> QED BY <1>1, <1>2, <1>3, <1>4, <1>5, <1>6, <1>7, <1>8 DEF Work

LEMMA VotingNext == VotingInv /\ [Next]_vars => VotingInv'
<1> SUFFICES ASSUME VotingInv, [Next]_vars PROVE VotingInv'
  OBVIOUS
<1>1. ASSUME NEW t \in Threads, NEW u \in Users, NEW sel \in FormSelections,
             BeginVote(t, u, sel)
      PROVE  VotingInv'
  BY <1>1, BeginVoteStep
<1>2. ASSUME NEW t \in Threads, BeginView(t) PROVE VotingInv'
  BY <1>2, BeginViewStep
<1>3. ASSUME NEW t \in Threads, Work(t) PROVE VotingInv'
  BY <1>3, WorkStep
<1>4. ASSUME NEW t \in Threads, DbError(t) PROVE VotingInv'
  BY <1>4, DropOut
<1>5. CASE PeriodEnds
  BY <1>5, PeriodStep
<1>6. ASSUME NEW now \in SUBSET (Users \ {Creator}), SyncMembers(now) PROVE VotingInv'
  BY <1>6, SyncStep
<1>7. CASE Quiet \/ UNCHANGED vars
  <2>1. UNCHANGED <<ended, members, gen, votes, req, served, inTime, acked, torn>>
    BY <1>7 DEF Quiet, vars
  <2> QED BY <2>1, EnvironmentStep DEF VotingInv, StoreGood
<1> QED BY <1>1, <1>2, <1>3, <1>4, <1>5, <1>6, <1>7 DEF Next

\* The invariant holds in every reachable state.
THEOREM VotingInvariant == Spec => []VotingInv
<1> QED BY VotingInit, VotingNext, PTL DEF Spec

\* Every variable of the voting system keeps its type (the fields of the
\* request, session and database that the code's classes declare).
THEOREM VotingTypeOK == Spec => []TypeOK
<1>1. VotingInv => TypeOK
  <2> SUFFICES ASSUME VotingInv,
                      NEW t \in Threads, NEW k \in Kinds, NEW e \in req[t].poll.entries
               PROVE  req[t].poll.count[k][e] >= 0
    BY DEF VotingInv, StoreGood, TypeOK
  <2>1. GoodPoll(req[t].poll)
    BY DEF VotingInv, ReqGood
  <2> QED BY <2>1, VotersFinite DEF GoodPoll, TallyExact
<1> QED BY <1>1, VotingInvariant, PTL

\* In every aggregate a request has loaded, whatever mix of old and new rows
\* its queries read, the counters are the number of ballots.
THEOREM VotingTalliesExact == Spec => []TalliesExact
<1>1. VotingInv => TalliesExact
  BY DEF VotingInv, ReqGood, GoodPoll, TalliesExact
<1> QED BY <1>1, VotingInvariant, PTL

\* No stored vote is invented, credited to another user or submitted after the
\* end date, however requests overlap, fail or straddle that date.
THEOREM VotingOnlyTimelyVotes == Spec => []OnlyTimelyVotes
<1>1. VotingInv => OnlyTimelyVotes
  BY DEF VotingInv, StoreGood, OnlyTimelyVotes
<1> QED BY <1>1, VotingInvariant, PTL
-----------------------------------------------------------------------------
(***************************************************************************)
(* Deleting the loaded rows as a lock.  Nothing in the code is meant to    *)
(* exclude two saves, but as long as no request begins to load while       *)
(* another puts votes back, the check that the loaded rows are still there *)
(* does it: a request that has loaded the stored rows excludes another one *)
(* from putting votes back.                                                *)
(***************************************************************************)

\* A request that has loaded rows and will not have replaced them.
Loaders == {"loading", "querying", "saving", "shown"}

\* No thread has replaced the rows and not yet put all votes back.
NoneRestores == \A t \in Threads : req[t].pc # "restoring"

\* The thread that puts votes back is the only one, nobody has loaded the rows
\* it has stored, and stored votes and those still to be put back are those
\* of its aggregate.
Locked(t) ==
  /\ votes \cup req[t].todo = AllRows(req[t].poll)
  /\ \A s \in Threads : req[s].pc \in Loaders => req[s].rowsGen # gen
  /\ \A s \in Threads \ {t} : req[s].pc # "restoring"

\* No aggregate has two yes votes of a user where one is allowed, and unless a
\* load began too early, neither has the database.
LockInv ==
  /\ \A t \in Threads : req[t].rowsGen <= gen /\ OneYesIn(req[t].poll)
  /\ ~torn => (SingleChoice => AtMostOneYes)
  /\ ~torn => \A t \in Threads : req[t].pc = "restoring" => Locked(t)

\* What a step of one thread keeps that replaces no rows and puts no vote back.
LEMMA LockReqStep ==
  ASSUME VotingInv, LockInv, NEW t \in Threads, NEW r \in Request,
         req' = [req EXCEPT ![t] = r], UNCHANGED <<gen, votes>>,
         torn => torn', r.pc # "restoring",
         r.rowsGen <= gen, OneYesIn(r.poll),
         r.pc \in Loaders =>
           torn' \/ NoneRestores \/ (req[t].pc \in Loaders /\ r.rowsGen = req[t].rowsGen)
  PROVE  LockInv'
<1>1. /\ req'[t] = r
      /\ \A s \in Threads \ {t} : req'[s] = req[s]
  BY DEF VotingInv
<1>2. \A s \in Threads : req'[s].rowsGen <= gen' /\ OneYesIn(req'[s].poll)
  BY <1>1 DEF LockInv
<1>3. ASSUME ~torn', SingleChoice PROVE AtMostOneYes'
  BY <1>3 DEF LockInv, AtMostOneYes, Stored
<1>4. ASSUME ~torn', NEW s \in Threads, req'[s].pc = "restoring"
      PROVE  Locked(s)'
  <2>1. s # t /\ req'[s] = req[s]
    BY <1>1, <1>4
  <2>2. Locked(s) /\ ~NoneRestores
    BY <1>4, <2>1 DEF LockInv, NoneRestores
  <2>3. ASSUME NEW q \in Threads, req'[q].pc \in Loaders
        PROVE  req'[q].rowsGen # gen'
    <3>1. CASE q = t
      BY <1>1, <1>4, <2>2, <2>3, <3>1 DEF Locked
    <3>2. CASE q # t
      BY <1>1, <2>2, <2>3, <3>2 DEF Locked
    <3> QED BY <3>1, <3>2
  <2>4. \A q \in Threads \ {s} : req'[q].pc # "restoring"
    BY <1>1, <2>2 DEF Locked
  <2>5. votes' \cup req'[s].todo = AllRows(req'[s].poll)
    BY <2>1, <2>2 DEF Locked
  <2> QED BY <2>3, <2>4, <2>5 DEF Locked
<1> QED BY <1>2, <1>3, <1>4 DEF LockInv

\* The rows the request has loaded are still there, so nobody is putting
\* votes back, and whoever else has loaded them will find them gone.
LEMMA LockReplace ==
  ASSUME VotingInv, LockInv, NEW t \in Threads, ReplaceRows(t)
  PROVE  LockInv'
<1>1. req[t] \in Request /\ gen \in Nat /\ \A s \in Threads : req[s].rowsGen \in Nat
  BY DEF VotingInv, StoreGood, Request
<1>2. PICK r : r = [req[t] EXCEPT !.pc = "restoring",
                                  !.todo = AllRows(req[t].poll)]
  OBVIOUS
<1>3. /\ r.pc = "restoring" /\ r.todo = AllRows(req[t].poll)
      /\ r.poll = req[t].poll /\ r.rowsGen = req[t].rowsGen
  BY <1>1, <1>2 DEF Request
<1>4. /\ req'[t] = r
      /\ \A s \in Threads \ {t} : req'[s] = req[s]
  BY <1>2 DEF ReplaceRows, VotingInv
<1>5. gen' = gen + 1 /\ votes' = {} /\ torn' = torn
  BY DEF ReplaceRows
<1>6. \A s \in Threads : req[s].rowsGen <= gen
  BY DEF LockInv
<1>7. \A s \in Threads : req'[s].rowsGen <= gen' /\ OneYesIn(req'[s].poll)
  BY <1>1, <1>3, <1>4, <1>5, <1>6 DEF LockInv
<1>8. SingleChoice => AtMostOneYes'
  <2>1. \A u \in Users : Stored(u)'["yes"] = {}
    BY <1>5 DEF Stored, Kinds
  <2>2. Cardinality({}) = 0
    BY FS_EmptySet
  <2> QED BY <2>1, <2>2 DEF AtMostOneYes
<1>9. ASSUME ~torn', NEW s \in Threads, req'[s].pc = "restoring"
      PROVE  Locked(s)'
  <2>1. req[t].pc \in Loaders /\ req[t].rowsGen = gen
    BY DEF ReplaceRows, RowsUnchanged, Loaders
  <2>2. NoneRestores
    BY <1>5, <1>9, <2>1 DEF LockInv, Locked, NoneRestores
  <2>3. s = t
    BY <1>4, <1>9, <2>2 DEF NoneRestores
  <2>4. votes' \cup req'[t].todo = AllRows(req'[t].poll)
    BY <1>3, <1>4, <1>5
  <2>5. \A q \in Threads : req'[q].rowsGen # gen'
    BY <1>1, <1>3, <1>4, <1>5, <1>6
  <2>6. \A q \in Threads \ {t} : req'[q].pc # "restoring"
    BY <1>4, <2>2 DEF NoneRestores
  <2> QED BY <2>3, <2>4, <2>5, <2>6 DEF Locked
<1> QED BY <1>7, <1>8, <1>9 DEF LockInv

\* The vote put back is one of the aggregate's, as are those stored already.
LEMMA LockRestore ==
  ASSUME VotingInv, LockInv, NEW t \in Threads, NEW row \in VoteRow,
         RestoreVote(t, row)
  PROVE  LockInv'
<1>1. req[t] \in Request
  BY DEF VotingInv
<1>2. row \in req[t].todo
  BY DEF RestoreVote, NextRows
<1>3. PICK r : r = [req[t] EXCEPT !.todo = @ \ {row}]
  OBVIOUS
<1>4. /\ r.pc = req[t].pc /\ r.todo = req[t].todo \ {row}
      /\ r.poll = req[t].poll /\ r.rowsGen = req[t].rowsGen
  BY <1>1, <1>3 DEF Request
<1>5. /\ req'[t] = r
      /\ \A s \in Threads \ {t} : req'[s] = req[s]
  BY <1>3 DEF RestoreVote, VotingInv
<1>6. gen' = gen /\ votes' = votes \cup {row} /\ torn' = torn
  BY DEF RestoreVote
<1>7. \A s \in Threads : req'[s].rowsGen <= gen' /\ OneYesIn(req'[s].poll)
  BY <1>4, <1>5, <1>6 DEF LockInv
<1>8. ~torn => Locked(t)
  BY DEF LockInv, RestoreVote
<1>9. ASSUME ~torn', SingleChoice, NEW u \in Users
      PROVE  Cardinality(Stored(u)'["yes"]) <= 1
  <2>1. votes' \subseteq AllRows(req[t].poll)
    BY <1>2, <1>6, <1>8, <1>9 DEF Locked
  <2>2. Stored(u)'["yes"] \subseteq req[t].poll.ballots[u]["yes"]
    BY <2>1 DEF Stored, Kinds, AllRows
  <2>3. req[t].poll.ballots[u] \in Selection
    BY <1>1 DEF Request, Poll
  <2>4. IsFiniteSet(req[t].poll.ballots[u]["yes"])
    BY <2>3, EntriesFinite, FS_Subset DEF Selection, Kinds
  <2>5. Cardinality(req[t].poll.ballots[u]["yes"]) <= 1
    BY <1>9 DEF LockInv, OneYesIn
  <2>6. Cardinality(Stored(u)'["yes"]) <= Cardinality(req[t].poll.ballots[u]["yes"])
    BY <2>2, <2>4, FS_Subset
  <2>7. /\ Cardinality(Stored(u)'["yes"]) \in Nat
        /\ Cardinality(req[t].poll.ballots[u]["yes"]) \in Nat
    BY <2>2, <2>4, FS_Subset, FS_CardinalityType
  <2> QED BY <2>5, <2>6, <2>7
<1>10. ASSUME ~torn', NEW s \in Threads, req'[s].pc = "restoring"
       PROVE  Locked(s)'
  <2>1. Locked(t)
    BY <1>6, <1>8, <1>10
  <2>2. s = t
    BY <1>5, <1>10, <2>1 DEF Locked
  <2>3. votes' \cup req'[t].todo = AllRows(req'[t].poll)
    BY <1>2, <1>4, <1>5, <1>6, <2>1 DEF Locked
  <2>4. \A q \in Threads : req'[q].pc = req[q].pc /\ req'[q].rowsGen = req[q].rowsGen
    BY <1>4, <1>5
  <2> QED BY <1>6, <2>1, <2>2, <2>3, <2>4 DEF Locked
<1> QED BY <1>7, <1>9, <1>10 DEF LockInv, AtMostOneYes

LEMMA LockBegin ==
  ASSUME VotingInv, LockInv, NEW t \in Threads, NEW isVote \in BOOLEAN,
         NEW u \in Users, NEW sel \in Selection, Begin(t, isVote, u, sel)
  PROVE  LockInv'
<1>1. PICK r : r = [NoRequest EXCEPT !.pc = "loading", !.vote = isVote,
                      !.user = u, !.sel = sel, !.rowsGen = gen,
                      !.group = GroupUsers, !.toLoad = GroupUsers]
  OBVIOUS
<1>2. GroupUsers \subseteq Users /\ gen \in Nat
  BY CreatorType DEF VotingInv, StoreGood, GroupUsers
<1>3. NoRequest \in Request
  BY NoRequestGood DEF VotingInv, StoreGood, ReqGood
<1>4. /\ r \in Request /\ r.pc = "loading" /\ r.rowsGen = gen
      /\ r.poll = FreshPoll(Entries)
  <2>1. r.poll = NoRequest.poll /\ NoRequest.poll = FreshPoll(Entries)
    BY <1>1 DEF NoRequest
  <2>2. r \in Request
    BY <1>1, <1>2, <1>3 DEF Request, Pcs
  <2>3. r.pc = "loading" /\ r.rowsGen = gen
    BY <1>1, <1>3 DEF Request
  <2> QED BY <2>1, <2>2, <2>3
<1>5. OneYesIn(r.poll)
  BY <1>4, FreshOneYes
<1>6. req' = [req EXCEPT ![t] = r] /\ UNCHANGED <<gen, votes>>
  BY <1>1 DEF Begin
<1>7. (torn => torn') /\ (torn' \/ NoneRestores)
  BY DEF Begin, NoneRestores
<1>8. r.pc # "restoring" /\ r.rowsGen <= gen
  BY <1>2, <1>4
<1> QED BY <1>4, <1>5, <1>6, <1>7, <1>8, LockReqStep

\* A thread drops its request.
LEMMA LockDrop ==
  ASSUME VotingInv, LockInv, NEW t \in Threads,
         req' = [req EXCEPT ![t] = NoRequest], UNCHANGED <<gen, votes, torn>>
  PROVE  LockInv'
<1>1. NoRequest \in Request /\ gen \in Nat
  BY NoRequestGood DEF VotingInv, StoreGood, ReqGood
<1>2. /\ NoRequest.pc = "idle" /\ NoRequest.rowsGen = 0
      /\ NoRequest.poll = FreshPoll(Entries)
  BY DEF NoRequest
<1>3. /\ NoRequest.pc # "restoring" /\ NoRequest.pc \notin Loaders
      /\ NoRequest.rowsGen <= gen /\ OneYesIn(NoRequest.poll)
  BY <1>1, <1>2, FreshOneYes DEF Loaders
<1> QED BY <1>1, <1>3, LockReqStep

\* The request of t becomes r, which is of the same user, with the same vote
\* and the rows and groups loaded before; rows and history stay as they are.
GoesOn(t, r) ==
  /\ r \in Request
  /\ req' = [req EXCEPT ![t] = r]
  /\ UNCHANGED <<ended, members, gen, votes, served, inTime, acked, torn>>
  /\ r.vote = req[t].vote /\ r.user = req[t].user /\ r.sel = req[t].sel
  /\ r.rowsGen = req[t].rowsGen /\ r.group = req[t].group
  /\ r.todo = req[t].todo

LEMMA QueryYesFields ==
  ASSUME VotingInv, NEW t \in Threads, NEW u \in Users, QueryYes(t, u)
  PROVE  \E r : /\ GoesOn(t, r)
                /\ req[t].pc = "loading" /\ r.pc = "querying"
                /\ u \in req[t].toLoad /\ r.toLoad = req[t].toLoad \ {u}
                /\ r.loading = u /\ r.yes = Stored(u)["yes"]
                /\ r.poll = req[t].poll
<1>1. req[t] \in Request
  BY DEF VotingInv
<1>2. Stored(u)["yes"] \in SUBSET Entries
  BY DEF Stored, Kinds
<1>3. PICK r : r = [req[t] EXCEPT !.pc = "querying", !.toLoad = @ \ {u},
                                  !.loading = u, !.yes = Stored(u)["yes"]]
  OBVIOUS
<1>4. /\ r \in Request /\ r.pc = "querying" /\ r.toLoad = req[t].toLoad \ {u}
      /\ r.loading = u /\ r.yes = Stored(u)["yes"] /\ r.poll = req[t].poll
      /\ r.vote = req[t].vote /\ r.user = req[t].user /\ r.sel = req[t].sel
      /\ r.rowsGen = req[t].rowsGen /\ r.group = req[t].group
      /\ r.todo = req[t].todo
  BY <1>1, <1>2, <1>3 DEF Request, Pcs
<1>5. req' = [req EXCEPT ![t] = r]
  BY <1>3 DEF QueryYes, VotingInv
<1> QED BY <1>4, <1>5 DEF QueryYes, GoesOn

\* The replay casts what the two queries have read, some of it twice.
LEMMA QueryMaybeFields ==
  ASSUME VotingInv, NEW t \in Threads, QueryMaybe(t)
  PROVE  \E r, sel :
           LET u    == req[t].loading
               once == CastBallot(req[t].poll, u, sel, ended)
           IN  /\ GoesOn(t, r)
               /\ req[t].pc = "querying" /\ r.pc = "loading"
               /\ r.toLoad = req[t].toLoad
               /\ sel \in Selection
               /\ sel["yes"] = req[t].yes /\ sel["maybe"] = Stored(u)["maybe"]
               /\ \/ r.poll = once
                  \/ r.poll = CastBallot(once, u, sel, ended)
<1> DEFINE u      == req[t].loading
           maybe  == Stored(u)["maybe"]
           sel    == [k \in Kinds |-> IF k = "yes" THEN req[t].yes ELSE maybe]
           once   == CastBallot(req[t].poll, u, sel, ended)
           replay == IF sel["yes"] = {} THEN CastBallot(once, u, sel, ended)
                                        ELSE once
           r == [req[t] EXCEPT !.pc = "loading", !.poll = replay,
                               !.loading = Creator, !.yes = {}]
<1>1. /\ req[t] \in Request /\ GoodPoll(req[t].poll) /\ ended \in BOOLEAN
      /\ u \in Users /\ req[t].yes \in SUBSET Entries
  BY DEF VotingInv, ReqGood, StoreGood, Request
<1>2. maybe \in SUBSET Entries
  BY DEF Stored, Kinds
<1>3. req' = [req EXCEPT ![t] = r]
  BY Zenon DEF QueryMaybe, VotingInv
<1> HIDE DEF maybe
<1>4. sel \in Selection /\ sel["yes"] = req[t].yes /\ sel["maybe"] = maybe
  BY <1>1, <1>2 DEF Selection, Kinds
<1> HIDE DEF sel, u
<1>5. GoodPoll(once)
  BY <1>1, <1>4, CastBallotGood
<1> HIDE DEF once
<1>6. replay = once \/ replay = CastBallot(once, u, sel, ended)
  OBVIOUS
<1>7. GoodPoll(replay)
  BY <1>1, <1>4, <1>5, CastBallotGood
<1> HIDE DEF replay
<1>8. /\ r \in Request /\ r.pc = "loading" /\ r.toLoad = req[t].toLoad
      /\ r.poll = replay
      /\ r.vote = req[t].vote /\ r.user = req[t].user /\ r.sel = req[t].sel
      /\ r.rowsGen = req[t].rowsGen /\ r.group = req[t].group
      /\ r.todo = req[t].todo
  BY <1>1, <1>7, CreatorType DEF Request, Pcs, GoodPoll
<1> HIDE DEF r
<1>9. GoesOn(t, r) /\ req[t].pc = "querying"
  BY <1>3, <1>8 DEF GoesOn, QueryMaybe
<1> QED BY <1>4, <1>6, <1>8, <1>9 DEF u, once, maybe

LEMMA VoteFields ==
  ASSUME VotingInv, NEW t \in Threads, Vote(t)
  PROVE  \E r : /\ GoesOn(t, r)
                /\ req[t].pc = "loading" /\ r.pc = "saving"
                /\ req[t].toLoad = {} /\ r.toLoad = {}
                /\ req[t].vote /\ TakesPart(t)
                /\ r.poll = CastBallot(req[t].poll, req[t].user, req[t].sel, ended)
<1>1. /\ req[t] \in Request /\ GoodPoll(req[t].poll) /\ ended \in BOOLEAN
      /\ req[t].user \in Users /\ req[t].sel \in Selection
  BY DEF VotingInv, ReqGood, StoreGood, Request
<1>2. PICK p : p = CastBallot(req[t].poll, req[t].user, req[t].sel, ended)
  OBVIOUS
<1>3. p \in Poll
  BY <1>1, <1>2, CastBallotGood DEF GoodPoll
<1>4. PICK r : r = [req[t] EXCEPT !.pc = "saving", !.poll = p]
  OBVIOUS
<1>5. /\ r \in Request /\ r.pc = "saving" /\ r.toLoad = req[t].toLoad
      /\ r.poll = p
      /\ r.vote = req[t].vote /\ r.user = req[t].user /\ r.sel = req[t].sel
      /\ r.rowsGen = req[t].rowsGen /\ r.group = req[t].group
      /\ r.todo = req[t].todo
  BY <1>1, <1>3, <1>4 DEF Request, Pcs
<1>6. req' = [req EXCEPT ![t] = r]
  BY <1>2, <1>4 DEF Vote, VotingInv
<1>7. req[t].pc = "loading" /\ req[t].toLoad = {} /\ req[t].vote /\ TakesPart(t)
  BY DEF Vote, Loaded
<1>8. GoesOn(t, r)
  BY <1>5, <1>6 DEF Vote, GoesOn
<1> QED BY <1>2, <1>5, <1>7, <1>8

LEMMA ShowFields ==
  ASSUME VotingInv, NEW t \in Threads, ShowResults(t)
  PROVE  \E r : /\ GoesOn(t, r)
                /\ req[t].pc = "loading" /\ r.pc = "shown"
                /\ req[t].toLoad = {} /\ r.toLoad = {}
                /\ r.poll = req[t].poll
<1>1. req[t] \in Request
  BY DEF VotingInv
<1>2. PICK r : r = [req[t] EXCEPT !.pc = "shown"]
  OBVIOUS
<1>3. /\ r \in Request /\ r.pc = "shown" /\ r.toLoad = req[t].toLoad
      /\ r.poll = req[t].poll
      /\ r.vote = req[t].vote /\ r.user = req[t].user /\ r.sel = req[t].sel
      /\ r.rowsGen = req[t].rowsGen /\ r.group = req[t].group
      /\ r.todo = req[t].todo
  BY <1>1, <1>2 DEF Request, Pcs
<1>4. req' = [req EXCEPT ![t] = r]
  BY <1>2 DEF ShowResults, VotingInv
<1>5. req[t].pc = "loading" /\ req[t].toLoad = {}
  BY DEF ShowResults, Loaded
<1>6. GoesOn(t, r)
  BY <1>3, <1>4 DEF ShowResults, GoesOn
<1> QED BY <1>3, <1>5, <1>6

\* The steps of a request that leave the rows alone: it goes on with the
\* generation of rows it has, and casts into its aggregate or not.
LEMMA LockGoesOn ==
  ASSUME VotingInv, LockInv, NEW t \in Threads, NEW r, GoesOn(t, r),
         r.pc \in Loaders, req[t].pc \in Loaders, OneYesIn(r.poll)
  PROVE  LockInv'
<1>1. r.rowsGen <= gen /\ r.pc # "restoring"
  BY DEF LockInv, GoesOn, Loaders
<1> QED BY <1>1, LockReqStep DEF GoesOn

LEMMA LockRead ==
  ASSUME VotingInv, LockInv, NEW t \in Threads,
         \/ \E u \in Users : QueryYes(t, u)
         \/ QueryMaybe(t) \/ Vote(t) \/ ShowResults(t)
  PROVE  LockInv'
<1>1. /\ GoodPoll(req[t].poll) /\ OneYesIn(req[t].poll) /\ ended \in BOOLEAN
      /\ req[t].user \in Users /\ req[t].loading \in Users
      /\ req[t].sel \in Selection
  BY DEF VotingInv, StoreGood, ReqGood, LockInv, Request
<1>2. ASSUME NEW u \in Users, QueryYes(t, u) PROVE LockInv'
  <2>1. PICK r : /\ GoesOn(t, r) /\ r.poll = req[t].poll
                 /\ req[t].pc = "loading" /\ r.pc = "querying"
    BY <1>2, QueryYesFields
  <2> QED BY <1>1, <2>1, LockGoesOn DEF Loaders
<1>3. CASE QueryMaybe(t)
  <2>1. PICK r, sel :
          /\ GoesOn(t, r) /\ req[t].pc = "querying" /\ r.pc = "loading"
          /\ sel \in Selection
          /\ \/ r.poll = CastBallot(req[t].poll, req[t].loading, sel, ended)
             \/ r.poll = CastBallot(CastBallot(req[t].poll, req[t].loading, sel, ended),
                                    req[t].loading, sel, ended)
    BY <1>3, QueryMaybeFields
  <2> DEFINE once == CastBallot(req[t].poll, req[t].loading, sel, ended)
  <2>2. GoodPoll(once) /\ OneYesIn(once)
    BY <1>1, <2>1, CastBallotGood, CastOneYes
  <2> HIDE DEF once
  <2>3. OneYesIn(CastBallot(once, req[t].loading, sel, ended))
    BY <1>1, <2>1, <2>2, CastOneYes
  <2>4. OneYesIn(r.poll)
    BY <2>1, <2>2, <2>3 DEF once
  <2> QED BY <2>1, <2>4, LockGoesOn DEF Loaders
<1>4. CASE Vote(t)
  <2>1. PICK r :
          /\ GoesOn(t, r) /\ req[t].pc = "loading" /\ r.pc = "saving"
          /\ r.poll = CastBallot(req[t].poll, req[t].user, req[t].sel, ended)
    BY <1>4, VoteFields
  <2>2. OneYesIn(r.poll)
    BY <1>1, <2>1, CastOneYes
  <2> QED BY <2>1, <2>2, LockGoesOn DEF Loaders
<1>5. CASE ShowResults(t)
  <2>1. PICK r : /\ GoesOn(t, r) /\ r.poll = req[t].poll
                 /\ req[t].pc = "loading" /\ r.pc = "shown"
    BY <1>5, ShowFields
  <2> QED BY <1>1, <2>1, LockGoesOn DEF Loaders
<1> QED BY <1>2, <1>3, <1>4, <1>5

LEMMA LockInit == Init => LockInv
<1> SUFFICES ASSUME Init PROVE LockInv
  OBVIOUS
<1>1. VotingInv
  BY VotingInit
<1>2. \A t \in Threads : /\ req[t].rowsGen = 0 /\ req[t].pc = "idle"
                         /\ req[t].poll = FreshPoll(Entries)
  BY DEF Init, NoRequest
<1>3. \A u \in Users : Stored(u)["yes"] = {}
  BY DEF Init, Stored, Kinds
<1>4. gen = 0
  BY DEF Init
<1>5. Cardinality({}) = 0
  BY FS_EmptySet
<1>6. AtMostOneYes
  BY <1>3, <1>5 DEF AtMostOneYes
<1>7. \A t \in Threads : req[t].rowsGen <= gen /\ OneYesIn(req[t].poll)
  BY <1>2, <1>4, FreshOneYes
<1>8. \A t \in Threads : req[t].pc # "restoring"
  BY <1>2
<1> QED BY <1>6, <1>7, <1>8 DEF LockInv

\* A step that touches neither rows nor requests.
LEMMA LockSame ==
  ASSUME LockInv, UNCHANGED <<gen, votes, req, torn>>
  PROVE  LockInv'
<1>1. AtMostOneYes' <=> AtMostOneYes
  BY DEF AtMostOneYes, Stored
<1>2. \A t \in Threads : Locked(t)' <=> Locked(t)
  BY DEF Locked
<1> QED BY <1>1, <1>2 DEF LockInv

LEMMA LockNext == VotingInv /\ LockInv /\ [Next]_vars => LockInv'
<1> SUFFICES ASSUME VotingInv, LockInv, [Next]_vars PROVE LockInv'
  OBVIOUS
<1>1. ASSUME NEW t \in Threads, NEW u \in Users, NEW sel \in FormSelections,
             BeginVote(t, u, sel)
      PROVE  LockInv'
  BY <1>1, FormSelection, LockBegin DEF BeginVote
<1>2. ASSUME NEW t \in Threads, BeginView(t) PROVE LockInv'
  <2>1. NoSelection \in Selection
    BY DEF NoSelection, Selection
  <2> QED BY <1>2, <2>1, CreatorType, LockBegin DEF BeginView
<1>3. ASSUME NEW t \in Threads, Work(t) PROVE LockInv'
  <2>1. CASE \/ \E u \in Users : QueryYes(t, u)
             \/ QueryMaybe(t) \/ Vote(t) \/ ShowResults(t)
    BY <2>1, LockRead
  <2>2. CASE Deny(t) \/ StaleRows(t) \/ FinishVote(t) \/ FinishView(t)
    BY <2>2, LockDrop DEF Deny, StaleRows, FinishVote, FinishView
  <2>3. CASE ReplaceRows(t)
    BY <2>3, LockReplace
  <2>4. CASE \E row \in VoteRow : RestoreVote(t, row)
    BY <2>4, LockRestore
  <2> QED BY <1>3, <2>1, <2>2, <2>3, <2>4 DEF Work
<1>4. ASSUME NEW t \in Threads, DbError(t) PROVE LockInv'
  BY <1>4, LockDrop DEF DbError
<1>5. CASE \/ PeriodEnds
           \/ \E now \in SUBSET (Users \ {Creator}) : SyncMembers(now)
           \/ Quiet \/ UNCHANGED vars
  BY <1>5, LockSame DEF PeriodEnds, SyncMembers, Quiet, vars
<1> QED BY <1>1, <1>2, <1>3, <1>4, <1>5 DEF Next

THEOREM VotingLock == Spec => [](VotingInv /\ LockInv)
<1> QED BY VotingInit, VotingNext, LockInit, LockNext, PTL DEF Spec

\* In a single choice poll nobody has two stored yes votes, from however many
\* windows they vote, unless a load began while votes were put back; whatever
\* the clock, the synchronisation and the database do.
THEOREM VotingOneYes == Spec => []OneYesUnlessTorn
<1>1. LockInv => OneYesUnlessTorn
  BY DEF LockInv, OneYesUnlessTorn
<1> QED BY <1>1, VotingLock, PTL
-----------------------------------------------------------------------------
(***************************************************************************)
(* No vote is lost, when no save fails half way, nobody leaves the groups, *)
(* the period does not end, and all who may vote are in the poll's groups. *)
(* Each of these is needed: see the runs that expect a violation, and      *)
(* DbError.  Members may join and queries may fail before the rows are     *)
(* replaced.                                                               *)
(***************************************************************************)
\* All who may vote are in the poll's groups, in a public poll too.
VotersInGroups == Open => Users \subseteq Members \cup {Creator}

\* A step in which the environment takes nothing away: the period goes on,
\* nobody leaves the groups, and a request that has begun to put votes back
\* ends by putting back the last one.
Undisturbed ==
  /\ ~ended'
  /\ members \subseteq members'
  /\ \A t \in Threads : req[t].pc = "restoring" /\ req'[t].pc = "idle" => FinishVote(t)

\* The environment does nothing at all.
KeptAssumption == Events = {} /\ VotersInGroups

\* The users whose ballot a request's aggregate need not have yet, or has
\* changed.
Pending(r) == {v \in Users : \/ v \in r.toLoad
                             \/ r.pc = "querying" /\ v = r.loading
                             \/ r.pc = "saving" /\ v = r.user}

\* The aggregate of a request that has loaded the stored rows has the answered
\* ballots, as far as it has read them.
UpToDate(r) ==
  /\ \A v \in Users \ Pending(r) : \A k \in Kinds : r.poll.ballots[v][k] = acked[v][k]
  /\ r.pc = "querying" => r.yes = acked[r.loading]["yes"]
  /\ r.pc = "shown" => r.toLoad = {}

\* An aggregate about to be saved, or being put back, has the user's new
\* ballot; when it is put back it has everybody else's too.
KeptReq(r) ==
  /\ ~r.poll.terminated /\ r.poll.entries = Entries
  /\ r.pc # "idle" => r.group \subseteq GroupUsers
  /\ r.pc # "idle" /\ r.vote => r.sel \in FormSelections
  /\ r.pc \in {"saving", "restoring"} =>
       /\ r.vote /\ r.user \in GroupUsers
       /\ \A k \in Kinds : r.poll.ballots[r.user][k] = r.sel[k]
  /\ ~torn /\ r.pc = "restoring" =>
       \A v \in Users \ {r.user} : \A k \in Kinds : r.poll.ballots[v][k] = acked[v][k]
  /\ ~torn /\ r.pc \in Loaders /\ r.rowsGen = gen => UpToDate(r)
  /\ r.pc = "saving" => r.toLoad = {}

\* What is stored and answered.
KeptStore ==
  /\ ended = FALSE /\ Members \subseteq members
  /\ \A u \in Users \ GroupUsers : \A k \in Kinds : acked[u][k] = {}
  /\ SingleChoice => \A u \in Users : Cardinality(acked[u]["yes"]) <= 1
  /\ ~torn /\ NoneRestores =>
       \A u \in Users, k \in Kinds : Stored(u)[k] = acked[u][k]

KeptInv == KeptStore /\ \A t \in Threads : KeptReq(req[t])

\* What holds of a request goes on holding while rows and answers stay.
LEMMA KeptReqSame ==
  ASSUME UNCHANGED <<members, gen, acked>>, torn => torn', NEW r, KeptReq(r)
  PROVE  KeptReq(r)'
<1>1. GroupUsers' = GroupUsers
  BY DEF GroupUsers
<1>2. UpToDate(r)' <=> UpToDate(r)
  BY DEF UpToDate
<1> QED BY <1>1, <1>2 DEF KeptReq

\* What a step of one thread keeps that changes neither rows nor answers.
LEMMA KeptReqStep ==
  ASSUME VotingInv, KeptInv, NEW t \in Threads, NEW r,
         req' = [req EXCEPT ![t] = r],
         UNCHANGED <<ended, members, gen, votes, acked>>, torn => torn',
         req[t].pc # "restoring", KeptReq(r)'
  PROVE  KeptInv'
<1>1. /\ req'[t] = r
      /\ \A s \in Threads \ {t} : req'[s] = req[s]
  BY DEF VotingInv
<1>2. ASSUME NEW s \in Threads PROVE KeptReq(req[s])'
  <2>1. CASE s = t
    BY <1>1, <2>1 DEF KeptReq, UpToDate, Pending, GroupUsers
  <2>2. CASE s # t
    <3>1. KeptReq(req[s])
      BY DEF KeptInv
    <3>2. req'[s] = req[s]
      BY <1>1, <2>2
    <3>3. GroupUsers' = GroupUsers
      BY DEF GroupUsers
    <3>4. UpToDate(req[s])' <=> UpToDate(req[s])
      BY <3>2 DEF UpToDate, Pending
    <3> QED BY <3>1, <3>2, <3>3, <3>4 DEF KeptReq
  <2> QED BY <2>1, <2>2
<1>3. KeptStore'
  <2>1. NoneRestores' => NoneRestores
    BY <1>1 DEF NoneRestores
  <2>2. GroupUsers' = GroupUsers /\ \A u : Stored(u)' = Stored(u)
    BY DEF GroupUsers, Stored
  <2> QED BY <2>1, <2>2 DEF KeptInv, KeptStore
<1> QED BY <1>2, <1>3 DEF KeptInv

LEMMA NoRequestKept == KeptReq(NoRequest)'
<1>1. /\ NoRequest.pc = "idle" /\ NoRequest.poll = FreshPoll(Entries)
  BY DEF NoRequest
<1>2. FreshPoll(Entries).terminated = FALSE /\ FreshPoll(Entries).entries = Entries
  BY DEF FreshPoll
<1> QED BY <1>1, <1>2 DEF KeptReq, Loaders

LEMMA KeptDrop ==
  ASSUME VotingInv, KeptInv, NEW t \in Threads,
         req' = [req EXCEPT ![t] = NoRequest], req[t].pc # "restoring",
         UNCHANGED <<ended, members, gen, votes, acked, torn>>
  PROVE  KeptInv'
BY NoRequestKept, KeptReqStep

LEMMA KeptBegin ==
  ASSUME VotingInv, KeptInv, NEW t \in Threads, NEW isVote \in BOOLEAN,
         NEW u \in Users, NEW sel \in Selection, isVote => sel \in FormSelections,
         Begin(t, isVote, u, sel)
  PROVE  KeptInv'
<1>1. PICK r : r = [NoRequest EXCEPT !.pc = "loading", !.vote = isVote,
                      !.user = u, !.sel = sel, !.rowsGen = gen,
                      !.group = GroupUsers, !.toLoad = GroupUsers]
  OBVIOUS
<1>2. /\ r.pc = "loading" /\ r.vote = isVote /\ r.sel = sel
      /\ r.group = GroupUsers /\ r.toLoad = GroupUsers
      /\ r.poll = FreshPoll(Entries)
  BY <1>1 DEF NoRequest
<1>3. /\ FreshPoll(Entries).terminated = FALSE
      /\ FreshPoll(Entries).entries = Entries
      /\ \A v \in Users, k \in Kinds : FreshPoll(Entries).ballots[v][k] = {}
  BY DEF FreshPoll, NoSelection
<1>4. UNCHANGED <<ended, members, gen, votes, acked>> /\ (torn => torn')
  BY DEF Begin
<1>5. UpToDate(r)
  <2>1. \A v \in Users \ Pending(r) : v \in Users \ GroupUsers
    BY <1>2 DEF Pending
  <2>2. \A v \in Users \ Pending(r), k \in Kinds : r.poll.ballots[v][k] = acked[v][k]
    BY <1>2, <1>3, <2>1 DEF KeptInv, KeptStore
  <2> QED BY <1>2, <2>2 DEF UpToDate
<1>6. KeptReq(r)
  BY <1>2, <1>3, <1>5 DEF KeptReq
<1>7. KeptReq(r)'
  BY <1>4, <1>6, KeptReqSame
<1>8. req' = [req EXCEPT ![t] = r] /\ req[t].pc # "restoring"
  BY <1>1 DEF Begin
<1> QED BY <1>4, <1>7, <1>8, KeptReqStep

\* A thread whose request goes on with what it has loaded.
LEMMA KeptGoesOn ==
  ASSUME VotingInv, KeptInv, NEW t \in Threads, NEW r, GoesOn(t, r),
         req[t].pc # "restoring", KeptReq(r)
  PROVE  KeptInv'
<1>1. KeptReq(r)'
  BY KeptReqSame DEF GoesOn
<1> QED BY <1>1, KeptReqStep DEF GoesOn

LEMMA KeptQueryYes ==
  ASSUME VotingInv, LockInv, KeptInv, NEW t \in Threads, NEW u \in Users,
         QueryYes(t, u)
  PROVE  KeptInv'
<1>1. PICK r : /\ GoesOn(t, r)
               /\ req[t].pc = "loading" /\ r.pc = "querying"
               /\ u \in req[t].toLoad /\ r.toLoad = req[t].toLoad \ {u}
               /\ r.loading = u /\ r.yes = Stored(u)["yes"]
               /\ r.poll = req[t].poll
  BY QueryYesFields
<1>2. KeptReq(req[t])
  BY DEF KeptInv
<1>3. ASSUME ~torn, r.rowsGen = gen PROVE UpToDate(r)
  <2>1. UpToDate(req[t])
    BY <1>1, <1>2, <1>3 DEF KeptReq, GoesOn, Loaders
  <2>2. NoneRestores
    BY <1>1, <1>3 DEF LockInv, Locked, NoneRestores, GoesOn, Loaders
  <2>3. r.yes = acked[u]["yes"]
    BY <1>1, <1>3, <2>2 DEF KeptInv, KeptStore, Kinds
  <2>4. Pending(req[t]) \subseteq Pending(r)
    BY <1>1 DEF Pending
  <2>5. \A v \in Users \ Pending(r) : \A k \in Kinds : r.poll.ballots[v][k] = acked[v][k]
    BY <1>1, <2>1, <2>4 DEF UpToDate
  <2> QED BY <1>1, <2>3, <2>5 DEF UpToDate
<1>4. KeptReq(r)
  BY <1>1, <1>2, <1>3 DEF KeptReq, GoesOn
<1> QED BY <1>1, <1>4, KeptGoesOn

\* A request that has read up to date casts the ballot that was answered.
LEMMA KeptQueryMaybe ==
  ASSUME VotingInv, LockInv, KeptInv, NEW t \in Threads, QueryMaybe(t)
  PROVE  KeptInv'
<1> DEFINE u == req[t].loading
<1>1. PICK r, sel :
        /\ GoesOn(t, r)
        /\ req[t].pc = "querying" /\ r.pc = "loading"
        /\ r.toLoad = req[t].toLoad
        /\ sel \in Selection
        /\ sel["yes"] = req[t].yes /\ sel["maybe"] = Stored(u)["maybe"]
        /\ \/ r.poll = CastBallot(req[t].poll, u, sel, ended)
           \/ r.poll = CastBallot(CastBallot(req[t].poll, u, sel, ended), u, sel, ended)
  BY QueryMaybeFields
<1>2. /\ KeptReq(req[t]) /\ ended = FALSE
      /\ ~req[t].poll.terminated /\ req[t].poll.entries = Entries
  BY DEF KeptInv, KeptReq, KeptStore
<1>3. u \in Users /\ GoodPoll(req[t].poll)
  BY DEF VotingInv, ReqGood, Request
<1> HIDE DEF u
<1> DEFINE once  == CastBallot(req[t].poll, u, sel, FALSE)
           twice == CastBallot(once, u, sel, FALSE)
           fits  == SingleChoice => Cardinality(sel["yes"]) <= 1
<1>4. GoodPoll(once)
  BY <1>1, <1>3, CastBallotGood
<1>5. Replaces(once, req[t].poll, u, sel)
  BY <1>1, <1>2, <1>3, CastGoesOn
<1> HIDE DEF once
<1>6. Replaces(twice, once, u, sel)
  <2>1. ~once.terminated /\ once.entries = Entries
    BY <1>5 DEF Replaces
  <2> QED BY <1>1, <1>3, <1>4, <2>1, CastGoesOn
<1> HIDE DEF twice
<1>7. r.poll = once \/ r.poll = twice
  BY <1>1, <1>2 DEF once, twice
<1>8. /\ ~r.poll.terminated /\ r.poll.entries = Entries
      /\ fits => \A v \in Users, k \in Kinds :
           r.poll.ballots[v][k] = IF v = u THEN sel[k] ELSE req[t].poll.ballots[v][k]
  BY <1>5, <1>6, <1>7 DEF Replaces, fits
<1> HIDE DEF fits
<1>9. ASSUME ~torn, r.rowsGen = gen PROVE UpToDate(r)
  <2>1. UpToDate(req[t])
    BY <1>1, <1>2, <1>9 DEF KeptReq, GoesOn, Loaders
  <2>2. NoneRestores
    BY <1>1, <1>9 DEF LockInv, Locked, NoneRestores, GoesOn, Loaders
  <2>3. sel["yes"] = acked[u]["yes"] /\ sel["maybe"] = acked[u]["maybe"]
    BY <1>1, <1>3, <1>9, <2>1, <2>2 DEF UpToDate, KeptInv, KeptStore, Kinds, u
  <2>4. fits
    BY <1>3, <2>3 DEF fits, KeptInv, KeptStore
  <2>5. Pending(req[t]) \subseteq Pending(r) \cup {u}
    BY <1>1 DEF Pending, u
  <2>6. ASSUME NEW v \in Users \ Pending(r), NEW k \in Kinds
        PROVE  r.poll.ballots[v][k] = acked[v][k]
    <3>1. CASE v = u
      BY <1>8, <2>3, <2>4, <3>1 DEF Kinds
    <3>2. CASE v # u
      BY <1>8, <2>1, <2>4, <2>5, <3>2 DEF UpToDate
    <3> QED BY <3>1, <3>2
  <2> QED BY <1>1, <2>6 DEF UpToDate
<1>10. KeptReq(r)
  BY <1>1, <1>2, <1>8, <1>9 DEF KeptReq, GoesOn
<1> QED BY <1>1, <1>10, KeptGoesOn

\* What the form submits is never refused.
LEMMA FormFits ==
  ASSUME NEW sel \in FormSelections, SingleChoice
  PROVE  Cardinality(sel["yes"]) <= 1
BY DEF FormSelections

LEMMA KeptVote ==
  ASSUME VotersInGroups, VotingInv, KeptInv, NEW t \in Threads, Vote(t)
  PROVE  KeptInv'
<1>1. PICK r : /\ GoesOn(t, r)
               /\ req[t].pc = "loading" /\ r.pc = "saving"
               /\ req[t].toLoad = {} /\ r.toLoad = {}
               /\ req[t].vote /\ TakesPart(t)
               /\ r.poll = CastBallot(req[t].poll, req[t].user, req[t].sel, ended)
  BY VoteFields
<1>2. /\ KeptReq(req[t]) /\ ended = FALSE
      /\ ~req[t].poll.terminated /\ req[t].poll.entries = Entries
      /\ req[t].sel \in FormSelections /\ req[t].group \subseteq GroupUsers
  BY <1>1 DEF KeptInv, KeptReq, KeptStore
<1>3. req[t].user \in Users /\ GoodPoll(req[t].poll)
  BY DEF VotingInv, ReqGood, Request
<1>4. req[t].user \in GroupUsers
  BY <1>1, <1>2, <1>3 DEF TakesPart, VotersInGroups, GroupUsers, KeptInv, KeptStore
<1>5. SingleChoice => Cardinality(req[t].sel["yes"]) <= 1
  BY <1>2, FormFits
<1>6. Replaces(CastBallot(req[t].poll, req[t].user, req[t].sel, FALSE),
               req[t].poll, req[t].user, req[t].sel)
  BY <1>2, <1>3, FormSelection, CastGoesOn
<1>7. /\ ~r.poll.terminated /\ r.poll.entries = Entries
      /\ \A v \in Users, k \in Kinds :
           r.poll.ballots[v][k] = IF v = req[t].user THEN req[t].sel[k]
                                  ELSE req[t].poll.ballots[v][k]
  <2>1. Replaces(r.poll, req[t].poll, req[t].user, req[t].sel)
    BY <1>1, <1>2, <1>6
  <2> QED BY <1>5, <2>1 DEF Replaces
<1>8. ASSUME ~torn, r.rowsGen = gen PROVE UpToDate(r)
  <2>1. UpToDate(req[t])
    BY <1>1, <1>2, <1>8 DEF KeptReq, GoesOn, Loaders
  <2>2. Pending(req[t]) = {} /\ req[t].user \in Pending(r)
    BY <1>1, <1>3 DEF Pending, GoesOn
  <2>3. \A v \in Users \ Pending(r) : \A k \in Kinds : r.poll.ballots[v][k] = acked[v][k]
    BY <1>7, <2>1, <2>2 DEF UpToDate
  <2> QED BY <1>1, <2>3 DEF UpToDate
<1>9. /\ r.group \subseteq GroupUsers /\ r.sel = req[t].sel /\ r.user = req[t].user /\ r.vote
  BY <1>1, <1>2 DEF GoesOn
<1>10. \A k \in Kinds : r.poll.ballots[r.user][k] = r.sel[k]
  BY <1>3, <1>7, <1>9
<1>11. KeptReq(r)
  BY <1>1, <1>2, <1>4, <1>7, <1>8, <1>9, <1>10 DEF KeptReq
<1> QED BY <1>1, <1>11, KeptGoesOn

LEMMA KeptShow ==
  ASSUME VotingInv, KeptInv, NEW t \in Threads, ShowResults(t)
  PROVE  KeptInv'
<1>1. PICK r : /\ GoesOn(t, r)
               /\ req[t].pc = "loading" /\ r.pc = "shown"
               /\ req[t].toLoad = {} /\ r.toLoad = {}
               /\ r.poll = req[t].poll
  BY ShowFields
<1>2. KeptReq(req[t])
  BY DEF KeptInv
<1>3. Pending(req[t]) = Pending(r)
  BY <1>1 DEF Pending
<1>4. UpToDate(req[t]) => UpToDate(r)
  BY <1>1, <1>3 DEF UpToDate
<1>5. KeptReq(r)
  BY <1>1, <1>2, <1>4 DEF KeptReq, GoesOn, Loaders
<1> QED BY <1>1, <1>5, KeptGoesOn

\* The aggregate that takes the place of the stored votes has them all.
LEMMA KeptReplace ==
  ASSUME VotingInv, LockInv, KeptInv, NEW t \in Threads, ReplaceRows(t)
  PROVE  KeptInv'
<1>1. req[t] \in Request /\ gen \in Nat /\ \A s \in Threads : req[s].rowsGen \in Nat
  BY DEF VotingInv, StoreGood, Request
<1>2. PICK r : r = [req[t] EXCEPT !.pc = "restoring",
                                  !.todo = AllRows(req[t].poll)]
  OBVIOUS
<1>3. /\ r.pc = "restoring" /\ r.vote = req[t].vote /\ r.user = req[t].user
      /\ r.sel = req[t].sel /\ r.group = req[t].group /\ r.poll = req[t].poll
  BY <1>1, <1>2 DEF Request
<1>4. /\ req'[t] = r
      /\ \A s \in Threads \ {t} : req'[s] = req[s]
  BY <1>2 DEF ReplaceRows, VotingInv
<1>5. /\ gen' = gen + 1 /\ UNCHANGED <<ended, members, acked, torn>>
      /\ req[t].pc = "saving" /\ req[t].rowsGen = gen
  BY DEF ReplaceRows, RowsUnchanged
<1>6. KeptReq(req[t]) /\ GroupUsers' = GroupUsers
  BY <1>5 DEF KeptInv, GroupUsers
<1>7. KeptReq(r)'
  <2>1. ASSUME ~torn PROVE \A v \in Users \ {r.user} : \A k \in Kinds :
                             r.poll.ballots[v][k] = acked[v][k]
    <3>1. UpToDate(req[t]) /\ req[t].toLoad = {}
      BY <1>5, <1>6, <2>1 DEF KeptReq, Loaders
    <3>2. Users \ {r.user} \subseteq Users \ Pending(req[t])
      BY <1>3, <1>5, <3>1 DEF Pending
    <3> QED BY <1>3, <3>1, <3>2 DEF UpToDate
  <2> QED BY <1>3, <1>5, <1>6, <2>1 DEF KeptReq, Loaders
<1>8. ASSUME NEW s \in Threads PROVE KeptReq(req[s])'
  <2>1. CASE s = t
    BY <1>4, <1>7, <2>1 DEF KeptReq, Loaders, GroupUsers
  <2>2. CASE s # t
    <3>1. KeptReq(req[s]) /\ req'[s] = req[s]
      BY <1>4, <2>2 DEF KeptInv
    <3>2. req[s].rowsGen # gen'
      BY <1>1, <1>5 DEF LockInv
    <3> QED BY <1>5, <1>6, <3>1, <3>2 DEF KeptReq
  <2> QED BY <2>1, <2>2
<1>9. KeptStore'
  <2>1. ~NoneRestores'
    BY <1>3, <1>4 DEF NoneRestores
  <2> QED BY <1>5, <1>6, <2>1 DEF KeptInv, KeptStore
<1> QED BY <1>8, <1>9 DEF KeptInv

LEMMA KeptRestore ==
  ASSUME VotingInv, KeptInv, NEW t \in Threads, NEW row \in VoteRow,
         RestoreVote(t, row)
  PROVE  KeptInv'
<1>1. req[t] \in Request
  BY DEF VotingInv
<1>2. PICK r : r = [req[t] EXCEPT !.todo = @ \ {row}]
  OBVIOUS
<1>3. /\ r.pc = "restoring" /\ r.vote = req[t].vote /\ r.user = req[t].user
      /\ r.sel = req[t].sel /\ r.group = req[t].group /\ r.poll = req[t].poll
      /\ req[t].pc = "restoring"
  BY <1>1, <1>2 DEF Request, RestoreVote
<1>4. /\ req'[t] = r
      /\ \A s \in Threads \ {t} : req'[s] = req[s]
  BY <1>2 DEF RestoreVote, VotingInv
<1>5. UNCHANGED <<ended, members, gen, acked, torn>>
  BY DEF RestoreVote
<1>6. GroupUsers' = GroupUsers
  BY <1>5 DEF GroupUsers
<1>7. ASSUME NEW s \in Threads PROVE KeptReq(req[s])'
  <2>1. KeptReq(req[s])
    BY DEF KeptInv
  <2>2. CASE s = t
    BY <1>3, <1>4, <1>5, <1>6, <2>1, <2>2 DEF KeptReq, Loaders
  <2>3. CASE s # t
    <3>1. req'[s] = req[s]
      BY <1>4, <2>3
    <3>2. UpToDate(req[s])' <=> UpToDate(req[s])
      BY <1>5, <3>1 DEF UpToDate, Pending
    <3> QED BY <1>5, <1>6, <2>1, <3>1, <3>2 DEF KeptReq
  <2> QED BY <2>2, <2>3
<1>8. KeptStore'
  <2>1. ~NoneRestores'
    BY <1>3, <1>4 DEF NoneRestores
  <2> QED BY <1>5, <1>6, <2>1 DEF KeptInv, KeptStore
<1> QED BY <1>7, <1>8 DEF KeptInv

\* When all votes are back, the stored ones are those of the aggregate.
LEMMA AllBack ==
  ASSUME NEW t \in Threads, Locked(t), req[t].todo = {},
         NEW u \in Users, NEW k \in Kinds,
         req[t] \in Request
  PROVE  Stored(u)[k] = req[t].poll.ballots[u][k]
<1>1. votes = AllRows(req[t].poll)
  BY DEF Locked
<1>2. req[t].poll.ballots[u][k] \subseteq Entries
  BY DEF Request, Poll, Selection
<1>3. \A e \in Entries : <<u, k, e>> \in votes <=> e \in req[t].poll.ballots[u][k]
  BY <1>1 DEF AllRows, VoteRow
<1> QED BY <1>2, <1>3 DEF Stored

LEMMA KeptFinish ==
  ASSUME VotingInv, LockInv, KeptInv, NEW t \in Threads, FinishVote(t)
  PROVE  KeptInv'
<1>1. req[t] \in Request /\ acked \in [Users -> Selection]
  BY DEF VotingInv, StoreGood
<1>2. /\ req'[t] = NoRequest
      /\ \A s \in Threads \ {t} : req'[s] = req[s]
  BY DEF FinishVote, VotingInv
<1>3. /\ UNCHANGED <<ended, members, gen, votes, torn>>
      /\ req[t].pc = "restoring" /\ req[t].todo = {}
  BY DEF FinishVote
<1>4. GroupUsers' = GroupUsers
  BY <1>3 DEF GroupUsers
<1>5. KeptReq(req[t]) /\ req[t].user \in GroupUsers /\ req[t].user \in Users
  BY <1>1, <1>3 DEF KeptInv, KeptReq, Request
<1>6. \A u \in Users : acked'[u] = IF u = req[t].user
                                     THEN req[t].poll.ballots[u] ELSE acked[u]
  BY <1>1 DEF FinishVote
<1>7. ~torn => Locked(t)
  BY <1>3 DEF LockInv
<1>8. ASSUME NEW s \in Threads PROVE KeptReq(req[s])'
  <2>1. CASE s = t
    BY <1>2, <2>1, NoRequestKept DEF KeptReq, Loaders, NoRequest
  <2>2. CASE s # t
    <3>1. KeptReq(req[s]) /\ req'[s] = req[s]
      BY <1>2, <2>2 DEF KeptInv
    <3>2. ~torn => req[s].pc # "restoring"
      BY <1>7, <2>2 DEF Locked
    <3>3. ~torn => ~(req[s].pc \in Loaders /\ req[s].rowsGen = gen)
      BY <1>7 DEF Locked
    <3> QED BY <1>3, <1>4, <3>1, <3>2, <3>3 DEF KeptReq
  <2> QED BY <2>1, <2>2
<1>9. KeptStore'
  <2>1. ended' = FALSE /\ Members \subseteq members'
    BY <1>3 DEF KeptInv, KeptStore
  <2>2. \A u \in Users \ GroupUsers' : \A k \in Kinds : acked'[u][k] = {}
    BY <1>4, <1>5, <1>6 DEF KeptInv, KeptStore
  <2>3. SingleChoice => \A u \in Users : Cardinality(acked'[u]["yes"]) <= 1
    BY <1>6 DEF KeptInv, KeptStore, LockInv, OneYesIn
  <2>4. ASSUME ~torn', NEW u \in Users, NEW k \in Kinds
        PROVE  Stored(u)'[k] = acked'[u][k]
    <3>1. Stored(u)' = Stored(u)
      BY <1>3 DEF Stored
    <3>2. Stored(u)[k] = req[t].poll.ballots[u][k]
      BY <1>1, <1>3, <1>7, <2>4, AllBack
    <3>3. u # req[t].user => req[t].poll.ballots[u][k] = acked[u][k]
      BY <1>3, <1>5, <2>4 DEF KeptReq
    <3> QED BY <1>6, <3>1, <3>2, <3>3
  <2> QED BY <2>1, <2>2, <2>3, <2>4 DEF KeptStore
<1> QED BY <1>8, <1>9 DEF KeptInv

LEMMA KeptInit == Init => KeptInv
<1> SUFFICES ASSUME Init PROVE KeptInv
  OBVIOUS
<1>1. \A u \in Users, k \in Kinds : acked[u][k] = {}
  BY DEF Init, NoSelection
<1>2. \A u \in Users, k \in Kinds : Stored(u)[k] = {}
  BY DEF Init, Stored
<1>3. \A u \in Users : Cardinality(acked[u]["yes"]) <= 1
  <2>1. Cardinality({}) = 0
    BY FS_EmptySet
  <2>2. \A u \in Users : acked[u]["yes"] = {}
    BY <1>1 DEF Kinds
  <2> QED BY <2>1, <2>2
<1>4. KeptStore
  BY <1>1, <1>2, <1>3 DEF KeptStore, Init
<1>5. /\ NoRequest.pc = "idle"
      /\ ~NoRequest.poll.terminated /\ NoRequest.poll.entries = Entries
  BY DEF NoRequest, FreshPoll
<1>6. KeptReq(NoRequest)
  BY <1>5 DEF KeptReq, Loaders
<1>7. \A t \in Threads : req[t] = NoRequest
  BY DEF Init
<1> QED BY <1>4, <1>6, <1>7 DEF KeptInv

LEMMA KeptSame ==
  ASSUME KeptInv, UNCHANGED vars
  PROVE  KeptInv'
<1>1. KeptStore'
  BY DEF KeptInv, KeptStore, GroupUsers, NoneRestores, Stored, vars
<1>2. ASSUME NEW t \in Threads PROVE KeptReq(req[t])'
  <2>1. UpToDate(req[t])' <=> UpToDate(req[t])
    BY DEF UpToDate, Pending, vars
  <2>2. GroupUsers' = GroupUsers
    BY DEF GroupUsers, vars
  <2> QED BY <2>1, <2>2 DEF KeptInv, KeptReq, vars
<1> QED BY <1>1, <1>2 DEF KeptInv

\* Users who join the groups have no answered votes yet.
LEMMA KeptJoin ==
  ASSUME KeptInv, members \subseteq members',
         UNCHANGED <<ended, gen, votes, req, acked, torn>>
  PROVE  KeptInv'
<1>1. GroupUsers \subseteq GroupUsers'
  BY DEF GroupUsers
<1>2. KeptStore'
  BY <1>1 DEF KeptInv, KeptStore, NoneRestores, Stored
<1>3. ASSUME NEW t \in Threads PROVE KeptReq(req[t])'
  <2>1. UpToDate(req[t])' <=> UpToDate(req[t])
    BY DEF UpToDate, Pending
  <2> QED BY <1>1, <2>1 DEF KeptInv, KeptReq
<1> QED BY <1>2, <1>3 DEF KeptInv

LEMMA KeptNext ==
  VotersInGroups /\ VotingInv /\ LockInv /\ KeptInv
    /\ [Next]_vars /\ [Undisturbed]_vars
  => KeptInv'
<1> SUFFICES ASSUME VotersInGroups, VotingInv, LockInv, KeptInv, [Next]_vars,
                    [Undisturbed]_vars
             PROVE  KeptInv'
  OBVIOUS
<1>1. ASSUME NEW t \in Threads, NEW u \in Users, NEW sel \in FormSelections,
             BeginVote(t, u, sel)
      PROVE  KeptInv'
  BY <1>1, FormSelection, KeptBegin DEF BeginVote
<1>2. ASSUME NEW t \in Threads, BeginView(t) PROVE KeptInv'
  <2>1. NoSelection \in Selection
    BY DEF NoSelection, Selection
  <2> QED BY <1>2, <2>1, CreatorType, KeptBegin DEF BeginView
<1>3. ASSUME NEW t \in Threads, Work(t) PROVE KeptInv'
  <2>1. CASE \E u \in Users : QueryYes(t, u)
    BY <2>1, KeptQueryYes
  <2>2. CASE QueryMaybe(t)
    BY <2>2, KeptQueryMaybe
  <2>3. CASE Vote(t)
    BY <2>3, KeptVote
  <2>4. CASE ShowResults(t)
    BY <2>4, KeptShow
  <2>5. CASE Deny(t) \/ StaleRows(t) \/ FinishView(t)
    <3>1. /\ req[t].pc # "restoring" /\ req' = [req EXCEPT ![t] = NoRequest]
          /\ UNCHANGED <<ended, members, gen, votes, acked, torn>>
      BY <2>5 DEF Deny, StaleRows, FinishView, Loaded
    <3> QED BY <3>1, KeptDrop
  <2>6. CASE ReplaceRows(t)
    BY <2>6, KeptReplace
  <2>7. CASE \E row \in VoteRow : RestoreVote(t, row)
    BY <2>7, KeptRestore
  <2>8. CASE FinishVote(t)
    BY <2>8, KeptFinish
  <2> QED BY <1>3, <2>1, <2>2, <2>3, <2>4, <2>5, <2>6, <2>7, <2>8 DEF Work
<1>4. ASSUME NEW t \in Threads, DbError(t), Undisturbed PROVE KeptInv'
  <2>1. CASE req[t].pc = "restoring"
    <3>1. NoRequest.pc = "idle" /\ req'[t] = NoRequest
      BY <1>4 DEF DbError, VotingInv, NoRequest
    <3>2. FinishVote(t)
      BY <1>4, <2>1, <3>1 DEF Undisturbed
    <3> QED BY <3>2, KeptFinish
  <2>2. CASE req[t].pc # "restoring"
    BY <1>4, <2>2, KeptDrop DEF DbError
  <2> QED BY <2>1, <2>2
<1>5. ASSUME NEW now, SyncMembers(now), Undisturbed PROVE KeptInv'
  BY <1>5, KeptJoin DEF SyncMembers, Undisturbed
<1>6. Undisturbed => ~PeriodEnds
  BY DEF PeriodEnds, Undisturbed
<1>7. CASE Quiet \/ UNCHANGED vars
  BY <1>7, KeptSame DEF Quiet
<1> QED BY <1>1, <1>2, <1>3, <1>4, <1>5, <1>6, <1>7 DEF Next

THEOREM VotingKept ==
  ASSUME VotersInGroups
  PROVE  Spec /\ [][Undisturbed]_vars => [](VotingInv /\ LockInv /\ KeptInv)
<1>1. Init => KeptInv
  BY KeptInit
<1>2. VotingInv /\ LockInv /\ KeptInv /\ [Next]_vars /\ [Undisturbed]_vars
        => KeptInv'
  BY KeptNext
<1> QED BY <1>1, <1>2, VotingInit, VotingNext, LockInit, LockNext, PTL DEF Spec

LEMMA KeptShows == VotingInv /\ KeptInv => NoVoteLost
<1> SUFFICES ASSUME VotingInv, KeptInv, Quiescent, ~torn, NEW u \in Users
             PROVE  Stored(u) = acked[u]
  BY DEF NoVoteLost, AckedIsStored
<1>1. NoneRestores
  BY DEF Quiescent, NoneRestores
<1>2. \A k \in Kinds : Stored(u)[k] = acked[u][k]
  BY <1>1 DEF KeptInv, KeptStore
<1>3. acked[u] \in [Kinds -> SUBSET Entries]
  BY DEF VotingInv, StoreGood, Selection
<1>4. Stored(u) = [k \in Kinds |-> Stored(u)[k]]
  BY DEF Stored
<1>5. acked[u] = [k \in Kinds |-> acked[u][k]]
  BY <1>3
<1> QED BY <1>2, <1>4, <1>5

\* A page of results shows the stored votes for as long as no other request
\* replaces the rows it has read.
ShownIfUnreplaced ==
  ~torn => \A t \in Threads : req[t].pc = "shown" /\ req[t].rowsGen = gen => ShowsStored(t)

LEMMA KeptShowsStored == VotingInv /\ LockInv /\ KeptInv => ShownIfUnreplaced
<1> SUFFICES ASSUME VotingInv, LockInv, KeptInv, ~torn, NEW t \in Threads,
                    req[t].pc = "shown", req[t].rowsGen = gen,
                    NEW k \in Kinds, NEW e \in Entries
             PROVE  req[t].poll.count[k][e] = Count(votes, k, e)
  BY DEF ShownIfUnreplaced, ShowsStored
<1>1. /\ UpToDate(req[t]) /\ req[t].toLoad = {}
      /\ req[t].poll.entries = Entries
  BY DEF KeptInv, KeptReq, Loaders, UpToDate
<1>2. NoneRestores
  BY DEF LockInv, Locked, NoneRestores, Loaders
<1>3. \A u \in Users : Stored(u)[k] = acked[u][k]
  BY <1>2 DEF KeptInv, KeptStore
<1>4. \A u \in Users : req[t].poll.ballots[u][k] = acked[u][k]
  BY <1>1 DEF UpToDate, Pending
<1>5. \A u \in Users : e \in req[t].poll.ballots[u][k] <=> <<u, k, e>> \in votes
  BY <1>3, <1>4 DEF Stored
<1>6. Voters(req[t].poll, k, e) = {u \in Users : <<u, k, e>> \in votes}
  BY <1>5 DEF Voters
<1>7. req[t].poll.count[k][e] = Cardinality(Voters(req[t].poll, k, e))
  BY <1>1 DEF VotingInv, ReqGood, GoodPoll, TallyExact
<1> QED BY <1>6, <1>7 DEF Count

\* Members join and requests fail before they have replaced the rows, and
\* still overlapping requests lose no answered vote, unless a load began while
\* votes were put back.
THEOREM VotingNoVoteLostUndisturbed ==
  ASSUME VotersInGroups
  PROVE  Spec /\ [][Undisturbed]_vars => []NoVoteLost
BY KeptShows, VotingKept, PTL

\* However many requests overlap, a page of results shows exactly the stored
\* votes until another request replaces the rows it has read, unless a load
\* began while votes were put back.
THEOREM VotingShownIfUnreplaced ==
  ASSUME VotersInGroups
  PROVE  Spec /\ [][Undisturbed]_vars => []ShownIfUnreplaced
BY KeptShowsStored, VotingKept, PTL

\* Where the environment does nothing, it takes nothing away.
LEMMA NothingHappens ==
  Events = {} /\ VotingInv /\ KeptInv /\ [Next]_vars => [Undisturbed]_vars
<1> SUFFICES ASSUME Events = {}, VotingInv, KeptInv, Next PROVE [Undisturbed]_vars
  OBVIOUS
<1>1. ended = FALSE
  BY DEF KeptInv, KeptStore
<1>2. ASSUME NEW t \in Threads, NEW isVote, NEW u, NEW sel, Begin(t, isVote, u, sel)
      PROVE  Undisturbed
  <2>1. \A s \in Threads : req[s].pc = "restoring" => req'[s] = req[s]
    BY <1>2 DEF Begin, VotingInv
  <2> QED BY <1>1, <1>2, <2>1 DEF Begin, Undisturbed
<1>3. ASSUME NEW t \in Threads, Work(t)
      PROVE  Undisturbed
  <2>1. ended' = ended /\ members' = members
    BY <1>3 DEF Work, QueryYes, QueryMaybe, Vote, Deny, ShowResults, ReplaceRows,
                StaleRows, RestoreVote, FinishVote, FinishView
  <2>2. \A s \in Threads \ {t} : req'[s] = req[s]
    BY <1>3 DEF Work, QueryYes, QueryMaybe, Vote, Deny, ShowResults, ReplaceRows,
                StaleRows, RestoreVote, FinishVote, FinishView, VotingInv
  <2>3. ASSUME req[t].pc = "restoring", ~FinishVote(t)
        PROVE  req'[t].pc # "idle"
    <3>1. PICK row \in VoteRow : RestoreVote(t, row)
      BY <1>3, <2>3 DEF Work, QueryYes, QueryMaybe, Vote, Deny, ShowResults, Loaded,
                        ReplaceRows, StaleRows, FinishView
    <3>2. req[t] \in Request
      BY DEF VotingInv
    <3>3. PICK r : r = [req[t] EXCEPT !.todo = @ \ {row}]
      OBVIOUS
    <3>4. req'[t] = r /\ r.pc = "restoring"
      BY <2>3, <3>1, <3>2, <3>3 DEF RestoreVote, VotingInv, Request
    <3> QED BY <3>4
  <2> QED BY <1>1, <2>1, <2>2, <2>3 DEF Undisturbed
<1>4. /\ \A t \in Threads : ~DbError(t)
      /\ ~PeriodEnds
      /\ \A now : ~SyncMembers(now)
  BY DEF DbError, PeriodEnds, SyncMembers
<1> QED BY <1>2, <1>3, <1>4 DEF Next, BeginVote, BeginView, Quiet

LEMMA QuietKept ==
  ASSUME KeptAssumption
  PROVE  Spec => [](VotingInv /\ LockInv /\ KeptInv)
<1>1. Init => KeptInv
  BY KeptInit
<1>2. VotingInv /\ LockInv /\ KeptInv /\ [Next]_vars => KeptInv'
  BY KeptNext, NothingHappens DEF KeptAssumption
<1> QED BY <1>1, <1>2, VotingInit, VotingNext, LockInit, LockNext, PTL DEF Spec

\* If nothing fails, no group changes, the period goes on and all who may vote
\* are in the groups, overlapping requests lose no answered vote, unless a
\* load began while votes were put back.
THEOREM VotingNoVoteLost ==
  ASSUME KeptAssumption
  PROVE  Spec => []NoVoteLost
BY KeptShows, QuietKept, PTL
-----------------------------------------------------------------------------
(***************************************************************************)
(* Voting implements the ballot box, in which a vote takes effect at once: *)
(* loading, casting, replacing the rows and putting votes back is casting  *)
(* a ballot, whatever other requests do meanwhile, as long as none begins  *)
(* to load while votes are put back.                                       *)
(***************************************************************************)
\* Only a request that puts votes back has votes to put back.
OwingInv == \A t \in Threads : req[t].pc # "restoring" => req[t].todo = {}

\* What is in the box: the votes stored and those waiting to be put back.
BoxRows == votes \cup UNION {req[t].todo : t \in Threads}

LEMMA InBoxRows ==
  \A u : InBox(u) = [k \in Kinds |-> {e \in Entries : <<u, k, e>> \in BoxRows}]
BY DEF InBox, BoxRows

LEMMA OwingInit == Init => OwingInv
BY DEF Init, NoRequest, OwingInv

\* A thread whose request becomes r, with nothing to put back before or after.
LEMMA OwesNothing ==
  ASSUME VotingInv, OwingInv, NEW t \in Threads, NEW r,
         req' = [req EXCEPT ![t] = r], votes' = votes,
         req[t].todo = {}, r.todo = {}
  PROVE  OwingInv' /\ BoxRows' = BoxRows
<1>1. /\ req'[t] = r
      /\ \A s \in Threads \ {t} : req'[s] = req[s]
  BY DEF VotingInv
<1>2. \A s \in Threads : req'[s].todo = req[s].todo
  BY <1>1
<1> QED BY <1>1, <1>2 DEF OwingInv, BoxRows

\* Loading, casting and showing.
LEMMA OwingRead ==
  ASSUME VotingInv, OwingInv, NEW t \in Threads, NEW r,
         GoesOn(t, r), req[t].pc # "restoring"
  PROVE  OwingInv' /\ BoxRows' = BoxRows
<1>1. r.todo = req[t].todo /\ req' = [req EXCEPT ![t] = r] /\ votes' = votes
  BY DEF GoesOn
<1>2. req[t].todo = {}
  BY DEF OwingInv
<1> QED BY <1>1, <1>2, OwesNothing

\* A thread drops its request with nothing left to put back.
LEMMA OwingDrop ==
  ASSUME VotingInv, OwingInv, NEW t \in Threads, votes' = votes,
         req' = [req EXCEPT ![t] = NoRequest],
         req[t].pc # "restoring" \/ req[t].todo = {}
  PROVE  OwingInv' /\ BoxRows' = BoxRows
<1>1. NoRequest.todo = {} /\ req[t].todo = {}
  BY DEF NoRequest, OwingInv
<1> QED BY <1>1, OwesNothing

\* A vote put back was in the box while it waited.
LEMMA OwingRestore ==
  ASSUME VotingInv, OwingInv, NEW t \in Threads, NEW row \in VoteRow,
         RestoreVote(t, row)
  PROVE  OwingInv' /\ BoxRows' = BoxRows
<1>1. req[t] \in Request
  BY DEF VotingInv
<1>2. PICK r : r = [req[t] EXCEPT !.todo = @ \ {row}]
  OBVIOUS
<1>3. r.pc = "restoring" /\ r.todo = req[t].todo \ {row}
  BY <1>1, <1>2 DEF Request, RestoreVote
<1>4. /\ req'[t] = r
      /\ \A s \in Threads \ {t} : req'[s] = req[s]
      /\ votes' = votes \cup {row}
  BY <1>2 DEF RestoreVote, VotingInv
<1>5. row \in req[t].todo
  BY DEF RestoreVote, NextRows
<1>6. ASSUME NEW x PROVE x \in BoxRows' <=> x \in BoxRows
  <2>1. x \in BoxRows <=> x \in votes \/ \E s \in Threads : x \in req[s].todo
    BY DEF BoxRows
  <2>2. x \in BoxRows' <=> x \in votes' \/ \E s \in Threads : x \in req'[s].todo
    BY DEF BoxRows
  <2>3. x \in req'[t].todo <=> x \in req[t].todo /\ x # row
    BY <1>3, <1>4
  <2> QED BY <1>4, <1>5, <2>1, <2>2, <2>3
<1> QED BY <1>3, <1>4, <1>6 DEF OwingInv

\* The rows are replaced while nobody puts votes back: the box then holds the
\* votes of the aggregate.
LEMMA OwingReplace ==
  ASSUME VotingInv, OwingInv, NEW t \in Threads, ReplaceRows(t)
  PROVE  /\ OwingInv'
         /\ NoneRestores => BoxRows = votes /\ BoxRows' = AllRows(req[t].poll)
<1>1. req[t] \in Request
  BY DEF VotingInv
<1>2. PICK r : r = [req[t] EXCEPT !.pc = "restoring",
                                  !.todo = AllRows(req[t].poll)]
  OBVIOUS
<1>3. r.pc = "restoring" /\ r.todo = AllRows(req[t].poll)
  BY <1>1, <1>2 DEF Request
<1>4. /\ req'[t] = r /\ votes' = {}
      /\ \A s \in Threads \ {t} : req'[s] = req[s]
  BY <1>2 DEF ReplaceRows, VotingInv
<1>5. OwingInv'
  BY <1>3, <1>4 DEF OwingInv
<1>6. ASSUME NoneRestores PROVE BoxRows = votes /\ BoxRows' = AllRows(req[t].poll)
  <2>1. \A s \in Threads : req[s].todo = {}
    BY <1>6 DEF NoneRestores, OwingInv
  <2>2. \A s \in Threads \ {t} : req'[s].todo = {}
    BY <1>4, <2>1
  <2> QED BY <1>3, <1>4, <2>1, <2>2 DEF BoxRows
<1> QED BY <1>5, <1>6

\* A vote replaces the user's ballot in the box when its transaction replaces
\* the rows.
LEMMA ReplaceIsCast ==
  ASSUME VotingInv, LockInv, KeptInv, OwingInv, ~torn, members \subseteq Members,
         NEW t \in Threads, ReplaceRows(t)
  PROVE  Box!Next
<1>1. /\ req[t] \in Request /\ acked \in [Users -> Selection]
      /\ req[t].user \in Users
  BY DEF VotingInv, StoreGood, Request
<1>2. req[t].pc = "saving" /\ req[t].rowsGen = gen
  BY DEF ReplaceRows, RowsUnchanged
<1>3. NoneRestores
  BY <1>2 DEF LockInv, Locked, NoneRestores, Loaders
<1>4. BoxRows = votes /\ BoxRows' = AllRows(req[t].poll)
  BY <1>3, OwingReplace
<1>5. /\ KeptReq(req[t]) /\ UpToDate(req[t]) /\ req[t].toLoad = {}
      /\ req[t].user \in GroupUsers /\ req[t].sel \in FormSelections
      /\ \A k \in Kinds : req[t].poll.ballots[req[t].user][k] = req[t].sel[k]
  BY <1>2 DEF KeptInv, KeptReq, Loaders
<1>6. \A u \in Users, k \in Kinds : Stored(u)[k] = acked[u][k]
  BY <1>3 DEF KeptInv, KeptStore
<1>7. ASSUME NEW u \in Users
      PROVE  InBox(u)' = IF u = req[t].user THEN req[t].sel ELSE InBox(u)
  <2>1. ASSUME NEW k \in Kinds
        PROVE  InBox(u)'[k] = req[t].poll.ballots[u][k]
    <3>1. InBox(u)'[k] = {e \in Entries : <<u, k, e>> \in AllRows(req[t].poll)}
      BY <1>4 DEF InBox, BoxRows
    <3>2. req[t].poll.ballots[u][k] \subseteq Entries
      BY <1>1 DEF Request, Poll, Selection
    <3> QED BY <3>1, <3>2 DEF AllRows, VoteRow
  <2>2. InBox(u)' = [k \in Kinds |-> InBox(u)'[k]]
    BY DEF InBox
  <2>3. CASE u = req[t].user
    <3>1. req[t].sel = [k \in Kinds |-> req[t].sel[k]]
      BY <1>5, FormSelection DEF Selection
    <3> QED BY <1>5, <2>1, <2>2, <2>3, <3>1
  <2>4. CASE u # req[t].user
    <3>1. ASSUME NEW k \in Kinds PROVE InBox(u)'[k] = InBox(u)[k]
      <4>1. req[t].poll.ballots[u][k] = acked[u][k]
        BY <1>2, <1>5, <2>4 DEF UpToDate, Pending
      <4>2. InBox(u)[k] = Stored(u)[k]
        BY <1>4, InBoxRows DEF Stored
      <4> QED BY <1>6, <2>1, <4>1, <4>2
    <3>2. InBox(u) = [k \in Kinds |-> InBox(u)[k]]
      BY DEF InBox
    <3> QED BY <2>2, <2>4, <3>1, <3>2
  <2> QED BY <2>3, <2>4
<1>8. [u \in Users |-> InBox(u)]' =
         [[u \in Users |-> InBox(u)] EXCEPT ![req[t].user] = req[t].sel]
  BY <1>1, <1>7
<1>9. req[t].user \in Members \cup {Creator}
  BY <1>5 DEF GroupUsers
<1> QED BY <1>5, <1>8, <1>9 DEF Box!Next, Box!Cast

\* A step of the voting is a step of the box or leaves it as it is.
BoxStep == BoxRows' = BoxRows \/ Box!Next

\* What is assumed of a state and of a step for the box.
BoxAssumption == ~torn /\ members \subseteq Members

\* A step keeps OwingInv whatever happens; and every step but the replacement
\* of the rows leaves the box as it is, unless the database fails.
LEMMA OwingNext ==
  VotingInv /\ OwingInv /\ [Next]_vars =>
    /\ OwingInv'
    /\ \/ BoxRows' = BoxRows
       \/ \E t \in Threads : ReplaceRows(t)
       \/ \E t \in Threads : DbError(t) /\ req[t].pc = "restoring"
<1> SUFFICES ASSUME VotingInv, OwingInv, [Next]_vars
             PROVE  /\ OwingInv'
                    /\ \/ BoxRows' = BoxRows
                       \/ \E t \in Threads : ReplaceRows(t)
                       \/ \E t \in Threads : DbError(t) /\ req[t].pc = "restoring"
  OBVIOUS
<1>1. ASSUME NEW t \in Threads, NEW isVote, NEW u, NEW sel, Begin(t, isVote, u, sel)
      PROVE  OwingInv' /\ BoxRows' = BoxRows
  <2>1. PICK r : r = [NoRequest EXCEPT !.pc = "loading", !.vote = isVote,
                        !.user = u, !.sel = sel, !.rowsGen = gen,
                        !.group = GroupUsers, !.toLoad = GroupUsers]
    OBVIOUS
  <2>2. r.todo = {}
    BY <2>1 DEF NoRequest
  <2>3. votes' = votes /\ req[t].pc = "idle" /\ req' = [req EXCEPT ![t] = r]
    BY <1>1, <2>1 DEF Begin
  <2>4. req[t].todo = {}
    BY <2>3 DEF OwingInv
  <2> QED BY <2>2, <2>3, <2>4, OwesNothing
<1>2. ASSUME NEW t \in Threads, Work(t), ~ReplaceRows(t)
      PROVE  OwingInv' /\ BoxRows' = BoxRows
  <2>1. ASSUME NEW u \in Users, QueryYes(t, u) PROVE OwingInv' /\ BoxRows' = BoxRows
    <3>1. PICK r : GoesOn(t, r) /\ req[t].pc = "loading"
      BY <2>1, QueryYesFields
    <3> QED BY <3>1, OwingRead
  <2>2. CASE QueryMaybe(t)
    <3>1. PICK r : GoesOn(t, r) /\ req[t].pc = "querying"
      BY <2>2, QueryMaybeFields
    <3> QED BY <3>1, OwingRead
  <2>3. CASE Vote(t)
    <3>1. PICK r : GoesOn(t, r) /\ req[t].pc = "loading"
      BY <2>3, VoteFields
    <3> QED BY <3>1, OwingRead
  <2>4. CASE ShowResults(t)
    <3>1. PICK r : GoesOn(t, r) /\ req[t].pc = "loading"
      BY <2>4, ShowFields
    <3> QED BY <3>1, OwingRead
  <2>5. CASE Deny(t) \/ StaleRows(t) \/ FinishView(t) \/ FinishVote(t)
    <3>1. /\ req' = [req EXCEPT ![t] = NoRequest] /\ votes' = votes
          /\ req[t].pc # "restoring" \/ req[t].todo = {}
      BY <2>5 DEF Deny, StaleRows, FinishView, FinishVote, Loaded
    <3> QED BY <3>1, OwingDrop
  <2>6. ASSUME NEW row \in VoteRow, RestoreVote(t, row)
        PROVE  OwingInv' /\ BoxRows' = BoxRows
    BY <2>6, OwingRestore
  <2> QED BY <1>2, <2>1, <2>2, <2>3, <2>4, <2>5, <2>6 DEF Work
<1>3. ASSUME NEW t \in Threads, ReplaceRows(t) PROVE OwingInv'
  BY <1>3, OwingReplace
<1>4. ASSUME NEW t \in Threads, DbError(t), req[t].pc # "restoring"
      PROVE  OwingInv' /\ BoxRows' = BoxRows
  BY <1>4, OwingDrop DEF DbError
<1>5. ASSUME NEW t \in Threads, DbError(t) PROVE OwingInv'
  <2>1. /\ req'[t] = NoRequest /\ NoRequest.todo = {}
        /\ \A s \in Threads \ {t} : req'[s] = req[s]
    BY <1>5 DEF DbError, VotingInv, NoRequest
  <2> QED BY <2>1 DEF OwingInv
<1>6. CASE \/ PeriodEnds
           \/ \E now \in SUBSET (Users \ {Creator}) : SyncMembers(now)
           \/ Quiet \/ UNCHANGED vars
  BY <1>6 DEF PeriodEnds, SyncMembers, Quiet, vars, OwingInv, BoxRows
<1> QED BY <1>1, <1>2, <1>3, <1>4, <1>5, <1>6 DEF Next, BeginVote, BeginView

LEMMA VotingBoxStep ==
  VotingInv /\ LockInv /\ KeptInv /\ OwingInv /\ BoxAssumption
    /\ [Next]_vars /\ [Undisturbed]_vars
  => BoxStep
<1> SUFFICES ASSUME VotingInv, LockInv, KeptInv, OwingInv, BoxAssumption,
                    [Next]_vars, [Undisturbed]_vars
             PROVE  BoxStep
  OBVIOUS
<1>1. ASSUME NEW t \in Threads, ReplaceRows(t) PROVE Box!Next
  BY <1>1, ReplaceIsCast DEF BoxAssumption
<1>2. ASSUME NEW t \in Threads, DbError(t), req[t].pc = "restoring"
      PROVE  BoxRows' = BoxRows
  <2>1. CASE UNCHANGED vars
    BY <2>1 DEF vars, BoxRows
  <2>2. CASE Undisturbed
    <3>1. NoRequest.pc = "idle" /\ req'[t] = NoRequest
      BY <1>2 DEF DbError, VotingInv, NoRequest
    <3>2. req[t].todo = {}
      BY <1>2, <2>2, <3>1 DEF Undisturbed, FinishVote
    <3> QED BY <1>2, <3>2, OwingDrop DEF DbError
  <2> QED BY <2>1, <2>2
<1> QED BY <1>1, <1>2, OwingNext DEF BoxStep

LEMMA BoxInit == Init => Box!Init
<1> SUFFICES ASSUME Init PROVE Box!Init
  OBVIOUS
<1>1. BoxRows = {}
  BY DEF Init, BoxRows, NoRequest
<1>2. \A u \in Users : InBox(u) = NoSelection
  BY <1>1, InBoxRows DEF NoSelection
<1> QED BY <1>2 DEF Box!Init

LEMMA BoxStepIsBox == BoxStep => [Box!Next]_[u \in Users |-> InBox(u)]
<1> SUFFICES ASSUME BoxRows' = BoxRows
             PROVE  [u \in Users |-> InBox(u)]' = [u \in Users |-> InBox(u)]
  BY DEF BoxStep
<1>1. \A u : InBox(u)' = InBox(u)
  BY DEF InBox, BoxRows
<1> QED BY <1>1

\* However many requests overlap: unless one begins to load while votes are
\* put back, voting implements the ballot box.
THEOREM VotingOverlapImplementsBallotBox ==
  ASSUME VotersInGroups
  PROVE  Spec /\ [][Undisturbed]_vars /\ []BoxAssumption => BallotBoxSpec
<1> DEFINE box == [u \in Users |-> InBox(u)]
<1>1. Init => Box!Init
  BY BoxInit
<1>2. VotingInv /\ LockInv /\ KeptInv /\ OwingInv /\ BoxAssumption
        /\ [Next]_vars /\ [Undisturbed]_vars
      => [Box!Next]_box
  BY VotingBoxStep, BoxStepIsBox
<1>3. VotingInv /\ OwingInv /\ [Next]_vars => OwingInv'
  BY OwingNext
<1>4. Spec /\ [][Undisturbed]_vars => [](VotingInv /\ LockInv /\ KeptInv)
  BY VotingKept
<1> QED BY <1>1, <1>2, <1>3, <1>4, OwingInit, PTL DEF Spec, BallotBoxSpec, Box!Spec
-----------------------------------------------------------------------------
(***************************************************************************)
(* One request at a time: the results shown are those stored, and voting   *)
(* implements the ballot box.                                              *)
(***************************************************************************)
SerialAssumption ==
  /\ KeptAssumption
  /\ \E t : Threads = {t}

\* The one request loads the stored rows, and the groups stay as they are.
SerialInv ==
  /\ ~torn /\ members = Members
  /\ \A t \in Threads : req[t].pc \in Loaders => req[t].rowsGen = gen

LEMMA SerialInit == Init => SerialInv
BY DEF Init, NoRequest, SerialInv, Loaders

\* The one thread's request becomes r.
LEMMA SerialReqStep ==
  ASSUME SerialAssumption, VotingInv, SerialInv, NEW t \in Threads, NEW r,
         req' = [req EXCEPT ![t] = r], torn' = torn, members' = members,
         r.pc \in Loaders => r.rowsGen = gen'
  PROVE  SerialInv'
<1>1. \A s \in Threads : req'[s] = r
  BY DEF SerialAssumption, VotingInv
<1> QED BY <1>1 DEF SerialInv

LEMMA SerialBegin ==
  ASSUME SerialAssumption, VotingInv, SerialInv, NEW t \in Threads,
         NEW isVote, NEW u, NEW sel, Begin(t, isVote, u, sel)
  PROVE  SerialInv'
<1>1. PICK r : r = [NoRequest EXCEPT !.pc = "loading", !.vote = isVote,
                      !.user = u, !.sel = sel, !.rowsGen = gen,
                      !.group = GroupUsers, !.toLoad = GroupUsers]
  OBVIOUS
<1>2. r.rowsGen = gen
  BY <1>1 DEF NoRequest
<1>3. req' = [req EXCEPT ![t] = r] /\ gen' = gen /\ members' = members
  BY <1>1 DEF Begin
<1>4. torn' = torn
  <2>1. \A s \in Threads : req[s].pc = "idle"
    BY DEF Begin, SerialAssumption
  <2>2. torn = FALSE /\ torn' = (torn \/ \E s \in Threads : req[s].pc = "restoring")
    BY DEF Begin, SerialInv, VotingInv, StoreGood
  <2> QED BY <2>1, <2>2
<1> QED BY <1>2, <1>3, <1>4, SerialReqStep

LEMMA SerialRead ==
  ASSUME SerialAssumption, VotingInv, SerialInv, NEW t \in Threads, NEW r,
         GoesOn(t, r), req[t].pc \in Loaders
  PROVE  SerialInv'
<1>1. /\ r.rowsGen = req[t].rowsGen
      /\ req' = [req EXCEPT ![t] = r] /\ UNCHANGED <<members, gen, torn>>
  BY DEF GoesOn
<1>2. req[t].rowsGen = gen
  BY DEF SerialInv
<1> QED BY <1>1, <1>2, SerialReqStep

LEMMA SerialDrop ==
  ASSUME SerialAssumption, VotingInv, SerialInv, NEW t \in Threads,
         req' = [req EXCEPT ![t] = NoRequest], UNCHANGED <<members, torn>>
  PROVE  SerialInv'
<1>1. NoRequest.pc \notin Loaders
  BY DEF NoRequest, Loaders
<1> QED BY <1>1, SerialReqStep

\* The request replaces rows or puts votes back.
LEMMA SerialSave ==
  ASSUME SerialAssumption, VotingInv, SerialInv, NEW t \in Threads,
         ReplaceRows(t) \/ \E row \in VoteRow : RestoreVote(t, row)
  PROVE  SerialInv'
<1>1. req[t] \in Request
  BY DEF VotingInv
<1>2. PICK r : r.pc = "restoring" /\ req' = [req EXCEPT ![t] = r]
  <2>1. CASE ReplaceRows(t)
    <3>1. PICK r : r = [req[t] EXCEPT !.pc = "restoring",
                                      !.todo = AllRows(req[t].poll)]
      OBVIOUS
    <3>2. r.pc = "restoring"
      BY <1>1, <3>1 DEF Request
    <3> QED BY <2>1, <3>1, <3>2 DEF ReplaceRows
  <2>2. ASSUME NEW row \in VoteRow, RestoreVote(t, row)
        PROVE  \E r : r.pc = "restoring" /\ req' = [req EXCEPT ![t] = r]
    <3>1. PICK r : r = [req[t] EXCEPT !.todo = @ \ {row}]
      OBVIOUS
    <3>2. r.pc = "restoring"
      BY <1>1, <2>2, <3>1 DEF Request, RestoreVote
    <3> QED BY <2>2, <3>1, <3>2 DEF RestoreVote
  <2> QED BY <2>1, <2>2
<1>3. UNCHANGED <<members, torn>>
  BY DEF ReplaceRows, RestoreVote
<1> QED BY <1>2, <1>3, SerialReqStep DEF Loaders

LEMMA SerialNext ==
  SerialAssumption /\ VotingInv /\ SerialInv /\ [Next]_vars => SerialInv'
<1> SUFFICES ASSUME SerialAssumption, VotingInv, SerialInv, [Next]_vars
             PROVE  SerialInv'
  OBVIOUS
<1>1. ASSUME NEW t \in Threads, Work(t)
      PROVE  SerialInv'
  <2>1. ASSUME NEW u \in Users, QueryYes(t, u) PROVE SerialInv'
    <3>1. PICK r : GoesOn(t, r) /\ req[t].pc = "loading"
      BY <2>1, QueryYesFields
    <3> QED BY <3>1, SerialRead DEF Loaders
  <2>2. CASE QueryMaybe(t)
    <3>1. PICK r : GoesOn(t, r) /\ req[t].pc = "querying"
      BY <2>2, QueryMaybeFields
    <3> QED BY <3>1, SerialRead DEF Loaders
  <2>3. CASE Vote(t)
    <3>1. PICK r : GoesOn(t, r) /\ req[t].pc = "loading"
      BY <2>3, VoteFields
    <3> QED BY <3>1, SerialRead DEF Loaders
  <2>4. CASE ShowResults(t)
    <3>1. PICK r : GoesOn(t, r) /\ req[t].pc = "loading"
      BY <2>4, ShowFields
    <3> QED BY <3>1, SerialRead DEF Loaders
  <2>5. CASE Deny(t) \/ StaleRows(t) \/ FinishView(t) \/ FinishVote(t)
    <3>1. req' = [req EXCEPT ![t] = NoRequest] /\ UNCHANGED <<members, torn>>
      BY <2>5 DEF Deny, StaleRows, FinishView, FinishVote
    <3> QED BY <3>1, SerialDrop
  <2>6. CASE ReplaceRows(t) \/ \E row \in VoteRow : RestoreVote(t, row)
    BY <2>6, SerialSave
  <2> QED BY <1>1, <2>1, <2>2, <2>3, <2>4, <2>5, <2>6 DEF Work
<1>2. /\ \A t \in Threads : ~DbError(t)
      /\ ~PeriodEnds
      /\ \A now : ~SyncMembers(now)
  BY DEF SerialAssumption, KeptAssumption, DbError, PeriodEnds, SyncMembers
<1>3. CASE Quiet \/ UNCHANGED vars
  BY <1>3 DEF Quiet, vars, SerialInv
<1> QED BY <1>1, <1>2, <1>3, SerialBegin DEF Next, BeginVote, BeginView

THEOREM VotingSerial ==
  ASSUME SerialAssumption
  PROVE  Spec => [](VotingInv /\ LockInv /\ KeptInv /\ SerialInv)
<1>1. Init => SerialInv
  BY SerialInit
<1>2. VotingInv /\ SerialInv /\ [Next]_vars => SerialInv'
  BY SerialNext
<1>3. Spec => [](VotingInv /\ LockInv /\ KeptInv)
  BY QuietKept DEF SerialAssumption
<1> QED BY <1>1, <1>2, <1>3, PTL DEF Spec

\* With one request at a time, the page of results shows what is stored.
THEOREM VotingShownIsStored ==
  ASSUME SerialAssumption
  PROVE  Spec => []ShownIsStored
<1>1. SerialInv /\ ShownIfUnreplaced => ShownIsStored
  BY DEF SerialInv, ShownIfUnreplaced, ShownIsStored, Loaders
<1>2. VotingInv /\ LockInv /\ KeptInv => ShownIfUnreplaced
  BY KeptShowsStored
<1> QED BY <1>1, <1>2, VotingSerial, PTL

\* With one request at a time, and an environment that does nothing, voting
\* implements the ballot box.
THEOREM VotingImplementsBallotBox ==
  ASSUME SerialAssumption
  PROVE  Spec => BallotBoxSpec
<1>1. VotingInv /\ KeptInv /\ [Next]_vars => [Undisturbed]_vars
  BY NothingHappens DEF SerialAssumption, KeptAssumption
<1>2. SerialInv => BoxAssumption
  BY DEF SerialInv, BoxAssumption
<1>3. Spec /\ [][Undisturbed]_vars /\ []BoxAssumption => BallotBoxSpec
  BY VotingOverlapImplementsBallotBox DEF SerialAssumption, KeptAssumption
<1> QED BY <1>1, <1>2, <1>3, VotingSerial, PTL DEF Spec
=============================================================================
