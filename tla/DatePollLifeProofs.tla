------------------------- MODULE DatePollLifeProofs -------------------------
(***************************************************************************)
(* The safety properties of one aggregate's life, for every set of users   *)
(* and entries, every configuration and any number of casts.               *)
(***************************************************************************)
EXTENDS DatePollLife, DatePollProofs

\* The inductive invariant: the aggregate is good, which includes what keeps
\* the counters of added entries right, and nobody holds two yes votes in a
\* single choice poll.
LifeInv ==
  /\ GoodPoll(poll)
  /\ ended \in BOOLEAN
  /\ OneYesPerUser

LEMMA LifeInit == Init => LifeInv
<1> SUFFICES ASSUME Init PROVE LifeInv
  OBVIOUS
<1>1. GoodPoll(poll)
  BY ListedType, FreshPollGood DEF Init
<1>2. OneYesPerUser
  BY FreshOneYes DEF Init, OneYesPerUser, OneYesIn
<1> QED BY <1>1, <1>2 DEF Init, LifeInv

\* One cast keeps the invariant.
LEMMA CastInv ==
  ASSUME LifeInv, NEW u \in Users, NEW sel \in Selection, Cast(u, sel)
  PROVE  LifeInv'
<1>1. ended \in BOOLEAN /\ GoodPoll(poll)
  BY DEF LifeInv
<1>2. poll' = CastBallot(poll, u, sel, ended)
  BY DEF Cast
<1>3. GoodPoll(poll')
  BY <1>1, <1>2, CastBallotGood
<1>4. OneYesPerUser'
  <2>1. OneYesIn(poll')
    BY <1>1, <1>2, CastOneYes DEF LifeInv, OneYesPerUser, OneYesIn
  <2> QED BY <2>1 DEF OneYesPerUser, OneYesIn
<1> QED BY <1>3, <1>4 DEF LifeInv, Cast

LEMMA LifeNext == LifeInv /\ [Next]_vars => LifeInv'
<1> SUFFICES ASSUME LifeInv, [Next]_vars PROVE LifeInv'
  OBVIOUS
<1>1. ASSUME NEW u \in Users, NEW yes \in Choices, NEW maybe \in Choices,
             Cast(u, [k \in Kinds |-> IF k = "yes" THEN yes ELSE maybe])
      PROVE  LifeInv'
  <2>1. [k \in Kinds |-> IF k = "yes" THEN yes ELSE maybe] \in Selection
    BY ListedType DEF Choices, Selection
  <2> QED BY <1>1, <2>1, CastInv
<1>2. CASE PeriodEnds
  BY <1>2 DEF PeriodEnds, LifeInv, OneYesPerUser
<1>3. CASE UNCHANGED vars
  BY <1>3 DEF vars, LifeInv, OneYesPerUser
<1> QED BY <1>1, <1>2, <1>3 DEF Next

THEOREM LifeInvariant == Spec => []LifeInv
<1> QED BY LifeInit, LifeNext, PTL DEF Spec

\* The aggregate keeps its type and no counter falls below zero.
THEOREM LifeTypeOK == Spec => []TypeOK
<1>1. LifeInv => TypeOK
  <2> SUFFICES ASSUME LifeInv, NEW k \in Kinds, NEW e \in poll.entries
               PROVE  poll.count[k][e] >= 0
    BY DEF LifeInv, GoodPoll, TypeOK
  <2> QED BY VotersFinite DEF LifeInv, GoodPoll, TallyExact
<1> QED BY <1>1, LifeInvariant, PTL

\* Whatever users cast and change, the counters are the number of ballots.
THEOREM LifeCountersExact == Spec => []CountersExact
<1>1. LifeInv => CountersExact
  BY DEF LifeInv, GoodPoll, CountersExact
<1> QED BY <1>1, LifeInvariant, PTL

\* Nobody ever holds two yes votes in a single choice poll.
THEOREM LifeOneYesPerUser == Spec => []OneYesPerUser
<1>1. LifeInv => OneYesPerUser
  BY DEF LifeInv
<1> QED BY <1>1, LifeInvariant, PTL

\* After the end date casting leaves ballots, counters and entries alone.
THEOREM LifeFrozenAfterEnd == Spec => FrozenAfterEnd
<1> DEFINE Same == /\ poll'.ballots = poll.ballots
                   /\ poll'.count   = poll.count
                   /\ poll'.entries = poll.entries
<1>1. ASSUME LifeInv, [Next]_vars PROVE ended => Same
  <2> SUFFICES ASSUME ended PROVE Same
    OBVIOUS
  <2>1. ASSUME NEW u \in Users, NEW sel, Cast(u, sel)
        PROVE  Same
    <3>1. poll \in Poll
      BY <1>1 DEF LifeInv, GoodPoll
    <3>2. poll' = CastBallot(poll, u, sel, TRUE)
      BY <2>1 DEF Cast
    <3>3. UpdatePollStatus(poll, TRUE).terminated
      BY <3>1, StatusFields
    <3>4. poll' = UpdatePollStatus(poll, TRUE)
      BY <3>2, <3>3 DEF CastBallot, Refuses
    <3> QED BY <3>1, <3>4, StatusFields
  <2>2. CASE PeriodEnds \/ UNCHANGED vars
    BY <2>2 DEF PeriodEnds, vars
  <2> QED BY <1>1, <2>1, <2>2 DEF Next
<1>2. LifeInv /\ [Next]_vars => [ended => Same]_vars
  BY <1>1
<1> QED BY <1>2, LifeInvariant, PTL DEF Spec, FrozenAfterEnd
-----------------------------------------------------------------------------
\* updateYes or updateMaybe with the selection the ballot has already.
LEMMA SameSelection ==
  ASSUME NEW p \in Poll, NEW u \in Users, NEW k \in Kinds
  PROVE  UpdateSelection(p, u, k, p.ballots[u][k]) = p
<1> DEFINE old == p.ballots[u][k]
           none == (old \ old) \cap p.entries
           re   == Recount(p.count[k], none, none)
<1>1. re = p.count[k]
  <2>1. none = {}
    OBVIOUS
  <2> HIDE DEF none
  <2>2. p.count[k] = [e \in Entries |-> p.count[k][e]]
    BY DEF Poll
  <2> QED BY <2>1, <2>2 DEF Recount
<1>2. UpdateSelection(p, u, k, old) =
        [p EXCEPT !.count = [p.count EXCEPT ![k] = re],
                  !.ballots = [p.ballots EXCEPT ![u][k] = old]]
  BY DEF UpdateSelection, Poll
<1> HIDE DEF re
<1>3. [p.count EXCEPT ![k] = re] = p.count
  BY <1>1 DEF Poll
<1>4. [p.ballots EXCEPT ![u][k] = old] = p.ballots
  BY DEF Poll, Selection
<1> QED BY <1>2, <1>3, <1>4 DEF Poll

\* Casting the ballot a user already has changes nothing.
LEMMA RecastSame ==
  ASSUME NEW p, GoodPoll(p), ~p.terminated, NEW u \in Users,
         SingleChoice => Cardinality(p.ballots[u]["yes"]) <= 1
  PROVE  CastBallot(p, u, p.ballots[u], FALSE) = p
<1> DEFINE sel == p.ballots[u]
<1>1. p \in Poll /\ sel \in Selection
  BY DEF GoodPoll, Poll
<1>2. UpdatePollStatus(p, FALSE) = p
  BY <1>1 DEF UpdatePollStatus, Poll
<1>3. ~Refuses(p, sel)
  BY <1>1, SelectionCount DEF Refuses
<1>4. AggregateNewEntries(p, sel) = p
  <2>1. CASE OpenForOwnEntries
    <3>1. \A k \in Kinds : sel[k] \subseteq p.entries
      BY <2>1 DEF GoodPoll, EntriesCover
    <3>2. p.entries \cup sel["yes"] \cup sel["maybe"] = p.entries
      BY <3>1 DEF Kinds
    <3> QED BY <1>1, <2>1, <3>2 DEF AggregateNewEntries, Poll
  <2> QED BY <2>1 DEF AggregateNewEntries
<1>5. /\ UpdateSelection(p, u, "yes", sel["yes"]) = p
      /\ UpdateSelection(p, u, "maybe", sel["maybe"]) = p
  BY <1>1, SameSelection DEF Kinds
<1> QED BY <1>2, <1>3, <1>4, <1>5 DEF CastBallot

\* Casting a ballot again changes nothing, in any state an aggregate reaches.
THEOREM LifeRecastIsNoop == Spec => []RecastIsNoop
<1>1. LifeInv => RecastIsNoop
  BY RecastSame DEF LifeInv, OneYesPerUser, RecastIsNoop
<1> QED BY <1>1, LifeInvariant, PTL
-----------------------------------------------------------------------------
\* Two aggregates are the same when their fields are.
LEMMA SamePoll ==
  ASSUME NEW p \in Poll, NEW q \in Poll,
         p.terminated = q.terminated, p.entries = q.entries,
         \A v \in Users, k \in Kinds : p.ballots[v][k] = q.ballots[v][k],
         \A k \in Kinds, e \in Entries : p.count[k][e] = q.count[k][e]
  PROVE  p = q
<1>1. p.ballots = q.ballots
  <2>1. \A v \in Users : p.ballots[v] = q.ballots[v]
    BY DEF Poll, Selection
  <2> QED BY <2>1 DEF Poll
<1>2. p.count = q.count
  <2>1. \A k \in Kinds : p.count[k] = q.count[k]
    BY DEF Poll
  <2> QED BY <2>1 DEF Poll
<1> QED BY <1>1, <1>2 DEF Poll

\* It makes no difference whether u's ballot s or v's ballot r comes first.
Commute(p, u, s, v, r) ==
  CastBallot(CastBallot(p, u, s, FALSE), v, r, FALSE)
    = CastBallot(CastBallot(p, v, r, FALSE), u, s, FALSE)

\* The ballots of two users can be cast in either order, whatever they are and
\* whatever was cast before.
LEMMA TwoCastsCommute ==
  ASSUME NEW p, GoodPoll(p), ~p.terminated,
         NEW u \in Users, NEW v \in Users, u # v,
         NEW s \in Selection, NEW r \in Selection
  PROVE  Commute(p, u, s, v, r)
<1> DEFINE pu == CastBallot(p, u, s, FALSE)
           pv == CastBallot(p, v, r, FALSE)
<1>1. GoodPoll(pu) /\ GoodPoll(pv)
  BY CastBallotGood
<1>2. \A q : q \in Poll /\ ~q.terminated => UpdatePollStatus(q, FALSE) = q
  BY DEF UpdatePollStatus, Poll
<1>3. p \in Poll
  BY DEF GoodPoll
<1>4. CASE Refuses(p, s)
  <2>1. SingleChoice /\ Cardinality(s["yes"]) > 1
    BY <1>4 DEF Refuses
  <2>2. \A q : Refuses(q, s)
    BY <2>1 DEF Refuses
  <2>3. pu = p
    BY <1>2, <1>3, <2>2 DEF CastBallot
  <2>4. ~pv.terminated
    BY <1>2, <1>3, CastFields DEF CastBallot, IsCast
  <2>5. CastBallot(pv, u, s, FALSE) = pv
    BY <1>1, <1>2, <2>2, <2>4 DEF CastBallot, GoodPoll
  <2> QED BY <2>3, <2>5 DEF Commute
<1>5. CASE Refuses(p, r)
  <2>1. SingleChoice /\ Cardinality(r["yes"]) > 1
    BY <1>5 DEF Refuses
  <2>2. \A q : Refuses(q, r)
    BY <2>1 DEF Refuses
  <2>3. pv = p
    BY <1>2, <1>3, <2>2 DEF CastBallot
  <2>4. ~pu.terminated
    BY <1>2, <1>3, CastFields DEF CastBallot, IsCast
  <2>5. CastBallot(pu, v, r, FALSE) = pu
    BY <1>1, <1>2, <2>2, <2>4 DEF CastBallot, GoodPoll
  <2> QED BY <2>3, <2>5 DEF Commute
<1>6. CASE ~Refuses(p, s) /\ ~Refuses(p, r)
  <2>1. IsCast(pu, p, u, s) /\ IsCast(pv, p, v, r)
    BY <1>6, CastFields
  <2>2. ~Refuses(pu, r) /\ ~Refuses(pv, s)
    BY <1>6, <2>1 DEF Refuses, IsCast
  <2> DEFINE puv == CastBallot(pu, v, r, FALSE)
             pvu == CastBallot(pv, u, s, FALSE)
  <2> HIDE DEF pu, pv
  <2>3. IsCast(puv, pu, v, r) /\ IsCast(pvu, pv, u, s)
    BY <1>1, <2>2, CastFields
  <2> HIDE DEF puv, pvu
  <2>4. /\ puv \in Poll /\ pvu \in Poll
        /\ puv.terminated = pvu.terminated
    BY <2>3 DEF IsCast
  <2>5. puv.entries = pvu.entries
    BY <2>1, <2>3 DEF IsCast, EntriesAfter
  <2>6. ASSUME NEW w \in Users, NEW k \in Kinds
        PROVE  puv.ballots[w][k] = pvu.ballots[w][k]
    BY <2>1, <2>3 DEF IsCast
  <2>7. ASSUME NEW k \in Kinds, NEW e \in Entries
        PROVE  puv.count[k][e] = pvu.count[k][e]
    <3>1. Counts(pu, e) = Counts(p, e) /\ Counts(pv, e) = Counts(p, e)
      BY <2>1 DEF IsCast, Counts, EntriesAfter
    <3>2. pu.ballots[v][k] = p.ballots[v][k] /\ pv.ballots[u][k] = p.ballots[u][k]
      BY <2>1 DEF IsCast
    <3>3. p.count[k][e] \in Int
      BY <1>3 DEF Poll
    <3>4. puv.count[k][e] =
            Moved(Moved(p.count[k][e], Counts(p, e), s[k], p.ballots[u][k], e),
                  Counts(p, e), r[k], p.ballots[v][k], e)
      BY <2>1, <2>3, <3>1, <3>2 DEF IsCast
    <3>5. pvu.count[k][e] =
            Moved(Moved(p.count[k][e], Counts(p, e), r[k], p.ballots[v][k], e),
                  Counts(p, e), s[k], p.ballots[u][k], e)
      BY <2>1, <2>3, <3>1, <3>2 DEF IsCast
    <3> QED BY <3>3, <3>4, <3>5 DEF Moved
  <2>8. puv = pvu
    BY <2>4, <2>5, <2>6, <2>7, SamePoll
  <2> QED BY <2>8 DEF Commute, puv, pvu, pu, pv
<1> QED BY <1>4, <1>5, <1>6

\* In any state an aggregate reaches, two users' ballots commute.
THEOREM LifeCastsCommute == Spec => []CastsCommute
<1>1. LifeInv => CastsCommute
  <2> SUFFICES ASSUME LifeInv, ~poll.terminated, NEW u \in Users,
                      NEW v \in Users \ {u}, NEW w \in Users
               PROVE  LET s == poll.ballots[w]
                          r == [k \in Kinds |-> Listed \ poll.ballots[w][k]]
                      IN  CastBallot(CastBallot(poll, u, s, FALSE), v, r, FALSE)
                            = CastBallot(CastBallot(poll, v, r, FALSE), u, s, FALSE)
    BY DEF CastsCommute
  <2> DEFINE s == poll.ballots[w]
             r == [k \in Kinds |-> Listed \ poll.ballots[w][k]]
  <2>1. GoodPoll(poll) /\ u # v /\ v \in Users
    BY DEF LifeInv
  <2>2. s \in Selection
    BY <2>1 DEF GoodPoll, Poll
  <2>3. r \in Selection
    BY ListedType DEF Selection
  <2> HIDE DEF s, r
  <2>4. Commute(poll, u, s, v, r)
    BY <2>1, <2>2, <2>3, TwoCastsCommute
  <2> QED BY <2>4 DEF Commute, s, r
<1> QED BY <1>1, LifeInvariant, PTL
=============================================================================
