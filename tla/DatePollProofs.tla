--------------------------- MODULE DatePollProofs ---------------------------
(***************************************************************************)
(* What castBallot does to the aggregate, for every set of users, entries  *)
(* and configuration.  The lemmas are about the operators of DatePoll and  *)
(* are used for the life of one aggregate and for the requests that load   *)
(* and save it.                                                            *)
(***************************************************************************)
EXTENDS DatePoll, FiniteSetTheorems, TLAPS

\* The part of an aggregate's invariant that makes the counters inductive: in
\* a poll open for own entries no ballot and no counter is ahead of the
\* entries, so an entry that is added starts with the count it should have.
EntriesCover(poll) ==
  OpenForOwnEntries =>
    \A k \in Kinds :
      /\ \A u \in Users : poll.ballots[u][k] \subseteq poll.entries
      /\ \A e \in Entries \ poll.entries : poll.count[k][e] = 0

GoodPoll(poll) == poll \in Poll /\ TallyExact(poll) /\ EntriesCover(poll)

\* An aggregate fresh from the database is good.
LEMMA FreshPollGood ==
  ASSUME NEW E \in SUBSET Entries
  PROVE  GoodPoll(FreshPoll(E))
<1> DEFINE p == FreshPoll(E)
<1>1. p \in Poll
  BY DEF FreshPoll, Poll, Kinds, Selection, NoSelection
<1>2. TallyExact(p)
  <2> SUFFICES ASSUME NEW k \in Kinds, NEW e \in E
               PROVE  p.count[k][e] = Cardinality(Voters(p, k, e))
    BY DEF TallyExact, FreshPoll
  <2>1. Voters(p, k, e) = {}
    BY DEF Voters, FreshPoll, NoSelection
  <2>2. p.count[k][e] = 0
    BY DEF FreshPoll
  <2> QED BY <2>1, <2>2, FS_EmptySet
<1>3. EntriesCover(p)
  BY DEF EntriesCover, FreshPoll, NoSelection
<1> QED BY <1>1, <1>2, <1>3 DEF GoodPoll

\* The voters of an entry are finitely many.
LEMMA VotersFinite ==
  ASSUME NEW p, NEW k, NEW e
  PROVE  IsFiniteSet(Voters(p, k, e)) /\ Cardinality(Voters(p, k, e)) \in Nat
<1>1. Voters(p, k, e) \subseteq Users
  BY DEF Voters
<1> QED BY <1>1, UsersFinite, FS_Subset, FS_CardinalityType

\* The fields of an aggregate after updateYes or updateMaybe.
LEMMA UpdateFields ==
  ASSUME NEW p \in Poll, NEW u \in Users, NEW k \in Kinds,
         NEW new \in SUBSET Entries
  PROVE  LET q   == UpdateSelection(p, u, k, new)
             old == p.ballots[u][k]
         IN  /\ q \in Poll
             /\ q.entries = p.entries
             /\ q.terminated = p.terminated
             /\ q.ballots[u][k] = new
             /\ \A v \in Users, l \in Kinds :
                  v # u \/ l # k => q.ballots[v][l] = p.ballots[v][l]
             /\ \A l \in Kinds, e \in Entries :
                  q.count[l][e] =
                    IF l = k /\ e \in (new \ old) \cap p.entries
                      THEN p.count[l][e] + 1
                    ELSE IF l = k /\ e \in (old \ new) \cap p.entries
                      THEN p.count[l][e] - 1
                    ELSE p.count[l][e]
<1> DEFINE q   == UpdateSelection(p, u, k, new)
           old == p.ballots[u][k]
           inc == (new \ old) \cap p.entries
           dec == (old \ new) \cap p.entries
           re  == Recount(p.count[k], inc, dec)
<1>1. re = [e \in Entries |-> IF e \in inc THEN p.count[k][e] + 1
                              ELSE IF e \in dec THEN p.count[k][e] - 1
                              ELSE p.count[k][e]]
  BY DEF Recount
<1>2. re \in [Entries -> Int]
  <2> HIDE DEF re, inc, dec
  <2>1. \A e \in Entries : p.count[k][e] \in Int
    BY DEF Poll
  <2> QED BY <1>1, <2>1
<1>3. q = [p EXCEPT !.count[k] = re, !.ballots[u][k] = new]
  BY DEF UpdateSelection
<1>4. q \in Poll
  <2> HIDE DEF re
  <2>1. [p.count EXCEPT ![k] = re] \in [Kinds -> [Entries -> Int]]
    BY <1>2 DEF Poll
  <2>2. [p.ballots EXCEPT ![u][k] = new] \in [Users -> Selection]
    BY DEF Poll, Selection
  <2>3. q = [p EXCEPT !.count = [p.count EXCEPT ![k] = re],
                      !.ballots = [p.ballots EXCEPT ![u][k] = new]]
    BY <1>3 DEF Poll
  <2> QED BY <2>1, <2>2, <2>3 DEF Poll
<1>5. /\ q.entries = p.entries
      /\ q.terminated = p.terminated
  BY <1>3 DEF Poll
<1>6. /\ q.ballots[u][k] = new
      /\ \A v \in Users, l \in Kinds :
           v # u \/ l # k => q.ballots[v][l] = p.ballots[v][l]
  BY <1>3 DEF Poll, Selection
<1>7. \A l \in Kinds : q.count[l] = IF l = k THEN re ELSE p.count[l]
  BY <1>3 DEF Poll
<1>8. \A l \in Kinds, e \in Entries :
        q.count[l][e] = IF l = k /\ e \in inc THEN p.count[l][e] + 1
                        ELSE IF l = k /\ e \in dec THEN p.count[l][e] - 1
                        ELSE p.count[l][e]
  BY <1>1, <1>7
<1> QED BY <1>4, <1>5, <1>6, <1>8

\* The voters of an entry after updateYes or updateMaybe.
LEMMA UpdateVoters ==
  ASSUME NEW p \in Poll, NEW u \in Users, NEW k \in Kinds,
         NEW new \in SUBSET Entries, NEW l \in Kinds, NEW e \in Entries
  PROVE  LET q == UpdateSelection(p, u, k, new)
         IN  Voters(q, l, e) =
               IF l # k THEN Voters(p, l, e)
               ELSE IF e \in new THEN Voters(p, l, e) \cup {u}
               ELSE Voters(p, l, e) \ {u}
<1> DEFINE q == UpdateSelection(p, u, k, new)
<1> HIDE DEF q
<1>1. /\ q.ballots[u][k] = new
      /\ \A v \in Users, m \in Kinds :
           v # u \/ m # k => q.ballots[v][m] = p.ballots[v][m]
  BY UpdateFields DEF q
<1>2. CASE l # k
  BY <1>1, <1>2 DEF Voters, q
<1>3. CASE l = k /\ e \in new
  BY <1>1, <1>3 DEF Voters, q
<1>4. CASE l = k /\ e \notin new
  BY <1>1, <1>4 DEF Voters, q
<1> QED BY <1>2, <1>3, <1>4

\* Moving the counters by the difference of the old and the new selection
\* keeps them equal to the number of ballots that select the entry.
LEMMA UpdateTally ==
  ASSUME NEW p \in Poll, NEW u \in Users, NEW k \in Kinds,
         NEW new \in SUBSET Entries, TallyExact(p)
  PROVE  TallyExact(UpdateSelection(p, u, k, new))
<1> DEFINE q   == UpdateSelection(p, u, k, new)
           old == p.ballots[u][k]
<1>1. /\ q.entries = p.entries
      /\ \A l \in Kinds, e \in Entries :
           q.count[l][e] =
             IF l = k /\ e \in (new \ old) \cap p.entries
               THEN p.count[l][e] + 1
             ELSE IF l = k /\ e \in (old \ new) \cap p.entries
               THEN p.count[l][e] - 1
             ELSE p.count[l][e]
  BY UpdateFields
<1> SUFFICES ASSUME NEW l \in Kinds, NEW e \in p.entries
             PROVE  q.count[l][e] = Cardinality(Voters(q, l, e))
  BY <1>1 DEF TallyExact
<1>2. e \in Entries
  BY DEF Poll
<1>3. p.count[l][e] = Cardinality(Voters(p, l, e))
  BY DEF TallyExact
<1>4. Voters(q, l, e) = IF l # k THEN Voters(p, l, e)
                        ELSE IF e \in new THEN Voters(p, l, e) \cup {u}
                        ELSE Voters(p, l, e) \ {u}
  BY <1>2, UpdateVoters
<1>5. u \in Voters(p, k, e) <=> e \in old
  BY DEF Voters
<1> HIDE DEF q, old
<1>6. CASE l # k
  BY <1>1, <1>2, <1>3, <1>4, <1>6
<1>7. CASE l = k /\ e \in new
  <2>1. Cardinality(Voters(q, l, e)) =
          IF e \in old THEN Cardinality(Voters(p, l, e))
                       ELSE Cardinality(Voters(p, l, e)) + 1
    <3>1. Voters(q, l, e) = Voters(p, k, e) \cup {u}
      BY <1>4, <1>7
    <3>2. Cardinality(Voters(p, k, e) \cup {u}) =
            IF u \in Voters(p, k, e) THEN Cardinality(Voters(p, k, e))
                                     ELSE Cardinality(Voters(p, k, e)) + 1
      BY VotersFinite, FS_AddElement
    <3> QED BY <3>1, <3>2, <1>5, <1>7
  <2> QED BY <2>1, <1>1, <1>2, <1>3, <1>7
<1>8. CASE l = k /\ e \notin new
  <2>1. Cardinality(Voters(q, l, e)) =
          IF e \in old THEN Cardinality(Voters(p, l, e)) - 1
                       ELSE Cardinality(Voters(p, l, e))
    <3>1. Voters(q, l, e) = Voters(p, k, e) \ {u}
      BY <1>4, <1>8
    <3>2. Cardinality(Voters(p, k, e) \ {u}) =
            IF u \in Voters(p, k, e) THEN Cardinality(Voters(p, k, e)) - 1
                                     ELSE Cardinality(Voters(p, k, e))
      BY VotersFinite, FS_RemoveElement
    <3> QED BY <3>1, <3>2, <1>5, <1>8
  <2> QED BY <2>1, <1>1, <1>2, <1>3, <1>8
<1> QED BY <1>6, <1>7, <1>8

\* updateYes and updateMaybe keep an aggregate good; in a poll open for own
\* entries the selection has been added to the entries before.
LEMMA UpdateGood ==
  ASSUME NEW p, GoodPoll(p), NEW u \in Users, NEW k \in Kinds,
         NEW new \in SUBSET Entries,
         OpenForOwnEntries => new \subseteq p.entries
  PROVE  GoodPoll(UpdateSelection(p, u, k, new))
<1> DEFINE q == UpdateSelection(p, u, k, new)
<1>1. p \in Poll /\ TallyExact(p) /\ EntriesCover(p)
  BY DEF GoodPoll
<1>2. q \in Poll /\ TallyExact(q)
  BY <1>1, UpdateFields, UpdateTally
<1>3. EntriesCover(q)
  <2> SUFFICES ASSUME OpenForOwnEntries, NEW l \in Kinds
               PROVE  /\ \A v \in Users : q.ballots[v][l] \subseteq q.entries
                      /\ \A e \in Entries \ q.entries : q.count[l][e] = 0
    BY DEF EntriesCover
  <2>1. /\ \A v \in Users : p.ballots[v][l] \subseteq p.entries
        /\ \A e \in Entries \ p.entries : p.count[l][e] = 0
    BY <1>1 DEF EntriesCover
  <2>2. /\ q.entries = p.entries
        /\ q.ballots[u][k] = new
        /\ \A v \in Users, m \in Kinds :
             v # u \/ m # k => q.ballots[v][m] = p.ballots[v][m]
        /\ \A e \in Entries \ p.entries : q.count[l][e] = p.count[l][e]
    BY <1>1, UpdateFields
  <2> HIDE DEF q
  <2> QED BY <2>1, <2>2
<1> QED BY <1>2, <1>3 DEF GoodPoll

\* aggregateNewEntries keeps an aggregate good: what it adds has no voter.
LEMMA AggregateGood ==
  ASSUME NEW p, GoodPoll(p), NEW sel \in Selection
  PROVE  LET q == AggregateNewEntries(p, sel)
         IN  /\ GoodPoll(q)
             /\ OpenForOwnEntries =>
                  \A k \in Kinds : sel[k] \subseteq q.entries
<1> DEFINE q == AggregateNewEntries(p, sel)
<1>1. CASE ~OpenForOwnEntries
  BY <1>1 DEF AggregateNewEntries
<1>2. CASE OpenForOwnEntries
  <2>1. /\ p \in Poll /\ TallyExact(p)
        /\ \A k \in Kinds :
             /\ \A u \in Users : p.ballots[u][k] \subseteq p.entries
             /\ \A e \in Entries \ p.entries : p.count[k][e] = 0
    BY <1>2 DEF GoodPoll, EntriesCover
  <2>2. q = [p EXCEPT !.entries = p.entries \cup sel["yes"] \cup sel["maybe"]]
    BY <1>2 DEF AggregateNewEntries
  <2>3. /\ q \in Poll
        /\ q.entries = p.entries \cup sel["yes"] \cup sel["maybe"]
        /\ q.count = p.count
        /\ q.ballots = p.ballots
    BY <2>1, <2>2 DEF Poll, Selection, Kinds
  <2> HIDE DEF q
  <2>4. TallyExact(q)
    <3> SUFFICES ASSUME NEW k \in Kinds, NEW e \in q.entries
                 PROVE  q.count[k][e] = Cardinality(Voters(q, k, e))
      BY DEF TallyExact
    <3>1. Voters(q, k, e) = Voters(p, k, e)
      BY <2>3 DEF Voters
    <3>2. CASE e \in p.entries
      BY <2>1, <2>3, <3>1, <3>2 DEF TallyExact
    <3>3. CASE e \notin p.entries
      <4>1. Voters(p, k, e) = {}
        BY <2>1, <3>3 DEF Voters
      <4>2. e \in Entries
        BY <2>3 DEF Poll
      <4> QED BY <2>1, <2>3, <3>1, <3>3, <4>1, <4>2, FS_EmptySet
    <3> QED BY <3>2, <3>3
  <2>5. EntriesCover(q)
    BY <2>1, <2>3 DEF EntriesCover
  <2>6. OpenForOwnEntries => \A k \in Kinds : sel[k] \subseteq q.entries
    BY <2>3 DEF Kinds
  <2> QED BY <2>3, <2>4, <2>5, <2>6 DEF GoodPoll, q
<1> QED BY <1>1, <1>2

\* castBallot keeps an aggregate good, whoever casts what and when.
THEOREM CastBallotGood ==
  ASSUME NEW p, GoodPoll(p), NEW u \in Users, NEW sel \in Selection,
         NEW over \in BOOLEAN
  PROVE  GoodPoll(CastBallot(p, u, sel, over))
<1> DEFINE now   == UpdatePollStatus(p, over)
           grown == AggregateNewEntries(now, sel)
           yes   == UpdateSelection(grown, u, "yes", sel["yes"])
           both  == UpdateSelection(yes, u, "maybe", sel["maybe"])
<1>1. GoodPoll(now)
  <2>1. /\ now \in Poll
        /\ now.entries = p.entries
        /\ now.count = p.count
        /\ now.ballots = p.ballots
    BY DEF GoodPoll, UpdatePollStatus, Poll
  <2> HIDE DEF now
  <2>2. \A k, e : Voters(now, k, e) = Voters(p, k, e)
    BY <2>1 DEF Voters
  <2>3. TallyExact(now) /\ EntriesCover(now)
    BY <2>1, <2>2 DEF GoodPoll, TallyExact, EntriesCover
  <2> QED BY <2>1, <2>3 DEF GoodPoll
<1>2. /\ GoodPoll(grown)
      /\ OpenForOwnEntries => \A k \in Kinds : sel[k] \subseteq grown.entries
  BY <1>1, AggregateGood
<1>3. "yes" \in Kinds /\ "maybe" \in Kinds
  BY DEF Kinds
<1>4. sel["yes"] \in SUBSET Entries /\ sel["maybe"] \in SUBSET Entries
  BY <1>3 DEF Selection
<1> HIDE DEF now, grown
<1>5. GoodPoll(yes)
  BY <1>2, <1>3, <1>4, UpdateGood
<1>6. yes.entries = grown.entries
  BY <1>2, <1>3, <1>4, UpdateFields DEF GoodPoll
<1> HIDE DEF yes
<1>7. GoodPoll(both)
  BY <1>2, <1>3, <1>4, <1>5, <1>6, UpdateGood
<1> QED BY <1>1, <1>7 DEF CastBallot, now, grown, yes

\* What castBallot does to the ballots: it is refused and changes none, or it
\* replaces the user's own ballot and no other.
LEMMA CastBallots ==
  ASSUME NEW p, GoodPoll(p), NEW u \in Users, NEW sel \in Selection,
         NEW over \in BOOLEAN
  PROVE  LET q == CastBallot(p, u, sel, over)
         IN  /\ Refuses(UpdatePollStatus(p, over), sel) =>
                  q = UpdatePollStatus(p, over)
             /\ ~Refuses(UpdatePollStatus(p, over), sel) =>
                  \A v \in Users, k \in Kinds :
                    q.ballots[v][k] = IF v = u THEN sel[k]
                                               ELSE p.ballots[v][k]
<1> DEFINE now   == UpdatePollStatus(p, over)
           grown == AggregateNewEntries(now, sel)
           yes   == UpdateSelection(grown, u, "yes", sel["yes"])
           both  == UpdateSelection(yes, u, "maybe", sel["maybe"])
<1>1. now \in Poll /\ now.ballots = p.ballots
  BY DEF GoodPoll, UpdatePollStatus, Poll
<1>2. "yes" \in Kinds /\ "maybe" \in Kinds
  BY DEF Kinds
<1>3. sel["yes"] \in SUBSET Entries /\ sel["maybe"] \in SUBSET Entries
  BY <1>2 DEF Selection
<1> HIDE DEF now
<1>4. grown \in Poll /\ grown.ballots = p.ballots
  BY <1>1, <1>3 DEF AggregateNewEntries, Poll
<1> HIDE DEF grown
<1>5. /\ yes \in Poll
      /\ yes.ballots[u]["yes"] = sel["yes"]
      /\ \A v \in Users, k \in Kinds :
           v # u \/ k # "yes" => yes.ballots[v][k] = grown.ballots[v][k]
  BY <1>2, <1>3, <1>4, UpdateFields
<1> HIDE DEF yes
<1>6. /\ both.ballots[u]["maybe"] = sel["maybe"]
      /\ \A v \in Users, k \in Kinds :
           v # u \/ k # "maybe" => both.ballots[v][k] = yes.ballots[v][k]
  BY <1>2, <1>3, <1>5, UpdateFields
<1> HIDE DEF both
<1>7. \A v \in Users, k \in Kinds :
        both.ballots[v][k] = IF v = u THEN sel[k] ELSE p.ballots[v][k]
  BY <1>4, <1>5, <1>6 DEF Kinds
<1> QED BY <1>7 DEF CastBallot, now, grown, yes, both

\* Marking the poll as over touches nothing else.
LEMMA StatusFields ==
  ASSUME NEW p \in Poll, NEW over \in BOOLEAN
  PROVE  LET q == UpdatePollStatus(p, over)
         IN  /\ q.entries = p.entries
             /\ q.count = p.count
             /\ q.ballots = p.ballots
             /\ q.terminated = (p.terminated \/ over)
BY DEF UpdatePollStatus, Poll

\* In a single choice poll nobody holds two yes votes in the aggregate.
OneYesIn(p) ==
  SingleChoice => \A u \in Users : Cardinality(p.ballots[u]["yes"]) <= 1

\* What one user selects is finite and can be counted.
LEMMA SelectionCount ==
  ASSUME NEW sel \in Selection
  PROVE  Cardinality(sel["yes"]) \in Nat
<1>1. sel["yes"] \in SUBSET Entries
  BY DEF Selection, Kinds
<1> QED BY <1>1, EntriesFinite, FS_Subset, FS_CardinalityType

\* A fresh aggregate holds no yes votes at all.
LEMMA FreshOneYes ==
  ASSUME NEW E
  PROVE  OneYesIn(FreshPoll(E))
<1>1. \A u \in Users : FreshPoll(E).ballots[u]["yes"] = {}
  BY DEF FreshPoll, NoSelection, Kinds
<1>2. Cardinality({}) = 0
  BY FS_EmptySet
<1> QED BY <1>1, <1>2 DEF OneYesIn

\* castBallot refuses the second yes vote.
LEMMA CastOneYes ==
  ASSUME NEW p, GoodPoll(p), OneYesIn(p), NEW u \in Users,
         NEW sel \in Selection, NEW over \in BOOLEAN
  PROVE  OneYesIn(CastBallot(p, u, sel, over))
<1> DEFINE q == CastBallot(p, u, sel, over)
<1> SUFFICES ASSUME SingleChoice, NEW v \in Users
             PROVE  Cardinality(q.ballots[v]["yes"]) <= 1
  BY DEF OneYesIn
<1>1. Cardinality(p.ballots[v]["yes"]) <= 1
  BY DEF OneYesIn
<1>2. CASE Refuses(UpdatePollStatus(p, over), sel)
  <2>1. q = UpdatePollStatus(p, over)
    BY <1>2, CastBallots
  <2>2. q.ballots = p.ballots
    BY <2>1, StatusFields DEF GoodPoll
  <2> QED BY <1>1, <2>2
<1>3. CASE ~Refuses(UpdatePollStatus(p, over), sel)
  <2>1. ~(Cardinality(sel["yes"]) > 1)
    BY <1>3 DEF Refuses
  <2>2. \A w \in Users, k \in Kinds :
          q.ballots[w][k] = IF w = u THEN sel[k] ELSE p.ballots[w][k]
    BY <1>3, CastBallots
  <2>3. q.ballots[v]["yes"] = IF v = u THEN sel["yes"] ELSE p.ballots[v]["yes"]
    BY <2>2 DEF Kinds
  <2> QED BY <1>1, <2>1, <2>3, SelectionCount
<1> QED BY <1>2, <1>3

\* An entry whose counter moves when somebody selects it: one the poll has, or,
\* in a poll open for own entries, will have when it is selected.
Counts(p, e) == OpenForOwnEntries \/ e \in p.entries

EntriesAfter(p, sel) ==
  IF OpenForOwnEntries THEN p.entries \cup sel["yes"] \cup sel["maybe"]
                       ELSE p.entries

\* A counter after a selection `old' has become `new'.
Moved(n, counted, new, old, e) ==
  IF counted /\ e \in new \ old THEN n + 1
  ELSE IF counted /\ e \in old \ new THEN n - 1
  ELSE n

\* All fields of the aggregate q that is p after u's ballot sel.
IsCast(q, p, u, sel) ==
  /\ q \in Poll
  /\ q.terminated = FALSE
  /\ q.entries = EntriesAfter(p, sel)
  /\ \A v \in Users, k \in Kinds :
       q.ballots[v][k] = IF v = u THEN sel[k] ELSE p.ballots[v][k]
  /\ \A k \in Kinds, e \in Entries :
       q.count[k][e] = Moved(p.count[k][e], Counts(p, e),
                             sel[k], p.ballots[u][k], e)

\* castBallot, when it does not refuse.
LEMMA CastFields ==
  ASSUME NEW p, GoodPoll(p), NEW u \in Users, NEW sel \in Selection,
         ~Refuses(p, sel)
  PROVE  IsCast(CastBallot(p, u, sel, FALSE), p, u, sel)
<1> DEFINE grown == AggregateNewEntries(p, sel)
           yes   == UpdateSelection(grown, u, "yes", sel["yes"])
           both  == UpdateSelection(yes, u, "maybe", sel["maybe"])
<1>1. p \in Poll /\ ~p.terminated
  BY DEF GoodPoll, Refuses
<1>2. UpdatePollStatus(p, FALSE) = p
  BY <1>1 DEF UpdatePollStatus, Poll
<1>3. CastBallot(p, u, sel, FALSE) = both
  BY <1>2 DEF CastBallot
<1>4. /\ "yes" \in Kinds /\ "maybe" \in Kinds
      /\ \A k \in Kinds : k = "yes" \/ k = "maybe"
      /\ sel["yes"] \in SUBSET Entries /\ sel["maybe"] \in SUBSET Entries
  BY DEF Kinds, Selection
<1>5. /\ grown \in Poll
      /\ grown.terminated = FALSE
      /\ grown.entries = EntriesAfter(p, sel)
      /\ grown.count = p.count
      /\ grown.ballots = p.ballots
  BY <1>1, <1>4 DEF AggregateNewEntries, EntriesAfter, Poll
<1>6. \A k \in Kinds, e \in Entries :
        e \in sel[k] \cup p.ballots[u][k] =>
          (Counts(p, e) <=> e \in EntriesAfter(p, sel))
  <2>1. OpenForOwnEntries => \A k \in Kinds : p.ballots[u][k] \subseteq p.entries
    BY DEF GoodPoll, EntriesCover
  <2> QED BY <1>4, <2>1 DEF Counts, EntriesAfter
<1> HIDE DEF grown
<1>7. /\ yes \in Poll
      /\ yes.terminated = FALSE
      /\ yes.entries = EntriesAfter(p, sel)
      /\ yes.ballots[u]["yes"] = sel["yes"]
      /\ \A v \in Users, k \in Kinds :
           v # u \/ k # "yes" => yes.ballots[v][k] = p.ballots[v][k]
      /\ \A k \in Kinds, e \in Entries :
           yes.count[k][e] =
             IF k = "yes"
               THEN Moved(p.count[k][e], e \in EntriesAfter(p, sel),
                          sel[k], p.ballots[u][k], e)
               ELSE p.count[k][e]
  BY <1>4, <1>5, UpdateFields DEF Moved
<1> HIDE DEF yes
<1>8. /\ both \in Poll
      /\ both.terminated = FALSE
      /\ both.entries = EntriesAfter(p, sel)
      /\ \A v \in Users, k \in Kinds :
           both.ballots[v][k] = IF v = u THEN sel[k] ELSE p.ballots[v][k]
  <2>1. /\ both \in Poll
        /\ both.terminated = yes.terminated
        /\ both.entries = yes.entries
        /\ both.ballots[u]["maybe"] = sel["maybe"]
        /\ \A v \in Users, k \in Kinds :
             v # u \/ k # "maybe" => both.ballots[v][k] = yes.ballots[v][k]
    BY <1>4, <1>7, UpdateFields
  <2> HIDE DEF both
  <2> QED BY <1>4, <1>7, <2>1
<1>9. \A k \in Kinds, e \in Entries :
        both.count[k][e] = Moved(p.count[k][e], e \in EntriesAfter(p, sel),
                                 sel[k], p.ballots[u][k], e)
  <2>1. \A k \in Kinds, e \in Entries :
          both.count[k][e] =
            IF k = "maybe"
              THEN Moved(yes.count[k][e], e \in yes.entries,
                         sel[k], yes.ballots[u][k], e)
              ELSE yes.count[k][e]
    BY <1>4, <1>7, UpdateFields DEF Moved
  <2> HIDE DEF both
  <2> QED BY <1>4, <1>7, <2>1
<1> HIDE DEF both
<1>10. \A k \in Kinds, e \in Entries :
         both.count[k][e] = Moved(p.count[k][e], Counts(p, e),
                                  sel[k], p.ballots[u][k], e)
  BY <1>6, <1>9 DEF Moved
<1> QED BY <1>3, <1>8, <1>10 DEF IsCast

\* q is p, a poll that goes on and has all entries, after u's ballot sel: it
\* still is one, and has the ballot, unless it was refused.
Replaces(q, p, u, sel) ==
  /\ ~q.terminated /\ q.entries = Entries
  /\ (SingleChoice => Cardinality(sel["yes"]) <= 1) =>
       \A v \in Users, k \in Kinds :
         q.ballots[v][k] = IF v = u THEN sel[k] ELSE p.ballots[v][k]

\* castBallot does so while the poll goes on.
LEMMA CastGoesOn ==
  ASSUME NEW p, GoodPoll(p), ~p.terminated, p.entries = Entries,
         NEW u \in Users, NEW sel \in Selection
  PROVE  Replaces(CastBallot(p, u, sel, FALSE), p, u, sel)
<1> DEFINE q == CastBallot(p, u, sel, FALSE)
<1>1. CASE Refuses(p, sel)
  <2>1. UpdatePollStatus(p, FALSE) = p
    BY DEF UpdatePollStatus, GoodPoll, Poll
  <2>2. q = p
    BY <1>1, <2>1 DEF CastBallot
  <2>3. ~(SingleChoice => Cardinality(sel["yes"]) <= 1)
    BY <1>1, SelectionCount DEF Refuses
  <2> QED BY <2>2, <2>3 DEF Replaces
<1>2. CASE ~Refuses(p, sel)
  <2>1. IsCast(q, p, u, sel)
    BY <1>2, CastFields
  <2>2. EntriesAfter(p, sel) = Entries
    BY DEF EntriesAfter, Selection, Kinds
  <2> HIDE DEF q
  <2>3. ~q.terminated /\ q.entries = Entries
    BY <2>1, <2>2 DEF IsCast
  <2>4. \A v \in Users, k \in Kinds :
          q.ballots[v][k] = IF v = u THEN sel[k] ELSE p.ballots[v][k]
    BY <2>1 DEF IsCast
  <2> QED BY <2>3, <2>4 DEF q, Replaces
<1> QED BY <1>1, <1>2
=============================================================================
