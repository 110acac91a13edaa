--------------------------- MODULE QuestionPollProofs ---------------------------
(***************************************************************************)
(* Safety of QuestionPoll.  That a poll is sound follows from what the     *)
(* builder's bookkeeping means: a field that counts as validated has been  *)
(* given valid values, and stays so whatever is added later.               *)
(***************************************************************************)
EXTENDS QuestionPoll, FiniteSetTheorems, TLAPS

BuilderOK ==
  /\ builder.entries \cap BadEntries = {}
  /\ "QUESTION_POLL_ENTRY" \in builder.validated =>
       Cardinality(builder.entries) >= MIN_ENTRIES
  /\ "PARTICIPATING_GROUPS" \in builder.validated => builder.groups # {}

\* What is stored was a poll before.
StoredIsPoll == DOMAIN rows # {} => poll \in Poll

QuestionInv ==
  TypeOK /\ BuilderOK /\ PollIsSound /\ OneBallotPerUser /\ StoredIsPoll

LEMMA InitEstablishesInv == Init => QuestionInv
BY DEF Init, QuestionInv, TypeOK, BuilderOK, PollIsSound, OneBallotPerUser,
       StoredIsPoll, NewRows, NewBuilder, NoPoll, Builder, Config, PollFields

\* What the steps of the builder have in common: they change nothing else.
LEMMA BuilderStepKeepsInv ==
  ASSUME QuestionInv, builder' \in Builder, BuilderOK',
         UNCHANGED <<poll, rows, todo, save>>
  PROVE  QuestionInv'
BY DEF QuestionInv, TypeOK, PollIsSound, OneBallotPerUser, StoredIsPoll

LEMMA StepKeepsInv == QuestionInv /\ [Next]_vars => QuestionInv'
<1> SUFFICES ASSUME QuestionInv, [Next]_vars
             PROVE  QuestionInv'
  OBVIOUS
<1>b. /\ builder \in Builder
      /\ BuilderOK
  BY DEF QuestionInv, TypeOK
<1>1. ASSUME NEW field \in {"CREATOR", "POLL_LINK"}, SetField(field)
      PROVE  QuestionInv'
  <2>1. builder' \in Builder
    BY <1>b, <1>1 DEF SetField, Builder, PollFields
  <2>2. BuilderOK'
    BY <1>b, <1>1 DEF SetField, Builder, BuilderOK
  <2> QED
    BY <1>1, <2>1, <2>2, BuilderStepKeepsInv DEF SetField
<1>2. ASSUME NEW config \in Config, SetConfig(config)
      PROVE  QuestionInv'
  <2>1. builder' \in Builder
    BY <1>b, <1>2 DEF SetConfig, Builder, PollFields
  <2>2. BuilderOK'
    BY <1>b, <1>2 DEF SetConfig, Builder, BuilderOK
  <2> QED
    BY <1>2, <2>1, <2>2, BuilderStepKeepsInv DEF SetConfig
<1>3. ASSUME NEW good \in BOOLEAN, SetMetaInf(good)
      PROVE  QuestionInv'
  <2>1. builder' \in Builder
    BY <1>b, <1>3 DEF SetMetaInf, Builder, PollFields
  <2>2. BuilderOK'
    BY <1>b, <1>3 DEF SetMetaInf, Builder, BuilderOK
  <2> QED
    BY <1>3, <2>1, <2>2, BuilderStepKeepsInv DEF SetMetaInf
<1>4. ASSUME NEW new \in SUBSET Entries, AddEntries(new)
      PROVE  QuestionInv'
  <2> DEFINE entries == builder.entries \cup (new \ BadEntries)
  <2>0. PICK last \in new :
          builder' = [builder EXCEPT
            !.errors = (@ \ {"QUESTION_POLL_ENTRY"}) \cup EntryErrors(last),
            !.entries = entries,
            !.validated = IF Cardinality(entries) >= MIN_ENTRIES
                            THEN @ \cup {"QUESTION_POLL_ENTRY"}
                            ELSE @ \ {"QUESTION_POLL_ENTRY"}]
    BY <1>4 DEF AddEntries
  <2>1. builder' \in Builder
    BY <1>b, <2>0 DEF Builder, PollFields, EntryErrors
  <2>2. BuilderOK'
    BY <1>b, <2>0 DEF Builder, BuilderOK
  <2> QED
    BY <1>4, <2>1, <2>2, BuilderStepKeepsInv DEF AddEntries
<1>5. ASSUME NEW new \in SUBSET Groups, AddGroups(new)
      PROVE  QuestionInv'
  <2>1. builder' \in Builder
    BY <1>b, <1>5 DEF AddGroups, Builder, PollFields
  <2>2. BuilderOK'
    BY <1>b, <1>5 DEF AddGroups, Builder, BuilderOK
  <2> QED
    BY <1>5, <2>1, <2>2, BuilderStepKeepsInv DEF AddGroups
<1>6. ASSUME Build
      PROVE  QuestionInv'
  <2>1. poll' \in Poll
    BY <1>b, <1>6 DEF Build, Poll, Builder
  <2>2. PollIsSound' /\ OneBallotPerUser'
    BY <1>b, <1>6 DEF Build, BuilderOK, PollIsSound, OneBallotPerUser, PollFields
  <2>3. builder' \in Builder /\ BuilderOK'
    BY <1>6 DEF Build, BuilderOK, NewBuilder, Builder, Config, PollFields
  <2> QED
    BY <1>6, <2>1, <2>2, <2>3 DEF Build, QuestionInv, TypeOK, StoredIsPoll
<1>7. ASSUME NEW user \in Users, NEW yes \in SUBSET Entries, CastBallot(user, yes)
      PROVE  QuestionInv'
  <2> DEFINE new == [user |-> user, yes |-> yes]
  <2>1. poll \in Poll /\ poll # NoPoll
    BY <1>7 DEF CastBallot, QuestionInv, TypeOK
  <2>2. poll' = [poll EXCEPT !.ballots = @ \cup {new}]
    BY <1>7 DEF CastBallot
  <2>3. poll' \in Poll
    BY <2>1, <2>2 DEF Poll, Ballot
  <2>4. PollIsSound'
    BY <2>1, <2>2 DEF QuestionInv, PollIsSound, Poll
  <2>5. \A b, c \in poll'.ballots : b.user = c.user => b = c
    BY <1>7, <2>1, <2>2
    DEF QuestionInv, OneBallotPerUser, Poll, CastBallot, HasBallot
  <2>6. poll'.config.singleChoice => \A b \in poll'.ballots : Cardinality(b.yes) <= 1
    <3>1. poll.config.singleChoice => ~(Cardinality(yes) > 1)
      BY <1>7 DEF CastBallot, Refuses
    <3>2. Cardinality(yes) \in Nat
      BY FS_Subset, FS_CardinalityType, EntriesOK
    <3> QED
      BY <2>1, <2>2, <3>1, <3>2 DEF QuestionInv, OneBallotPerUser, Poll
  <2> QED
    BY <1>7, <1>b, <2>3, <2>4, <2>5, <2>6
    DEF CastBallot, QuestionInv, TypeOK, BuilderOK, OneBallotPerUser, StoredIsPoll
<1>8. ASSUME SaveRows
      PROVE  QuestionInv'
  <2>1. poll \in Poll /\ UNCHANGED <<builder, poll>>
    BY <1>8 DEF SaveRows, QuestionInv, TypeOK
  <2>2. DOMAIN rows' \subseteq Entries /\ \A e \in DOMAIN rows' : rows'[e] \subseteq Users
    BY <1>8, <2>1 DEF SaveRows, NewRows, Poll
  <2>3. todo' \subseteq Ballot
    BY <1>8, <2>1 DEF SaveRows, NewRows, Poll
  <2> QED
    BY <1>8, <2>1, <2>2, <2>3
    DEF SaveRows, NewRows, QuestionInv, TypeOK, BuilderOK, PollIsSound, OneBallotPerUser,
        StoredIsPoll
<1>9. ASSUME NEW b \in todo, NEW e \in b.yes, StoreVote(b, e)
      PROVE  QuestionInv'
  <2>1. b \in Ballot
    BY DEF QuestionInv, TypeOK
  <2>2. DOMAIN rows' \subseteq Entries /\ \A r \in DOMAIN rows' : rows'[r] \subseteq Users
    BY <1>9, <2>1 DEF StoreVote, QuestionInv, TypeOK, Ballot
  <2>3. todo' \subseteq Ballot
    BY <1>9, <2>1 DEF StoreVote, QuestionInv, TypeOK, Ballot
  <2> QED
    BY <1>9, <2>2, <2>3
    DEF StoreVote, QuestionInv, TypeOK, BuilderOK, PollIsSound, OneBallotPerUser,
        StoredIsPoll
<1>10. ASSUME SaveRefused \/ VoteFails \/ SaveEnds
       PROVE  QuestionInv'
  BY <1>10 DEF SaveRefused, VoteFails, SaveEnds, QuestionInv, TypeOK, BuilderOK,
               PollIsSound, OneBallotPerUser, StoredIsPoll
<1>11. ASSUME Load
       PROVE  QuestionInv'
  <2>1. poll \in Poll /\ poll' = [poll EXCEPT !.ballots = {}]
    BY <1>11 DEF Load, Loaded, QuestionInv, StoredIsPoll
  <2>2. poll' \in Poll
    BY <2>1 DEF Poll
  <2>3. PollIsSound' /\ OneBallotPerUser'
    <3>1. CASE poll = NoPoll
      BY <1>11, <2>1, <3>1 DEF NoPoll, Poll
    <3>2. CASE poll # NoPoll
      BY <2>1, <3>2 DEF QuestionInv, PollIsSound, OneBallotPerUser, Poll
    <3> QED
      BY <3>1, <3>2
  <2> QED
    BY <1>11, <2>2, <2>3 DEF Load, QuestionInv, TypeOK, BuilderOK, StoredIsPoll
<1>12. ASSUME UNCHANGED vars
       PROVE  QuestionInv'
  BY <1>12 DEF vars, QuestionInv, TypeOK, BuilderOK, PollIsSound, OneBallotPerUser,
               StoredIsPoll
<1> QED
  BY <1>1, <1>2, <1>3, <1>4, <1>5, <1>6, <1>7, <1>8, <1>9, <1>10, <1>11, <1>12
  DEF Next

LEMMA SpecKeepsInv == Spec => []QuestionInv
BY InitEstablishesInv, StepKeepsInv, PTL DEF Spec

\* Builder, aggregate and rows have their types (TypeOK), for any users,
\* entries and groups.
THEOREM QuestionPollTypeOK == Spec => []TypeOK
<1> QuestionInv => TypeOK
  BY DEF QuestionInv
<1> QED
  BY SpecKeepsInv, PTL

\* Whatever is called in whatever order, only sound polls are built
\* (QuestionPollBuilder).
THEOREM QuestionPollIsSound == Spec => []PollIsSound
<1> QuestionInv => PollIsSound
  BY DEF QuestionInv
<1> QED
  BY SpecKeepsInv, PTL

\* A user never holds two ballots, nor two votes of a single choice
\* (QuestionPoll.castBallot).
THEOREM QuestionPollOneBallot == Spec => []OneBallotPerUser
<1> QuestionInv => OneBallotPerUser
  BY DEF QuestionInv
<1> QED
  BY SpecKeepsInv, PTL

\* The first ballot of a user stands until the poll is loaded again
\* (QuestionPoll.castBallot).
THEOREM QuestionPollFirstStands == Spec => FirstBallotStands
<1> DEFINE Stands == Load \/ (poll # NoPoll => poll.ballots \subseteq poll'.ballots)
<1>1. TypeOK /\ [Next]_vars => [Stands]_vars
  <2> SUFFICES ASSUME TypeOK, Next, ~Load, poll # NoPoll
               PROVE  poll.ballots \subseteq poll'.ballots
    OBVIOUS
  <2>1. poll \in Poll
    BY DEF TypeOK
  <2> QED
    BY <2>1 DEF Next, SetField, SetConfig, SetMetaInf, AddEntries, AddGroups, Build,
       CastBallot, SaveRows, SaveRefused, StoreVote, VoteFails, SaveEnds, Poll
<1> QED
  BY <1>1, QuestionPollTypeOK, PTL DEF Spec, FirstBallotStands

-----------------------------------------------------------------------------
(* While a save runs, what is stored and what it has still to store together
   are the ballots of the aggregate, title by title. *)

Pending == UNION {{<<TitleOf[e], b.user>> : e \in b.yes} : b \in todo}

SaveInv ==
  /\ save \in {"running", "done"} => StoredVotes \cup Pending = CastVotes
  /\ poll = NoPoll => save = "none"

LEMMA InitEstablishesSaveInv == Init => SaveInv
BY DEF Init, SaveInv

LEMMA RowsTakeVote ==
  ASSUME NEW b \in todo, NEW e \in b.yes, StoreVote(b, e)
  PROVE  StoredVotes' = StoredVotes \cup {<<TitleOf[e], b.user>>}
<1>1. PICK r \in RowsOf(e) : TRUE
  <2>1. Cardinality(RowsOf(e)) = 1
    BY DEF StoreVote
  <2>2. RowsOf(e) # {}
    BY <2>1, FS_EmptySet
  <2> QED
    BY <2>2
<1>2. /\ DOMAIN rows' = DOMAIN rows
      /\ \A q \in DOMAIN rows :
           rows'[q] = IF q \in RowsOf(e) THEN rows[q] \cup {b.user} ELSE rows[q]
  BY DEF StoreVote
<1>3. ASSUME NEW q \in DOMAIN rows, NEW u \in rows'[q]
      PROVE  <<TitleOf[q], u>> \in StoredVotes \cup {<<TitleOf[e], b.user>>}
  BY <1>2 DEF StoredVotes, RowsOf
<1>4. StoredVotes' \subseteq StoredVotes \cup {<<TitleOf[e], b.user>>}
  BY <1>2, <1>3 DEF StoredVotes
<1>5. StoredVotes \subseteq StoredVotes'
  BY <1>2 DEF StoredVotes
<1>6. <<TitleOf[e], b.user>> \in StoredVotes'
  BY <1>1, <1>2 DEF StoredVotes, RowsOf
<1> QED
  BY <1>4, <1>5, <1>6

LEMMA PendingGivesVote ==
  ASSUME NEW b \in todo, NEW e \in b.yes, StoreVote(b, e), todo \subseteq Ballot
  PROVE  Pending \cup {<<TitleOf[e], b.user>>}
           = Pending' \cup {<<TitleOf[e], b.user>>}
<1> DEFINE rest == [b EXCEPT !.yes = @ \ {e}]
<1>1. rest.user = b.user /\ rest.yes = b.yes \ {e}
  BY DEF Ballot
<1>2. todo' = (todo \ {b}) \cup {c \in {rest} : c.yes # {}}
  BY DEF StoreVote
<1>3. ASSUME NEW c \in todo, NEW f \in c.yes
      PROVE  <<TitleOf[f], c.user>> \in Pending' \cup {<<TitleOf[e], b.user>>}
  <2>1. CASE c # b
    BY <1>2, <2>1 DEF Pending
  <2>2. CASE c = b /\ f # e
    <3>1. rest \in todo' /\ f \in rest.yes
      BY <1>1, <1>2, <2>2
    <3> HIDE DEF rest
    <3>2. <<TitleOf[f], rest.user>> \in Pending'
      BY <3>1 DEF Pending
    <3> QED
      BY <1>1, <2>2, <3>2
  <2>3. CASE c = b /\ f = e
    BY <2>3
  <2> QED
    BY <2>1, <2>2, <2>3
<1>4. ASSUME NEW c \in todo', NEW f \in c.yes
      PROVE  <<TitleOf[f], c.user>> \in Pending
  <2>1. CASE c \in todo
    BY <2>1 DEF Pending
  <2>2. CASE c = rest
    BY <1>1, <2>2 DEF Pending
  <2> QED
    BY <1>2, <2>1, <2>2
<1>5. Pending \subseteq Pending' \cup {<<TitleOf[e], b.user>>}
  BY <1>3 DEF Pending
<1>6. Pending' \subseteq Pending
  BY <1>4 DEF Pending
<1> QED
  BY <1>5, <1>6 DEF Pending

LEMMA StepKeepsSaveInv == TypeOK /\ SaveInv /\ [Next]_vars => SaveInv'
<1> SUFFICES ASSUME TypeOK, SaveInv, [Next]_vars
             PROVE  SaveInv'
  OBVIOUS
<1>1. ASSUME UNCHANGED <<poll, rows, todo, save>>
      PROVE  SaveInv'
  BY <1>1 DEF SaveInv, StoredVotes, CastVotes, Pending
<1>2. ASSUME Build
      PROVE  SaveInv'
  BY <1>2 DEF Build, SaveInv
<1>3. ASSUME NEW user \in Users, NEW yes \in SUBSET Entries, CastBallot(user, yes)
      PROVE  SaveInv'
  BY <1>3 DEF CastBallot, SaveInv
<1>4. ASSUME SaveRows
      PROVE  SaveInv'
  <2>1. StoredVotes' = {}
    BY <1>4 DEF SaveRows, NewRows, StoredVotes
  <2>2. Pending' = CastVotes'
    <3>1. /\ todo' = {b \in poll.ballots : b.yes # {}}
          /\ poll' = poll
      BY <1>4 DEF SaveRows
    <3>2. Pending' \subseteq CastVotes'
      BY <3>1 DEF Pending, CastVotes
    <3>3. CastVotes' \subseteq Pending'
      BY <3>1 DEF Pending, CastVotes
    <3> QED
      BY <3>2, <3>3
  <2> QED
    BY <1>4, <2>1, <2>2 DEF SaveRows, SaveInv
<1>5. ASSUME NEW b \in todo, NEW e \in b.yes, StoreVote(b, e)
      PROVE  SaveInv'
  <2>1. <<TitleOf[e], b.user>> \in Pending
    BY DEF Pending
  <2>2. StoredVotes' \cup Pending' = StoredVotes \cup Pending
    BY <1>5, <2>1, RowsTakeVote, PendingGivesVote DEF TypeOK
  <2>3. CastVotes' = CastVotes /\ UNCHANGED <<poll, save>>
    BY <1>5 DEF StoreVote, CastVotes
  <2> QED
    BY <2>2, <2>3 DEF SaveInv
<1>6. ASSUME SaveEnds
      PROVE  SaveInv'
  <2>1. /\ StoredVotes' = StoredVotes
        /\ Pending' = Pending
        /\ CastVotes' = CastVotes
    BY <1>6 DEF SaveEnds, StoredVotes, Pending, CastVotes
  <2> QED
    BY <1>6, <2>1 DEF SaveEnds, SaveInv
<1>7. ASSUME SaveRefused \/ VoteFails
      PROVE  SaveInv'
  BY <1>7 DEF SaveRefused, VoteFails, SaveInv, TypeOK
<1>8. ASSUME Load
      PROVE  SaveInv'
  BY <1>8 DEF Load, SaveInv
<1> QED
  BY <1>1, <1>2, <1>3, <1>4, <1>5, <1>6, <1>7, <1>8
  DEF Next, vars, SetField, SetConfig, SetMetaInf, AddEntries, AddGroups

\* A save that ended without an error has stored the ballots of the aggregate,
\* and nothing from before (QuestionPollRepositoryImpl.save).
THEOREM QuestionPollSavedAsCast == Spec => []SavedAsCast
<1>1. TypeOK /\ SaveInv => SavedAsCast
  BY DEF TypeOK, SaveInv, SavedAsCast, Pending
<1> QED
  BY <1>1, QuestionPollTypeOK, InitEstablishesSaveInv, StepKeepsSaveInv, PTL DEF Spec
=============================================================================
