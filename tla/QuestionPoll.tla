----------------------------- MODULE QuestionPoll -----------------------------
(***************************************************************************)
(* A question poll from its builder to its rows: QuestionPollBuilder       *)
(* collects and validates the parts in any order, the aggregate takes      *)
(* ballots, QuestionPollRepositoryImpl saves and loads it.  Nothing else   *)
(* in the application calls it yet, so this is one caller that uses the    *)
(* public methods in every order, a new builder for each poll.             *)
(*                                                                         *)
(* An entry is an object of its own: QuestionPollEntry has no equals, and  *)
(* two entries may have one title.  Objects made by loading stand for the  *)
(* ones that were saved.  The status is never terminated, and counters,    *)
(* voting record and texts have no reader; they are left out.              *)
(***************************************************************************)
EXTENDS FiniteSets, Naturals

CONSTANTS Users,
          Entries,      \* entry objects
          Titles,
          TitleOf,      \* the title of an entry
          BadEntries,   \* those without a title or with one too long
          Groups,       \* ids of groups
          Known         \* those that are stored

ASSUME EntriesOK == IsFiniteSet(Entries) /\ BadEntries \subseteq Entries
ASSUME TitlesOK == TitleOf \in [Entries -> Titles]
ASSUME GroupsOK == Known \subseteq Groups

VARIABLES builder,   \* the QuestionPollBuilder
          poll,      \* the aggregate in memory, or NoPoll
          rows,      \* voters of each stored entry
          todo,      \* ballots that a save has still to store
          save       \* what became of the last save

vars == <<builder, poll, rows, todo, save>>

PollFields == {"QUESTION_POLL_METAINF", "POLL_LINK", "QUESTION_POLL_CONFIG",
               "QUESTION_POLL_ENTRY", "CREATOR", "PARTICIPATING_GROUPS"}

MIN_ENTRIES == 2

Config == [singleChoice : BOOLEAN, open : BOOLEAN]

Ballot == [user : Users, yes : SUBSET Entries]

Builder == [errors    : SUBSET PollFields,    \* fields the errors belong to
            validated : SUBSET PollFields,
            entries   : SUBSET Entries,
            groups    : SUBSET Groups,
            config    : Config]

Poll == [entries : SUBSET Entries,
         groups  : SUBSET Groups,
         config  : Config,
         ballots : SUBSET Ballot]

NoPoll == [entries |-> {}]

\* The rows of a poll as it is saved: no votes yet.
NewRows(entries) == [e \in entries |-> {}]

NewBuilder == [errors    |-> {},
               validated |-> {},
               entries   |-> {},
               groups    |-> {},
               config    |-> [singleChoice |-> FALSE, open |-> TRUE]]

Init ==
  /\ builder = NewBuilder
  /\ poll = NoPoll
  /\ rows = NewRows({})
  /\ todo = {}
  /\ save = "none"
-----------------------------------------------------------------------------
(* QuestionPollBuilder. *)

\* Creator, link and configuration never fail their validation.
SetField(field) ==
  /\ poll = NoPoll
  /\ builder' = [builder EXCEPT !.validated = @ \cup {field}]
  /\ UNCHANGED <<poll, rows, todo, save>>

SetConfig(config) ==
  /\ poll = NoPoll
  /\ builder' = [builder EXCEPT
                   !.config = config,
                   !.validated = @ \cup {"QUESTION_POLL_CONFIG"}]
  /\ UNCHANGED <<poll, rows, todo, save>>

\* A bad header leaves an error until a good one comes, but what was validated
\* before stays so.  The period of the poll is not looked at.
SetMetaInf(good) ==
  /\ poll = NoPoll
  /\ builder' = IF good
       THEN [builder EXCEPT !.errors = @ \ {"QUESTION_POLL_METAINF"},
                            !.validated = @ \cup {"QUESTION_POLL_METAINF"}]
       ELSE [builder EXCEPT !.errors = @ \cup {"QUESTION_POLL_METAINF"}]
  /\ UNCHANGED <<poll, rows, todo, save>>

\* Entries are validated one by one in the order of a HashSet.  Each
\* validation forgets the errors of the one before: the last one decides.
EntryErrors(last) ==
  IF last \in BadEntries THEN {"QUESTION_POLL_ENTRY"} ELSE {}

\* Faulty: one entry is enough.
AddEntries_One(new) ==
  /\ poll = NoPoll
  /\ \E last \in new :
       builder' = [builder EXCEPT
         !.errors = (@ \ {"QUESTION_POLL_ENTRY"}) \cup EntryErrors(last),
         !.entries = @ \cup (new \ BadEntries),
         !.validated = IF builder.entries \cup (new \ BadEntries) # {}
                         THEN @ \cup {"QUESTION_POLL_ENTRY"}
                         ELSE @ \ {"QUESTION_POLL_ENTRY"}]
  /\ UNCHANGED <<poll, rows, todo, save>>

AddEntries(new) ==
  /\ poll = NoPoll
  /\ \E last \in new :
       LET entries == builder.entries \cup (new \ BadEntries)
       IN  builder' = [builder EXCEPT
             !.errors = (@ \ {"QUESTION_POLL_ENTRY"}) \cup EntryErrors(last),
             !.entries = entries,
             !.validated = IF Cardinality(entries) >= MIN_ENTRIES
                             THEN @ \cup {"QUESTION_POLL_ENTRY"}
                             ELSE @ \ {"QUESTION_POLL_ENTRY"}]
  /\ UNCHANGED <<poll, rows, todo, save>>

AddGroups(new) ==
  /\ poll = NoPoll
  /\ builder' = [builder EXCEPT
                   !.groups = @ \cup new,
                   !.validated = IF builder.groups \cup new # {}
                                   THEN @ \cup {"PARTICIPATING_GROUPS"}
                                   ELSE @]
  /\ UNCHANGED <<poll, rows, todo, save>>

Build ==
  /\ poll = NoPoll
  /\ builder.errors = {}
  /\ builder.validated = PollFields
  /\ poll' = [entries |-> builder.entries,
              groups  |-> builder.groups,
              config  |-> builder.config,
              ballots |-> {}]
  /\ builder' = NewBuilder
  /\ UNCHANGED <<rows, todo, save>>
-----------------------------------------------------------------------------
(* QuestionPoll. *)

Refuses(yes) ==
  \/ ~poll.config.open
  \/ poll.config.singleChoice /\ Cardinality(yes) > 1

HasBallot(user) == \E b \in poll.ballots : b.user = user

\* Faulty: adds a ballot each time.
CastBallot_Again(user, yes) ==
  /\ poll # NoPoll /\ save # "running"
  /\ ~Refuses(yes)
  /\ poll' = [poll EXCEPT !.ballots = @ \cup {[user |-> user, yes |-> yes]}]
  /\ save' = "none"
  /\ UNCHANGED <<builder, rows, todo>>

\* Faulty: the new ballot takes the place of the old one.
CastBallot_Replaces(user, yes) ==
  /\ poll # NoPoll /\ save # "running"
  /\ ~Refuses(yes)
  /\ poll' = [poll EXCEPT !.ballots = {b \in @ : b.user # user}
                                        \cup {[user |-> user, yes |-> yes]}]
  /\ save' = "none"
  /\ UNCHANGED <<builder, rows, todo>>

\* A user who has a ballot keeps it.  The entries may be anybody's.
CastBallot(user, yes) ==
  /\ poll # NoPoll /\ save # "running"
  /\ ~Refuses(yes)
  /\ ~HasBallot(user)
  /\ poll' = [poll EXCEPT !.ballots = @ \cup {[user |-> user, yes |-> yes]}]
  /\ save' = "none"
  /\ UNCHANGED <<builder, rows, todo>>
-----------------------------------------------------------------------------
(* QuestionPollRepositoryImpl. *)

\* Faulty: keeps the voters of the rows there were.
SaveRows_KeepsVotes ==
  /\ poll # NoPoll /\ save # "running"
  /\ poll.groups \subseteq Known
  /\ rows' = [e \in poll.entries |-> IF e \in DOMAIN rows THEN rows[e] ELSE {}]
  /\ todo' = {b \in poll.ballots : b.yes # {}}
  /\ save' = "running"
  /\ UNCHANGED <<builder, poll>>

\* First all rows are replaced by new ones without voters.
SaveRows ==
  /\ poll # NoPoll /\ save # "running"
  /\ poll.groups \subseteq Known
  /\ rows' = NewRows(poll.entries)
  /\ todo' = {b \in poll.ballots : b.yes # {}}
  /\ save' = "running"
  /\ UNCHANGED <<builder, poll>>

\* A group of the poll is not stored: nothing is written.
SaveRefused ==
  /\ poll # NoPoll /\ save # "running"
  /\ ~(poll.groups \subseteq Known)
  /\ save' = "failed"
  /\ UNCHANGED <<builder, poll, rows, todo>>

RowsOf(e) == {r \in DOMAIN rows : TitleOf[r] = TitleOf[e]}

\* Then each vote is added to the one row with its title, ballot by ballot.
StoreVote(b, e) ==
  /\ save = "running"
  /\ \A c \in todo \ {b} : c \in poll.ballots
  /\ Cardinality(RowsOf(e)) = 1
  /\ rows' = [r \in DOMAIN rows |->
                IF r \in RowsOf(e) THEN rows[r] \cup {b.user} ELSE rows[r]]
  /\ todo' = (todo \ {b}) \cup {c \in {[b EXCEPT !.yes = @ \ {e}]} : c.yes # {}}
  /\ UNCHANGED <<builder, poll, save>>

\* Faulty: goes on although a vote could not be stored.
VoteFails_KeepsTodo ==
  /\ todo # {}
  /\ save' = "failed"
  /\ UNCHANGED <<builder, poll, rows, todo>>

\* There is no such row, there are two, or the database fails: the other
\* votes are not stored.
VoteFails ==
  /\ todo # {}
  /\ todo' = {}
  /\ save' = "failed"
  /\ UNCHANGED <<builder, poll, rows>>

SaveEnds ==
  /\ save = "running"
  /\ todo = {}
  /\ save' = "done"
  /\ UNCHANGED <<builder, poll, rows, todo>>

\* pollOf makes the entries from the rows, but no ballots from the votes.
Loaded(p) == [p EXCEPT !.ballots = {}]

Load ==
  /\ DOMAIN rows # {} /\ save # "running"
  /\ poll' = Loaded(poll)
  /\ save' = "none"
  /\ UNCHANGED <<builder, rows, todo>>

Next ==
  \/ \E field \in {"CREATOR", "POLL_LINK"} : SetField(field)
  \/ \E config \in Config : SetConfig(config)
  \/ \E good \in BOOLEAN : SetMetaInf(good)
  \/ \E new \in SUBSET Entries : AddEntries(new)
  \/ \E new \in SUBSET Groups : AddGroups(new)
  \/ Build
  \/ \E user \in Users, yes \in SUBSET Entries : CastBallot(user, yes)
  \/ SaveRows
  \/ SaveRefused
  \/ \E b \in todo : \E e \in b.yes : StoreVote(b, e)
  \/ VoteFails
  \/ SaveEnds
  \/ Load

Spec == Init /\ [][Next]_vars
-----------------------------------------------------------------------------
\* Builder, aggregate and rows have their types; only a running save has
\* ballots still to store.
TypeOK ==
  /\ builder \in Builder
  /\ poll \in Poll \cup {NoPoll}
  /\ DOMAIN rows \subseteq Entries
  /\ \A e \in DOMAIN rows : rows[e] \subseteq Users
  /\ todo \subseteq Ballot
  /\ save \in {"none", "running", "failed", "done"}
  /\ todo # {} => save = "running"

\* However the calls of the builder follow each other, and whichever entry of
\* a set is validated last, a poll has only valid entries, at least two, and a
\* group (QuestionPollBuilder.build).
PollIsSound ==
  poll # NoPoll =>
    /\ poll.entries \cap BadEntries = {}
    /\ Cardinality(poll.entries) >= MIN_ENTRIES
    /\ poll.groups # {}

\* A user has one ballot, and in a single choice poll it selects at most one
\* entry (QuestionPoll.castBallot).
OneBallotPerUser ==
  poll # NoPoll =>
    /\ \A b, c \in poll.ballots : b.user = c.user => b = c
    /\ poll.config.singleChoice => \A b \in poll.ballots : Cardinality(b.yes) <= 1

\* Until the poll is loaded again the first ballot of a user stands; a later
\* one is dropped without a word (QuestionPoll.castBallot).
FirstBallotStands ==
  [][Load \/ (poll # NoPoll => poll.ballots \subseteq poll'.ballots)]_vars

StoredVotes == UNION {{<<TitleOf[e], u>> : u \in rows[e]} : e \in DOMAIN rows}

CastVotes == UNION {{<<TitleOf[e], b.user>> : e \in b.yes} : b \in poll.ballots}

\* A save that ended without an error has stored the ballots of the aggregate,
\* title by title, and no others: what was stored before a load is gone
\* (QuestionPollRepositoryImpl.save, ModelOfDaoUtil.pollOf).
SavedAsCast ==
  save = "done" => StoredVotes = CastVotes
=============================================================================
