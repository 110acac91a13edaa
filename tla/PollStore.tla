------------------------------ MODULE PollStore ------------------------------
(***************************************************************************)
(* What the database keeps of date polls, from the confirmation of the     *)
(* flow to the pages that show them: the conversions between dto, domain   *)
(* and row, the groups a poll belongs to, and who may vote at any time.    *)
(*                                                                         *)
(* Every save writes the whole poll, loaded some time before, and adds one *)
(* more group that holds just the creator.  Votes save as well.  Here each *)
(* save is one step; PollVoting has what happens in between, and what      *)
(* becomes of the votes.  Entries are those of the creator, because the    *)
(* page lets nobody add one.                                               *)
(***************************************************************************)
EXTENDS FiniteSets

CONSTANTS Users,
          Links,
          Slots,     \* valid time spans
          Dtos,      \* the settings users choose
          Groups,    \* ids of groups of the service gruppen2
          NewIds     \* ids randomUUID gives; bounds the number of saves

ConfigDto == [voteIsEditable    : BOOLEAN,
              openForOwnEntries : BOOLEAN,
              singleChoice      : BOOLEAN,
              priorityChoice    : BOOLEAN,
              anonymous         : BOOLEAN]

ASSUME DtosType == Dtos \subseteq ConfigDto
ASSUME IdsDiffer == Groups \cap NewIds = {}

VARIABLES stored,      \* ids of the stored groups
          members,     \* their users
          polls,       \* the stored row of each published poll
          confirmed,   \* history: what each poll's creator confirmed
          unfinished   \* polls whose flow failed after it had saved

vars == <<stored, members, polls, confirmed, unfinished>>

Ids == Groups \cup NewIds

Config == [voteIsEditable    : BOOLEAN,
           openForOwnEntries : BOOLEAN,
           singleChoice      : BOOLEAN,
           priorityChoice    : BOOLEAN,
           anonymous         : BOOLEAN,
           open              : BOOLEAN]

Poll == [creator : Users,
         config  : Config,
         entries : SUBSET Slots,
         groups  : SUBSET Ids]

\* An entry's row has an id of its own and refers to its poll; only its time
\* span ever goes back into a model.
PollDao == [creatorUserDao : Users,
            configDao      : Config,
            entryDaos      : SUBSET [timespanDao : Slots],
            groupDaos      : SUBSET Ids]

Init ==
  /\ stored = {}
  /\ members = [id \in Ids |-> {}]
  /\ polls = [l \in {} |-> {}]
  /\ confirmed = [l \in {} |-> {}]
  /\ unfinished = {}
-----------------------------------------------------------------------------
(* Conversions.  The six settings are passed by position. *)

\* The constructors of DatePollConfig and DatePollConfigDao.
NewConfig(editable, own, single, priority, anonymous, open) ==
  [voteIsEditable    |-> editable,
   openForOwnEntries |-> own,
   singleChoice      |-> single,
   priorityChoice    |-> priority,
   anonymous         |-> anonymous,
   open              |-> open]

\* ConfigAdapter, after setOpen with what the publication says.
Convert(dto, public) ==
  NewConfig(dto.voteIsEditable, dto.openForOwnEntries, dto.singleChoice,
            dto.priorityChoice, dto.anonymous, public)

ConfigIsValid(config) == ~(config.singleChoice /\ config.priorityChoice)

ConfigDaoOf(config) ==
  NewConfig(config.voteIsEditable, config.openForOwnEntries, config.singleChoice,
            config.priorityChoice, config.anonymous, config.open)

\* Faulty: two settings have changed places.
ConfigOf_Swapped(dao) ==
  NewConfig(dao.voteIsEditable, dao.openForOwnEntries, dao.priorityChoice,
            dao.singleChoice, dao.anonymous, dao.open)

ConfigOf(dao) ==
  NewConfig(dao.voteIsEditable, dao.openForOwnEntries, dao.singleChoice,
            dao.priorityChoice, dao.anonymous, dao.open)

EntryDaosOf(entries) == {[timespanDao |-> e] : e \in entries}

EntriesOf(daos) == {dao.timespanDao : dao \in daos}

PollDaoOf(poll, groups) ==
  [creatorUserDao |-> poll.creator,
   configDao      |-> ConfigDaoOf(poll.config),
   entryDaos      |-> EntryDaosOf(poll.entries),
   groupDaos      |-> groups]

PollOf(dao) ==
  [creator |-> dao.creatorUserDao,
   config  |-> ConfigOf(dao.configDao),
   entries |-> EntriesOf(dao.entryDaos),
   groups  |-> dao.groupDaos]

Load(link) == PollOf(polls[link])
-----------------------------------------------------------------------------
(* What pages ask for. *)

UsersOf(id) == members[id]

IsUserInGroup(user, id) == user \in UsersOf(id)

TakesPart(user, link) ==
  \/ Load(link).config.open
  \/ \E id \in Load(link).groups : IsUserInGroup(user, id)

\* The settings the voting page goes by; its constructor is positional too.
Offered(link) ==
  LET config == Load(link).config
      NewDto(anonymous, single, priority) ==
        [anonymous |-> anonymous, singleChoice |-> single, priorityChoice |-> priority]
  IN  NewDto(config.anonymous, config.singleChoice, config.priorityChoice)

OwnPolls(user) == {l \in DOMAIN polls : Load(l).creator = user}

\* A stub: the query for the polls of others is commented out.
PollsByOthers(user) == {}

\* The polls the dashboard lists and counts.
Dashboard(user) == OwnPolls(user) \cup PollsByOthers(user)
-----------------------------------------------------------------------------
StoreGroup(id, users) ==
  /\ stored' = stored \cup {id}
  /\ members' = [members EXCEPT ![id] = users]

StorePoll(link, poll, groups) ==
  polls' = [l \in DOMAIN polls \cup {link} |->
              IF l = link THEN PollDaoOf(poll, groups) ELSE polls[l]]

\* Faulty: the new group is not stored with the poll.
SaveBy_WithoutGroup(user, link, poll) ==
  /\ poll.groups \subseteq stored
  /\ \E id \in NewIds \ stored : StorePoll(link, poll, poll.groups \cup {id})
  /\ UNCHANGED <<stored, members>>

\* Faulty: the group is for the user who saves.
SaveBy_ForSaver(user, link, poll) ==
  /\ poll.groups \subseteq stored
  /\ \E id \in NewIds \ stored :
       /\ StoreGroup(id, {user})
       /\ StorePoll(link, poll, poll.groups \cup {id})

\* DatePollRepositoryImpl.save, in a request of this user.  It ends with an
\* error before it has stored anything if a group of the poll is not found.
SaveBy(user, link, poll) ==
  /\ poll.groups \subseteq stored
  /\ \E id \in NewIds \ stored :
       /\ StoreGroup(id, {poll.creator})
       /\ StorePoll(link, poll, poll.groups \cup {id})

Built(creator, dto, public, entries, groups) ==
  [creator |-> creator,
   config  |-> Convert(dto, public),
   entries |-> entries,
   groups  |-> IF public THEN {} ELSE groups]

\* A complete poll is confirmed.  Its link is new, unless the same flow has
\* saved it before and then failed; it may fail again.
Publish(link, creator, dto, public, entries, groups) ==
  LET poll == Built(creator, dto, public, entries, groups)
  IN  /\ link \in DOMAIN polls =>
           link \in unfinished /\ confirmed[link].creator = creator
      /\ entries # {}
      /\ public \/ groups # {}
      /\ ConfigIsValid(poll.config)
      /\ SaveBy(creator, link, poll)
      /\ confirmed' = [l \in DOMAIN polls \cup {link} |->
                         IF l = link THEN poll ELSE confirmed[l]]
      /\ unfinished' \in {unfinished \cup {link}, unfinished \ {link}}

\* A vote loads the poll, and saves all of it if the user takes part.
Vote(user, link) ==
  /\ link \in DOMAIN polls
  /\ TakesPart(user, link)
  /\ SaveBy(user, link, Load(link))
  /\ UNCHANGED <<confirmed, unfinished>>

\* The synchronisation saves a group as it is in gruppen2, with a user at least.
SyncGroup(id, now) ==
  /\ now # {}
  /\ StoreGroup(id, now)
  /\ UNCHANGED <<polls, confirmed, unfinished>>

Next ==
  \/ \E link \in Links, creator \in Users, dto \in Dtos, public \in BOOLEAN,
        entries \in SUBSET Slots, groups \in SUBSET stored :
       Publish(link, creator, dto, public, entries, groups)
  \/ \E user \in Users, link \in Links : Vote(user, link)
  \/ \E id \in Groups, now \in SUBSET Users : SyncGroup(id, now)

Spec == Init /\ [][Next]_vars
-----------------------------------------------------------------------------
\* The state variables have the values they should.  No poll refers to a group
\* that is not stored: loading one would fail (GroupServiceImpl.isUserInGroup).
TypeOK ==
  /\ stored \subseteq Ids
  /\ members \in [Ids -> SUBSET Users]
  /\ DOMAIN polls \subseteq Links
  /\ polls \in [DOMAIN polls -> PollDao]
  /\ confirmed \in [DOMAIN polls -> Poll]
  /\ \A l \in DOMAIN polls : polls[l].groupDaos \subseteq stored
  /\ unfinished \subseteq DOMAIN polls

\* However often a poll is loaded and saved again by votes, the aggregate and
\* the voting page show what its creator confirmed last: settings that are
\* passed by position, entries that are replaced, the groups, and the creator,
\* whoever votes.  It is on the dashboard of its creator, and nobody else has it
\* among their own polls (DaoOfModelUtil, ModelOfDaoUtil, DatePollInfoAdapter).
\* What else the dashboards of others should show is not said here.
PollAsConfirmed ==
  \A l \in DOMAIN polls :
    LET conf == confirmed[l]
    IN  /\ \A f \in {"creator", "config", "entries"} : Load(l)[f] = conf[f]
        /\ conf.groups \subseteq Load(l).groups
        /\ \A f \in DOMAIN Offered(l) : Offered(l)[f] = conf.config[f]
        /\ l \in Dashboard(conf.creator)
        /\ \A u \in Users : l \in OwnPolls(u) => u = conf.creator

\* Those who may vote on a poll are its creator and the members its groups have
\* now, or everybody if it is public.  The groups that saves add let nobody in,
\* and who left a group is out, also after a vote of their own that saved the
\* poll (DatePollVoteService.checkUserIsParticipant, DatePollRepositoryImpl.save).
AccessAsPublished ==
  \A l \in DOMAIN polls, u \in Users :
    TakesPart(u, l) <=>
      \/ confirmed[l].config.open
      \/ u = confirmed[l].creator
      \/ \E id \in confirmed[l].groups : u \in members[id]
=============================================================================
