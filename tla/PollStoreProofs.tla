--------------------------- MODULE PollStoreProofs ---------------------------
(***************************************************************************)
(* Safety of PollStore.  Two facts carry it: the conversions undo each     *)
(* other, and each group a poll has beyond the confirmed ones was made by  *)
(* a save, so that it holds just the creator and no synchronisation ever   *)
(* touches it.                                                             *)
(***************************************************************************)
EXTENDS PollStore, TLAPS

\* What is written is what was loaded, and what was loaded what was written.
LEMMA ConfigRoundTrip ==
  ASSUME NEW config \in Config
  PROVE  ConfigDaoOf(config) = config /\ ConfigOf(config) = config
BY DEF Config, ConfigDaoOf, ConfigOf, NewConfig

LEMMA EntriesRoundTrip ==
  ASSUME NEW entries \in SUBSET Slots
  PROVE  EntriesOf(EntryDaosOf(entries)) = entries
<1> DEFINE row(e) == [timespanDao |-> e]
<1>1. \A e : row(e).timespanDao = e
  OBVIOUS
<1> HIDE DEF row
<1>2. EntryDaosOf(entries) = {row(e) : e \in entries}
  BY DEF EntryDaosOf, row
<1>3. ASSUME NEW e \in entries
      PROVE  e \in {dao.timespanDao : dao \in {row(k) : k \in entries}}
  <2>1. row(e) \in {row(k) : k \in entries} /\ e = row(e).timespanDao
    BY <1>1
  <2> QED
    BY <2>1
<1>4. ASSUME NEW e \in {dao.timespanDao : dao \in {row(k) : k \in entries}}
      PROVE  e \in entries
  BY <1>1
<1> QED
  BY <1>2, <1>3, <1>4 DEF EntriesOf

LEMMA PollDaoFacts ==
  ASSUME NEW poll \in Poll, NEW groups \in SUBSET Ids
  PROVE  /\ PollDaoOf(poll, groups) \in PollDao
         /\ PollDaoOf(poll, groups).groupDaos = groups
         /\ PollOf(PollDaoOf(poll, groups)).creator = poll.creator
         /\ PollOf(PollDaoOf(poll, groups)).config = poll.config
         /\ PollOf(PollDaoOf(poll, groups)).entries = poll.entries
         /\ PollOf(PollDaoOf(poll, groups)).groups = groups
<1>1. /\ poll.config \in Config
      /\ ConfigDaoOf(poll.config) = poll.config
      /\ ConfigOf(poll.config) = poll.config
  BY ConfigRoundTrip DEF Poll
<1>2. poll.entries \subseteq Slots
  BY DEF Poll
<1>3. EntryDaosOf(poll.entries) \in SUBSET [timespanDao : Slots]
  BY <1>2 DEF EntryDaosOf
<1>4. EntriesOf(EntryDaosOf(poll.entries)) = poll.entries
  BY <1>2, EntriesRoundTrip
<1> QED
  BY <1>1, <1>3, <1>4 DEF Poll, PollDao, PollDaoOf, PollOf

LEMMA LoadedIsPoll ==
  ASSUME NEW dao \in PollDao
  PROVE  PollOf(dao) \in Poll /\ PollOf(dao).groups = dao.groupDaos
<1>1. ConfigOf(dao.configDao) \in Config
  BY ConfigRoundTrip DEF PollDao
<1>2. EntriesOf(dao.entryDaos) \subseteq Slots
  BY DEF PollDao, EntriesOf
<1> QED
  BY <1>1, <1>2 DEF PollDao, PollOf, Poll

LEMMA BuiltIsPoll ==
  ASSUME NEW creator \in Users, NEW dto \in Dtos, NEW public \in BOOLEAN,
         NEW entries \in SUBSET Slots, NEW groups \in SUBSET Ids
  PROVE  /\ Built(creator, dto, public, entries, groups) \in Poll
         /\ Built(creator, dto, public, entries, groups).groups \subseteq groups
         /\ Built(creator, dto, public, entries, groups).creator = creator
<1>1. dto \in ConfigDto
  BY DtosType
<1>2. Convert(dto, public) \in Config
  BY <1>1 DEF ConfigDto, Config, Convert, NewConfig
<1> QED
  BY <1>2 DEF Built, Poll

\* A poll as stored: what was confirmed, and groups made for the creator.
RowOK(l) ==
  /\ Load(l).creator = confirmed[l].creator
  /\ Load(l).config = confirmed[l].config
  /\ Load(l).entries = confirmed[l].entries
  /\ confirmed[l].groups \subseteq Load(l).groups
  /\ \A id \in Load(l).groups \ confirmed[l].groups :
       id \in NewIds /\ members[id] = {confirmed[l].creator}
  /\ \E id \in Load(l).groups \cap NewIds : members[id] = {confirmed[l].creator}

StoreInv == TypeOK /\ \A l \in DOMAIN polls : RowOK(l)

LEMMA InitEstablishesInv == Init => StoreInv
BY DEF Init, StoreInv, TypeOK

\* Both kinds of save: one poll is written, all others keep their groups.
LEMMA SaveKeepsInv ==
  ASSUME StoreInv,
         NEW user \in Users, NEW link \in Links, NEW poll \in Poll,
         NEW conf \in Poll,
         SaveBy(user, link, poll),
         poll.creator = conf.creator,
         poll.config = conf.config,
         poll.entries = conf.entries,
         conf.groups \subseteq poll.groups,
         \A id \in poll.groups \ conf.groups :
           id \in NewIds /\ members[id] = {conf.creator},
         confirmed' = [l \in DOMAIN polls \cup {link} |->
                         IF l = link THEN conf ELSE confirmed[l]],
         unfinished' \subseteq DOMAIN polls \cup {link}
  PROVE  StoreInv'
<1> DEFINE row(id) == PollDaoOf(poll, poll.groups \cup {id})
<1>1. PICK new \in NewIds \ stored :
        /\ stored' = stored \cup {new}
        /\ members' = [members EXCEPT ![new] = {poll.creator}]
        /\ polls' = [l \in DOMAIN polls \cup {link} |->
                       IF l = link THEN row(new) ELSE polls[l]]
  BY DEF SaveBy, StoreGroup, StorePoll
<1>2. poll.groups \subseteq stored /\ stored \subseteq Ids /\ new \in Ids
  BY DEF SaveBy, StoreInv, TypeOK, Ids
<1>3. /\ row(new) \in PollDao
      /\ row(new).groupDaos = poll.groups \cup {new}
      /\ PollOf(row(new)).creator = conf.creator
      /\ PollOf(row(new)).config = conf.config
      /\ PollOf(row(new)).entries = conf.entries
      /\ PollOf(row(new)).groups = poll.groups \cup {new}
  <2>1. poll.groups \cup {new} \in SUBSET Ids
    BY <1>2
  <2> QED
    BY <2>1, PollDaoFacts
<1> HIDE DEF row
<1>4. conf.creator \in Users /\ poll.creator = conf.creator
  BY DEF Poll
<1>5. members' \in [Ids -> SUBSET Users]
  BY <1>1, <1>4 DEF StoreInv, TypeOK
<1>6. \A id \in stored : members'[id] = members[id]
  BY <1>1, <1>2 DEF StoreInv, TypeOK
<1>7. members'[new] = {conf.creator}
  BY <1>1, <1>2, <1>4 DEF StoreInv, TypeOK
<1>8. TypeOK'
  <2>1. DOMAIN polls' = DOMAIN polls \cup {link} /\ DOMAIN confirmed' = DOMAIN polls'
    BY <1>1
  <2>2. polls' \in [DOMAIN polls' -> PollDao] /\ confirmed' \in [DOMAIN polls' -> Poll]
    BY <1>1, <1>3, <2>1 DEF StoreInv, TypeOK
  <2>3. ASSUME NEW l \in DOMAIN polls'
        PROVE  polls'[l].groupDaos \subseteq stored'
    BY <1>1, <1>2, <1>3, <2>1 DEF StoreInv, TypeOK
  <2>4. stored' \subseteq Ids /\ DOMAIN polls' \subseteq Links
    BY <1>1, <1>2, <2>1 DEF StoreInv, TypeOK
  <2> QED
    BY <1>5, <2>1, <2>2, <2>4, <2>3 DEF TypeOK
<1>9. ASSUME NEW l \in DOMAIN polls'
       PROVE  RowOK(l)'
  <2>1. CASE l = link
    <3>1. Load(l)' = PollOf(row(new)) /\ confirmed'[l] = conf
      BY <1>1, <2>1 DEF Load
    <3>2. PollOf(row(new)).groups = poll.groups \cup {new}
      BY <1>3
    <3>3. \A id \in (poll.groups \cup {new}) \ conf.groups :
            id \in NewIds /\ members'[id] = {conf.creator}
      BY <1>2, <1>6, <1>7
    <3>4. \E id \in (poll.groups \cup {new}) \cap NewIds : members'[id] = {conf.creator}
      BY <1>7
    <3> QED
      BY <1>3, <3>1, <3>2, <3>3, <3>4 DEF RowOK
  <2>2. CASE l # link
    <3>1. l \in DOMAIN polls /\ Load(l)' = Load(l) /\ confirmed'[l] = confirmed[l]
      BY <1>1, <2>2 DEF Load
    <3>2. Load(l).groups \subseteq stored /\ RowOK(l)
      BY <3>1, LoadedIsPoll DEF StoreInv, TypeOK, Load
    <3> QED
      BY <1>6, <3>1, <3>2 DEF RowOK
  <2> QED
    BY <2>1, <2>2
<1> QED
  BY <1>8, <1>9 DEF StoreInv

LEMMA StepKeepsInv == StoreInv /\ [Next]_vars => StoreInv'
<1> SUFFICES ASSUME StoreInv, [Next]_vars
             PROVE  StoreInv'
  OBVIOUS
<1>1. ASSUME NEW link \in Links, NEW creator \in Users, NEW dto \in Dtos,
             NEW public \in BOOLEAN, NEW entries \in SUBSET Slots,
             NEW groups \in SUBSET stored,
             Publish(link, creator, dto, public, entries, groups)
      PROVE  StoreInv'
  <2> DEFINE poll == Built(creator, dto, public, entries, groups)
  <2>1. groups \subseteq Ids
    BY DEF StoreInv, TypeOK
  <2>2. poll \in Poll
    BY <2>1, BuiltIsPoll
  <2>3. /\ SaveBy(creator, link, poll)
        /\ confirmed' = [l \in DOMAIN polls \cup {link} |->
                           IF l = link THEN poll ELSE confirmed[l]]
        /\ unfinished' \subseteq DOMAIN polls \cup {link}
    BY <1>1 DEF Publish, StoreInv, TypeOK
  <2> HIDE DEF poll
  <2> QED
    BY <2>2, <2>3, SaveKeepsInv
<1>2. ASSUME NEW user \in Users, NEW link \in Links, Vote(user, link)
      PROVE  StoreInv'
  <2>1. /\ link \in DOMAIN polls
        /\ SaveBy(user, link, Load(link))
        /\ UNCHANGED <<confirmed, unfinished>>
    BY <1>2 DEF Vote
  <2>2. /\ Load(link) \in Poll
        /\ confirmed[link] \in Poll
        /\ RowOK(link)
    BY <2>1, LoadedIsPoll DEF StoreInv, TypeOK, Load
  <2>3. confirmed' = [l \in DOMAIN polls \cup {link} |->
                        IF l = link THEN confirmed[link] ELSE confirmed[l]]
    BY <2>1 DEF StoreInv, TypeOK
  <2>4. unfinished' \subseteq DOMAIN polls \cup {link}
    BY <2>1 DEF StoreInv, TypeOK
  <2> QED
    BY <2>1, <2>2, <2>3, <2>4, SaveKeepsInv DEF RowOK
<1>3. ASSUME NEW id \in Groups, NEW now \in SUBSET Users, SyncGroup(id, now)
      PROVE  StoreInv'
  <2>1. id \in Ids /\ id \notin NewIds
    BY IdsDiffer DEF Ids
  <2>2. \A k \in NewIds : members'[k] = members[k]
    BY <1>3, <2>1 DEF SyncGroup, StoreGroup, StoreInv, TypeOK, Ids
  <2>3. TypeOK'
    BY <1>3, <2>1 DEF SyncGroup, StoreGroup, StoreInv, TypeOK
  <2>4. \A l \in DOMAIN polls : RowOK(l)'
    BY <1>3, <2>2 DEF SyncGroup, StoreGroup, StoreInv, RowOK, Load
  <2> QED
    BY <1>3, <2>3, <2>4 DEF SyncGroup, StoreInv
<1>4. CASE UNCHANGED vars
  BY <1>4 DEF vars, StoreInv, TypeOK, RowOK, Load
<1> QED
  BY <1>1, <1>2, <1>3, <1>4 DEF Next

THEOREM StoreInvariant == Spec => []StoreInv
BY InitEstablishesInv, StepKeepsInv, PTL DEF Spec

\* Type correctness; in particular every group of a stored poll is stored.
THEOREM StoreTypeOK == Spec => []TypeOK
<1>1. StoreInv => TypeOK
  BY DEF StoreInv
<1> QED
  BY <1>1, StoreInvariant, PTL

\* Aggregate and voting page show a poll as it was confirmed, and its creator
\* finds it on the dashboard, after any number of votes and of attempts to
\* publish it; nobody else is taken for its creator.
THEOREM StorePollAsConfirmed == Spec => []PollAsConfirmed
<1>1. StoreInv => PollAsConfirmed
  <2> SUFFICES ASSUME StoreInv, NEW l \in DOMAIN polls
               PROVE  /\ \A f \in {"creator", "config", "entries"} : Load(l)[f] = confirmed[l][f]
                      /\ confirmed[l].groups \subseteq Load(l).groups
                      /\ \A f \in DOMAIN Offered(l) : Offered(l)[f] = confirmed[l].config[f]
                      /\ l \in Dashboard(confirmed[l].creator)
                      /\ \A u \in Users : l \in OwnPolls(u) => u = confirmed[l].creator
    BY DEF PollAsConfirmed
  <2>1. RowOK(l)
    BY DEF StoreInv
  <2>2. \A f \in DOMAIN Offered(l) : Offered(l)[f] = confirmed[l].config[f]
    BY <2>1 DEF RowOK, Offered
  <2>3. /\ l \in Dashboard(confirmed[l].creator)
        /\ \A u \in Users : l \in OwnPolls(u) => u = confirmed[l].creator
    BY <2>1 DEF RowOK, Dashboard, OwnPolls
  <2> QED
    BY <2>1, <2>2, <2>3 DEF RowOK
<1> QED
  BY <1>1, StoreInvariant, PTL

\* Who may vote is decided by what was published and by the groups as they are.
THEOREM StoreAccessAsPublished == Spec => []AccessAsPublished
<1>1. StoreInv => AccessAsPublished
  <2> SUFFICES ASSUME StoreInv, NEW l \in DOMAIN polls, NEW u \in Users
               PROVE  TakesPart(u, l) <=>
                        \/ confirmed[l].config.open
                        \/ u = confirmed[l].creator
                        \/ \E id \in confirmed[l].groups : u \in members[id]
    BY DEF AccessAsPublished
  <2>1. RowOK(l)
    BY DEF StoreInv
  <2>2. (\E id \in Load(l).groups : u \in members[id])
          <=> \/ u = confirmed[l].creator
              \/ \E id \in confirmed[l].groups : u \in members[id]
    BY <2>1 DEF RowOK
  <2> QED
    BY <2>1, <2>2 DEF RowOK, TakesPart, IsUserInGroup, UsersOf
<1> QED
  BY <1>1, StoreInvariant, PTL
=============================================================================
