--------------------------- MODULE GroupSyncProofs ---------------------------
(***************************************************************************)
(* The safety of the group synchronisation, for every set of users and     *)
(* groups and any number of changes, failures and restarts.                *)
(***************************************************************************)
EXTENDS GroupSync, TLAPS

\* What the group service keeps: a group that never changed does not exist,
\* one that did is published as it is.
ServiceOK ==
  \A g \in Groups :
    /\ changed[g] <= status
    /\ changed[g] = 0 => real[g] = NoGroup
    /\ changed[g] # 0 => <<g, real[g]>> \in published

\* What a run of the task still has to save is valid and published, and, unless
\* it changed since the answer, the latest.
TodoOK ==
  \A g \in sync.todo :
    /\ ValidGroup(sync.groups[g])
    /\ <<g, sync.groups[g]>> \in published
    /\ changed[g] <= sync.status => sync.groups[g] = real[g]

\* If nothing was dropped, then all that changed up to the status of the
\* answer is stored or still to be saved.
NothingDropped ==
  sync.pc = "saving" /\ ~sync.errors =>
    \A g \in Groups :
      changed[g] <= sync.status => store[g] = real[g] \/ g \in sync.todo

\* The status of an answer is not older than the one it was asked with.
AnswerIsNewer ==
  /\ sync.status <= status
  /\ sync.pc = "saving" => lastStatus <= sync.status
  /\ sync.pc = "idle" => sync = NoSync

SyncInv ==
  /\ TypeOK
  /\ ServiceOK
  /\ AnswerIsNewer
  /\ TodoOK
  /\ NothingDropped
  /\ NoChangeMissed
  /\ StoredAsPublished

\* The state of the task while none is running.
LEMMA NoSyncFacts ==
  /\ NoSync \in Sync
  /\ NoSync.pc = "idle"
  /\ NoSync.status = 0
  /\ NoSync.todo = {}
  /\ NoGroup \in Content
BY DEF NoSync, Sync, NoGroup, Content

LEMMA SyncInit == Init => SyncInv
<1> SUFFICES ASSUME Init PROVE SyncInv
  OBVIOUS
<1>1. TypeOK
  BY NoSyncFacts, MaxStatusType, MaxFailuresType DEF Init, TypeOK
<1>2. ServiceOK
  BY DEF Init, ServiceOK
<1>3. AnswerIsNewer /\ TodoOK /\ NothingDropped
  BY NoSyncFacts DEF Init, AnswerIsNewer, TodoOK, NothingDropped
<1>4. NoChangeMissed /\ StoredAsPublished
  BY DEF Init, NoChangeMissed, StoredAsPublished
<1> QED BY <1>1, <1>2, <1>3, <1>4 DEF SyncInv

\* A change of a group gets a status newer than every one the task knows.
LEMMA ChangeInv ==
  ASSUME SyncInv, NEW g \in Groups, NEW c \in Content, Change(g, c)
  PROVE  SyncInv'
<1>1. /\ status \in Nat /\ sync.status \in Nat /\ lastStatus \in Nat
      /\ lastStatus <= status /\ sync.status <= status
      /\ changed \in [Groups -> Nat]
      /\ real \in [Groups -> Content]
      /\ sync \in Sync /\ sync.todo \subseteq Groups
  BY MaxStatusType DEF SyncInv, TypeOK, AnswerIsNewer, Sync
<1>2. /\ status' = status + 1 /\ sync' = sync /\ store' = store
      /\ lastStatus' = lastStatus
      /\ published' = published \cup {<<g, c>>}
  BY DEF Change
<1>3. \A h \in Groups : /\ changed'[h] = IF h = g THEN status + 1 ELSE changed[h]
                        /\ real'[h] = IF h = g THEN c ELSE real[h]
  BY <1>1 DEF Change
<1>4. TypeOK'
  BY MaxStatusType DEF SyncInv, TypeOK, Change
<1>5. ServiceOK'
  BY <1>1, <1>2, <1>3 DEF SyncInv, ServiceOK
<1>6. AnswerIsNewer'
  BY <1>1, <1>2 DEF SyncInv, AnswerIsNewer
<1>7. TodoOK'
  BY <1>1, <1>2, <1>3 DEF SyncInv, TodoOK
<1>8. NothingDropped'
  BY <1>1, <1>2, <1>3 DEF SyncInv, NothingDropped
<1>9. NoChangeMissed' /\ StoredAsPublished'
  BY <1>1, <1>2, <1>3 DEF SyncInv, NoChangeMissed, StoredAsPublished
<1> QED BY <1>4, <1>5, <1>6, <1>7, <1>8, <1>9 DEF SyncInv

\* A new run has the latest version of all that is not stored.
LEMMA FetchInv ==
  ASSUME SyncInv, Fetch
  PROVE  SyncInv'
<1> DEFINE bad == {g \in Answer(lastStatus) : ~ValidGroup(real[g])}
           new == [pc     |-> "saving",
                   status |-> status,
                   groups |-> real,
                   todo   |-> Answer(lastStatus) \ bad,
                   errors |-> bad # {}]
<1>1. sync' = new /\ UNCHANGED <<service, store, lastStatus, failures>>
  BY DEF Fetch
<1>2. /\ status \in Nat /\ lastStatus \in Nat /\ lastStatus <= status
      /\ changed \in [Groups -> Nat] /\ real \in [Groups -> Content]
  BY MaxStatusType DEF SyncInv, TypeOK
<1>3. new.todo \subseteq Groups
  BY DEF Answer
<1>4. TypeOK'
  <2>1. new \in Sync
    <3> HIDE DEF bad
    <3> QED BY <1>2, <1>3 DEF Sync
  <2> QED BY <1>1, <2>1 DEF SyncInv, TypeOK, service
<1>5. ServiceOK' /\ NoChangeMissed' /\ StoredAsPublished'
  BY <1>1 DEF SyncInv, ServiceOK, NoChangeMissed, StoredAsPublished, service
<1>6. AnswerIsNewer'
  BY <1>1, <1>2 DEF AnswerIsNewer, service
<1>7. TodoOK'
  <2> SUFFICES ASSUME NEW g \in new.todo
               PROVE  ValidGroup(real[g]) /\ <<g, real[g]>> \in published
    BY <1>1 DEF TodoOK, service
  <2>1. g \in Groups /\ changed[g] > lastStatus /\ ValidGroup(real[g])
    BY DEF Answer
  <2> QED BY <1>2, <2>1 DEF SyncInv, ServiceOK
<1>8. NothingDropped'
  <2> SUFFICES ASSUME bad = {}, NEW g \in Groups
               PROVE  store[g] = real[g] \/ g \in Answer(lastStatus)
    BY <1>1 DEF NothingDropped, service
  <2> QED BY <1>2 DEF SyncInv, NoChangeMissed, Answer
<1> QED BY <1>4, <1>5, <1>6, <1>7, <1>8 DEF SyncInv

\* Saving a group stores it as it was published, and not older than the
\* version the remembered status stands for.
LEMMA SaveInv ==
  ASSUME SyncInv, NEW g \in Groups, Save(g)
  PROVE  SyncInv'
<1>1. /\ sync \in Sync /\ store \in [Groups -> Content]
      /\ sync.status \in Nat /\ lastStatus \in Nat /\ lastStatus <= sync.status
      /\ changed \in [Groups -> Nat]
  BY MaxStatusType DEF SyncInv, TypeOK, AnswerIsNewer, Sync, Save
<1>2. /\ g \in sync.todo /\ sync.pc = "saving"
      /\ UNCHANGED <<service, lastStatus, failures>>
  BY DEF Save
<1>3. /\ Parsed(sync.groups[g]) = sync.groups[g]
      /\ <<g, sync.groups[g]>> \in published
      /\ changed[g] <= sync.status => sync.groups[g] = real[g]
  BY <1>2 DEF SyncInv, TodoOK, ValidGroup
<1>4. \A h \in Groups :
        store'[h] = IF h = g THEN sync.groups[g] ELSE store[h]
  BY <1>1, <1>3 DEF Save
<1>5. /\ sync'.pc = sync.pc /\ sync'.status = sync.status
      /\ sync'.groups = sync.groups /\ sync'.errors = sync.errors
      /\ sync'.todo = sync.todo \ {g}
  BY <1>1 DEF Save, Sync
<1>6. TypeOK'
  <2>1. sync' \in Sync
    BY <1>1 DEF Save, Sync
  <2>2. store' \in [Groups -> Content]
    BY <1>1, <1>3 DEF Save, Sync
  <2> QED BY <1>2, <2>1, <2>2 DEF SyncInv, TypeOK, service
<1>7. ServiceOK'
  BY <1>2 DEF SyncInv, ServiceOK, service
<1>8. AnswerIsNewer'
  BY <1>2, <1>5 DEF SyncInv, AnswerIsNewer, service
<1>9. TodoOK'
  BY <1>2, <1>5 DEF SyncInv, TodoOK, service
<1>10. NothingDropped'
  BY <1>2, <1>3, <1>4, <1>5 DEF SyncInv, NothingDropped, service
<1>11. NoChangeMissed'
  <2> SUFFICES ASSUME NEW h \in Groups, changed[h] <= lastStatus
               PROVE  store'[h] = real[h]
    BY <1>2 DEF NoChangeMissed, service
  <2>1. changed[h] <= sync.status
    BY <1>1
  <2> QED BY <1>3, <1>4, <2>1 DEF SyncInv, NoChangeMissed
<1>12. StoredAsPublished'
  BY <1>2, <1>3, <1>4 DEF SyncInv, StoredAsPublished, service
<1> QED BY <1>6, <1>7, <1>8, <1>9, <1>10, <1>11, <1>12 DEF SyncInv

\* A run that dropped nothing has stored all that its status stands for.
LEMMA DoneInv ==
  ASSUME SyncInv, Done
  PROVE  SyncInv'
<1>1. /\ sync' = NoSync /\ UNCHANGED <<service, store, failures>>
      /\ sync.pc = "saving" /\ sync.todo = {}
      /\ lastStatus' = IF sync.errors THEN lastStatus ELSE sync.status
  BY DEF Done
<1>2. /\ status \in Nat /\ sync.status \in Nat /\ sync.status <= status
  BY MaxStatusType DEF SyncInv, TypeOK, AnswerIsNewer, Sync
<1>3. TypeOK'
  BY <1>1, <1>2, NoSyncFacts DEF SyncInv, TypeOK, service
<1>4. ServiceOK' /\ StoredAsPublished'
  BY <1>1 DEF SyncInv, ServiceOK, StoredAsPublished, service
<1>5. AnswerIsNewer' /\ TodoOK' /\ NothingDropped'
  BY <1>1, <1>2, NoSyncFacts
     DEF AnswerIsNewer, TodoOK, NothingDropped, service
<1>6. NoChangeMissed'
  <2>1. CASE sync.errors
    BY <1>1, <2>1 DEF SyncInv, NoChangeMissed, service
  <2>2. CASE ~sync.errors
    BY <1>1, <2>2 DEF SyncInv, NothingDropped, NoChangeMissed, service
  <2> QED BY <2>1, <2>2
<1> QED BY <1>3, <1>4, <1>5, <1>6 DEF SyncInv

\* Failures and restarts lose only what will be asked for again.
LEMMA FailureInv ==
  ASSUME SyncInv, FetchFails \/ SaveFails \/ Restart
  PROVE  SyncInv'
<1>1. /\ status \in Nat /\ failures < MaxFailures
      /\ failures' = failures + 1 /\ UNCHANGED service
  BY MaxStatusType DEF SyncInv, TypeOK, FetchFails, SaveFails, Restart
<1>2. failures' \in 0..MaxFailures
  BY <1>1, MaxFailuresType DEF SyncInv, TypeOK
<1>3. CASE FetchFails
  BY <1>2, <1>3
     DEF FetchFails, SyncInv, TypeOK, ServiceOK, AnswerIsNewer, TodoOK,
         NothingDropped, NoChangeMissed, StoredAsPublished, service
<1>4. CASE SaveFails
  <2>1. sync' = NoSync /\ UNCHANGED <<service, store, lastStatus>>
    BY <1>4 DEF SaveFails
  <2>2. TypeOK'
    BY <1>2, <2>1, NoSyncFacts DEF SyncInv, TypeOK, service
  <2>3. AnswerIsNewer' /\ TodoOK' /\ NothingDropped'
    BY <1>1, <2>1, NoSyncFacts
       DEF AnswerIsNewer, TodoOK, NothingDropped, service
  <2>4. ServiceOK' /\ NoChangeMissed' /\ StoredAsPublished'
    BY <2>1 DEF SyncInv, ServiceOK, NoChangeMissed, StoredAsPublished, service
  <2> QED BY <2>2, <2>3, <2>4 DEF SyncInv
<1>5. CASE Restart
  <2>1. /\ sync' = NoSync /\ lastStatus' = 0 /\ UNCHANGED service
        /\ store' = [g \in Groups |-> NoGroup]
    BY <1>5 DEF Restart
  <2>2. TypeOK'
    BY <1>1, <1>2, <2>1, NoSyncFacts DEF SyncInv, TypeOK, service
  <2>3. AnswerIsNewer' /\ TodoOK' /\ NothingDropped'
    BY <1>1, <2>1, NoSyncFacts
       DEF AnswerIsNewer, TodoOK, NothingDropped, service
  <2>4. NoChangeMissed'
    <3>1. \A g \in Groups : changed[g] <= 0 => changed[g] = 0
      BY MaxStatusType DEF SyncInv, TypeOK
    <3> QED BY <2>1, <3>1 DEF SyncInv, ServiceOK, NoChangeMissed, service
  <2>5. ServiceOK' /\ StoredAsPublished'
    BY <2>1 DEF SyncInv, ServiceOK, StoredAsPublished, service
  <2> QED BY <2>2, <2>3, <2>4, <2>5 DEF SyncInv
<1> QED BY <1>3, <1>4, <1>5

LEMMA SyncNext == SyncInv /\ [Next]_vars => SyncInv'
<1> SUFFICES ASSUME SyncInv, [Next]_vars PROVE SyncInv'
  OBVIOUS
<1>1. ASSUME NEW g \in Groups, NEW c \in Content, Change(g, c)
      PROVE  SyncInv'
  BY <1>1, ChangeInv
<1>2. CASE SyncGroups
  BY <1>2, FetchInv, SaveInv, DoneInv DEF SyncGroups
<1>3. CASE FetchFails \/ SaveFails \/ Restart
  BY <1>3, FailureInv
<1>4. CASE UNCHANGED vars
  BY <1>4 DEF vars, service, SyncInv, TypeOK, ServiceOK, AnswerIsNewer, TodoOK,
              NothingDropped, NoChangeMissed, StoredAsPublished
<1> QED BY <1>1, <1>2, <1>3, <1>4 DEF Next

THEOREM SyncInvariant == Spec => []SyncInv
<1> QED BY SyncInit, SyncNext, PTL DEF Spec

\* The state variables keep their types, and the remembered status is one the
\* service has given.
THEOREM SyncTypeOK == Spec => []TypeOK
<1>1. SyncInv => TypeOK
  BY DEF SyncInv
<1> QED BY <1>1, SyncInvariant, PTL

\* No change up to the remembered status is missed, whatever fails, restarts,
\* is invalid or changes meanwhile.
THEOREM SyncNoChangeMissed == Spec => []NoChangeMissed
<1>1. SyncInv => NoChangeMissed
  BY DEF SyncInv
<1> QED BY <1>1, SyncInvariant, PTL

\* Every stored group is a published one, with all its members.
THEOREM SyncStoredAsPublished == Spec => []StoredAsPublished
<1>1. SyncInv => StoredAsPublished
  BY DEF SyncInv
<1> QED BY <1>1, SyncInvariant, PTL
=============================================================================
