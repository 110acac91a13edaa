------------------------------ MODULE GroupSync ------------------------------
(***************************************************************************)
(* GroupSyncService: a scheduled task of one thread fetches the groups     *)
(* that changed since the last complete run from the group service,        *)
(* validates them, saves each valid one in a transaction of its own, and   *)
(* remembers the service's status only if none was invalid.                *)
(*                                                                         *)
(* The group service is external: it counts its changes in `status' and    *)
(* answers with the groups changed since the status it is asked about.     *)
(***************************************************************************)
EXTENDS Naturals

CONSTANTS Users,         \* every member a group can have
          Nameless,      \* those whose id is missing or blank
          Groups,        \* group ids
          MaxStatus,     \* bound on the changes of the group service
          MaxFailures    \* bound on failures and restarts

ASSUME NamelessType == Nameless \subseteq Users
ASSUME MaxStatusType == MaxStatus \in Nat
ASSUME MaxFailuresType == MaxFailures \in Nat

VARIABLES status,      \* the group service: number of changes,
          real,        \* its groups,
          changed,     \* the status with which each changed last,
          published,   \* history: every version of every group
          store,       \* the groups in the database
          lastStatus,  \* GroupSyncService.lastStatus
          sync,        \* the run of the task
          failures     \* failures and restarts so far

service == <<status, real, changed, published>>
vars == <<service, store, lastStatus, sync, failures>>

\* A group as the service sends it.  It is complete if its id and title are
\* not blank, its visibility is known and its list of members is there.
Content == [complete : BOOLEAN, members : SUBSET Users]

\* A group that does not exist (yet).
NoGroup == [complete |-> FALSE, members |-> {}]

\* The group built from it: members without an id are left out.
Parsed(c) == [c EXCEPT !.members = @ \ Nameless]

\* Faulty: a group is accepted without the members that cannot be read.
ValidGroup_KeepsRest(c) == c.complete /\ Parsed(c).members # {}

\* It is accepted if it is complete, has members, and none was left out.
ValidGroup(c) ==
  /\ c.complete
  /\ Parsed(c).members # {}
  /\ Parsed(c) = c

\* A run of the task, and what it has of the answer.
Sync == [pc     : {"idle", "saving"},
         status : Nat,
         groups : [Groups -> Content],
         todo   : SUBSET Groups,
         errors : BOOLEAN]

NoSync == [pc     |-> "idle",
           status |-> 0,
           groups |-> [g \in Groups |-> NoGroup],
           todo   |-> {},
           errors |-> FALSE]

Init ==
  /\ status = 0
  /\ real = [g \in Groups |-> NoGroup]
  /\ changed = [g \in Groups |-> 0]
  /\ published = {}
  /\ store = [g \in Groups |-> NoGroup]
  /\ lastStatus = 0
  /\ sync = NoSync
  /\ failures = 0
-----------------------------------------------------------------------------
\* The group service creates or changes a group.
Change(g, c) ==
  /\ status < MaxStatus
  /\ status' = status + 1
  /\ real' = [real EXCEPT ![g] = c]
  /\ changed' = [changed EXCEPT ![g] = status + 1]
  /\ published' = published \cup {<<g, c>>}
  /\ UNCHANGED <<store, lastStatus, sync, failures>>

\* The answer to a request for what changed since `last'.
Answer(last) == {g \in Groups : changed[g] > last}

\* Faulty: one invalid group spoils the answer.
Fetch_AllOrNothing ==
  LET bad == {g \in Answer(lastStatus) : ~ValidGroup(real[g])}
  IN  /\ sync.pc = "idle"
      /\ sync' = [pc     |-> "saving",
                  status |-> status,
                  groups |-> real,
                  todo   |-> IF bad = {} THEN Answer(lastStatus) ELSE {},
                  errors |-> bad # {}]
      /\ UNCHANGED <<service, store, lastStatus, failures>>

\* getGroupSyncDto and validateAndKeepValid.
Fetch ==
  LET bad == {g \in Answer(lastStatus) : ~ValidGroup(real[g])}
  IN  /\ sync.pc = "idle"
      /\ sync' = [pc     |-> "saving",
                  status |-> status,
                  groups |-> real,
                  todo   |-> Answer(lastStatus) \ bad,
                  errors |-> bad # {}]
      /\ UNCHANGED <<service, store, lastStatus, failures>>

\* No answer, an error or something that is not the expected JSON.
FetchFails ==
  /\ sync.pc = "idle"
  /\ failures < MaxFailures
  /\ failures' = failures + 1
  /\ UNCHANGED <<service, store, lastStatus, sync>>

Save(g) ==
  /\ sync.pc = "saving"
  /\ g \in sync.todo
  /\ store' = [store EXCEPT ![g] = Parsed(sync.groups[g])]
  /\ sync' = [sync EXCEPT !.todo = @ \ {g}]
  /\ UNCHANGED <<service, lastStatus, failures>>

\* A transaction fails: the exception ends the run of the task.
SaveFails ==
  /\ sync.pc = "saving"
  /\ sync.todo # {}
  /\ failures < MaxFailures
  /\ failures' = failures + 1
  /\ sync' = NoSync
  /\ UNCHANGED <<service, store, lastStatus>>

\* Faulty: asks for what comes after the next change.
Done_SkipsOne ==
  /\ sync.pc = "saving"
  /\ sync.todo = {}
  /\ lastStatus' = IF sync.errors THEN lastStatus ELSE sync.status + 1
  /\ sync' = NoSync
  /\ UNCHANGED <<service, store, failures>>

\* Faulty: the status is remembered although groups were dropped.
Done_AlwaysRemembers ==
  /\ sync.pc = "saving"
  /\ sync.todo = {}
  /\ lastStatus' = sync.status
  /\ sync' = NoSync
  /\ UNCHANGED <<service, store, failures>>

Done ==
  /\ sync.pc = "saving"
  /\ sync.todo = {}
  /\ lastStatus' = IF sync.errors THEN lastStatus ELSE sync.status
  /\ sync' = NoSync
  /\ UNCHANGED <<service, store, failures>>

\* The application restarts.  The schema is created anew and the status is
\* kept in memory only.
Restart ==
  /\ failures < MaxFailures
  /\ failures' = failures + 1
  /\ store' = [g \in Groups |-> NoGroup]
  /\ lastStatus' = 0
  /\ sync' = NoSync
  /\ UNCHANGED service

SyncGroups == Fetch \/ (\E g \in Groups : Save(g)) \/ Done

Next ==
  \/ \E g \in Groups, c \in Content : Change(g, c)
  \/ SyncGroups
  \/ FetchFails
  \/ SaveFails
  \/ Restart

Spec == Init /\ [][Next]_vars

\* The scheduler runs the task again and again.  That a run comes to its end
\* assumes the group service answers: the request has no timeout.
FairSpec == Spec /\ WF_vars(SyncGroups)
-----------------------------------------------------------------------------
\* The state variables have the values they should; the status remembered is
\* one the service has given.
TypeOK ==
  /\ status \in 0..MaxStatus
  /\ real \in [Groups -> Content]
  /\ changed \in [Groups -> 0..MaxStatus]
  /\ published \subseteq Groups \X Content
  /\ store \in [Groups -> Content]
  /\ lastStatus \in 0..status
  /\ sync \in Sync
  /\ failures \in 0..MaxFailures

\* A group the service will not send again, because it last changed before
\* the remembered status, is stored as it is: no change is missed, whatever
\* fails, restarts, is invalid or changes while a run is under way.
NoChangeMissed ==
  \A g \in Groups : changed[g] <= lastStatus => store[g] = real[g]

\* A stored group is one the service has published, with all its members.
\* Members decide who may vote, so a group with a part of them is worse than
\* an old one (GroupSyncValidator.validateGroupDto).
StoredAsPublished ==
  \A g \in Groups : store[g] # NoGroup => <<g, store[g]>> \in published

\* Each valid group is stored in the end, also while another one stays
\* invalid forever and so keeps the status from being remembered.
ValidGroupsArrive ==
  \A g \in Groups : <>[](ValidGroup(real[g]) => store[g] = real[g])
=============================================================================
