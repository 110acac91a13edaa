------------------------------ MODULE Scheduling ------------------------------
(***************************************************************************)
(* Creating a date poll: the web flow scheduling-flow.xml of one user,     *)
(* with the adapters that validate its forms, the upload of a poll as a    *)
(* file, and BuilderService, which builds and saves the poll.              *)
(*                                                                         *)
(* All forms edit one DatePollDto in flow scope.  Each transition first    *)
(* binds the form of the view, also the transitions back, which validate   *)
(* nothing.  What the texts and dates say is abstracted to whether they    *)
(* are valid.                                                              *)
(***************************************************************************)
EXTENDS FiniteSets

CONSTANTS Slots,      \* time spans a user may enter or upload
          BadSlots,   \* those that cannot be parsed or end before they start
          Tags,       \* what can be listed as a group
          Blank,      \* the tag without a name
          Known       \* ids of the stored groups

ASSUME SlotsType == BadSlots \subseteq Slots
ASSUME TagsType == Blank \in Tags /\ Known \subseteq Tags \ {Blank}

VARIABLES pc,         \* the state of the flow
          dto,        \* flowScope.datePollDto
          syncing,    \* mops.gruppen2.sync.enabled
          uploaded,   \* history: a file was uploaded in this flow
          saved       \* the poll this flow has saved, if any

vars == <<pc, dto, syncing, uploaded, saved>>

Views == {"metaInfStep1", "metaInfStep2", "settings", "entries",
          "publication", "fileUpload", "confirmation", "home"}

Dto == [texts    : BOOLEAN,        \* title, description, location are valid
        period   : BOOLEAN,        \* the voting period is valid
        config   : BOOLEAN,        \* the settings do not contradict each other
        entries  : SUBSET Slots,
        public   : BOOLEAN,        \* ispublic
        groups   : SUBSET Tags]

\* buildConfirmationDto: no title, a period of a month from now.
EmptyDto == [texts    |-> FALSE,
             period   |-> TRUE,
             config   |-> TRUE,
             entries  |-> {},
             public   |-> FALSE,
             groups   |-> {}]

Start ==
  /\ pc' = "metaInfStep1"
  /\ dto' = EmptyDto
  /\ uploaded' = FALSE
  /\ saved' = {}

\* An end of the flow discards its scope.
Leave ==
  /\ pc' = "home"
  /\ dto' = EmptyDto
  /\ uploaded' = FALSE

Init ==
  /\ pc = "metaInfStep1"
  /\ dto = EmptyDto
  /\ syncing \in BOOLEAN
  /\ uploaded = FALSE
  /\ saved = {}
-----------------------------------------------------------------------------
(* What the adapters check. *)

MetaInfIsValid(d) == d.texts /\ d.period

SlotIsValid(slot) == slot \notin BadSlots

EntriesAreValid(d) == d.entries # {} /\ d.entries \cap BadSlots = {}

\* A tag without a name is left out.
ParsedGroups(d) == d.groups \ {Blank}

\* An empty field is refused, one that only lists blank tags is not.
PublicationIsValid(d) ==
  ~d.public => d.groups # {} /\ ParsedGroups(d) \subseteq Known
-----------------------------------------------------------------------------
(* DatePollBuilder, called as BuilderService.publishDatePoll does. *)

PollFields == {"DATE_POLL_META_INF", "POLL_LINK", "DATE_POLL_CONFIG",
               "DATE_POLL_ENTRIES", "CREATOR", "PARTICIPATING_GROUPS"}

Errors(d) ==
  {f \in PollFields :
     \/ f = "DATE_POLL_META_INF" /\ ~MetaInfIsValid(d)
     \/ f = "DATE_POLL_CONFIG"   /\ ~d.config
     \/ f = "DATE_POLL_ENTRIES"  /\ d.entries \cap BadSlots # {}}

\* Entries and groups count as validated if one of them is, and a public
\* poll needs no groups.
ValidatedFields(d) ==
  {f \in PollFields \ Errors(d) :
     /\ f = "DATE_POLL_ENTRIES" => d.entries \ BadSlots # {}
     /\ f = "PARTICIPATING_GROUPS" =>
          IF d.public THEN d.config ELSE ParsedGroups(d) # {}}

\* Faulty: only what was set is checked, not that everything was.
CanBuild_IfNoErrors(d) == Errors(d) = {}

CanBuild(d) == Errors(d) = {} /\ ValidatedFields(d) = PollFields

Built(d) == [d EXCEPT !.groups = IF d.public THEN {} ELSE ParsedGroups(d)]

\* Saving loads every group of the poll.
GroupsFound(p) == p.groups \subseteq Known

CanPublish(d) == CanBuild(d) /\ GroupsFound(Built(d))
-----------------------------------------------------------------------------
(* The views of the flow. *)

MetaInfStep1(texts) ==
  /\ pc = "metaInfStep1"
  /\ \/ Leave
     \/ /\ dto' = [dto EXCEPT !.texts = texts]
        /\ \/ pc' = "fileUpload"
           \/ pc' = IF texts THEN "metaInfStep2" ELSE pc
        /\ UNCHANGED uploaded
  /\ UNCHANGED <<syncing, saved>>

MetaInfStep2(period) ==
  /\ pc = "metaInfStep2"
  /\ dto' = [dto EXCEPT !.period = period]
  /\ \/ pc' = "metaInfStep1"
     \/ pc' = IF MetaInfIsValid(dto') THEN "settings" ELSE pc
  /\ UNCHANGED <<syncing, uploaded, saved>>

\* Faulty: the settings are taken as they are.
Settings_Unchecked(config) ==
  /\ pc = "settings"
  /\ dto' = [dto EXCEPT !.config = config]
  /\ pc' \in {"metaInfStep2", "entries"}
  /\ UNCHANGED <<syncing, uploaded, saved>>

Settings(config) ==
  /\ pc = "settings"
  /\ dto' = [dto EXCEPT !.config = config]
  /\ \/ pc' = "metaInfStep2"
     \/ pc' = IF config THEN "entries" ELSE pc
  /\ UNCHANGED <<syncing, uploaded, saved>>

\* Faulty: the time span is added as it is.
AddEntry_Unchecked(slot) ==
  /\ pc = "entries"
  /\ dto' = [dto EXCEPT !.entries = @ \cup {slot}]
  /\ UNCHANGED <<pc, syncing, uploaded, saved>>

AddEntry(slot) ==
  /\ pc = "entries"
  /\ SlotIsValid(slot)
  /\ dto' = [dto EXCEPT !.entries = @ \cup {slot}]
  /\ UNCHANGED <<pc, syncing, uploaded, saved>>

DeleteEntry(slot) ==
  /\ pc = "entries"
  /\ dto' = [dto EXCEPT !.entries = @ \ {slot}]
  /\ UNCHANGED <<pc, syncing, uploaded, saved>>

\* On, by way of the state groupSyncEnabled, or back.
LeaveEntries ==
  /\ pc = "entries"
  /\ \/ pc' = "settings"
     \/ /\ EntriesAreValid(dto)
        /\ pc' = IF syncing THEN "publication" ELSE "confirmation"
  /\ UNCHANGED <<dto, syncing, uploaded, saved>>

Publication(public, groups) ==
  /\ pc = "publication"
  /\ dto' = [dto EXCEPT !.public = public, !.groups = groups]
  /\ \/ pc' = "entries"
     \/ pc' = IF PublicationIsValid(dto') THEN "confirmation" ELSE pc
  /\ UNCHANGED <<syncing, uploaded, saved>>
-----------------------------------------------------------------------------
(* The upload of a file, which is read in parts.  A part may be unreadable  *)
(* (its IOException is ignored) and then leaves the dto as it is.          *)

Parts == {"metaInf", "config", "entries", "publication"}

FieldsOf(part) ==
  CASE part = "metaInf"     -> {"texts", "period"}
    [] part = "config"      -> {"config"}
    [] part = "entries"     -> {"entries"}
    [] part = "publication" -> {"public", "groups"}

PartIsValid(part, d) ==
  CASE part = "metaInf"     -> MetaInfIsValid(d)
    [] part = "config"      -> d.config
    [] part = "entries"     -> EntriesAreValid(d)
    [] part = "publication" -> PublicationIsValid(d)

\* What a file may say.  The poll is private only if the file says so and
\* lists groups.
File == {file \in Dto : file.public => file.groups = {}}

\* A file and those of its parts that are unreadable, whatever they say.
Uploads ==
  {u \in File \X SUBSET Parts :
     \A part \in u[2] : \A f \in FieldsOf(part) : u[1][f] = EmptyDto[f]}

\* processPollFile: the parts that are read and valid are taken, whether or
\* not others are refused; an unreadable part is neither taken nor refused.
Upload(file, unreadable) ==
  LET read  == Parts \ unreadable
      valid == {part \in read : PartIsValid(part, file)}
  IN  /\ pc = "fileUpload"
      /\ dto' = [f \in DOMAIN dto |-> IF \E part \in valid : f \in FieldsOf(part)
                                        THEN file[f] ELSE dto[f]]
      /\ pc' = IF valid = read THEN "confirmation" ELSE pc
      /\ uploaded' = TRUE
      /\ UNCHANGED <<syncing, saved>>

CancelUpload ==
  /\ pc = "fileUpload"
  /\ pc' = "metaInfStep1"
  /\ UNCHANGED <<dto, syncing, uploaded, saved>>
-----------------------------------------------------------------------------
(* The confirmation. *)

ToPublication ==
  /\ pc = "confirmation"
  /\ pc' = "publication"
  /\ UNCHANGED <<dto, syncing, uploaded, saved>>

\* publishDatePoll and saveAndPublish.  If the poll cannot be published an
\* error is shown or an exception thrown, and the view stays.
Submit ==
  /\ pc = "confirmation"
  /\ CanPublish(dto)
  /\ Leave
  /\ saved' = {Built(dto)}
  /\ UNCHANGED syncing

\* The database fails once the poll is committed: the view stays and the user
\* may go back, change the poll and save it again under the same link.
SubmitFails ==
  /\ pc = "confirmation"
  /\ CanPublish(dto)
  /\ saved' = {Built(dto)}
  /\ UNCHANGED <<pc, dto, syncing, uploaded>>

\* The user starts over with a new flow.
Restart ==
  /\ pc = "home"
  /\ Start
  /\ UNCHANGED syncing

Next ==
  \/ \E texts \in BOOLEAN : MetaInfStep1(texts)
  \/ \E period \in BOOLEAN : MetaInfStep2(period)
  \/ \E config \in BOOLEAN : Settings(config)
  \/ \E slot \in Slots : AddEntry(slot)
  \/ \E slot \in Slots : DeleteEntry(slot)
  \/ LeaveEntries
  \/ \E public \in BOOLEAN, groups \in SUBSET (Tags \ {Blank}) :
       Publication(public, groups)
  \/ \E u \in Uploads : Upload(u[1], u[2])
  \/ CancelUpload
  \/ ToPublication
  \/ Submit
  \/ SubmitFails
  \/ Restart

Spec == Init /\ [][Next]_vars
-----------------------------------------------------------------------------
\* The state variables have the values they should.  All entries of the dto
\* are valid: its TreeSet cannot compare others (EntryDto.compareTo).
TypeOK ==
  /\ pc \in Views
  /\ dto \in Dto
  /\ dto.entries \cap BadSlots = {}
  /\ syncing \in BOOLEAN
  /\ uploaded \in BOOLEAN
  /\ saved \subseteq Dto

\* Every poll that is saved is complete and consistent, on whatever way
\* through the flow it came about: it has something to vote on and somebody
\* to vote (DatePollBuilder.build, DatePollRepositoryImpl.save).
SavedIsValid ==
  \A p \in saved :
    /\ MetaInfIsValid(p)
    /\ p.config
    /\ EntriesAreValid(p)
    /\ p.public \/ p.groups # {}
    /\ p.groups \subseteq Known

\* With synchronised groups, and as long as no file is uploaded, the flow only
\* gets to the confirmation with a poll that can be published, however often
\* the user goes back, which binds forms without validating them.
WizardConfirmsValid ==
  syncing /\ ~uploaded /\ pc = "confirmation" => CanPublish(dto)
=============================================================================
