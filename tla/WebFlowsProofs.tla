---------------------------- MODULE WebFlowsProofs ----------------------------
(***************************************************************************)
(* What the flows promise, for every set of time spans, answers and groups *)
(* and any way through them.  First the flow for date polls by itself,     *)
(* then the one for question polls, then both together.                    *)
(***************************************************************************)
EXTENDS WebFlows, TLAPS
-----------------------------------------------------------------------------
(* The flow for date polls. *)

\* How far the parts of the dto are valid in each view, as long as no file was
\* uploaded.  A view is left forward only if its own part is valid, and the
\* transitions back bind only forms of views that are passed again.
WizardInv ==
  ~uploaded =>
    /\ Blank \notin dto.groups
    /\ pc = "metaInfStep2" => dto.texts
    /\ pc \in {"settings", "entries", "publication", "confirmation"}
         => MetaInfIsValid(dto)
    /\ pc \in {"entries", "publication", "confirmation"} => dto.config
    /\ pc \in {"publication", "confirmation"} => EntriesAreValid(dto)
    /\ syncing /\ pc = "confirmation" => PublicationIsValid(dto)

FlowInv ==
  /\ TypeOK
  /\ SavedIsValid
  /\ WizardInv

\* What it takes to be built and saved, in terms of the dto: the builder's
\* sets of failed and of validated fields say no more and no less.
LEMMA CanPublishFacts ==
  ASSUME NEW d \in Dto
  PROVE  CanPublish(d) <=>
           /\ MetaInfIsValid(d)
           /\ d.config
           /\ EntriesAreValid(d)
           /\ ~d.public => ParsedGroups(d) # {} /\ ParsedGroups(d) \subseteq Known
<1> DEFINE parts == /\ MetaInfIsValid(d)
                    /\ d.config
                    /\ EntriesAreValid(d)
                    /\ ~d.public => ParsedGroups(d) # {}
<1>1. Errors(d) = {} <=> MetaInfIsValid(d) /\ d.config /\ d.entries \cap BadSlots = {}
  BY DEF Errors, PollFields
<1>2. ASSUME Errors(d) = {}
      PROVE  ValidatedFields(d) = PollFields
               <=> /\ d.entries \ BadSlots # {}
                   /\ IF d.public THEN d.config ELSE ParsedGroups(d) # {}
  BY <1>2 DEF ValidatedFields, PollFields
<1>3. CanBuild(d) <=> parts
  BY <1>1, <1>2 DEF CanBuild, EntriesAreValid
<1>4. Built(d).groups = IF d.public THEN {} ELSE ParsedGroups(d)
  BY DEF Built, Dto
<1>5. GroupsFound(Built(d)) <=> (~d.public => ParsedGroups(d) \subseteq Known)
  BY <1>4 DEF GroupsFound
<1> QED BY <1>3, <1>5 DEF CanPublish

\* A poll built from a dto that can be published is valid.
LEMMA BuiltIsValid ==
  ASSUME NEW d \in Dto, CanPublish(d)
  PROVE  LET p == Built(d)
         IN  /\ p \in Dto
             /\ MetaInfIsValid(p)
             /\ p.config
             /\ EntriesAreValid(p)
             /\ p.public \/ p.groups # {}
             /\ p.groups \subseteq Known
<1> DEFINE p == Built(d)
<1>1. /\ p.texts = d.texts /\ p.period = d.period /\ p.config = d.config
      /\ p.entries = d.entries /\ p.public = d.public
      /\ p.groups = IF d.public THEN {} ELSE ParsedGroups(d)
  BY DEF Built, Dto
<1>2. p \in Dto
  BY DEF Built, Dto, ParsedGroups
<1> QED BY <1>1, <1>2, CanPublishFacts DEF MetaInfIsValid, EntriesAreValid

\* What an upload leaves in the dto: each field is as it was or comes from a
\* part of the file that was found valid.
LEMMA UploadedDto ==
  ASSUME TypeOK, NEW file \in File, NEW unreadable \in SUBSET Parts,
         Upload(file, unreadable)
  PROVE  /\ dto' \in Dto
         /\ dto'.entries \cap BadSlots = {}
<1> DEFINE valid == {part \in Parts \ unreadable : PartIsValid(part, file)}
<1>1. dto' = [f \in DOMAIN dto |-> IF \E part \in valid : f \in FieldsOf(part)
                                     THEN file[f] ELSE dto[f]]
  BY DEF Upload
<1>2. /\ dto \in Dto /\ file \in Dto
      /\ DOMAIN dto = {"texts", "period", "config", "entries", "public", "groups"}
  BY DEF TypeOK, Dto, File
<1>3. \A f \in DOMAIN dto : dto'[f] = file[f] \/ dto'[f] = dto[f]
  BY <1>1
<1>4. dto' \in Dto
  BY <1>1, <1>2, <1>3 DEF Dto
<1>5. dto'.entries \cap BadSlots = {}
  <2>1. CASE "entries" \in valid
    <3>1. dto'.entries \in {file.entries, dto.entries}
      BY <1>2, <1>3
    <3>2. file.entries \cap BadSlots = {}
      BY <2>1 DEF PartIsValid, EntriesAreValid
    <3> QED BY <3>1, <3>2 DEF TypeOK
  <2>2. CASE "entries" \notin valid
    <3>1. \A part \in valid : "entries" \notin FieldsOf(part)
      BY <2>2 DEF FieldsOf, Parts
    <3>2. dto'.entries = dto.entries
      BY <1>1, <1>2, <3>1
    <3> QED BY <3>2 DEF TypeOK
  <2> QED BY <2>1, <2>2
<1> QED BY <1>4, <1>5

\* A new dto has its type, no entry and no group.
LEMMA EmptyDtoOK ==
  EmptyDto \in Dto /\ EmptyDto.entries = {} /\ EmptyDto.groups = {}
BY DEF EmptyDto, Dto

LEMMA FlowInit == Init => FlowInv
BY EmptyDtoOK DEF Init, FlowInv, TypeOK, SavedIsValid, WizardInv, Views

\* The forms of the wizard.
LEMMA MetaInfInv ==
  ASSUME FlowInv, NEW x \in BOOLEAN, MetaInfStep1(x) \/ MetaInfStep2(x)
  PROVE  FlowInv'
<1>1. dto \in Dto
  BY DEF FlowInv, TypeOK
<1>2. CASE MetaInfStep1(x)
  BY <1>1, <1>2, EmptyDtoOK
     DEF MetaInfStep1, Leave, FlowInv, TypeOK, SavedIsValid, WizardInv, Views, Dto
<1>3. CASE MetaInfStep2(x)
  BY <1>1, <1>3
     DEF MetaInfStep2, FlowInv, TypeOK, SavedIsValid, WizardInv, Views, Dto,
         MetaInfIsValid
<1> QED BY <1>2, <1>3

LEMMA SettingsInv ==
  ASSUME FlowInv, NEW config \in BOOLEAN, Settings(config)
  PROVE  FlowInv'
<1>1. dto \in Dto
  BY DEF FlowInv, TypeOK
<1> QED BY <1>1 DEF Settings, FlowInv, TypeOK, SavedIsValid, WizardInv, Views,
                    Dto, MetaInfIsValid

LEMMA EntriesInv ==
  ASSUME FlowInv, \/ \E slot \in Slots : AddEntry(slot) \/ DeleteEntry(slot)
                  \/ LeaveEntries
  PROVE  FlowInv'
<1>1. dto \in Dto
  BY DEF FlowInv, TypeOK
<1>2. ASSUME NEW slot \in Slots, AddEntry(slot) PROVE FlowInv'
  BY <1>1, <1>2 DEF AddEntry, SlotIsValid, FlowInv, TypeOK, SavedIsValid, WizardInv, Views,
                    Dto, MetaInfIsValid
<1>3. ASSUME NEW slot \in Slots, DeleteEntry(slot) PROVE FlowInv'
  BY <1>1, <1>3 DEF DeleteEntry, FlowInv, TypeOK, SavedIsValid, WizardInv, Views,
                    Dto, MetaInfIsValid
<1>4. CASE LeaveEntries
  BY <1>4 DEF LeaveEntries, FlowInv, TypeOK, SavedIsValid, WizardInv, Views
<1> QED BY <1>2, <1>3, <1>4

LEMMA PublicationInv ==
  ASSUME FlowInv, NEW public \in BOOLEAN, NEW groups \in SUBSET (Tags \ {Blank}),
         Publication(public, groups)
  PROVE  FlowInv'
<1>1. dto \in Dto
  BY DEF FlowInv, TypeOK
<1>2. /\ dto'.texts = dto.texts /\ dto'.period = dto.period
      /\ dto'.config = dto.config /\ dto'.entries = dto.entries
      /\ dto'.public = public /\ dto'.groups = groups
      /\ dto' \in Dto
  BY <1>1 DEF Publication, Dto
<1>3. /\ pc = "publication" /\ UNCHANGED <<syncing, uploaded, saved>>
      /\ \/ pc' = "entries"
         \/ pc' = IF PublicationIsValid(dto') THEN "confirmation" ELSE pc
  BY DEF Publication
<1>4. TypeOK' /\ SavedIsValid'
  BY <1>2, <1>3 DEF FlowInv, TypeOK, SavedIsValid, Views
<1>5. WizardInv'
  BY <1>2, <1>3 DEF FlowInv, WizardInv, MetaInfIsValid, EntriesAreValid,
                    PublicationIsValid, ParsedGroups
<1> QED BY <1>4, <1>5 DEF FlowInv

LEMMA UploadInv ==
  ASSUME FlowInv, NEW u \in Uploads, Upload(u[1], u[2])
  PROVE  FlowInv'
<1>1. u[1] \in File /\ u[2] \in SUBSET Parts
  BY DEF Uploads
<1>2. dto' \in Dto /\ dto'.entries \cap BadSlots = {}
  BY <1>1, UploadedDto DEF FlowInv
<1>3. /\ pc' \in {"confirmation", "fileUpload"} /\ uploaded'
      /\ uploaded' \in BOOLEAN
      /\ UNCHANGED <<syncing, saved>>
  BY DEF Upload
<1> QED BY <1>2, <1>3 DEF FlowInv, TypeOK, SavedIsValid, WizardInv, Views

\* Saving, and the transitions that bind nothing.
LEMMA ConfirmationInv ==
  ASSUME FlowInv, CancelUpload \/ ToPublication \/ Submit \/ SubmitFails \/ Restart
  PROVE  FlowInv'
<1>1. dto \in Dto
  BY DEF FlowInv, TypeOK
<1>2. CASE CancelUpload \/ ToPublication
  BY <1>2 DEF CancelUpload, ToPublication, FlowInv, TypeOK, SavedIsValid,
              WizardInv, Views
<1>3. CASE Submit \/ SubmitFails
  <2>1. /\ CanPublish(dto) /\ saved' = {Built(dto)}
        /\ UNCHANGED syncing
        /\ \/ pc' = "confirmation" /\ pc = pc' /\ UNCHANGED <<dto, uploaded>>
           \/ Leave
    BY <1>3 DEF Submit, SubmitFails
  <2>2. SavedIsValid'
    BY <1>1, <2>1, BuiltIsValid DEF SavedIsValid
  <2>3. TypeOK'
    BY <1>1, <2>1, BuiltIsValid, EmptyDtoOK DEF Leave, FlowInv, TypeOK, Views
  <2>4. WizardInv'
    BY <2>1, EmptyDtoOK DEF Leave, FlowInv, WizardInv
  <2> QED BY <2>2, <2>3, <2>4 DEF FlowInv
<1>4. CASE Restart
  BY <1>4, EmptyDtoOK DEF Restart, Start, FlowInv, TypeOK, SavedIsValid, WizardInv,
                          Views
<1> QED BY <1>2, <1>3, <1>4

LEMMA FlowNext == FlowInv /\ [Next]_vars => FlowInv'
<1> SUFFICES ASSUME FlowInv, [Next]_vars PROVE FlowInv'
  OBVIOUS
<1>1. CASE UNCHANGED vars
  BY <1>1 DEF vars, FlowInv, TypeOK, SavedIsValid, WizardInv
<1>2. CASE Next
  BY <1>2, MetaInfInv, SettingsInv, EntriesInv, PublicationInv, UploadInv,
     ConfirmationInv DEF Next
<1> QED BY <1>1, <1>2

THEOREM FlowInvariant == Spec => []FlowInv
<1> QED BY FlowInit, FlowNext, PTL DEF Spec

\* The dto keeps its type, and entries that do not parse never get into it,
\* from a form or from a file.
THEOREM FlowTypeOK == Spec => []TypeOK
<1>1. FlowInv => TypeOK
  BY DEF FlowInv
<1> QED BY <1>1, FlowInvariant, PTL

\* Every poll that is saved is complete and consistent, on any way through the
\* flow: what the builder checks is enough.
THEOREM FlowSavedIsValid == Spec => []SavedIsValid
<1>1. FlowInv => SavedIsValid
  BY DEF FlowInv
<1> QED BY <1>1, FlowInvariant, PTL

\* Without an upload the flow reaches the confirmation only with a poll that
\* can be published.
THEOREM FlowWizardConfirmsValid == Spec => []WizardConfirmsValid
<1>1. FlowInv => WizardConfirmsValid
  <2> SUFFICES ASSUME FlowInv, syncing, ~uploaded, pc = "confirmation"
               PROVE  CanPublish(dto)
    BY DEF WizardConfirmsValid
  <2>1. dto \in Dto
    BY DEF FlowInv, TypeOK
  <2>2. /\ MetaInfIsValid(dto) /\ dto.config /\ EntriesAreValid(dto)
        /\ PublicationIsValid(dto) /\ Blank \notin dto.groups
    BY DEF FlowInv, WizardInv
  <2>3. ~dto.public => ParsedGroups(dto) # {} /\ ParsedGroups(dto) \subseteq Known
    BY <2>2 DEF PublicationIsValid, ParsedGroups
  <2> QED BY <2>1, <2>2, <2>3, CanPublishFacts
<1> QED BY <1>1, FlowInvariant, PTL
-----------------------------------------------------------------------------
(* The flow for question polls. *)

\* Which dtos of a question poll are valid in each view.
QuestionInv ==
  /\ QuestionTypeOK
  /\ view \in Question!Views \ {"nameSettings", "home"} => dtos.header
  /\ view \in {"entrySettings", "questionPollEntries", "publication",
               "confirmation"} => dtos.period
  /\ view \in {"publication", "confirmation"} => dtos.entries # {}
  /\ view = "confirmation" => Question!PublicationIsValid(dtos)

LEMMA NewDtosOK ==
  /\ Question!NewDtos \in Question!Dtos
  /\ Question!NewDtos.entries = {}
BY DEF Question!NewDtos, Question!Dtos

LEMMA QuestionInit == Question!Init => QuestionInv
BY NewDtosOK DEF Question!Init, QuestionInv, QuestionTypeOK, Question!Views

\* The views for the header and the period.
LEMMA QuestionHeadInv ==
  ASSUME QuestionInv,
         \/ Question!Start
         \/ \E header \in BOOLEAN : Question!NameSettings(header)
         \/ \E period \in BOOLEAN : Question!AccessSettings(period)
         \/ Question!EntrySettings
  PROVE  QuestionInv'
<1>1. dtos \in Question!Dtos
  BY DEF QuestionInv, QuestionTypeOK
<1>2. CASE Question!Start
  BY <1>2, NewDtosOK DEF Question!Start, QuestionInv, QuestionTypeOK, Question!Views
<1>3. ASSUME NEW header \in BOOLEAN, Question!NameSettings(header)
      PROVE  QuestionInv'
  BY <1>1, <1>3, NewDtosOK
     DEF Question!NameSettings, Question!Leave, QuestionInv, QuestionTypeOK,
         Question!Views, Question!Dtos
<1>4. ASSUME NEW period \in BOOLEAN, Question!AccessSettings(period)
      PROVE  QuestionInv'
  BY <1>1, <1>4
     DEF Question!AccessSettings, QuestionInv, QuestionTypeOK, Question!Views,
         Question!Dtos
<1>5. CASE Question!EntrySettings
  BY <1>1, <1>5
     DEF Question!EntrySettings, QuestionInv, QuestionTypeOK, Question!Views
<1> QED BY <1>2, <1>3, <1>4, <1>5

\* The answers.
LEMMA QuestionEntriesInv ==
  ASSUME QuestionInv,
         \/ \E answer \in Answers : Question!AddEntry(answer)
         \/ \E answer \in Answers : Question!DeleteEntry(answer)
         \/ Question!LeaveEntries
  PROVE  QuestionInv'
<1>1. dtos \in Question!Dtos
  BY DEF QuestionInv, QuestionTypeOK
<1>2. ASSUME NEW answer \in Answers, Question!AddEntry(answer)
      PROVE  QuestionInv'
  BY <1>1, <1>2
     DEF Question!AddEntry, QuestionInv, QuestionTypeOK, Question!Views,
         Question!Dtos
<1>3. ASSUME NEW answer \in Answers, Question!DeleteEntry(answer)
      PROVE  QuestionInv'
  BY <1>1, <1>3
     DEF Question!DeleteEntry, QuestionInv, QuestionTypeOK, Question!Views,
         Question!Dtos
<1>4. CASE Question!LeaveEntries
  BY <1>1, <1>4
     DEF Question!LeaveEntries, QuestionInv, QuestionTypeOK, Question!Views
<1> QED BY <1>2, <1>3, <1>4

\* Publication and confirmation.
LEMMA QuestionEndInv ==
  ASSUME QuestionInv,
         \/ \E public \in BOOLEAN, groups \in SUBSET (Tags \ {Blank}) :
              Question!Publication(public, groups)
         \/ Question!ToPublication
         \/ Question!Submit
  PROVE  QuestionInv'
<1>1. dtos \in Question!Dtos
  BY DEF QuestionInv, QuestionTypeOK
<1>2. ASSUME NEW public \in BOOLEAN, NEW groups \in SUBSET (Tags \ {Blank}),
             Question!Publication(public, groups)
      PROVE  QuestionInv'
  BY <1>1, <1>2
     DEF Question!Publication, QuestionInv, QuestionTypeOK, Question!Views,
         Question!Dtos
<1>3. CASE Question!ToPublication
  BY <1>1, <1>3
     DEF Question!ToPublication, QuestionInv, QuestionTypeOK, Question!Views
<1>4. CASE Question!Submit
  BY <1>4, NewDtosOK
     DEF Question!Submit, Question!Leave, QuestionInv, QuestionTypeOK,
         Question!Views
<1> QED BY <1>2, <1>3, <1>4

LEMMA QuestionNext == QuestionInv /\ [WebNext]_webVars => QuestionInv'
<1> SUFFICES ASSUME QuestionInv, [WebNext]_webVars PROVE QuestionInv'
  OBVIOUS
<1>1. CASE UNCHANGED <<view, dtos>>
  BY <1>1 DEF QuestionInv, QuestionTypeOK, Question!PublicationIsValid
<1>2. CASE Question!Next
  BY <1>2, QuestionHeadInv, QuestionEntriesInv, QuestionEndInv DEF Question!Next
<1> QED BY <1>1, <1>2 DEF WebNext, webVars, SchedulingStep, QuestionStep

THEOREM QuestionInvariant == WebSpec => []QuestionInv
<1> QED BY QuestionInit, QuestionNext, PTL DEF WebSpec, WebInit

\* The dtos of a question poll keep their types and hold no bad answer.
THEOREM WebQuestionTypeOK == WebSpec => []QuestionTypeOK
<1>1. QuestionInv => QuestionTypeOK
  BY DEF QuestionInv
<1> QED BY <1>1, QuestionInvariant, PTL

\* A question poll is confirmed only when each of its forms is valid, whatever
\* the user went through before.
THEOREM WebQuestionConfirmsValid == WebSpec => []QuestionConfirmsValid
<1>1. QuestionInv => QuestionConfirmsValid
  BY DEF QuestionInv, QuestionConfirmsValid, Question!Views, Question!PublicationIsValid
<1> QED BY <1>1, QuestionInvariant, PTL

-----------------------------------------------------------------------------
(* Both. *)

\* Together with the other flow, the flow for date polls does what it does by
\* itself: each step of the two is one of Scheduling or leaves its state alone.
\* All that is proved of Scheduling holds here too.
THEOREM WebFlowsImplementScheduling == WebSpec => Spec
<1>1. WebInit => Init
  BY DEF WebInit
<1>2. [WebNext]_webVars => [Next]_vars
  BY DEF WebNext, webVars, vars, SchedulingStep, QuestionStep
<1> QED BY <1>1, <1>2, PTL DEF WebSpec, Spec

\* Every date poll saved with both flows in use is complete and consistent.
THEOREM WebSavedIsValid == WebSpec => []SavedIsValid
<1> QED BY WebFlowsImplementScheduling, FlowSavedIsValid, PTL
=============================================================================
