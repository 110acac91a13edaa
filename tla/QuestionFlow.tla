----------------------------- MODULE QuestionFlow -----------------------------
(***************************************************************************)
(* Creating a question poll: the web flow poll-flow.xml of one user with   *)
(* QuestionPollAdapter and its converters.  Unlike the flow for date polls *)
(* it edits one dto per form, and the link in its PublicationDto is never  *)
(* set.  Nothing is saved at the end.  Whether the poll is single choice   *)
(* or anonymous makes no difference to the flow and is left out.           *)
(***************************************************************************)

CONSTANTS Answers,      \* what a user may enter as an answer
          BadAnswers,   \* those without a text or longer than 40 characters
          Groups,       \* what a user may enter as a group
          Known         \* ids of the stored groups

VARIABLES view,         \* the state of the flow
          dtos          \* the dtos in flow scope

vars == <<view, dtos>>

Views == {"nameSettings", "accessSettings", "entrySettings",
          "questionPollEntries", "publication", "confirmation", "home"}

Dtos == [header  : BOOLEAN,        \* metaInfDto: title and question are valid
         period  : BOOLEAN,        \* timespanDto: can be parsed, ends later
         entries : SUBSET Answers,
         public  : BOOLEAN,        \* publicationDto
         link    : BOOLEAN,        \* whether it has a link
         groups  : SUBSET Groups]

\* No title, a period of a month from now, and a PublicationDto as its
\* constructor leaves it.
NewDtos == [header  |-> FALSE,
            period  |-> TRUE,
            entries |-> {},
            public  |-> FALSE,
            link    |-> FALSE,
            groups  |-> {}]

\* An end of the flow discards its scope.
Leave == view' = "home" /\ dtos' = NewDtos

Init == view = "home" /\ dtos = NewDtos

\* PublicationAdapter.validateDto: a private poll needs a link and groups, and
\* all groups must be stored.
PublicationIsValid(d) ==
  ~d.public => d.link /\ d.groups # {} /\ d.groups \subseteq Known
-----------------------------------------------------------------------------
Start ==
  /\ view = "home"
  /\ view' = "nameSettings"
  /\ dtos' = NewDtos

NameSettings(header) ==
  /\ view = "nameSettings"
  /\ \/ Leave
     \/ /\ dtos' = [dtos EXCEPT !.header = header]
        /\ view' = IF header THEN "accessSettings" ELSE view

AccessSettings(period) ==
  /\ view = "accessSettings"
  /\ dtos' = [dtos EXCEPT !.period = period]
  /\ \/ view' = "nameSettings"
     \/ view' = IF period THEN "entrySettings" ELSE view

\* The settings of a question poll are always valid.
EntrySettings ==
  /\ view = "entrySettings"
  /\ view' \in {"accessSettings", "questionPollEntries"}
  /\ UNCHANGED dtos

\* Faulty: the answer is added as it is.
AddEntry_Unchecked(answer) ==
  /\ view = "questionPollEntries"
  /\ dtos' = [dtos EXCEPT !.entries = @ \cup {answer}]
  /\ UNCHANGED view

AddEntry(answer) ==
  /\ view = "questionPollEntries"
  /\ answer \notin BadAnswers
  /\ dtos' = [dtos EXCEPT !.entries = @ \cup {answer}]
  /\ UNCHANGED view

DeleteEntry(answer) ==
  /\ view = "questionPollEntries"
  /\ dtos' = [dtos EXCEPT !.entries = @ \ {answer}]
  /\ UNCHANGED view

LeaveEntries ==
  /\ view = "questionPollEntries"
  /\ \/ view' = "entrySettings"
     \/ dtos.entries # {} /\ view' = "publication"
  /\ UNCHANGED dtos

\* Faulty: the form is bound, but never validated.
Publication_Unchecked(public, groups) ==
  /\ view = "publication"
  /\ dtos' = [dtos EXCEPT !.public = public, !.groups = groups]
  /\ view' \in {"questionPollEntries", "confirmation"}

Publication(public, groups) ==
  /\ view = "publication"
  /\ dtos' = [dtos EXCEPT !.public = public, !.groups = groups]
  /\ \/ view' = "questionPollEntries"
     \/ view' = IF PublicationIsValid(dtos') THEN "confirmation" ELSE view

ToPublication ==
  /\ view = "confirmation"
  /\ view' = "publication"
  /\ UNCHANGED dtos

Submit == view = "confirmation" /\ Leave

Next ==
  \/ Start
  \/ \E header \in BOOLEAN : NameSettings(header)
  \/ \E period \in BOOLEAN : AccessSettings(period)
  \/ EntrySettings
  \/ \E answer \in Answers : AddEntry(answer)
  \/ \E answer \in Answers : DeleteEntry(answer)
  \/ LeaveEntries
  \/ \E public \in BOOLEAN, groups \in SUBSET Groups : Publication(public, groups)
  \/ ToPublication
  \/ Submit

Spec == Init /\ [][Next]_vars
=============================================================================
