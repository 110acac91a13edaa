------------------------------- MODULE WebFlows -------------------------------
(***************************************************************************)
(* The flows of a user together: from the dashboard, where both end, one   *)
(* creates a date poll (Scheduling) or a question poll (QuestionFlow).     *)
(* Each execution of a flow has a scope of its own; they share the stored  *)
(* groups.                                                                 *)
(***************************************************************************)
EXTENDS Scheduling

CONSTANTS Answers, BadAnswers

VARIABLES view, dtos

Question == INSTANCE QuestionFlow WITH Groups <- Tags \ {Blank}

webVars == <<pc, dto, syncing, uploaded, saved, view, dtos>>

WebInit == Init /\ Question!Init

SchedulingStep == view = "home" /\ Next /\ UNCHANGED <<view, dtos>>

QuestionStep == pc = "home" /\ Question!Next /\ UNCHANGED vars

WebNext == SchedulingStep \/ QuestionStep

WebSpec == WebInit /\ [][WebNext]_webVars
-----------------------------------------------------------------------------
\* The state of the question poll flow has its type; an answer without a text
\* or too long never gets into the dtos (QuestionPollAdapter.addEntry).
QuestionTypeOK ==
  /\ view \in Question!Views
  /\ dtos \in Question!Dtos
  /\ dtos.entries \cap BadAnswers = {}

\* A question poll is confirmed only if each of its dtos is valid, however
\* often the user goes back, which binds forms without validating them
\* (poll-flow.xml, QuestionPollAdapter).
QuestionConfirmsValid ==
  view = "confirmation" =>
    /\ dtos.header
    /\ dtos.period
    /\ dtos.entries # {}
    /\ Question!PublicationIsValid(dtos)
=============================================================================
