--------------------------------- MODULE Pages ---------------------------------
(***************************************************************************)
(* The pages with scripts of their own, one open at a time: the            *)
(* publication page (PublicationPage), the settings of a poll, the voting  *)
(* form of a multiple choice poll, and a page with a section that can be   *)
(* folded (termine1.js).                                                   *)
(*                                                                         *)
(* What the server holds for the settings and the votes is any value that  *)
(* the page can have submitted before.                                     *)
(***************************************************************************)
EXTENDS PublicationPage

CONSTANTS Entries,         \* the entries of the poll on the voting form
          PriorityChoice   \* the poll has a second column, maybe

ASSUME PriorityChoiceType == PriorityChoice \in BOOLEAN

VARIABLES settings,     \* the radio buttons and their section
          ballot,       \* the boxes of the voting form
          folded        \* a section and the caret in its heading

scriptVars == <<settings, ballot, folded>>
vars == <<pageVars, scriptVars>>

Settings == [single : BOOLEAN, priority : BOOLEAN,
             section : Sections, follows : BOOLEAN]

\* As PollVoting!FormSelections has them for multiple choice.
FormSelections ==
  {sel \in [yes : SUBSET Entries, maybe : SUBSET Entries] :
     /\ sel.yes \cap sel.maybe = {}
     /\ ~PriorityChoice => sel.maybe = {}}

Folded == [section : Sections, caret : {"right", "down"}, follows : BOOLEAN]
-----------------------------------------------------------------------------
(* The settings.  The page comes with the priorities folded and unfolds them,
   whatever is chosen. *)

LoadSettings(single, priority) ==
  /\ page' = "settings"
  /\ settings' = [single |-> single, priority |-> priority,
                  section |-> Show("hidden"), follows |-> ~single]

ClosedSettings ==
  [single |-> FALSE, priority |-> FALSE, section |-> "hidden", follows |-> FALSE]

OpenSettings(single, priority) ==
  /\ page = "away"
  /\ LoadSettings(single, priority)
  /\ UNCHANGED <<ballot, folded>>

\* One of the two buttons is chosen instead of the other: showPriorities.
ChooseSingle(single) ==
  /\ page = "settings"
  /\ single # settings.single
  /\ settings' = [settings EXCEPT
       !.single = single,
       !.section = IF single THEN Hide(@) ELSE Show(@),
       !.follows = ~InTransition(settings.section)]
  /\ UNCHANGED <<page, ballot, folded>>

ChoosePriority(priority) ==
  /\ page = "settings"
  /\ settings.section # "hidden"
  /\ settings' = [settings EXCEPT !.priority = priority]
  /\ UNCHANGED <<page, ballot, folded>>

\* Hidden buttons are submitted as well; the server refuses the two together.
SettingsAreValid(s) == ~(s.single /\ s.priority)

SubmitSettings(event) ==
  /\ page = "settings"
  /\ IF event = "metaInfStep2" \/ SettingsAreValid(settings)
     THEN page' = "away" /\ settings' = ClosedSettings
     ELSE LoadSettings(settings.single, settings.priority)
  /\ UNCHANGED <<ballot, folded>>
-----------------------------------------------------------------------------
(* The voting form: a change of a box unticks the one beside it. *)

NoSelection == [yes |-> {}, maybe |-> {}]

OpenVote(stored) ==
  /\ page = "away"
  /\ page' = "vote"
  /\ ballot' = stored
  /\ UNCHANGED <<settings, folded>>

Other(kind) == IF kind = "yes" THEN "maybe" ELSE "yes"

\* Faulty: the other box stays ticked.
ToggleGroup_KeepsOther(kind, entry) ==
  /\ page = "vote"
  /\ kind = "maybe" => PriorityChoice
  /\ ballot' = [ballot EXCEPT
       ![kind] = IF entry \in @ THEN @ \ {entry} ELSE @ \cup {entry}]
  /\ UNCHANGED <<page, settings, folded>>

ToggleGroup(kind, entry) ==
  /\ page = "vote"
  /\ kind = "maybe" => PriorityChoice
  /\ ballot' = [ballot EXCEPT
       ![kind] = IF entry \in @ THEN @ \ {entry} ELSE @ \cup {entry},
       ![Other(kind)] = @ \ {entry}]
  /\ UNCHANGED <<page, settings, folded>>

SubmitVote ==
  /\ page = "vote"
  /\ page' = "away"
  /\ ballot' = NoSelection
  /\ UNCHANGED <<settings, folded>>
-----------------------------------------------------------------------------
(* A section that is folded by a click on its heading: closed on the page for
   uploads, open on the dashboard. *)

FoldedOnLoad(section) ==
  [section |-> section, caret |-> IF section = "shown" THEN "down" ELSE "right",
   follows |-> TRUE]

OpenFolded(section) ==
  /\ page = "away"
  /\ page' = "upload"
  /\ folded' = FoldedOnLoad(section)
  /\ UNCHANGED <<settings, ballot>>

\* The caret turns even if the section does not listen.
CollapseSection ==
  /\ page = "upload"
  /\ folded' = [section |-> Toggle(folded.section),
                caret |-> IF folded.caret = "down" THEN "right" ELSE "down",
                follows |-> folded.follows = ~InTransition(folded.section)]
  /\ UNCHANGED <<page, settings, ballot>>

CloseFolded ==
  /\ page = "upload"
  /\ page' = "away"
  /\ folded' = FoldedOnLoad("hidden")
  /\ UNCHANGED <<settings, ballot>>

SectionsSettle ==
  /\ settings' = [settings EXCEPT !.section = TransitionEnd(@)]
  /\ folded' = [folded EXCEPT !.section = TransitionEnd(@)]
  /\ page \in {"settings", "upload"}
  /\ UNCHANGED <<page, ballot>>
-----------------------------------------------------------------------------
Init ==
  /\ PublicationInit
  /\ settings = ClosedSettings
  /\ ballot = NoSelection
  /\ folded = FoldedOnLoad("hidden")

ScriptStep ==
  \/ \E single, priority \in BOOLEAN : OpenSettings(single, priority)
  \/ \E chosen \in BOOLEAN : ChooseSingle(chosen) \/ ChoosePriority(chosen)
  \/ \E event \in {"metaInfStep2", "entries"} : SubmitSettings(event)
  \/ \E stored \in FormSelections : OpenVote(stored)
  \/ \E kind \in {"yes", "maybe"}, entry \in Entries : ToggleGroup(kind, entry)
  \/ SubmitVote
  \/ \E section \in {"hidden", "shown"} : OpenFolded(section)
  \/ CollapseSection
  \/ CloseFolded
  \/ SectionsSettle

Next ==
  \/ PublicationNext /\ UNCHANGED scriptVars
  \/ ScriptStep /\ UNCHANGED <<widget, list, error, box, dto>>

Spec == Init /\ [][Next]_vars
-----------------------------------------------------------------------------
\* Every variable holds what it should.  For the voting form this is what
\* PollVoting takes for granted (FormSelections): no entry is ever ticked both
\* yes and maybe, whichever boxes are changed in whichever order.
PageTypeOK ==
  /\ page \in Pages
  /\ widget \in Widget
  /\ error \in BOOLEAN
  /\ box \in Box
  /\ settings \in Settings
  /\ ballot \in FormSelections
  /\ folded \in Folded

\* The user sees on the page what will be submitted: the spans are the value of
\* the hidden field, in order, each group once, without blank groups and none
\* that falls apart at a comma (addTag, removeTag, importTags).
ShownIsSubmitted ==
  /\ list.spans = list.field
  /\ IsInjective(list.field)
  /\ \A tag \in ToSet(list.field) : ValidateTag(tag) /\ Trim[tag] = tag

\* An open menu belongs to the field the user is in and offers what was searched
\* last; once no search is due, the field still holds that text or one of the
\* offered ids, which arrow keys have put there.  An item is highlighted, or its
\* highlight deferred or timed, only in an open menu.
MenuIsCurrent ==
  /\ widget.visible =>
       /\ FieldIsFocused
       /\ widget.items # <<>> /\ widget.items = Offers[widget.term]
       /\ widget.searching = "no" =>
            widget.value \in {widget.term} \cup ToSet(widget.items)
  /\ widget.active # 0 \/ widget.deferred # 0 \/ widget.timer => widget.visible
  /\ {widget.active, widget.deferred} \subseteq 0 .. Len(widget.items)
  /\ widget.searching # "no" => FieldIsFocused

\* Sections agree with what opens and closes them, unless the last change came
\* while a section moved and did not listen, or the page was loaded with both
\* at odds: the groups are hidden exactly if the poll is public, the priorities
\* exactly if a single choice is chosen, and the caret points the right way.
SectionsFollow ==
  /\ page = "publication" /\ box.follows =>
       (OnItsWayIn(box.section) <=> ~box.ticked)
  /\ page = "settings" /\ settings.follows =>
       (OnItsWayIn(settings.section) <=> ~settings.single)
  /\ folded.follows <=> (OnItsWayIn(folded.section) <=> folded.caret = "down")

\* What the user may expect to be added: the highlighted item, the text in the
\* field, or without a highlight an item under the mouse, less blanks around it.
Expected ==
  {Trim[widget.value]} \cup
    {Trim[widget.items[i]] : i \in IF widget.active # 0 THEN {widget.active}
                                                       ELSE DOMAIN widget.items}

\* While the page stays, a step adds one group the user sees in field or menu,
\* or pieces of one pasted text, behind the others, or removes one and leaves
\* the others in place.  No timer and no move of the mouse ever changes them.
TagsAsSeen ==
  [][page = "publication" /\ list'.spans # list.spans =>
       \/ \E tag \in Expected : list'.spans = Append(list.spans, tag)
       \/ /\ IsPrefix(list.spans, list'.spans)
          /\ \E text \in Texts :
               ToSet(list'.spans) \ ToSet(list.spans) \subseteq ToSet(SplitIntoTags(text))
       \/ \E i \in DOMAIN list.spans : list'.spans = RemoveAt(list.spans, i)
       \/ page' # "publication"]_vars

\* Page and server mean the same groups, although each parses them by itself:
\* what is submitted is parsed to the groups shown (PublicationAdapter), and a
\* page opened or shown again shows the groups of the dto, also of an upload.
GroupsSurvive ==
  [][/\ page = "publication" /\ page' = "away" =>
          ParseGroups(dto'.groups) = ToSet(list.spans)
     /\ page = "away" /\ page' = "publication" =>
          ToSet(list'.spans) = ParseGroups(dto.groups)
     /\ Submit("confirmation") /\ page' = "publication" =>
          list'.spans = list.spans]_vars
=============================================================================
