---------------------------- MODULE PublicationPage ----------------------------
(***************************************************************************)
(* The page on which the creator of a poll says who may take part: a box   *)
(* that makes the poll public and the field for groups (TagsInput with     *)
(* Autocomplete), in a section that the box hides (termine1.js), and what  *)
(* the server makes of the form when it is submitted.                      *)
(*                                                                         *)
(* One action per event, with all its handlers in the order in which the   *)
(* scripts have registered them.  Timers fire at any time after they were  *)
(* started.                                                                *)
(***************************************************************************)
EXTENDS Autocomplete, TagsInput, Collapse

CONSTANTS Known,      \* the ids of stored groups
          Uploads     \* what an uploaded poll may list as groups

ASSUME KnownType == Known \subseteq Texts
ASSUME UploadsType == Uploads \subseteq Seq(Texts)

\* They are the texts between the commas of one text.
ASSUME UploadsAreSplit ==
  \A groups \in Uploads : \A group \in ToSet(groups) : Len(Pieces[Trim[group]]) = 1

VARIABLES page,       \* what the browser shows
          widget,     \* the text field, its menu and timers
          list,       \* the groups added so far
          error,      \* the text field is marked
          box,        \* the box for public polls and the section of the groups
          dto         \* publicationDto on the server while the page is not shown

pageVars == <<page, widget, list, error, box, dto>>

Pages == {"publication", "settings", "vote", "upload", "away"}

\* follows: history, the section has answered the last change of the box.
Box == [ticked : BOOLEAN, section : Sections, follows : BOOLEAN]

Dto == [public : BOOLEAN, groups : Seq(Texts)]
NewDto == [public |-> FALSE, groups |-> <<>>]
-----------------------------------------------------------------------------
(* PublicationAdapter on the server. *)

\* Faulty: keeps the text that is left of blanks.
ParseGroups_KeepsBlank(groups) == {Trim[group] : group \in ToSet(groups)}

ParseGroups(groups) == {Trim[group] : group \in ToSet(groups)} \ {None}

\* The string of groups is blank.
NoParticipants(d) == \A group \in ToSet(d.groups) : Len(d.groups) = 1 /\ Trim[group] = None

DtoIsValid(d) ==
  d.public \/ (~NoParticipants(d) /\ ParseGroups(d.groups) \subseteq Known)
-----------------------------------------------------------------------------
(* Loading and leaving the page.  A box that was ticked is not ticked again;
   an error that the poll has no participants ticks it. *)

BoxOnLoad(warned) == [ticked |-> warned, section |-> "shown", follows |-> ~warned]

\* The page is filled in with what the server holds.  Each way off the page
\* replaces that, so the dto does not matter while the page is shown.
Load(d, warned) ==
  /\ page' = "publication"
  /\ widget' = NewWidget
  /\ list' = ImportTags(d.groups)
  /\ error' = ImportRefuses(d.groups)
  /\ box' = BoxOnLoad(warned)
  /\ dto' = NewDto

OpenPublication ==
  /\ page = "away"
  /\ Load(dto, FALSE)

Bound == [public |-> box.ticked, groups |-> list.field]

LeavePublication(d) ==
  /\ page' = "away"
  /\ dto' = d
  /\ widget' = NewWidget
  /\ list' = NoTags
  /\ error' = FALSE
  /\ box' = BoxOnLoad(FALSE)

\* The way back binds without validation, the way on shows the page again with
\* its errors if the form is not valid.
Submit(event) ==
  /\ page = "publication"
  /\ IF event = "entries" \/ DtoIsValid(Bound)
     THEN LeavePublication(Bound)
     ELSE Load(Bound, NoParticipants(Bound))
-----------------------------------------------------------------------------
(* The box, with showGroups.  The user has to leave the field for it. *)

\* Faulty: toggles the section as well, whatever the box says.
ToggleBox_Toggles ==
  /\ page = "publication"
  /\ ~widget.focused
  /\ box' = [ticked |-> ~box.ticked,
             section |-> Toggle(box.section),
             follows |-> ~InTransition(box.section)]
  /\ UNCHANGED <<page, widget, list, error, dto>>

ToggleBox ==
  /\ page = "publication"
  /\ ~widget.focused
  /\ box' = [ticked |-> ~box.ticked,
             section |-> IF box.ticked THEN Show(box.section) ELSE Hide(box.section),
             follows |-> ~InTransition(box.section)]
  /\ UNCHANGED <<page, widget, list, error, dto>>

SectionSettles ==
  /\ page = "publication"
  /\ InTransition(box.section)
  /\ box' = [box EXCEPT !.section = TransitionEnd(@)]
  /\ UNCHANGED <<page, widget, list, error, dto>>
-----------------------------------------------------------------------------
(* The text field.  It can be entered while the section is not on its way out. *)

FieldIsFocused == page = "publication" /\ widget.focused

EnterField ==
  /\ page = "publication"
  /\ ~widget.focused
  /\ OnItsWayIn(box.section)
  /\ widget' = Focus(widget)
  /\ error' = (error /\ widget.value # None)
  /\ UNCHANGED <<page, list, box, dto>>

\* Also a press of the mouse outside field and menu.
LeaveField ==
  /\ FieldIsFocused
  /\ widget' = Blur(widget)
  /\ UNCHANGED <<page, list, error, box, dto>>

\* The user types or deletes, or drops or cuts a text with the mouse; only a key
\* takes the mark off the field.
Edit(text, byKey) ==
  /\ FieldIsFocused
  /\ text # widget.value
  /\ widget' = [SearchTimeout(widget, "key") EXCEPT !.value = text]
  /\ error' = (error /\ ~byKey)
  /\ UNCHANGED <<page, list, box, dto>>

\* Keys that change nothing by themselves; most take the mark off.
PressKey(kind, unmarks) ==
  /\ FieldIsFocused
  /\ widget' = SearchTimeout(widget, kind)
  /\ error' = (error /\ ~unmarks)
  /\ UNCHANGED <<page, list, box, dto>>

\* Tags are added one after the other, each of which empties the field.
AddFromField(w, texts) ==
  /\ list' = AddTags(list, texts)
  /\ widget' = IF list' # list THEN [w EXCEPT !.value = None] ELSE w
  /\ error' = RefusesLast(list, texts)
  /\ UNCHANGED <<page, box, dto>>

Paste(text) ==
  /\ FieldIsFocused
  /\ Len(SplitIntoTags(text)) > 1
  /\ AddFromField([SearchTimeout(widget, "key") EXCEPT !.value = text],
                  SplitIntoTags(text))

\* A comma; the search it starts is not stopped.
PressDelimiter ==
  /\ FieldIsFocused
  /\ AddFromField(Close(SearchTimeout(widget, "key")), <<widget.value>>)

\* The page takes an item by adding its id as a tag.
TakeItem(clicked) ==
  /\ list' = AddTag(list, SelectedItem(widget, clicked))
  /\ widget' = AfterSelect(IF list' # list THEN [widget EXCEPT !.value = None] ELSE widget)
  /\ UNCHANGED <<page, box, dto>>

PressEnter ==
  /\ FieldIsFocused
  /\ IF widget.active # 0
     THEN TakeItem(0) /\ error' = ~Accepts(list, SelectedItem(widget, 0))
     ELSE AddFromField(Close(widget), <<widget.value>>)

\* With a highlighted item Tab takes it and, because the page cancels the event,
\* stays in the field.
PressTab ==
  /\ FieldIsFocused
  /\ IF widget.active # 0
     THEN TakeItem(0)
     ELSE widget' = Blur(widget) /\ UNCHANGED <<page, list, box, dto>>
  /\ error' = FALSE

\* Arrows leave the mark, the keys for pages take it off.
PressMove(direction) ==
  /\ FieldIsFocused
  /\ widget' = Move(widget, direction)
  /\ error' = (error /\ direction \in {"next", "previous"})
  /\ UNCHANGED <<page, list, box, dto>>

PressEscape ==
  /\ FieldIsFocused
  /\ widget' = Escape(widget)
  /\ UNCHANGED <<page, list, error, box, dto>>

\* In an empty field the last tag is removed; if there are others, adding them
\* again takes the focus from the field for a moment.
PressBackspace ==
  /\ FieldIsFocused
  /\ widget.value = None
  /\ LET tag == IF list.spans = <<>> THEN None ELSE Last(list.spans)
         typed == SearchTimeout(widget, "key")
     IN /\ list' = RemoveTag(list, tag)
        /\ widget' = IF Others(list, tag) # <<>> THEN Focus(Blur(typed)) ELSE typed
  /\ error' = FALSE
  /\ UNCHANGED <<page, box, dto>>

\* The button of a tag.  The text in the field is lost if there are other tags.
ClickRemove(tag) ==
  /\ page = "publication"
  /\ ~widget.focused
  /\ OnItsWayIn(box.section)
  /\ tag \in ToSet(list.spans)
  /\ list' = RemoveTag(list, tag)
  /\ IF Others(list, tag) # <<>>
     THEN widget' = [Blur(widget) EXCEPT !.value = None] /\ error' = TRUE
     ELSE UNCHANGED <<widget, error>>
  /\ UNCHANGED <<page, box, dto>>
-----------------------------------------------------------------------------
(* Timers and the mouse in the menu. *)

SearchTimer ==
  /\ page = "publication"
  /\ widget.searching # "no"
  /\ widget' = TimeoutSearch(widget)
  /\ UNCHANGED <<page, list, error, box, dto>>

MenuTimer ==
  /\ page = "publication"
  /\ widget.timer
  /\ widget' = MenuBlur(widget)
  /\ UNCHANGED <<page, list, error, box, dto>>

MouseEnter(item) ==
  /\ page = "publication"
  /\ item \in DOMAIN widget.items
  /\ widget' = MenuFocus(widget, item, FALSE)
  /\ UNCHANGED <<page, list, error, box, dto>>

\* The highlight deferred until now, also if the mouse has reached another item.
MouseMove ==
  /\ page = "publication"
  /\ widget.deferred # 0
  /\ widget' = [MenuFocus(widget, widget.deferred, FALSE) EXCEPT !.deferred = 0]
  /\ UNCHANGED <<page, list, error, box, dto>>

\* The mouse leaves the menu, or is clicked on the page outside of it.
MouseLeave ==
  /\ page = "publication"
  /\ widget.visible
  /\ widget' = CollapseAll(widget)
  /\ UNCHANGED <<page, list, error, box, dto>>

ClickItem(item) ==
  /\ page = "publication"
  /\ item \in DOMAIN widget.items
  /\ TakeItem(item)
  /\ error' = ~Accepts(list, SelectedItem(widget, item))
-----------------------------------------------------------------------------
PublicationInit ==
  /\ page = "away"
  /\ widget = NewWidget
  /\ list = NoTags
  /\ error = FALSE
  /\ box = BoxOnLoad(FALSE)
  /\ dto \in {[NewDto EXCEPT !.groups = groups] : groups \in Uploads \cup {<<>>}}

KeyStep ==
  \/ \E text \in Texts, byKey \in BOOLEAN : Edit(text, byKey)
  \/ \E kind \in {"key", "modified"}, unmarks \in BOOLEAN : PressKey(kind, unmarks)
  \/ \E text \in Texts : Paste(text)
  \/ PressDelimiter
  \/ PressEnter
  \/ PressTab
  \/ \E direction \in Directions : PressMove(direction)
  \/ PressEscape
  \/ PressBackspace

MouseStep ==
  \/ EnterField
  \/ LeaveField
  \/ \E tag \in Texts : ClickRemove(tag)
  \/ \E item \in DOMAIN widget.items : MouseEnter(item) \/ ClickItem(item)
  \/ MouseMove
  \/ MouseLeave

TimerStep == SearchTimer \/ MenuTimer \/ SectionSettles

PublicationNext ==
  \/ OpenPublication
  \/ \E event \in {"entries", "confirmation"} : Submit(event)
  \/ ToggleBox
  \/ KeyStep
  \/ MouseStep
  \/ TimerStep
=============================================================================
