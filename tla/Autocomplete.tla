----------------------------- MODULE Autocomplete -----------------------------
(***************************************************************************)
(* The suggestions below a text field: the autocomplete and menu widgets   *)
(* of jquery-ui.js as the publication page uses them, with the groups of   *)
(* the page as an array, so that a search is answered at once.             *)
(*                                                                         *)
(* A widget is a record, an event handler an operator on it.  Texts are    *)
(* values; Offers says which ids are offered for one.  The menu is flat    *)
(* and does not scroll.  Left out because nothing on the page looks at it: *)
(* the change event with previous and selectedItem, the live region,       *)
(* submenus, and the flags for read-only fields, multi-line fields and     *)
(* requests that overlap.                                                  *)
(***************************************************************************)
EXTENDS PageTexts, Naturals

Widget == [value     : Texts,
           focused   : BOOLEAN,
           term      : Texts,      \* the text that was searched last
           items     : Seq(Texts), \* the ids in the menu
           visible   : BOOLEAN,    \* the menu is open
           active    : Nat,        \* the highlighted item, 0 if there is none
           isNewMenu : BOOLEAN,    \* no item has been highlighted yet
           deferred  : Nat,        \* the item to highlight when the mouse moves
           searching : {"no", "key", "modified"}, \* timer, and what started it
           timer     : BOOLEAN]    \* the menu's timer that ends highlighting

\* The first term is undefined, which differs from None in nothing that is seen.
NewWidget == [value     |-> None,
              focused   |-> FALSE,
              term      |-> None,
              items     |-> <<>>,
              visible   |-> FALSE,
              active    |-> 0,
              isNewMenu |-> TRUE,
              deferred  |-> 0,
              searching |-> "no",
              timer     |-> FALSE]
-----------------------------------------------------------------------------
(* The menu. *)

MenuBlur(w) == [w EXCEPT !.active = 0, !.timer = FALSE]

\* The mouse that happens to be where a menu opens highlights nothing until it
\* moves; a key also writes the item into the field.
OnMenuFocus(w, byKey) ==
  LET seen == [w EXCEPT !.isNewMenu = FALSE]
  IN IF w.isNewMenu /\ ~byKey
     THEN [MenuBlur(seen) EXCEPT !.deferred = w.active]
     ELSE [seen EXCEPT !.value = IF byKey THEN w.items[w.active] ELSE @]

MenuFocus(w, i, byKey) == OnMenuFocus([MenuBlur(w) EXCEPT !.active = i], byKey)

\* The highlight goes, and the timer to end it, if its item does.
Refresh(w) == IF w.active # 0 THEN MenuBlur(w) ELSE w

CollapseAll(w) == [w EXCEPT !.timer = TRUE]

IsFirstItem(w) == w.active = 1
IsLastItem(w) == w.active = Len(w.items)

\* Without scrolling a page is the whole menu.
MoveTarget(w, direction) ==
  IF w.active = 0
  THEN IF direction = "previous" THEN Len(w.items) ELSE 1
  ELSE CASE direction = "next"         -> w.active + 1
         [] direction = "previous"     -> w.active - 1
         [] direction = "nextPage"     -> Len(w.items)
         [] direction = "previousPage" -> 1

Directions == {"next", "previous", "nextPage", "previousPage"}
-----------------------------------------------------------------------------
(* Opening and closing.  A highlight deferred until the mouse moves is given up
   with its menu; the items of a closed menu do not matter. *)

Close(w) ==
  IF w.visible
  THEN [MenuBlur(w) EXCEPT !.visible = FALSE, !.isNewMenu = TRUE,
                           !.deferred = 0, !.items = <<>>]
  ELSE w

\* New items in the menu, which is opened or refilled.
Suggest(w, items) ==
  [Refresh(w) EXCEPT !.items = items, !.isNewMenu = TRUE,
                     !.deferred = 0, !.visible = TRUE]

Response(w, items) == IF items # <<>> THEN Suggest(w, items) ELSE Close(w)

Search(w) ==
  LET asked == [w EXCEPT !.term = w.value]
  IN IF w.value = None THEN Close(asked) ELSE Response(asked, Offers[w.value])

\* A key or an input event starts the timer anew.
SearchTimeout(w, kind) == [w EXCEPT !.searching = kind]

\* The timer has run out: nothing to do if the menu already shows this text, or
\* if just a modifier key was pressed.
TimeoutSearch(w) ==
  LET over == [w EXCEPT !.searching = "no"]
  IN IF w.term # w.value \/ (~w.visible /\ w.searching # "modified")
     THEN Search(over)
     ELSE over
-----------------------------------------------------------------------------
(* Keys and focus. *)

\* Beyond either end the field shows what was searched again.
Move(w, direction) ==
  IF ~w.visible
  THEN Search(w)
  ELSE IF \/ IsFirstItem(w) /\ direction \in {"previous", "previousPage"}
          \/ IsLastItem(w) /\ direction \in {"next", "nextPage"}
       THEN MenuBlur([w EXCEPT !.value = w.term])
       ELSE MenuFocus(w, MoveTarget(w, direction), TRUE)

Escape(w) == IF w.visible THEN Close([w EXCEPT !.value = w.term]) ELSE w

\* A selection takes the highlighted item, also under a mouse elsewhere.
SelectedItem(w, clicked) == w.items[IF w.active # 0 THEN w.active ELSE clicked]

\* What follows once the page has taken the item; the timer that select starts
\* for the submenus ends with the menu.
AfterSelect(w) == Close(CollapseAll([w EXCEPT !.term = w.value]))

Focus(w) == [w EXCEPT !.focused = TRUE]

\* Faulty: a search that is due is not called off.
Blur_StillSearches(w) == Close([w EXCEPT !.focused = FALSE])

Blur(w) == Close([w EXCEPT !.searching = "no", !.focused = FALSE])
=============================================================================
