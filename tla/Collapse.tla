------------------------------- MODULE Collapse -------------------------------
(***************************************************************************)
(* A section of a page that Bootstrap shows and hides.  Both take a while, *)
(* and what is asked of the section meanwhile is ignored.                  *)
(***************************************************************************)

Sections == {"hidden", "showing", "shown", "hiding"}

InTransition(section) == section \in {"showing", "hiding"}

Show(section) == IF section = "hidden" THEN "showing" ELSE section

Hide(section) == IF section = "shown" THEN "hiding" ELSE section

Toggle(section) ==
  CASE section = "hidden" -> "showing"
    [] section = "shown" -> "hiding"
    [] OTHER -> section

TransitionEnd(section) ==
  CASE section = "showing" -> "shown"
    [] section = "hiding" -> "hidden"
    [] OTHER -> section

OnItsWayIn(section) == section \in {"showing", "shown"}
=============================================================================
