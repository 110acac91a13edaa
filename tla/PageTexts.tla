------------------------------- MODULE PageTexts -------------------------------
(***************************************************************************)
(* The texts a user can have in the group field, as values, and what the   *)
(* scripts of the publication page can tell of one.                        *)
(***************************************************************************)
EXTENDS SequencesExt

CONSTANTS Texts,
          None,       \* the empty text
          Trim,       \* a text without the blanks around it
          Squeeze,    \* a text without any blanks
          Pieces,     \* the texts between the commas of a text
          Offers      \* the ids of the groups with the text in their title

ASSUME TextsType ==
  /\ None \in Texts
  /\ Trim \in [Texts -> Texts]
  /\ Squeeze \in [Texts -> Texts]
  /\ Pieces \in [Texts -> Seq(Texts)]
  /\ Offers \in [Texts -> Seq(Texts)]

ASSUME TrimOnce ==
  /\ \A text \in Texts : Trim[Trim[text]] = Trim[text]
  /\ Trim[None] = None

\* What is left of a text without its blanks has none to trim.
ASSUME SqueezedPieces ==
  \A text \in Texts : \A piece \in ToSet(Pieces[Squeeze[text]]) : Trim[piece] = piece
=============================================================================
