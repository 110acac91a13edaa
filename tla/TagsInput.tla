------------------------------ MODULE TagsInput ------------------------------
(***************************************************************************)
(* The list of groups on the publication page: jquery.tagsinput-revisited, *)
(* with the options of that page (a comma as delimiter, unique tags, no    *)
(* limit, pattern, whitelist or callback).                                 *)
(*                                                                         *)
(* A list is kept twice, in the value of the hidden field and as spans on  *)
(* the page.  The value is a sequence: the texts between its commas.       *)
(***************************************************************************)
EXTENDS PageTexts

NoTags == [field |-> <<>>, spans |-> <<>>]

TagExist(list, text) == text \in ToSet(list.field)

ValidateTag(text) == text # None /\ Len(Pieces[text]) = 1

\* Faulty: looks for the text as it was typed.
Accepts_Untrimmed(list, text) ==
  ~TagExist(list, text) /\ ValidateTag(Trim[text])

Accepts(list, text) ==
  LET value == Trim[text] IN ~TagExist(list, value) /\ ValidateTag(value)

AddTag(list, text) ==
  IF Accepts(list, text)
  THEN [field |-> Append(list.field, Trim[text]),
        spans |-> Append(list.spans, Trim[text])]
  ELSE list

\* One after the other: added[n] is the list with the first n texts.
AddTags(list, texts) ==
  LET added[n \in 0 .. Len(texts)] ==
        IF n = 0 THEN list ELSE AddTag(added[n - 1], texts[n])
  IN added[Len(texts)]

\* The last text was refused, which marks the field.
RefusesLast(list, texts) == ~Accepts(AddTags(list, Front(texts)), Last(texts))

ImportTags(texts) == AddTags(NoTags, texts)

ImportRefuses(texts) == Len(ImportTags(texts).field) # Len(texts)

\* A tag is removed by importing the others: kept[n] are those of the first n.
Others(list, tag) ==
  LET kept[n \in 0 .. Len(list.field)] ==
        IF n = 0 THEN <<>>
        ELSE IF list.field[n] = tag THEN kept[n - 1]
        ELSE Append(kept[n - 1], list.field[n])
  IN kept[Len(list.field)]

\* Faulty: the string to import is built from its end.
RemoveTag_Reversed(list, tag) ==
  IF Others(list, tag) = <<>>
  THEN ImportTags(<<>>)
  ELSE ImportTags(Append(Reverse(Others(list, tag)), None))

\* The string to import starts with a delimiter, hence with an empty text.
RemoveTag(list, tag) ==
  IF Others(list, tag) = <<>>
  THEN ImportTags(<<>>)
  ELSE ImportTags(<<None>> \o Others(list, tag))

\* A pasted text becomes several tags only if it has a delimiter.
SplitIntoTags(text) == Pieces[Squeeze[text]]
=============================================================================
