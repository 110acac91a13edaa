------------------------------ MODULE PagesProofs ------------------------------
(***************************************************************************)
(* What holds on the pages for every set of texts, groups and entries, and *)
(* any order of keys, mouse and timers: the menu of suggestions is never   *)
(* out of date, sections agree with what opens and closes them, and the    *)
(* groups the user sees are those that are submitted and come back.        *)
(***************************************************************************)
EXTENDS Pages, SequenceTheorems, WellFoundedInduction, TLAPS

(* Induction up to a number, for sets, and what it gives: a function with a
   recursive definition exists. *)

LEMMA InductionUpTo ==
  ASSUME NEW N \in Nat, NEW S, 0 \in S,
         \A n \in 0 .. N - 1 : n \in S => n + 1 \in S
  PROVE  0 .. N \subseteq S
<1> DEFINE T == 0 .. N \ S
           R == OpToRel(<, Nat)
<1> SUFFICES ASSUME T # {}
             PROVE  FALSE
  OBVIOUS
<1>1. \E x \in T : \A y \in T : ~(<<y, x>> \in R)
  <2>1. IsWellFoundedOn(R, Nat)
    BY NatLessThanWellFounded
  <2>2. T \subseteq Nat
    OBVIOUS
  <2> HIDE DEF T, R
  <2> QED BY <2>1, <2>2, WFMin
<1>2. PICK x \in T : \A y \in T : ~(<<y, x>> \in R)
  BY <1>1
<1>3. x \in 0 .. N /\ x \notin S /\ x # 0
  OBVIOUS
<1> DEFINE y == x - 1
<1>4. y \in 0 .. N - 1 /\ y + 1 = x
  BY <1>3
<1> HIDE DEF y
<1>5. y \in T
  BY <1>3, <1>4
<1>6. y \in Nat /\ x \in Nat /\ y < x
  BY <1>3, <1>4
<1>7. <<y, x>> \in R
  BY <1>6 DEF OpToRel
<1> QED BY <1>2, <1>5, <1>7

IsRecursion(f, N, V, base, step) ==
  /\ f \in [0 .. N -> V]
  /\ f[0] = base
  /\ \A n \in 1 .. N : f[n] = step[<<n, f[n - 1]>>]

LEMMA RecursionUpTo ==
  ASSUME NEW N \in Nat, NEW V, NEW base \in V, NEW step \in [(1 .. N) \X V -> V]
  PROVE  \E f : IsRecursion(f, N, V, base, step)
<1> DEFINE Follows(g, k) ==
             g[0] = base /\ \A n \in 1 .. k : g[n] = step[<<n, g[n - 1]>>]
           S == {k \in 0 .. N : \E g \in [0 .. k -> V] : Follows(g, k)}
<1>1. 0 \in S
  <2> DEFINE g == [i \in 0 .. 0 |-> base]
  <2>1. g \in [0 .. 0 -> V] /\ g[0] = base /\ \A n \in 1 .. 0 : FALSE
    OBVIOUS
  <2> HIDE DEF g
  <2> QED BY <2>1
<1>2. ASSUME NEW n \in 0 .. N - 1, n \in S
      PROVE  n + 1 \in S
  <2>1. PICK g \in [0 .. n -> V] : Follows(g, n)
    BY <1>2
  <2> DEFINE h == [i \in 0 .. n + 1 |-> IF i = n + 1 THEN step[<<n + 1, g[n]>>] ELSE g[i]]
  <2>2. n \in Nat /\ n + 1 \in 1 .. N /\ g[n] \in V
    OBVIOUS
  <2>3. step[<<n + 1, g[n]>>] \in V
    BY <2>2
  <2>4. h \in [0 .. n + 1 -> V]
    <3>1. ASSUME NEW i \in 0 .. n + 1, i # n + 1
          PROVE  g[i] \in V
      BY <2>2, <3>1
    <3> QED BY <2>3, <3>1
  <2>5. \A i \in 0 .. n : h[i] = g[i]
    BY <2>2
  <2>6. h[n + 1] = step[<<n + 1, g[n]>>]
    BY <2>2
  <2> HIDE DEF h
  <2>7. Follows(h, n + 1)
    <3>1. h[0] = base
      BY <2>1, <2>2, <2>5
    <3>2. ASSUME NEW i \in 1 .. n + 1
          PROVE  h[i] = step[<<i, h[i - 1]>>]
      <4>1. CASE i = n + 1
        BY <2>2, <2>5, <2>6, <4>1
      <4>2. CASE i # n + 1
        <5>1. i \in 1 .. n /\ i \in 0 .. n /\ i - 1 \in 0 .. n
          BY <2>2, <3>2, <4>2
        <5> QED BY <2>1, <2>5, <5>1
      <4> QED BY <4>1, <4>2
    <3> QED BY <3>1, <3>2
  <2> QED BY <2>2, <2>4, <2>7
<1> HIDE DEF S
<1>3. N \in S
  BY <1>1, <1>2, InductionUpTo
<1>4. PICK f \in [0 .. N -> V] : Follows(f, N)
  BY <1>3 DEF S
<1> QED BY <1>4 DEF IsRecursion
-----------------------------------------------------------------------------
(* The group field and its menu. *)

\* What closing a menu relies on: of a closed one nothing is left, and no search
\* outlasts the focus.
ClosedOK(w) ==
  /\ w \in Widget
  /\ w.searching # "no" => w.focused
  /\ ~w.visible => w.items = <<>> /\ w.active = 0 /\ w.deferred = 0 /\ ~w.timer

\* What handlers and timers rely on and keep: an open menu also has the focus on
\* its field, shows the answer to its term and highlights none but its items.
WidgetOK(w) ==
  /\ ClosedOK(w)
  /\ w.visible =>
       /\ w.focused
       /\ w.items # <<>> /\ w.items = Offers[w.term]
       /\ w.searching = "no" => w.value \in {w.term} \cup ToSet(w.items)
  /\ w.active \in 0 .. Len(w.items)
  /\ w.deferred \in 0 .. Len(w.items)

LEMMA NewWidgetOK == WidgetOK(NewWidget) /\ ~NewWidget.focused
BY TextsType DEF WidgetOK, ClosedOK, Widget, NewWidget

LEMMA WidgetType == ASSUME NEW w, WidgetOK(w) PROVE ClosedOK(w) /\ w \in Widget
BY DEF WidgetOK, ClosedOK

LEMMA MenuBlurFields ==
  ASSUME NEW w \in Widget
  PROVE  /\ MenuBlur(w) \in Widget
         /\ MenuBlur(w).active = 0 /\ ~MenuBlur(w).timer
         /\ MenuBlur(w).visible = w.visible /\ MenuBlur(w).focused = w.focused
         /\ MenuBlur(w).items = w.items /\ MenuBlur(w).deferred = w.deferred
         /\ MenuBlur(w).value = w.value /\ MenuBlur(w).term = w.term
         /\ MenuBlur(w).searching = w.searching
         /\ MenuBlur(w).isNewMenu = w.isNewMenu
BY DEF Widget, MenuBlur

LEMMA MenuBlurOK == ASSUME NEW w, WidgetOK(w) PROVE WidgetOK(MenuBlur(w))
<1>1. w \in Widget /\ Len(w.items) \in Nat
  BY WidgetType DEF Widget
<1> QED BY <1>1, MenuBlurFields DEF WidgetOK, ClosedOK

\* Closing needs less than it gives.
LEMMA CloseOK ==
  ASSUME NEW w, ClosedOK(w)
  PROVE  /\ WidgetOK(Close(w)) /\ ~Close(w).visible
         /\ Close(w).focused = w.focused /\ Close(w).searching = w.searching
         /\ Close(w).value = w.value /\ Close(w).term = w.term
<1>1. w \in Widget
  BY DEF ClosedOK
<1>2. CASE ~w.visible
  BY <1>1, <1>2 DEF WidgetOK, ClosedOK, Close
<1>3. CASE w.visible
  <2> DEFINE v == MenuBlur(w)
  <2>1. /\ v \in Widget /\ v.active = 0 /\ ~v.timer
        /\ v.focused = w.focused /\ v.searching = w.searching
        /\ v.value = w.value /\ v.term = w.term
    BY <1>1, MenuBlurFields
  <2> DEFINE nothing == <<>>
  <2>2. nothing \in Seq(Texts) /\ Len(nothing) = 0
    OBVIOUS
  <2>3. Close(w) = [v EXCEPT !.visible = FALSE, !.isNewMenu = TRUE,
                             !.deferred = 0, !.items = nothing]
    BY <1>3 DEF Close
  <2> HIDE DEF v, nothing
  <2>4. /\ Close(w) \in Widget /\ ~Close(w).visible /\ Close(w).items = nothing
        /\ Close(w).deferred = 0 /\ Close(w).active = 0 /\ ~Close(w).timer
        /\ Close(w).focused = w.focused /\ Close(w).searching = w.searching
        /\ Close(w).value = w.value /\ Close(w).term = w.term
    BY <2>1, <2>2, <2>3 DEF Widget
  <2> QED BY <1>1, <1>3, <2>2, <2>4 DEF nothing, WidgetOK, ClosedOK
<1> QED BY <1>2, <1>3

\* Nothing but an open menu depends on the texts.
LEMMA TextsOK ==
  ASSUME NEW w, ClosedOK(w), NEW text \in Texts
  PROVE  ClosedOK([w EXCEPT !.value = text]) /\ ClosedOK([w EXCEPT !.term = text])
BY DEF ClosedOK, Widget

LEMMA ValueOK ==
  ASSUME NEW w, WidgetOK(w), NEW text \in Texts,
         ~w.visible \/ w.searching # "no"
  PROVE  WidgetOK([w EXCEPT !.value = text])
BY DEF WidgetOK, ClosedOK, Widget

LEMMA SuggestOK ==
  ASSUME NEW w, ClosedOK(w), w.focused, w.term = w.value, Offers[w.term] # <<>>
  PROVE  WidgetOK(Suggest(w, Offers[w.term]))
<1> DEFINE r == Refresh(w)
           s == Suggest(w, Offers[w.term])
<1>1. /\ w \in Widget /\ Offers[w.term] \in Seq(Texts)
      /\ Len(Offers[w.term]) \in Nat
  BY TextsType DEF ClosedOK, Widget
<1>2. /\ r \in Widget /\ r.active = 0 /\ r.value = w.value /\ r.term = w.term
      /\ r.focused
  BY <1>1, MenuBlurFields DEF Refresh
<1>3. /\ s \in Widget /\ s.items = Offers[w.term] /\ s.visible /\ s.deferred = 0
      /\ s.active = 0 /\ s.value = w.value /\ s.term = w.term /\ s.focused
  BY <1>1, <1>2 DEF Suggest, Widget
<1> HIDE DEF s
<1>4. WidgetOK(s)
  BY <1>1, <1>3 DEF WidgetOK, ClosedOK
<1> QED BY <1>4 DEF s

LEMMA SearchOK == ASSUME NEW w, ClosedOK(w), w.focused PROVE WidgetOK(Search(w))
<1> DEFINE v == [w EXCEPT !.term = w.value]
<1>1. w \in Widget /\ w.value \in Texts
  BY DEF ClosedOK, Widget
<1>2. ClosedOK(v) /\ v.focused /\ v.term = w.value /\ v.value = w.value
  BY <1>1, TextsOK DEF Widget
<1> HIDE DEF v
<1>3. WidgetOK(Close(v))
  BY <1>2, CloseOK
<1>4. Offers[w.value] # <<>> => WidgetOK(Suggest(v, Offers[w.value]))
  BY <1>2, SuggestOK
<1> QED BY <1>3, <1>4 DEF Search, Response, v

LEMMA SearchTimeoutOK ==
  ASSUME NEW w, WidgetOK(w), w.focused, NEW kind \in {"key", "modified"}
  PROVE  /\ WidgetOK(SearchTimeout(w, kind)) /\ SearchTimeout(w, kind).focused
         /\ SearchTimeout(w, kind).searching # "no"
BY DEF WidgetOK, ClosedOK, Widget, SearchTimeout

LEMMA TimeoutSearchOK ==
  ASSUME NEW w, WidgetOK(w), w.focused
  PROVE  WidgetOK(TimeoutSearch(w))
<1> DEFINE over == [w EXCEPT !.searching = "no"]
<1>1. ClosedOK(over) /\ over.focused
  BY DEF WidgetOK, ClosedOK, Widget
<1>2. w.term = w.value => WidgetOK(over)
  BY DEF WidgetOK, ClosedOK, Widget
<1>3. WidgetOK(Search(over))
  BY <1>1, SearchOK
<1> QED BY <1>2, <1>3 DEF TimeoutSearch

\* An item of an open menu is highlighted, now or when the mouse moves.
LEMMA MenuFocusOK ==
  ASSUME NEW w, WidgetOK(w), w.visible, NEW i \in 1 .. Len(w.items),
         NEW byKey \in BOOLEAN
  PROVE  WidgetOK(MenuFocus(w, i, byKey))
<1> DEFINE v == MenuBlur(w)
           u == [v EXCEPT !.active = i]
           s == [u EXCEPT !.isNewMenu = FALSE]
<1>1. /\ w \in Widget /\ Len(w.items) \in Nat /\ w.items \in Seq(Texts)
      /\ i \in DOMAIN w.items
  BY WidgetType DEF Widget
<1>2. WidgetOK(v) /\ v \in Widget /\ v.items = w.items /\ v.visible
  BY <1>1, MenuBlurFields, MenuBlurOK
<1> HIDE DEF v
<1>3. WidgetOK(u) /\ u \in Widget /\ u.items = w.items /\ u.visible /\ u.active = i
  BY <1>1, <1>2 DEF WidgetOK, ClosedOK, Widget
<1> HIDE DEF u
<1>4. WidgetOK(s) /\ s \in Widget /\ s.items = w.items /\ s.visible
  BY <1>3 DEF WidgetOK, ClosedOK, Widget
<1> HIDE DEF s
<1>5. WidgetOK([MenuBlur(s) EXCEPT !.deferred = i])
  <2>1. WidgetOK(MenuBlur(s)) /\ MenuBlur(s) \in Widget /\ MenuBlur(s).visible
        /\ MenuBlur(s).items = w.items
    BY <1>4, MenuBlurFields, MenuBlurOK
  <2> QED BY <1>1, <2>1 DEF WidgetOK, ClosedOK, Widget
<1>6. WidgetOK([s EXCEPT !.value = s.items[i]])
  <2>1. s.items[i] \in ToSet(s.items) /\ s.items[i] \in Texts
    BY <1>1, <1>4 DEF ToSet
  <2> QED BY <1>4, <2>1 DEF WidgetOK, ClosedOK, Widget
<1>7. [s EXCEPT !.value = @] = s
  BY <1>4 DEF Widget
<1> QED BY <1>3, <1>4, <1>5, <1>6, <1>7 DEF MenuFocus, OnMenuFocus, v, u, s

LEMMA MoveOK ==
  ASSUME NEW w, WidgetOK(w), w.focused, NEW direction \in Directions
  PROVE  WidgetOK(Move(w, direction))
<1>1. /\ w \in Widget /\ ClosedOK(w) /\ Len(w.items) \in Nat
      /\ w.active \in 0 .. Len(w.items)
      /\ w.visible => Len(w.items) > 0
  BY WidgetType DEF WidgetOK, Widget
<1>2. CASE ~w.visible
  BY <1>1, <1>2, SearchOK DEF Move
<1>3. CASE /\ w.visible
           /\ \/ IsFirstItem(w) /\ direction \in {"previous", "previousPage"}
              \/ IsLastItem(w) /\ direction \in {"next", "nextPage"}
  <2>1. WidgetOK([w EXCEPT !.value = w.term])
    BY <1>1 DEF WidgetOK, ClosedOK, Widget
  <2> QED BY <1>3, <2>1, MenuBlurOK DEF Move
<1>4. CASE /\ w.visible
           /\ ~ \/ IsFirstItem(w) /\ direction \in {"previous", "previousPage"}
                \/ IsLastItem(w) /\ direction \in {"next", "nextPage"}
  <2>1. MoveTarget(w, direction) \in 1 .. Len(w.items)
    BY <1>1, <1>4 DEF MoveTarget, IsFirstItem, IsLastItem, Directions
  <2>2. WidgetOK(MenuFocus(w, MoveTarget(w, direction), TRUE))
    BY <1>4, <2>1, MenuFocusOK
  <2> QED BY <1>4, <2>2 DEF Move
<1> QED BY <1>2, <1>3, <1>4

LEMMA EscapeOK == ASSUME NEW w, WidgetOK(w) PROVE WidgetOK(Escape(w))
<1>1. w \in Widget /\ ClosedOK(w) /\ w.term \in Texts
  BY WidgetType DEF Widget
<1>2. ClosedOK([w EXCEPT !.value = w.term])
  BY <1>1, TextsOK
<1> QED BY <1>2, CloseOK DEF Escape

LEMMA CollapseAllOK ==
  ASSUME NEW w, WidgetOK(w), w.visible
  PROVE  WidgetOK(CollapseAll(w))
BY DEF WidgetOK, ClosedOK, Widget, CollapseAll

\* The page has emptied the field or left it as it is.
LEMMA AfterSelectOK ==
  ASSUME NEW w, ClosedOK(w), w.visible
  PROVE  WidgetOK(AfterSelect(w))
<1> DEFINE v == [w EXCEPT !.term = w.value]
<1>1. w \in Widget /\ w.value \in Texts
  BY DEF ClosedOK, Widget
<1>2. ClosedOK(v) /\ v.visible
  BY <1>1, TextsOK DEF Widget
<1> HIDE DEF v
<1>3. ClosedOK(CollapseAll(v))
  BY <1>2 DEF ClosedOK, CollapseAll, Widget
<1> QED BY <1>3, CloseOK DEF AfterSelect, v

LEMMA FocusOK ==
  ASSUME NEW w, WidgetOK(w)
  PROVE  WidgetOK(Focus(w))
BY DEF WidgetOK, ClosedOK, Widget, Focus

LEMMA BlurOK ==
  ASSUME NEW w, WidgetOK(w)
  PROVE  WidgetOK(Blur(w)) /\ ~Blur(w).focused /\ Blur(w).value = w.value
<1> DEFINE over == [w EXCEPT !.searching = "no"]
           v == [over EXCEPT !.focused = FALSE]
<1>1. w \in Widget
  BY WidgetType
<1>2. ClosedOK(over) /\ over.searching = "no" /\ over.value = w.value
  BY <1>1 DEF WidgetOK, ClosedOK, Widget
<1> HIDE DEF over
<1>3. ClosedOK(v) /\ ~v.focused /\ v.value = w.value
  BY <1>2 DEF ClosedOK, Widget
<1> HIDE DEF v
<1>4. WidgetOK(Close(v)) /\ ~Close(v).focused /\ Close(v).value = w.value
  BY <1>3, CloseOK
<1> QED BY <1>4 DEF Blur, v, over
-----------------------------------------------------------------------------
\* Only the publication page has a field to be in.
FieldInv ==
  /\ page \in Pages
  /\ error \in BOOLEAN
  /\ WidgetOK(widget)
  /\ widget.focused => page = "publication"

BoxInv ==
  /\ box \in Box
  /\ page = "publication" /\ box.follows => (OnItsWayIn(box.section) <=> ~box.ticked)

\* Keys and clicks that leave the page and keep the widget in order.
LEMMA FieldStep ==
  ASSUME FieldInv, page = "publication", page' = page, error' \in BOOLEAN,
         WidgetOK(widget')
  PROVE  FieldInv'
BY DEF FieldInv

LEMMA AddFromFieldInv ==
  ASSUME FieldInv, page = "publication", NEW texts, NEW w, WidgetOK(w),
         ~w.visible \/ w.searching # "no", AddFromField(w, texts)
  PROVE  FieldInv'
<1>1. page' = page /\ error' \in BOOLEAN
  BY DEF AddFromField, RefusesLast
<1>2. WidgetOK([w EXCEPT !.value = None])
  BY ValueOK, TextsType
<1> QED BY <1>1, <1>2, FieldStep DEF AddFromField

LEMMA TakeItemOK ==
  ASSUME FieldInv, widget.visible, NEW clicked, TakeItem(clicked)
  PROVE  WidgetOK(widget') /\ page' = page
<1> DEFINE v == [widget EXCEPT !.value = None]
<1>1. ClosedOK(widget) /\ widget \in Widget
  BY WidgetType DEF FieldInv
<1>2. ClosedOK(v) /\ v.visible
  BY <1>1, TextsOK, TextsType DEF Widget
<1> HIDE DEF v
<1>3. WidgetOK(AfterSelect(v)) /\ WidgetOK(AfterSelect(widget))
  BY <1>1, <1>2, AfterSelectOK
<1> QED BY <1>3 DEF TakeItem, v

LEMMA KeyInv ==
  ASSUME FieldInv, KeyStep
  PROVE  FieldInv'
<1>1. page = "publication" /\ widget.focused /\ WidgetOK(widget) /\ ClosedOK(widget)
  <2>1. FieldIsFocused
    BY DEF KeyStep, Edit, PressKey, Paste, PressDelimiter, PressEnter, PressTab,
           PressMove, PressEscape, PressBackspace
  <2> QED BY <2>1, WidgetType DEF FieldIsFocused, FieldInv
<1>2. ASSUME NEW kind \in {"key", "modified"}
      PROVE  /\ WidgetOK(SearchTimeout(widget, kind))
             /\ SearchTimeout(widget, kind).focused
             /\ SearchTimeout(widget, kind).searching # "no"
  BY <1>1, SearchTimeoutOK
<1>3. ASSUME NEW text \in Texts
      PROVE  LET w == [SearchTimeout(widget, "key") EXCEPT !.value = text]
             IN WidgetOK(w) /\ w.searching # "no"
  <2> DEFINE typed == SearchTimeout(widget, "key")
  <2>1. WidgetOK(typed) /\ typed \in Widget /\ typed.searching # "no"
    BY <1>2, WidgetType
  <2> HIDE DEF typed
  <2>2. WidgetOK([typed EXCEPT !.value = text])
    BY <2>1, ValueOK
  <2> QED BY <2>1, <2>2 DEF Widget, typed
<1>4. ASSUME NEW text \in Texts, NEW byKey \in BOOLEAN, Edit(text, byKey)
      PROVE  FieldInv'
  <2>1. error' \in BOOLEAN /\ page' = page
    BY <1>4 DEF Edit, FieldInv
  <2> QED BY <1>1, <1>3, <1>4, <2>1, FieldStep DEF Edit
<1>5. ASSUME NEW kind \in {"key", "modified"}, NEW unmarks \in BOOLEAN,
             PressKey(kind, unmarks)
      PROVE  FieldInv'
  <2>1. error' \in BOOLEAN /\ page' = page
    BY <1>5 DEF PressKey, FieldInv
  <2> QED BY <1>1, <1>2, <1>5, <2>1, FieldStep DEF PressKey
<1>6. ASSUME NEW text \in Texts, Paste(text)
      PROVE  FieldInv'
  BY <1>1, <1>3, <1>6, AddFromFieldInv DEF Paste
<1>7. CASE PressDelimiter
  <2>1. /\ WidgetOK(Close(SearchTimeout(widget, "key")))
        /\ ~Close(SearchTimeout(widget, "key")).visible
    BY <1>2, CloseOK, WidgetType
  <2> QED BY <1>1, <1>7, <2>1, AddFromFieldInv DEF PressDelimiter
<1>8. CASE PressEnter
  <2>1. CASE widget.active # 0
    <3>1. widget.visible /\ TakeItem(0) /\ error' \in BOOLEAN
      BY <1>1, <1>8, <2>1 DEF PressEnter, ClosedOK
    <3> QED BY <1>1, <3>1, TakeItemOK, FieldStep
  <2>2. CASE widget.active = 0
    <3>1. WidgetOK(Close(widget)) /\ ~Close(widget).visible
      BY <1>1, CloseOK
    <3> QED BY <1>1, <1>8, <2>2, <3>1, AddFromFieldInv DEF PressEnter
  <2> QED BY <2>1, <2>2
<1>9. CASE PressTab
  <2>1. error' \in BOOLEAN
    BY <1>9 DEF PressTab
  <2>2. CASE widget.active # 0
    <3>1. widget.visible /\ TakeItem(0)
      BY <1>1, <1>9, <2>2 DEF PressTab, ClosedOK
    <3> QED BY <1>1, <2>1, <3>1, TakeItemOK, FieldStep
  <2>3. CASE widget.active = 0
    BY <1>1, <1>9, <2>1, <2>3, BlurOK, FieldStep DEF PressTab
  <2> QED BY <2>2, <2>3
<1>10. ASSUME NEW direction \in Directions, PressMove(direction)
       PROVE  FieldInv'
  <2>1. error' \in BOOLEAN /\ page' = page
    BY <1>10 DEF PressMove, FieldInv
  <2> QED BY <1>1, <1>10, <2>1, MoveOK, FieldStep DEF PressMove
<1>11. CASE PressEscape
  <2>1. error' \in BOOLEAN /\ page' = page
    BY <1>11 DEF PressEscape, FieldInv
  <2> QED BY <1>1, <1>11, <2>1, EscapeOK, FieldStep DEF PressEscape
<1>12. CASE PressBackspace
  <2>1. WidgetOK(SearchTimeout(widget, "key"))
    BY <1>2
  <2>2. WidgetOK(Focus(Blur(SearchTimeout(widget, "key"))))
    BY <2>1, BlurOK, FocusOK
  <2>3. WidgetOK(widget') /\ error' \in BOOLEAN /\ page' = page
    BY <1>12, <2>1, <2>2 DEF PressBackspace
  <2> QED BY <1>1, <2>3, FieldStep
<1> QED BY <1>4, <1>5, <1>6, <1>7, <1>8, <1>9, <1>10, <1>11, <1>12 DEF KeyStep

LEMMA MouseInv ==
  ASSUME FieldInv, MouseStep
  PROVE  FieldInv'
<1>1. WidgetOK(widget) /\ ClosedOK(widget) /\ widget \in Widget /\ error \in BOOLEAN
  BY WidgetType DEF FieldInv
<1>2. CASE EnterField
  BY <1>1, <1>2, FocusOK, FieldStep DEF EnterField
<1>3. CASE LeaveField
  BY <1>1, <1>3, BlurOK, FieldStep DEF LeaveField, FieldIsFocused
<1>4. ASSUME NEW tag \in Texts, ClickRemove(tag)
      PROVE  FieldInv'
  <2>1. WidgetOK(Blur(widget)) /\ ~Blur(widget).visible
    BY <1>1, BlurOK DEF WidgetOK
  <2>2. WidgetOK([Blur(widget) EXCEPT !.value = None])
    BY <2>1, ValueOK, TextsType
  <2>3. WidgetOK(widget') /\ error' \in BOOLEAN /\ page' = page
    BY <1>1, <1>4, <2>2 DEF ClickRemove
  <2> QED BY <1>4, <2>3, FieldStep DEF ClickRemove
<1>5. ASSUME NEW item \in DOMAIN widget.items
      PROVE  widget.visible /\ item \in 1 .. Len(widget.items)
  BY <1>1 DEF ClosedOK, Widget
<1>6. ASSUME NEW item \in DOMAIN widget.items, MouseEnter(item)
      PROVE  FieldInv'
  BY <1>1, <1>5, <1>6, MenuFocusOK, FieldStep DEF MouseEnter
<1>7. ASSUME NEW item \in DOMAIN widget.items, ClickItem(item)
      PROVE  FieldInv'
  <2>1. WidgetOK(widget') /\ page' = page
    BY <1>5, <1>7, TakeItemOK DEF ClickItem
  <2> QED BY <1>7, <2>1, FieldStep DEF ClickItem
<1>8. CASE MouseMove
  <2> DEFINE v == MenuFocus(widget, widget.deferred, FALSE)
  <2>1. widget.visible /\ widget.deferred \in 1 .. Len(widget.items)
    BY <1>1, <1>8 DEF MouseMove, WidgetOK, ClosedOK, Widget
  <2>2. WidgetOK(v)
    BY <1>1, <2>1, MenuFocusOK
  <2> HIDE DEF v
  <2>3. WidgetOK([v EXCEPT !.deferred = 0])
    BY <2>2 DEF WidgetOK, ClosedOK, Widget
  <2> QED BY <1>1, <1>8, <2>3, FieldStep DEF MouseMove, v
<1>9. CASE MouseLeave
  BY <1>1, <1>9, CollapseAllOK, FieldStep DEF MouseLeave
<1> QED BY <1>2, <1>3, <1>4, <1>6, <1>7, <1>8, <1>9 DEF MouseStep

LEMMA TimerInv ==
  ASSUME FieldInv, TimerStep
  PROVE  FieldInv'
<1>1. WidgetOK(widget) /\ error \in BOOLEAN
  BY DEF FieldInv
<1>2. CASE SearchTimer
  <2>1. widget.focused
    BY <1>1, <1>2 DEF SearchTimer, WidgetOK, ClosedOK
  <2> QED BY <1>1, <1>2, <2>1, TimeoutSearchOK, FieldStep DEF SearchTimer
<1>3. CASE MenuTimer
  BY <1>1, <1>3, MenuBlurOK, FieldStep DEF MenuTimer
<1>4. CASE SectionSettles
  BY <1>1, <1>4, FieldStep DEF SectionSettles
<1> QED BY <1>2, <1>3, <1>4 DEF TimerStep

\* A page that is loaded or left starts with a new widget.
LEMMA LoadInv ==
  ASSUME NEW d, NEW warned, Load(d, warned) \/ LeavePublication(d)
  PROVE  FieldInv'
<1>1. page' \in Pages /\ error' \in BOOLEAN /\ widget' = NewWidget
  BY DEF Load, LeavePublication, Pages, ImportRefuses
<1> QED BY <1>1, NewWidgetOK DEF FieldInv

\* The other pages are opened when the widget is not in use, and leave it alone.
LEMMA OtherPagesInv ==
  ASSUME FieldInv, ScriptStep, UNCHANGED <<widget, list, error, box, dto>>
  PROVE  FieldInv' /\ page' # "publication"
<1>1. page # "publication" /\ page' \in Pages \ {"publication"}
  BY DEF ScriptStep, OpenSettings, LoadSettings, ChooseSingle, ChoosePriority,
         SubmitSettings, OpenVote, ToggleGroup, SubmitVote, OpenFolded,
         CollapseSection, CloseFolded, SectionsSettle, FieldInv, Pages
<1> QED BY <1>1 DEF FieldInv

LEMMA FieldNext == FieldInv /\ [Next]_vars => FieldInv'
<1> SUFFICES ASSUME FieldInv, [Next]_vars
             PROVE  FieldInv'
  OBVIOUS
<1>1. CASE OpenPublication
  BY <1>1, LoadInv DEF OpenPublication
<1>2. ASSUME NEW event, Submit(event)
      PROVE  FieldInv'
  BY <1>2, LoadInv DEF Submit
<1>3. CASE ToggleBox
  BY <1>3, FieldStep DEF ToggleBox, FieldInv
<1>4. CASE ScriptStep /\ UNCHANGED <<widget, list, error, box, dto>>
  BY <1>4, OtherPagesInv
<1>5. CASE UNCHANGED vars
  BY <1>5 DEF vars, pageVars, FieldInv
<1> QED BY <1>1, <1>2, <1>3, <1>4, <1>5, KeyInv, MouseInv, TimerInv
        DEF Next, PublicationNext
-----------------------------------------------------------------------------
\* The sections by themselves.
LEMMA SectionFacts ==
  ASSUME NEW section \in Sections
  PROVE  /\ {Show(section), Hide(section), Toggle(section), TransitionEnd(section)}
              \subseteq Sections
         /\ OnItsWayIn(TransitionEnd(section)) <=> OnItsWayIn(section)
         /\ ~InTransition(section) =>
              /\ OnItsWayIn(Show(section)) /\ ~OnItsWayIn(Hide(section))
              /\ OnItsWayIn(Toggle(section)) <=> ~OnItsWayIn(section)
         /\ InTransition(section) => Toggle(section) = section
BY DEF Sections, Show, Hide, Toggle, TransitionEnd, OnItsWayIn, InTransition

LEMMA BoxOnLoadOK ==
  ASSUME NEW warned \in BOOLEAN
  PROVE  /\ BoxOnLoad(warned) \in Box
         /\ BoxOnLoad(warned).follows =>
              (OnItsWayIn(BoxOnLoad(warned).section) <=> ~BoxOnLoad(warned).ticked)
BY DEF BoxOnLoad, Box, Sections, OnItsWayIn

LEMMA BoxNext == BoxInv /\ [Next]_vars => BoxInv'
<1> SUFFICES ASSUME BoxInv, [Next]_vars
             PROVE  BoxInv'
  OBVIOUS
<1>1. box \in Box /\ box.section \in Sections /\ box.ticked \in BOOLEAN
  BY DEF BoxInv, Box
<1>2. ASSUME NEW d, NEW warned \in BOOLEAN, Load(d, warned) \/ LeavePublication(d)
      PROVE  BoxInv'
  BY <1>2, BoxOnLoadOK DEF Load, LeavePublication, BoxInv
<1>3. CASE OpenPublication
  BY <1>2, <1>3 DEF OpenPublication
<1>4. ASSUME NEW event, Submit(event)
      PROVE  BoxInv'
  <2>1. NoParticipants(Bound) \in BOOLEAN
    BY DEF NoParticipants
  <2> QED BY <1>2, <1>4, <2>1 DEF Submit
<1>5. CASE ToggleBox
  <2> DEFINE moved == IF box.ticked THEN Show(box.section) ELSE Hide(box.section)
             still == ~InTransition(box.section)
  <2>1. moved \in Sections /\ still \in BOOLEAN
    BY <1>1, SectionFacts
  <2>2. still => (OnItsWayIn(moved) <=> box.ticked)
    BY <1>1, SectionFacts
  <2>3. box' = [ticked |-> ~box.ticked, section |-> moved, follows |-> still]
    BY <1>5 DEF ToggleBox
  <2> HIDE DEF moved, still
  <2> QED BY <1>1, <2>1, <2>2, <2>3 DEF BoxInv, Box
<1>6. CASE SectionSettles
  <2> DEFINE moved == TransitionEnd(box.section)
  <2>1. moved \in Sections /\ (OnItsWayIn(moved) <=> OnItsWayIn(box.section))
    BY <1>1, SectionFacts
  <2>2. box' = [box EXCEPT !.section = moved] /\ page' = page
    BY <1>6 DEF SectionSettles
  <2> HIDE DEF moved
  <2> QED BY <1>1, <2>1, <2>2 DEF BoxInv, Box
<1>7. CASE KeyStep \/ MouseStep \/ SearchTimer \/ MenuTimer
  <2>1. box' = box /\ page' = page
    BY <1>7 DEF KeyStep, MouseStep, SearchTimer, MenuTimer, EnterField, LeaveField,
                Edit, PressKey, Paste, PressDelimiter, PressEnter, PressTab, PressMove,
                PressEscape, PressBackspace, ClickRemove, MouseEnter, MouseMove,
                MouseLeave, ClickItem, AddFromField, TakeItem
  <2> QED BY <2>1 DEF BoxInv
<1>8. CASE ScriptStep /\ UNCHANGED <<widget, list, error, box, dto>>
  <2>1. page' # "publication"
    BY <1>8 DEF ScriptStep, OpenSettings, LoadSettings, ChooseSingle, ChoosePriority,
                SubmitSettings, OpenVote, ToggleGroup, SubmitVote, OpenFolded,
                CollapseSection, CloseFolded, SectionsSettle
  <2> QED BY <1>8, <2>1 DEF BoxInv
<1>9. CASE UNCHANGED vars
  BY <1>9 DEF vars, pageVars, BoxInv
<1> QED BY <1>3, <1>4, <1>5, <1>6, <1>7, <1>8, <1>9
        DEF Next, PublicationNext, TimerStep
-----------------------------------------------------------------------------
\* The pages beside it.  The caret is right exactly if it follows.
SettingsInv ==
  /\ settings \in Settings
  /\ page = "settings" /\ settings.follows =>
       (OnItsWayIn(settings.section) <=> ~settings.single)

FoldedInv ==
  /\ folded \in Folded
  /\ folded.follows <=> (OnItsWayIn(folded.section) <=> folded.caret = "down")

ScriptInv ==
  /\ SettingsInv
  /\ FoldedInv
  /\ ballot \in FormSelections

LEMMA ClosedSettingsOK == ClosedSettings \in Settings
BY DEF ClosedSettings, Settings, Sections

LEMMA LoadSettingsInv ==
  ASSUME NEW single \in BOOLEAN, NEW priority \in BOOLEAN,
         LoadSettings(single, priority)
  PROVE  SettingsInv'
<1>1. Show("hidden") = "showing"
  BY DEF Show
<1> QED BY <1>1 DEF LoadSettings, SettingsInv, Settings, Sections, OnItsWayIn

LEMMA SettingsNext ==
  ASSUME SettingsInv, ScriptStep
  PROVE  SettingsInv'
<1>1. /\ settings \in Settings /\ settings.section \in Sections
      /\ settings.single \in BOOLEAN /\ settings.priority \in BOOLEAN
  BY DEF SettingsInv, Settings
<1>2. ASSUME NEW single \in BOOLEAN, NEW priority \in BOOLEAN,
             OpenSettings(single, priority)
      PROVE  SettingsInv'
  BY <1>2, LoadSettingsInv DEF OpenSettings
<1>3. ASSUME NEW single \in BOOLEAN, ChooseSingle(single)
      PROVE  SettingsInv'
  <2> DEFINE moved == IF single THEN Hide(settings.section) ELSE Show(settings.section)
             still == ~InTransition(settings.section)
  <2>1. moved \in Sections /\ still \in BOOLEAN
    BY <1>1, SectionFacts
  <2>2. still => (OnItsWayIn(moved) <=> ~single)
    BY <1>1, SectionFacts
  <2>3. settings' = [settings EXCEPT !.single = single, !.section = moved,
                                     !.follows = still]
    BY <1>3 DEF ChooseSingle
  <2> HIDE DEF moved, still
  <2> QED BY <1>1, <2>1, <2>2, <2>3 DEF SettingsInv, Settings
<1>4. ASSUME NEW priority \in BOOLEAN, ChoosePriority(priority)
      PROVE  SettingsInv'
  BY <1>1, <1>4 DEF ChoosePriority, SettingsInv, Settings
<1>5. ASSUME NEW event, SubmitSettings(event)
      PROVE  SettingsInv'
  <2>1. CASE LoadSettings(settings.single, settings.priority)
    BY <1>1, <2>1, LoadSettingsInv
  <2>2. CASE page' = "away" /\ settings' = ClosedSettings
    BY <2>2, ClosedSettingsOK DEF SettingsInv
  <2> QED BY <1>5, <2>1, <2>2 DEF SubmitSettings
<1>6. CASE SectionsSettle
  <2> DEFINE moved == TransitionEnd(settings.section)
  <2>1. moved \in Sections /\ (OnItsWayIn(moved) <=> OnItsWayIn(settings.section))
    BY <1>1, SectionFacts
  <2>2. settings' = [settings EXCEPT !.section = moved] /\ page' = page
    BY <1>6 DEF SectionsSettle
  <2> HIDE DEF moved
  <2> QED BY <1>1, <2>1, <2>2 DEF SettingsInv, Settings
<1>7. CASE \/ \E stored \in FormSelections : OpenVote(stored)
           \/ \E kind \in {"yes", "maybe"}, entry \in Entries : ToggleGroup(kind, entry)
           \/ SubmitVote
           \/ \E section \in {"hidden", "shown"} : OpenFolded(section)
           \/ CollapseSection
           \/ CloseFolded
  <2>1. settings' = settings /\ (page' # page => page' # "settings")
    BY <1>7 DEF OpenVote, ToggleGroup, SubmitVote, OpenFolded, CollapseSection,
                CloseFolded
  <2> QED BY <2>1 DEF SettingsInv
<1> QED BY <1>2, <1>3, <1>4, <1>5, <1>6, <1>7 DEF ScriptStep

LEMMA FoldedNext ==
  ASSUME FoldedInv, ScriptStep
  PROVE  FoldedInv'
<1>1. /\ folded \in Folded /\ folded.section \in Sections
      /\ folded.caret \in {"right", "down"} /\ folded.follows \in BOOLEAN
  BY DEF FoldedInv, Folded
<1>2. ASSUME NEW section \in {"hidden", "shown"}, folded' = FoldedOnLoad(section)
      PROVE  FoldedInv'
  BY <1>2 DEF FoldedOnLoad, FoldedInv, Folded, Sections, OnItsWayIn
<1>3. CASE CollapseSection
  <2> DEFINE moved == Toggle(folded.section)
             turned == IF folded.caret = "down" THEN "right" ELSE "down"
             still == ~InTransition(folded.section)
  <2>1. moved \in Sections /\ still \in BOOLEAN /\ turned \in {"right", "down"}
    BY <1>1, SectionFacts
  <2>2. /\ still => (OnItsWayIn(moved) <=> ~OnItsWayIn(folded.section))
        /\ ~still => (OnItsWayIn(moved) <=> OnItsWayIn(folded.section))
        /\ turned = "down" <=> folded.caret # "down"
    BY <1>1, SectionFacts
  <2>3. folded' = [section |-> moved, caret |-> turned,
                   follows |-> folded.follows = still]
    BY <1>3 DEF CollapseSection
  <2> HIDE DEF moved, turned, still
  <2>4. folded' \in Folded
    BY <2>1, <2>3 DEF Folded
  <2>5. /\ folded'.section = moved /\ folded'.caret = turned
        /\ folded'.follows <=> (folded.follows <=> still)
    BY <1>1, <2>1, <2>3
  <2> QED BY <2>2, <2>4, <2>5 DEF FoldedInv
<1>4. CASE SectionsSettle
  <2> DEFINE moved == TransitionEnd(folded.section)
  <2>1. moved \in Sections /\ (OnItsWayIn(moved) <=> OnItsWayIn(folded.section))
    BY <1>1, SectionFacts
  <2>2. folded' = [folded EXCEPT !.section = moved]
    BY <1>4 DEF SectionsSettle
  <2> HIDE DEF moved
  <2> QED BY <1>1, <2>1, <2>2 DEF FoldedInv, Folded
<1>5. CASE UNCHANGED folded
  BY <1>5 DEF FoldedInv
<1> QED BY <1>2, <1>3, <1>4, <1>5
        DEF ScriptStep, OpenSettings, ChooseSingle, ChoosePriority, SubmitSettings,
            OpenVote, ToggleGroup, SubmitVote, OpenFolded, CloseFolded

LEMMA BallotNext ==
  ASSUME ballot \in FormSelections, ScriptStep
  PROVE  ballot' \in FormSelections
<1>1. NoSelection \in FormSelections
  BY DEF NoSelection, FormSelections
<1>2. ASSUME NEW entry \in Entries, ToggleGroup("yes", entry)
      PROVE  ballot' \in FormSelections
  <2>1. ballot' = [ballot EXCEPT
          !["yes"] = IF entry \in @ THEN @ \ {entry} ELSE @ \cup {entry},
          !["maybe"] = @ \ {entry}]
    BY <1>2 DEF ToggleGroup, Other
  <2> QED BY <2>1 DEF FormSelections
<1>3. ASSUME NEW entry \in Entries, ToggleGroup("maybe", entry)
      PROVE  ballot' \in FormSelections
  <2>1. /\ PriorityChoice
        /\ ballot' = [ballot EXCEPT
             !["maybe"] = IF entry \in @ THEN @ \ {entry} ELSE @ \cup {entry},
             !["yes"] = @ \ {entry}]
    BY <1>3 DEF ToggleGroup, Other
  <2> QED BY <2>1 DEF FormSelections
<1> QED BY <1>1, <1>2, <1>3
        DEF ScriptStep, OpenSettings, ChooseSingle, ChoosePriority, SubmitSettings,
            OpenVote, SubmitVote, OpenFolded, CollapseSection, CloseFolded,
            SectionsSettle
-----------------------------------------------------------------------------
(* The list of groups. *)

Lists == [field : Seq(Texts), spans : Seq(Texts)]

\* What ShownIsSubmitted asks of a list of groups.
ListOK(l) ==
  /\ l \in Lists
  /\ l.spans = l.field
  /\ IsInjective(l.field)
  /\ \A tag \in ToSet(l.field) : ValidateTag(tag) /\ Trim[tag] = tag

LEMMA NoTagsOK == ListOK(NoTags) /\ ToSet(NoTags.spans) = {}
<1> DEFINE nothing == <<>>
<1>1. nothing \in Seq(Texts) /\ Len(nothing) = 0 /\ DOMAIN nothing = 1 .. Len(nothing)
  OBVIOUS
<1>2. NoTags = [field |-> nothing, spans |-> nothing]
  BY DEF NoTags
<1> HIDE DEF nothing
<1>3. ToSet(nothing) = {} /\ IsInjective(nothing)
  BY <1>1 DEF ToSet, IsInjective
<1> QED BY <1>1, <1>2, <1>3 DEF ListOK, Lists

LEMMA AddTagType ==
  ASSUME NEW l \in Lists, NEW text \in Texts
  PROVE  AddTag(l, text) \in Lists
BY TextsType DEF AddTag, Lists

LEMMA AppendSet ==
  ASSUME NEW s \in Seq(Texts), NEW x \in Texts
  PROVE  ToSet(Append(s, x)) = ToSet(s) \cup {x}
<1> DEFINE a == Append(s, x)
<1>1. /\ Len(s) \in Nat /\ Len(a) = Len(s) + 1 /\ a[Len(s) + 1] = x
      /\ \A i \in 1 .. Len(s) : a[i] = s[i]
      /\ DOMAIN a = 1 .. Len(a) /\ DOMAIN s = 1 .. Len(s)
  OBVIOUS
<1> HIDE DEF a
<1> QED BY <1>1 DEF ToSet, a

\* A text that addTag accepts or refuses leaves the list as it should be: spans
\* and hidden value alike, no group twice, none blank or with a comma in it.
THEOREM AddTagKeepsList ==
  ASSUME NEW l, ListOK(l), NEW text \in Texts
  PROVE  ListOK(AddTag(l, text))
<1> DEFINE value == Trim[text]
           s == Append(l.field, value)
<1>1. value \in Texts /\ Trim[value] = value /\ l.field \in Seq(Texts)
  BY TextsType, TrimOnce DEF ListOK, Lists
<1>2. CASE ~Accepts(l, text)
  BY <1>2 DEF AddTag
<1>3. CASE Accepts(l, text)
  <2>1. value \notin ToSet(l.field) /\ ValidateTag(value)
    BY <1>3 DEF Accepts, TagExist
  <2>2. /\ s \in Seq(Texts) /\ Len(s) = Len(l.field) + 1 /\ s[Len(s)] = value
        /\ \A i \in 1 .. Len(l.field) : s[i] = l.field[i]
        /\ DOMAIN s = 1 .. Len(s) /\ DOMAIN l.field = 1 .. Len(l.field)
        /\ Len(l.field) \in Nat
    BY <1>1
  <2>3. ToSet(s) = ToSet(l.field) \cup {value}
    BY <1>1, AppendSet
  <2> HIDE DEF s, value
  <2>4. \A i \in 1 .. Len(l.field) : l.field[i] # value
    BY <2>1, <2>2 DEF ToSet
  <2>5. IsInjective(s)
    BY <2>2, <2>4 DEF ListOK, IsInjective
  <2>6. \A tag \in ToSet(s) : ValidateTag(tag) /\ Trim[tag] = tag
    BY <1>1, <2>1, <2>3 DEF ListOK
  <2>7. AddTag(l, text) = [field |-> s, spans |-> s]
    BY <1>3 DEF AddTag, ListOK, s, value
  <2> QED BY <2>2, <2>5, <2>6, <2>7 DEF ListOK, Lists
<1> QED BY <1>2, <1>3

\* What it does to the groups shown.
LEMMA AddTagCases ==
  ASSUME NEW l, ListOK(l), NEW text \in Texts
  PROVE  \/ /\ AddTag(l, text) = l
            /\ Trim[text] \in ToSet(l.spans) \/ ~ValidateTag(Trim[text])
         \/ /\ AddTag(l, text).spans = Append(l.spans, Trim[text])
            /\ ValidateTag(Trim[text]) /\ Trim[text] \notin ToSet(l.spans)
BY DEF AddTag, Accepts, TagExist, ListOK

\* The loop of importTags and of a paste: f[n] is the list after n texts.
Adding(f, l, texts) ==
  /\ f \in [0 .. Len(texts) -> Lists]
  /\ f[0] = l
  /\ \A n \in 1 .. Len(texts) : f[n] = AddTag(f[n - 1], texts[n])

LEMMA AddTagsLoop ==
  ASSUME NEW l \in Lists, NEW texts \in Seq(Texts)
  PROVE  \E f : Adding(f, l, texts) /\ AddTags(l, texts) = f[Len(texts)]
<1> DEFINE N == Len(texts)
           Def(g) == [n \in 0 .. N |-> IF n = 0 THEN l ELSE AddTag(g[n - 1], texts[n])]
           step == [p \in (1 .. N) \X Lists |-> AddTag(p[2], texts[p[1]])]
           added == CHOOSE g : g = Def(g)
<1>1. N \in Nat /\ \A n \in 1 .. N : texts[n] \in Texts
  OBVIOUS
<1>2. step \in [(1 .. N) \X Lists -> Lists]
  BY <1>1, AddTagType
<1>3. PICK f : IsRecursion(f, N, Lists, l, step)
  <2> HIDE DEF step, N
  <2> QED BY <1>1, <1>2, RecursionUpTo
<1>a. /\ f \in [0 .. N -> Lists] /\ f[0] = l
      /\ \A n \in 1 .. N : f[n] = step[<<n, f[n - 1]>>]
  BY <1>3 DEF IsRecursion
<1>4. \A n \in 1 .. N : f[n - 1] \in Lists /\ f[n] = AddTag(f[n - 1], texts[n])
  <2>1. ASSUME NEW n \in 1 .. N
        PROVE  f[n - 1] \in Lists /\ f[n] = AddTag(f[n - 1], texts[n])
    <3>1. n - 1 \in 0 .. N
      BY <1>1
    <3>2. <<n, f[n - 1]>> \in (1 .. N) \X Lists
      BY <1>a, <3>1
    <3> QED BY <1>a, <3>1, <3>2
  <2> QED BY <2>1
<1>5. f = Def(f)
  <2> HIDE DEF step
  <2>1. \A n \in 0 .. N : f[n] = IF n = 0 THEN l ELSE AddTag(f[n - 1], texts[n])
    BY <1>1, <1>a, <1>4
  <2> QED BY <1>a, <2>1
<1>6. added = Def(added)
  BY <1>5
<1>7. AddTags(l, texts) = added[N]
  BY DEF AddTags
<1> HIDE DEF added
<1>8. /\ added[0] = l /\ DOMAIN added = 0 .. N
      /\ \A n \in 1 .. N : added[n] = AddTag(added[n - 1], texts[n])
  BY <1>1, <1>6
<1> DEFINE S == {n \in 0 .. N : added[n] \in Lists}
<1>9. 0 \in S
  BY <1>1, <1>8
<1>10. ASSUME NEW n \in 0 .. N - 1, n \in S
       PROVE  n + 1 \in S
  <2>1. n + 1 \in 1 .. N /\ (n + 1) - 1 = n
    BY <1>1
  <2>2. added[n + 1] = AddTag(added[n], texts[n + 1])
    BY <1>8, <2>1
  <2> QED BY <1>1, <1>10, <2>1, <2>2, AddTagType
<1> HIDE DEF S
<1>11. 0 .. N \subseteq S
  BY <1>1, <1>9, <1>10, InductionUpTo
<1>12. added \in [0 .. N -> Lists]
  <2>1. \A n \in 0 .. N : added[n] \in Lists
    BY <1>11 DEF S
  <2> HIDE DEF Def, N
  <2>2. added = [n \in 0 .. N |-> added[n]]
    BY <1>6, <1>8 DEF Def
  <2> QED BY <2>1, <2>2
<1> HIDE DEF Def
<1> QED BY <1>7, <1>8, <1>12 DEF Adding
-----------------------------------------------------------------------------
\* What a loop keeps and adds, text by text.
LEMMA LoopKeepsList ==
  ASSUME NEW l, ListOK(l), NEW texts \in Seq(Texts), NEW f, Adding(f, l, texts),
         NEW n \in 0 .. Len(texts)
  PROVE  ListOK(f[n])
<1> DEFINE N == Len(texts)
           S == {k \in 0 .. N : ListOK(f[k])}
<1>1. N \in Nat /\ \A k \in 1 .. N : texts[k] \in Texts
  OBVIOUS
<1>2. 0 \in S
  BY <1>1 DEF Adding
<1>3. ASSUME NEW k \in 0 .. N - 1, k \in S
      PROVE  k + 1 \in S
  <2>1. k + 1 \in 1 .. N /\ (k + 1) - 1 = k /\ texts[k + 1] \in Texts
    BY <1>1
  <2>2. f[k + 1] = AddTag(f[k], texts[k + 1])
    BY <2>1 DEF Adding
  <2> QED BY <1>1, <1>3, <2>1, <2>2, AddTagKeepsList
<1> HIDE DEF S
<1>4. 0 .. N \subseteq S
  BY <1>1, <1>2, <1>3, InductionUpTo
<1> QED BY <1>4 DEF S

\* The groups of before stay in front, and what comes behind is a given text.
Grown(l, m, new) ==
  /\ Len(l.spans) <= Len(m.spans)
  /\ \A i \in 1 .. Len(l.spans) : m.spans[i] = l.spans[i]
  /\ ToSet(m.spans) \subseteq ToSet(l.spans) \cup new

LEMMA AddTagGrows ==
  ASSUME NEW l, NEW m, ListOK(m), NEW new, Grown(l, m, new), ListOK(l),
         NEW text \in Texts, Trim[text] \in new
  PROVE  Grown(l, AddTag(m, text), new)
<1>1. m.spans \in Seq(Texts) /\ l.spans \in Seq(Texts) /\ Trim[text] \in Texts
  BY TextsType DEF ListOK, Lists
<1>2. CASE AddTag(m, text) = m
  BY <1>2
<1>3. CASE AddTag(m, text).spans = Append(m.spans, Trim[text])
  <2> DEFINE s == Append(m.spans, Trim[text])
  <2>1. /\ Len(s) = Len(m.spans) + 1 /\ \A i \in 1 .. Len(m.spans) : s[i] = m.spans[i]
        /\ Len(m.spans) \in Nat /\ Len(l.spans) \in Nat
    BY <1>1
  <2>2. ToSet(s) = ToSet(m.spans) \cup {Trim[text]}
    BY <1>1, AppendSet
  <2> HIDE DEF s
  <2> QED BY <1>3, <2>1, <2>2 DEF Grown, s
<1> QED BY <1>2, <1>3, AddTagCases

LEMMA AddTagsGrow ==
  ASSUME NEW l, ListOK(l), NEW texts \in Seq(Texts)
  PROVE  /\ ListOK(AddTags(l, texts))
         /\ Grown(l, AddTags(l, texts), {Trim[text] : text \in ToSet(texts)})
<1> DEFINE N == Len(texts)
           new == {Trim[text] : text \in ToSet(texts)}
<1>1. N \in Nat /\ DOMAIN texts = 1 .. N /\ \A k \in 1 .. N : texts[k] \in Texts
  OBVIOUS
<1>2. \A k \in 1 .. N : Trim[texts[k]] \in new
  BY <1>1 DEF ToSet
<1>3. PICK f : Adding(f, l, texts) /\ AddTags(l, texts) = f[N]
  BY AddTagsLoop DEF ListOK
<1>4. \A k \in 0 .. N : ListOK(f[k])
  BY <1>3, LoopKeepsList
<1> DEFINE S == {k \in 0 .. N : Grown(l, f[k], new)}
<1>5. 0 \in S
  <2>1. f[0] = l /\ Len(l.spans) \in Nat
    BY <1>3 DEF Adding, ListOK, Lists
  <2> QED BY <1>1, <2>1 DEF Grown
<1>6. ASSUME NEW k \in 0 .. N - 1, k \in S
      PROVE  k + 1 \in S
  <2>1. k + 1 \in 1 .. N /\ (k + 1) - 1 = k /\ k \in 0 .. N /\ k + 1 \in 0 .. N
    BY <1>1
  <2>2. f[k + 1] = AddTag(f[k], texts[k + 1])
    BY <1>3, <2>1 DEF Adding
  <2>3. Grown(l, f[k], new) /\ ListOK(f[k]) /\ texts[k + 1] \in Texts
        /\ Trim[texts[k + 1]] \in new
    BY <1>1, <1>2, <1>4, <1>6, <2>1
  <2> HIDE DEF new
  <2>4. Grown(l, f[k + 1], new)
    BY <2>2, <2>3, AddTagGrows
  <2> QED BY <2>1, <2>4
<1> HIDE DEF S, new
<1>7. 0 .. N \subseteq S
  BY <1>1, <1>5, <1>6, InductionUpTo
<1>8. N \in 0 .. N
  BY <1>1
<1>9. Grown(l, f[N], new) /\ ListOK(f[N])
  BY <1>4, <1>7, <1>8 DEF S
<1> QED BY <1>3, <1>9 DEF new

\* A key adds the text in the field, if it adds anything.
LEMMA AddOne ==
  ASSUME NEW l, ListOK(l), NEW text \in Texts
  PROVE  AddTags(l, <<text>>) = AddTag(l, text)
<1> DEFINE texts == <<text>>
<1>1. texts \in Seq(Texts) /\ Len(texts) = 1 /\ texts[1] = text
  OBVIOUS
<1> HIDE DEF texts
<1>2. PICK f : Adding(f, l, texts) /\ AddTags(l, texts) = f[Len(texts)]
  BY <1>1, AddTagsLoop DEF ListOK
<1>3. f[0] = l /\ f[1] = AddTag(f[1 - 1], texts[1])
  BY <1>1, <1>2 DEF Adding
<1> QED BY <1>1, <1>2, <1>3 DEF texts

LEMMA AddNone == ASSUME NEW l, ListOK(l) PROVE AddTag(l, None) = l
<1>1. ~ValidateTag(Trim[None])
  BY TrimOnce DEF ValidateTag
<1> QED BY <1>1 DEF AddTag, Accepts

LEMMA ImportNothing == ImportTags(<<>>) = NoTags
<1> DEFINE texts == <<>>
<1>1. texts \in Seq(Texts) /\ Len(texts) = 0
  OBVIOUS
<1> HIDE DEF texts
<1>2. PICK f : Adding(f, NoTags, texts) /\ AddTags(NoTags, texts) = f[Len(texts)]
  BY <1>1, AddTagsLoop, NoTagsOK DEF ListOK
<1> QED BY <1>1, <1>2 DEF Adding, ImportTags, texts
-----------------------------------------------------------------------------
\* A list with these groups in field and spans.
Showing(s) == [field |-> s, spans |-> s]

LEMMA ShowsItself == ASSUME NEW l, ListOK(l) PROVE l = Showing(l.field)
BY DEF ListOK, Lists, Showing

\* Groups that are as addTag leaves them are all taken when they are added again,
\* with or without a delimiter in front (d is 1 or 0).
LEMMA AddedAgain ==
  ASSUME NEW s \in Seq(Texts), ListOK(Showing(s)), NEW texts \in Seq(Texts),
         NEW d \in {0, 1}, Len(texts) = d + Len(s), d = 1 => texts[1] = None,
         \A i \in 1 .. Len(s) : texts[d + i] = s[i]
  PROVE  AddTags(NoTags, texts) = Showing(s)
<1> DEFINE N == Len(s)
<1>1. N \in Nat /\ DOMAIN s = 1 .. N /\ \A i \in 1 .. N : s[i] \in Texts
  OBVIOUS
<1>2. PICK f : Adding(f, NoTags, texts) /\ AddTags(NoTags, texts) = f[Len(texts)]
  BY AddTagsLoop, NoTagsOK DEF ListOK
<1>3. f[d] = NoTags
  <2>1. CASE d = 0
    BY <1>2, <2>1 DEF Adding
  <2>2. CASE d = 1
    <3>1. 1 \in 1 .. Len(texts) /\ texts[1] = None
      BY <1>1, <2>2
    <3>2. f[0] = NoTags /\ f[1] = AddTag(f[1 - 1], texts[1])
      BY <1>2, <3>1 DEF Adding
    <3>3. f[1] = AddTag(NoTags, None)
      BY <3>1, <3>2
    <3> QED BY <2>2, <3>3, AddNone, NoTagsOK
  <2> QED BY <2>1, <2>2
<1> DEFINE S == {k \in 0 .. N : f[d + k] = Showing(SubSeq(s, 1, k))}
<1>4. 0 \in S
  <2>1. SubSeq(s, 1, 0) = <<>>
    OBVIOUS
  <2>2. f[d + 0] = NoTags
    BY <1>3
  <2> QED BY <1>1, <2>1, <2>2 DEF NoTags, Showing
<1>5. ASSUME NEW k \in 0 .. N - 1, k \in S
      PROVE  k + 1 \in S
  <2> DEFINE first == SubSeq(s, 1, k)
             next == SubSeq(s, 1, k + 1)
  <2>1. k \in Nat /\ k + 1 \in 1 .. N /\ d + k + 1 \in 1 .. Len(texts)
        /\ (d + (k + 1)) - 1 = d + k /\ d + (k + 1) \in 1 .. Len(texts)
    BY <1>1
  <2>2. f[d + (k + 1)] = AddTag(f[d + k], s[k + 1])
    BY <1>2, <2>1 DEF Adding
  <2>3. f[d + k] = Showing(first)
    BY <1>5
  <2>4. /\ first \in Seq(Texts) /\ Len(first) = k
        /\ \A i \in 1 .. k : first[i] = s[i]
    BY <1>1, <2>1
  <2>5. next = Append(first, s[k + 1])
    BY <1>1, <2>1
  <2> HIDE DEF first, next
  <2>6. s[k + 1] \notin ToSet(first)
    <3>1. ASSUME NEW i \in 1 .. k, s[i] = s[k + 1]
          PROVE  FALSE
      <4>1. i \in 1 .. N /\ i # k + 1
        BY <1>1, <2>1
      <4>2. \A a, b \in 1 .. N : s[a] = s[b] => a = b
        BY <1>1 DEF ListOK, Showing, IsInjective
      <4> QED BY <2>1, <3>1, <4>1, <4>2
    <3>2. DOMAIN first = 1 .. k
      BY <2>4
    <3> QED BY <2>4, <3>1, <3>2 DEF ToSet
  <2>7. ValidateTag(s[k + 1]) /\ Trim[s[k + 1]] = s[k + 1]
    <3>1. s[k + 1] \in ToSet(s)
      BY <1>1, <2>1 DEF ToSet
    <3> QED BY <3>1 DEF ListOK, Showing
  <2>8. AddTag(Showing(first), s[k + 1]) = Showing(next)
    BY <2>5, <2>6, <2>7 DEF AddTag, Accepts, TagExist, Showing
  <2> QED BY <2>1, <2>2, <2>3, <2>8 DEF next
<1> HIDE DEF S
<1>6. 0 .. N \subseteq S
  BY <1>1, <1>4, <1>5, InductionUpTo
<1>7. f[d + N] = Showing(SubSeq(s, 1, N))
  <2>1. N \in S
    BY <1>1, <1>6
  <2> QED BY <2>1 DEF S
<1>8. SubSeq(s, 1, N) = s
  OBVIOUS
<1> QED BY <1>2, <1>7, <1>8

\* What the page submits comes back to it as it was.
LEMMA ImportedAgain ==
  ASSUME NEW l, ListOK(l)
  PROVE  ImportTags(l.field) = l
<1>1. l.field \in Seq(Texts) /\ l = Showing(l.field)
  BY ShowsItself DEF ListOK, Lists
<1> DEFINE s == l.field
<1>2. \A i \in 1 .. Len(s) : s[0 + i] = s[i]
  OBVIOUS
<1>3. Len(s) = 0 + Len(s) /\ ListOK(Showing(s)) /\ s \in Seq(Texts)
  BY <1>1
<1> HIDE DEF s
<1>4. AddTags(NoTags, s) = Showing(s)
  BY <1>2, <1>3, AddedAgain
<1> QED BY <1>1, <1>4 DEF ImportTags, s

\* The loop of removeTag: f[n] are the groups that stay of the first n.
Removing(f, l, tag) ==
  /\ f \in [0 .. Len(l.field) -> Seq(Texts)]
  /\ f[0] = <<>>
  /\ \A n \in 1 .. Len(l.field) :
       f[n] = IF l.field[n] = tag THEN f[n - 1] ELSE Append(f[n - 1], l.field[n])

LEMMA OthersLoop ==
  ASSUME NEW l \in Lists, NEW tag
  PROVE  \E f : Removing(f, l, tag) /\ Others(l, tag) = f[Len(l.field)]
<1> DEFINE s == l.field
           N == Len(s)
           nothing == <<>>
           Def(g) == [n \in 0 .. N |-> IF n = 0 THEN nothing
                                       ELSE IF s[n] = tag THEN g[n - 1]
                                       ELSE Append(g[n - 1], s[n])]
           step == [p \in (1 .. N) \X Seq(Texts) |->
                      IF s[p[1]] = tag THEN p[2] ELSE Append(p[2], s[p[1]])]
           kept == CHOOSE g : g = Def(g)
<1>1. Others(l, tag) = kept[N]
  BY DEF Others
<1>2. s \in Seq(Texts) /\ nothing \in Seq(Texts)
  BY DEF Lists
<1> HIDE DEF s, nothing
<1>3. N \in Nat /\ \A n \in 1 .. N : s[n] \in Texts
  BY <1>2
<1>4. step \in [(1 .. N) \X Seq(Texts) -> Seq(Texts)]
  BY <1>2, <1>3
<1>5. PICK f : IsRecursion(f, N, Seq(Texts), nothing, step)
  <2> HIDE DEF step, N
  <2> QED BY <1>2, <1>3, <1>4, RecursionUpTo
<1>6. /\ f \in [0 .. N -> Seq(Texts)] /\ f[0] = nothing
      /\ \A n \in 1 .. N : f[n] = step[<<n, f[n - 1]>>]
  BY <1>5 DEF IsRecursion
<1>7. f = Def(f)
  <2>1. ASSUME NEW n \in 1 .. N
        PROVE  f[n] = IF s[n] = tag THEN f[n - 1] ELSE Append(f[n - 1], s[n])
    <3>1. n - 1 \in 0 .. N
      BY <1>3
    <3>2. <<n, f[n - 1]>> \in (1 .. N) \X Seq(Texts)
      BY <1>6, <3>1
    <3> QED BY <1>6, <3>1, <3>2
  <2> HIDE DEF step
  <2>2. ASSUME NEW n \in 0 .. N
        PROVE  f[n] = IF n = 0 THEN nothing
                      ELSE IF s[n] = tag THEN f[n - 1] ELSE Append(f[n - 1], s[n])
    <3>1. CASE n = 0
      BY <1>6, <3>1
    <3>2. CASE n # 0
      <4>1. n \in 1 .. N
        BY <1>3, <3>2
      <4> QED BY <2>1, <3>2, <4>1
    <3> QED BY <3>1, <3>2
  <2> QED BY <1>6, <2>2
<1>8. kept = Def(kept)
  BY <1>7
<1> HIDE DEF kept
<1>9. /\ kept[0] = nothing /\ DOMAIN kept = 0 .. N
      /\ \A n \in 1 .. N : kept[n] = IF s[n] = tag THEN kept[n - 1]
                                     ELSE Append(kept[n - 1], s[n])
  <2>1. DOMAIN kept = 0 .. N /\ \A n \in 0 .. N : kept[n] = Def(kept)[n]
    BY <1>8
  <2>2. 0 \in 0 .. N /\ \A n \in 1 .. N : n \in 0 .. N /\ n # 0
    BY <1>3
  <2>3. kept[0] = nothing
    BY <2>1, <2>2
  <2>4. ASSUME NEW n \in 1 .. N
        PROVE  kept[n] = IF s[n] = tag THEN kept[n - 1] ELSE Append(kept[n - 1], s[n])
    BY <2>1, <2>2
  <2> QED BY <2>1, <2>3, <2>4
<1> DEFINE S == {n \in 0 .. N : kept[n] \in Seq(Texts)}
<1>10. 0 \in S
  BY <1>2, <1>3, <1>9
<1>11. ASSUME NEW n \in 0 .. N - 1, n \in S
       PROVE  n + 1 \in S
  <2>1. n + 1 \in 1 .. N /\ (n + 1) - 1 = n
    BY <1>3
  <2>2. kept[n + 1] = IF s[n + 1] = tag THEN kept[n] ELSE Append(kept[n], s[n + 1])
    BY <1>9, <2>1
  <2>3. kept[n] \in Seq(Texts) /\ s[n + 1] \in Texts
    BY <1>3, <1>11, <2>1
  <2>4. kept[n + 1] \in Seq(Texts)
    BY <2>2, <2>3
  <2> QED BY <1>3, <2>1, <2>4
<1> HIDE DEF S
<1>12. 0 .. N \subseteq S
  BY <1>3, <1>10, <1>11, InductionUpTo
<1>13. kept \in [0 .. N -> Seq(Texts)]
  <2>1. \A n \in 0 .. N : kept[n] \in Seq(Texts)
    BY <1>12 DEF S
  <2> HIDE DEF N, Def
  <2>2. kept = [n \in 0 .. N |-> kept[n]]
    BY <1>8, <1>9 DEF Def
  <2> QED BY <2>1, <2>2
<1> HIDE DEF Def, step
<1> QED BY <1>1, <1>9, <1>13 DEF Removing, s, nothing

LEMMA LongerSubSeq ==
  ASSUME NEW s \in Seq(Texts), NEW a \in 1 .. Len(s), NEW n \in a - 1 .. Len(s) - 1
  PROVE  Append(SubSeq(s, a, n), s[n + 1]) = SubSeq(s, a, n + 1)
<1>1. /\ Len(s) \in Nat /\ a \in Nat /\ n \in Nat /\ n + 1 \in 1 .. Len(s)
      /\ \A i \in 1 .. Len(s) : s[i] \in Texts
  OBVIOUS
<1> DEFINE p == SubSeq(s, a, n)
           q == SubSeq(s, a, n + 1)
           r == Append(p, s[n + 1])
<1>2. /\ p \in Seq(Texts) /\ Len(p) = n + 1 - a
      /\ \A i \in 1 .. n + 1 - a : p[i] = s[a + i - 1]
  BY <1>1
<1>3. /\ q \in Seq(Texts) /\ Len(q) = n + 2 - a
      /\ \A i \in 1 .. n + 2 - a : q[i] = s[a + i - 1]
  BY <1>1
<1> HIDE DEF p, q
<1>4. /\ r \in Seq(Texts) /\ Len(r) = n + 2 - a /\ r[n + 2 - a] = s[n + 1]
      /\ \A i \in 1 .. n + 1 - a : r[i] = p[i]
  BY <1>1, <1>2
<1> HIDE DEF r
<1>5. ASSUME NEW i \in 1 .. n + 2 - a
      PROVE  r[i] = q[i]
  <2>1. CASE i = n + 2 - a
    <3>1. a + i - 1 = n + 1
      BY <1>1, <2>1
    <3> QED BY <1>3, <1>4, <2>1, <3>1
  <2>2. CASE i # n + 2 - a
    <3>1. i \in 1 .. n + 1 - a
      BY <1>1, <2>2
    <3> QED BY <1>2, <1>3, <1>4, <3>1
  <2> QED BY <2>1, <2>2
<1>6. r = q
  BY <1>3, <1>4, <1>5
<1> QED BY <1>6 DEF p, q, r

LEMMA OthersAre ==
  ASSUME NEW l, ListOK(l), NEW i \in DOMAIN l.field
  PROVE  Others(l, l.field[i]) = RemoveAt(l.field, i)
<1> DEFINE s == l.field
           N == Len(s)
           rest(n) == SubSeq(s, 1, i - 1) \o SubSeq(s, i + 1, n)
<1>1. s \in Seq(Texts) /\ \A a, b \in DOMAIN s : s[a] = s[b] => a = b
  BY DEF ListOK, Lists, IsInjective
<1>a. PICK f : Removing(f, l, s[i]) /\ Others(l, s[i]) = f[N]
  BY OthersLoop DEF ListOK
<1>2. /\ f[0] = <<>> /\ Others(l, s[i]) = f[N]
      /\ \A n \in 1 .. N : f[n] = IF s[n] = s[i] THEN f[n - 1]
                                  ELSE Append(f[n - 1], s[n])
  BY <1>a DEF Removing
<1> HIDE DEF s
<1>3. N \in Nat /\ i \in 1 .. N /\ DOMAIN s = 1 .. N /\ \A n \in 1 .. N : s[n] \in Texts
  BY <1>1 DEF s
<1> DEFINE S == {n \in 0 .. N : f[n] = IF n < i THEN SubSeq(s, 1, n) ELSE rest(n)}
<1>4. 0 \in S
  <2>1. SubSeq(s, 1, 0) = <<>> /\ 0 < i
    BY <1>1, <1>3
  <2>2. f[0] = SubSeq(s, 1, 0) /\ 0 < i /\ 0 \in 0 .. N
    BY <1>2, <1>3, <2>1
  <2> HIDE DEF rest
  <2> QED BY <2>2
<1>5. ASSUME NEW n \in 0 .. N - 1, n \in S
      PROVE  n + 1 \in S
  <2>1. n \in Nat /\ n + 1 \in 1 .. N /\ (n + 1) - 1 = n
    BY <1>3
  <2>2. f[n + 1] = IF s[n + 1] = s[i] THEN f[n] ELSE Append(f[n], s[n + 1])
    BY <1>2, <2>1
  <2>3. s[n + 1] = s[i] <=> n + 1 = i
    BY <1>1, <1>3, <2>1
  <2>0. /\ n < i => f[n] = SubSeq(s, 1, n)
        /\ ~(n < i) => f[n] = SubSeq(s, 1, i - 1) \o SubSeq(s, i + 1, n)
    BY <1>5
  <2>4. CASE n + 1 < i
    <3>1. f[n] = SubSeq(s, 1, n)
      BY <1>3, <2>0, <2>1, <2>4
    <3>2. Append(SubSeq(s, 1, n), s[n + 1]) = SubSeq(s, 1, n + 1)
      BY <1>1, <1>3, <2>1, LongerSubSeq
    <3>3. f[n + 1] = SubSeq(s, 1, n + 1)
      BY <1>3, <2>1, <2>2, <2>3, <2>4, <3>1, <3>2
    <3> QED BY <2>1, <2>4, <3>3
  <2>5. CASE n + 1 = i
    <3>1. f[n] = SubSeq(s, 1, n)
      BY <1>3, <2>0, <2>1, <2>5
    <3>2. SubSeq(s, i + 1, n + 1) = <<>> /\ i - 1 = n /\ SubSeq(s, 1, n) \in Seq(Texts)
      BY <1>1, <1>3, <2>1, <2>5
    <3>3. rest(n + 1) = SubSeq(s, 1, n)
      BY <3>2, ConcatEmptySeq
    <3>4. f[n + 1] = rest(n + 1) /\ ~(n + 1 < i)
      BY <1>3, <2>1, <2>2, <2>3, <2>5, <3>1, <3>3
    <3> HIDE DEF rest
    <3> QED BY <2>1, <3>4
  <2>6. CASE n + 1 > i
    <3> DEFINE p == SubSeq(s, 1, i - 1)
               q == SubSeq(s, i + 1, n)
    <3>0. ~(n < i) /\ ~(n + 1 < i) /\ n + 1 # i
      BY <1>3, <2>1, <2>6
    <3>1. f[n] = p \o q
      BY <2>0, <3>0
    <3>2. Append(q, s[n + 1]) = SubSeq(s, i + 1, n + 1)
      <4>1. i + 1 \in 1 .. N /\ n \in (i + 1) - 1 .. N - 1
        BY <1>3, <2>1, <2>6
      <4> QED BY <1>1, <1>3, <4>1, LongerSubSeq
    <3>3. p \in Seq(Texts) /\ q \in Seq(Texts) /\ s[n + 1] \in Texts
      BY <1>1, <1>3, <2>1, <2>6
    <3> HIDE DEF p, q
    <3>4. Append(p \o q, s[n + 1]) = p \o Append(q, s[n + 1])
      BY <3>3
    <3>5. rest(n + 1) = p \o Append(q, s[n + 1])
      BY <3>2 DEF p
    <3> HIDE DEF rest
    <3>6. f[n + 1] = rest(n + 1) /\ ~(n + 1 < i)
      BY <2>2, <2>3, <3>0, <3>1, <3>4, <3>5
    <3> QED BY <2>1, <3>6
  <2> QED BY <1>3, <2>1, <2>4, <2>5, <2>6
<1> HIDE DEF S
<1>6. 0 .. N \subseteq S
  BY <1>3, <1>4, <1>5, InductionUpTo
<1>7. f[N] = rest(N)
  <2>1. N \in S /\ ~(N < i)
    BY <1>3, <1>6
  <2> HIDE DEF rest
  <2> QED BY <2>1 DEF S
<1> QED BY <1>2, <1>7 DEF RemoveAt, s

\* The others keep their order and are as good as they were.
LEMMA OthersOK ==
  ASSUME NEW l, ListOK(l), NEW i \in DOMAIN l.field
  PROVE  /\ RemoveAt(l.field, i) \in Seq(Texts)
         /\ ListOK(Showing(RemoveAt(l.field, i)))
<1> DEFINE s == l.field
           r == RemoveAt(s, i)
           at(j) == IF j < i THEN j ELSE j + 1
<1>1. s \in Seq(Texts)
  BY DEF ListOK, Lists
<1>2. i \in 1 .. Len(s) /\ Len(s) \in Nat /\ DOMAIN s = 1 .. Len(s)
  BY <1>1
<1>3. /\ r \in Seq(Texts) /\ Len(r) = Len(s) - 1
      /\ \A j \in 1 .. Len(s) - 1 : r[j] = s[at(j)]
  <2> DEFINE p == SubSeq(s, 1, i - 1)
             q == SubSeq(s, i + 1, Len(s))
  <2>1. /\ p \in Seq(Texts) /\ Len(p) = i - 1 /\ \A j \in 1 .. i - 1 : p[j] = s[j]
    BY <1>1, <1>2
  <2>2. /\ q \in Seq(Texts) /\ Len(q) = Len(s) - i
        /\ \A j \in 1 .. Len(s) - i : q[j] = s[i + j]
    BY <1>1, <1>2
  <2> HIDE DEF p, q, s
  <2>3. r = p \o q
    BY DEF RemoveAt, p, q
  <2> HIDE DEF r
  <2>6. /\ r \in Seq(Texts) /\ Len(r) = Len(p) + Len(q)
        /\ \A j \in 1 .. Len(p) + Len(q) : r[j] = IF j <= Len(p) THEN p[j] ELSE q[j - Len(p)]
    BY <2>1, <2>2, <2>3, ConcatProperties
  <2>4. /\ r \in Seq(Texts) /\ Len(r) = Len(s) - 1
        /\ \A j \in 1 .. i - 1 : r[j] = p[j]
        /\ \A j \in i .. Len(s) - 1 : r[j] = q[j - (i - 1)]
    BY <1>2, <2>1, <2>2, <2>6
  <2>5. ASSUME NEW j \in 1 .. Len(s) - 1
        PROVE  r[j] = s[at(j)]
    <3>1. CASE j < i
      BY <1>2, <2>1, <2>4, <3>1
    <3>2. CASE ~(j < i)
      <4>1. j \in i .. Len(s) - 1 /\ j - (i - 1) \in 1 .. Len(s) - i /\ i + (j - (i - 1)) = j + 1
        BY <1>2, <3>2
      <4> QED BY <2>2, <2>4, <3>2, <4>1
    <3> QED BY <3>1, <3>2
  <2> QED BY <2>4, <2>5
<1>4. /\ \A a, b \in 1 .. Len(s) : s[a] = s[b] => a = b
      /\ \A a \in 1 .. Len(s) : ValidateTag(s[a]) /\ Trim[s[a]] = s[a]
  BY <1>2 DEF ListOK, IsInjective, ToSet
<1> HIDE DEF r, s
<1>5. DOMAIN r = 1 .. Len(s) - 1 /\ \A j \in 1 .. Len(s) - 1 : at(j) \in 1 .. Len(s)
  BY <1>2, <1>3
<1>6. IsInjective(r)
  <2>1. ASSUME NEW a \in 1 .. Len(s) - 1, NEW b \in 1 .. Len(s) - 1, r[a] = r[b]
        PROVE  a = b
    <3>1. at(a) = at(b)
      BY <1>3, <1>4, <1>5, <2>1
    <3> QED BY <1>2, <3>1
  <2> QED BY <1>5, <2>1 DEF IsInjective
<1>7. \A tag \in ToSet(r) : ValidateTag(tag) /\ Trim[tag] = tag
  <2> HIDE DEF at
  <2> QED BY <1>3, <1>4, <1>5 DEF ToSet
<1> QED BY <1>3, <1>6, <1>7 DEF ListOK, Lists, Showing, r, s

\* A removed group goes from its place, and the others stay in theirs.
THEOREM RemoveTagRemovesOne ==
  ASSUME NEW l, ListOK(l), NEW i \in DOMAIN l.field
  PROVE  /\ RemoveTag(l, l.field[i]) = Showing(RemoveAt(l.field, i))
         /\ ListOK(RemoveTag(l, l.field[i]))
<1> DEFINE r == RemoveAt(l.field, i)
           texts == <<None>> \o r
<1>1. r \in Seq(Texts) /\ ListOK(Showing(r)) /\ Others(l, l.field[i]) = r
  BY OthersOK, OthersAre
<1> HIDE DEF r
<1>2. CASE r = <<>>
  BY <1>1, <1>2, ImportNothing DEF RemoveTag, NoTags, Showing, r
<1>3. CASE r # <<>>
  <2>1. /\ texts \in Seq(Texts) /\ Len(texts) = 1 + Len(r) /\ texts[1] = None
        /\ \A j \in 1 .. Len(r) : texts[1 + j] = r[j]
    BY <1>1, TextsType
  <2> HIDE DEF texts
  <2>2. AddTags(NoTags, texts) = Showing(r)
    BY <1>1, <2>1, AddedAgain
  <2>3. RemoveTag(l, l.field[i]) = AddTags(NoTags, texts)
    BY <1>1, <1>3 DEF RemoveTag, ImportTags, texts
  <2> QED BY <1>1, <2>2, <2>3 DEF r
<1> QED BY <1>2, <1>3

LEMMA RemoveNone == RemoveTag(NoTags, None) = NoTags
<1>1. PICK f : f[0] = <<>> /\ Others(NoTags, None) = f[Len(NoTags.field)]
  BY OthersLoop, NoTagsOK DEF ListOK, Removing
<1>2. Len(NoTags.field) = 0
  BY DEF NoTags
<1>3. Others(NoTags, None) = <<>>
  BY <1>1, <1>2
<1> QED BY <1>3, ImportNothing DEF RemoveTag
-----------------------------------------------------------------------------
\* Texts between commas are all shown, less the empty ones and those twice.
Split(groups) == \A group \in ToSet(groups) : Len(Pieces[Trim[group]]) = 1

THEOREM ImportShowsAll ==
  ASSUME NEW groups \in Seq(Texts), Split(groups)
  PROVE  ToSet(ImportTags(groups).spans) = ParseGroups(groups)
<1> DEFINE N == Len(groups)
           l == AddTags(NoTags, groups)
<1>1. /\ N \in Nat /\ DOMAIN groups = 1 .. N
      /\ \A k \in 1 .. N : groups[k] \in Texts /\ groups[k] \in ToSet(groups)
  BY DEF ToSet
<1>2. PICK f : Adding(f, NoTags, groups) /\ l = f[N]
  BY AddTagsLoop, NoTagsOK DEF ListOK
<1>3. \A k \in 0 .. N : ListOK(f[k])
  BY <1>2, LoopKeepsList, NoTagsOK
<1>4. ListOK(l) /\ Grown(NoTags, l, {Trim[text] : text \in ToSet(groups)})
  BY AddTagsGrow, NoTagsOK
<1> HIDE DEF l
<1>5. ToSet(l.spans) \subseteq ParseGroups(groups)
  <2>1. ToSet(l.spans) \subseteq {Trim[text] : text \in ToSet(groups)}
    BY <1>4, NoTagsOK DEF Grown
  <2>2. None \notin ToSet(l.spans)
    BY <1>4 DEF ListOK, ValidateTag
  <2> QED BY <2>1, <2>2 DEF ParseGroups
<1> DEFINE S == {n \in 0 .. N : \A k \in 1 .. n :
                   Trim[groups[k]] = None \/ Trim[groups[k]] \in ToSet(f[n].spans)}
<1>6. 0 \in S
  BY <1>1
<1>7. ASSUME NEW n \in 0 .. N - 1, n \in S
      PROVE  n + 1 \in S
  <2> DEFINE text == groups[n + 1]
  <2>1. /\ n + 1 \in 1 .. N /\ (n + 1) - 1 = n /\ n \in 0 .. N
        /\ text \in Texts /\ text \in ToSet(groups)
    BY <1>1
  <2>2. f[n + 1] = AddTag(f[n], text) /\ ListOK(f[n])
    BY <1>2, <1>3, <2>1 DEF Adding
  <2>3. f[n].spans \in Seq(Texts) /\ Trim[text] \in Texts
    BY <2>1, <2>2, TextsType DEF ListOK, Lists
  <2>4. Trim[text] = None \/ ValidateTag(Trim[text])
    BY <2>1 DEF Split, ValidateTag
  <2>5. ToSet(Append(f[n].spans, Trim[text])) = ToSet(f[n].spans) \cup {Trim[text]}
    BY <2>3, AppendSet
  <2>6. /\ ToSet(f[n].spans) \subseteq ToSet(f[n + 1].spans)
        /\ Trim[text] = None \/ Trim[text] \in ToSet(f[n + 1].spans)
    BY <2>1, <2>2, <2>4, <2>5, AddTagCases
  <2> HIDE DEF text
  <2>7. ASSUME NEW k \in 1 .. n + 1
        PROVE  Trim[groups[k]] = None \/ Trim[groups[k]] \in ToSet(f[n + 1].spans)
    <3>1. CASE k = n + 1
      BY <2>6, <3>1 DEF text
    <3>2. CASE k # n + 1
      <4>1. k \in 1 .. n
        BY <2>1, <3>2
      <4> QED BY <1>7, <2>6, <4>1
    <3> QED BY <3>1, <3>2
  <2> QED BY <1>1, <2>1, <2>7
<1> HIDE DEF S
<1>8. 0 .. N \subseteq S
  BY <1>1, <1>6, <1>7, InductionUpTo
<1>9. \A k \in 1 .. N : Trim[groups[k]] = None \/ Trim[groups[k]] \in ToSet(l.spans)
  <2>1. N \in S
    BY <1>1, <1>8
  <2> QED BY <1>2, <2>1 DEF S
<1>10. ParseGroups(groups) \subseteq ToSet(l.spans)
  BY <1>1, <1>9 DEF ParseGroups, ToSet
<1> QED BY <1>5, <1>10 DEF ImportTags, l
-----------------------------------------------------------------------------
\* What the field, the lists in the browser and on the server keep.
GroupsInv ==
  /\ ListOK(list)
  /\ dto.groups \in Seq(Texts) /\ Split(dto.groups)

\* TagsAsSeen, for a step on the page.
AsSeen ==
  list'.spans # list.spans =>
    \/ \E tag \in Expected : list'.spans = Append(list.spans, tag)
    \/ /\ IsPrefix(list.spans, list'.spans)
       /\ \E text \in Texts :
            ToSet(list'.spans) \ ToSet(list.spans) \subseteq ToSet(SplitIntoTags(text))
    \/ \E i \in DOMAIN list.spans : list'.spans = RemoveAt(list.spans, i)

LEMMA AddTagSeen ==
  ASSUME ListOK(list), NEW text \in Texts, Trim[text] \in Expected,
         list' = AddTag(list, text)
  PROVE  ListOK(list') /\ AsSeen
<1>1. ListOK(list')
  BY AddTagKeepsList
<1>2. list' = list \/ list'.spans = Append(list.spans, Trim[text])
  BY AddTagCases
<1> QED BY <1>1, <1>2 DEF AsSeen

LEMMA FieldSeen ==
  ASSUME ListOK(list), widget.value \in Texts, list' = AddTags(list, <<widget.value>>)
  PROVE  ListOK(list') /\ AsSeen
<1>1. list' = AddTag(list, widget.value)
  BY AddOne
<1>2. Trim[widget.value] \in Expected
  BY DEF Expected
<1> QED BY <1>1, <1>2, AddTagSeen

LEMMA GrownIsPrefix ==
  ASSUME NEW l, NEW m, NEW new, l.spans \in Seq(Texts), m.spans \in Seq(Texts),
         Grown(l, m, new)
  PROVE  IsPrefix(l.spans, m.spans)
<1> DEFINE s == l.spans
           t == m.spans
<1>1. /\ s \in Seq(Texts) /\ t \in Seq(Texts) /\ Len(s) <= Len(t)
      /\ \A i \in 1 .. Len(s) : t[i] = s[i]
  BY DEF Grown
<1> HIDE DEF s, t
<1>2. SubSeq(s, 1, Len(s)) = SubSeq(t, 1, Len(s))
  BY <1>1
<1> QED BY <1>1, <1>2 DEF IsPrefix, s, t

LEMMA PasteSeen ==
  ASSUME ListOK(list), NEW text \in Texts, list' = AddTags(list, SplitIntoTags(text))
  PROVE  ListOK(list') /\ AsSeen
<1> DEFINE texts == SplitIntoTags(text)
           new == {Trim[piece] : piece \in ToSet(texts)}
<1>1. texts \in Seq(Texts)
  BY TextsType DEF SplitIntoTags
<1>2. new \subseteq ToSet(SplitIntoTags(text))
  BY SqueezedPieces DEF SplitIntoTags
<1> HIDE DEF texts
<1>3. ListOK(list') /\ Grown(list, list', new)
  BY <1>1, AddTagsGrow DEF texts
<1> HIDE DEF new
<1>4. IsPrefix(list.spans, list'.spans)
  BY <1>3, GrownIsPrefix DEF ListOK, Lists
<1>5. ToSet(list'.spans) \ ToSet(list.spans) \subseteq ToSet(SplitIntoTags(text))
  BY <1>2, <1>3 DEF Grown
<1> QED BY <1>3, <1>4, <1>5 DEF AsSeen

LEMMA ItemSeen ==
  ASSUME ListOK(list), WidgetOK(widget), NEW clicked, TakeItem(clicked),
         widget.active # 0 \/ clicked \in DOMAIN widget.items
  PROVE  ListOK(list') /\ AsSeen
<1> DEFINE i == IF widget.active # 0 THEN widget.active ELSE clicked
<1>1. widget.items \in Seq(Texts) /\ i \in DOMAIN widget.items
  BY DEF WidgetOK, ClosedOK, Widget
<1>2. widget.items[i] \in Texts /\ Trim[widget.items[i]] \in Expected
  BY <1>1 DEF Expected
<1>3. list' = AddTag(list, widget.items[i])
  BY DEF TakeItem, SelectedItem
<1> QED BY <1>2, <1>3, AddTagSeen

LEMMA RemovalSeen ==
  ASSUME ListOK(list), NEW i \in DOMAIN list.spans,
         list' = RemoveTag(list, list.spans[i])
  PROVE  ListOK(list') /\ AsSeen
<1>1. list.spans = list.field
  BY DEF ListOK
<1>2. ListOK(list') /\ list' = Showing(RemoveAt(list.spans, i))
  BY <1>1, RemoveTagRemovesOne
<1> QED BY <1>2 DEF AsSeen, Showing

LEMMA KeySeen ==
  ASSUME ListOK(list), WidgetOK(widget), KeyStep
  PROVE  ListOK(list') /\ AsSeen
<1>1. widget.value \in Texts
  BY DEF WidgetOK, ClosedOK, Widget
<1>2. ASSUME list' = list
      PROVE  ListOK(list') /\ AsSeen
  BY <1>2 DEF AsSeen
<1>3. ASSUME NEW text \in Texts, Paste(text)
      PROVE  ListOK(list') /\ AsSeen
  BY <1>3, PasteSeen DEF Paste, AddFromField
<1>4. CASE PressDelimiter
  BY <1>1, <1>4, FieldSeen DEF PressDelimiter, AddFromField
<1>5. CASE PressEnter
  <2>1. CASE widget.active # 0
    BY <1>5, <2>1, ItemSeen DEF PressEnter
  <2>2. CASE widget.active = 0
    BY <1>1, <1>5, <2>2, FieldSeen DEF PressEnter, AddFromField
  <2> QED BY <2>1, <2>2
<1>6. CASE PressTab
  <2>1. CASE widget.active # 0
    BY <1>6, <2>1, ItemSeen DEF PressTab
  <2>2. CASE widget.active = 0
    BY <1>2, <1>6, <2>2 DEF PressTab
  <2> QED BY <2>1, <2>2
<1>7. CASE PressBackspace
  <2> DEFINE s == list.spans
  <2>1. s \in Seq(Texts) /\ list = Showing(s)
    BY ShowsItself DEF ListOK, Lists
  <2>2. CASE s = <<>>
    <3>1. list = NoTags /\ list' = RemoveTag(list, None)
      BY <1>7, <2>1, <2>2 DEF PressBackspace, NoTags, Showing
    <3> QED BY <1>2, <3>1, RemoveNone
  <2>3. CASE s # <<>>
    <3>1. Len(s) \in DOMAIN s
      BY <2>1, <2>3
    <3>2. list' = RemoveTag(list, list.spans[Len(s)])
      BY <1>7, <2>3 DEF PressBackspace, Last
    <3> QED BY <3>1, <3>2, RemovalSeen
  <2> QED BY <2>2, <2>3
<1>8. ASSUME \/ \E text \in Texts, byKey \in BOOLEAN : Edit(text, byKey)
             \/ \E kind \in {"key", "modified"}, unmarks \in BOOLEAN :
                  PressKey(kind, unmarks)
             \/ \E direction \in Directions : PressMove(direction)
             \/ PressEscape
      PROVE  ListOK(list') /\ AsSeen
  <2>1. list' = list
    BY <1>8 DEF Edit, PressKey, PressMove, PressEscape
  <2> QED BY <1>2, <2>1
<1> QED BY <1>3, <1>4, <1>5, <1>6, <1>7, <1>8 DEF KeyStep

LEMMA MouseSeen ==
  ASSUME ListOK(list), WidgetOK(widget), MouseStep
  PROVE  ListOK(list') /\ AsSeen
<1>1. ASSUME list' = list
      PROVE  ListOK(list') /\ AsSeen
  BY <1>1 DEF AsSeen
<1>2. ASSUME NEW tag \in Texts, ClickRemove(tag)
      PROVE  ListOK(list') /\ AsSeen
  <2>1. PICK i \in DOMAIN list.spans : tag = list.spans[i]
    BY <1>2 DEF ClickRemove, ToSet
  <2> QED BY <1>2, <2>1, RemovalSeen DEF ClickRemove
<1>3. ASSUME NEW item \in DOMAIN widget.items, ClickItem(item)
      PROVE  ListOK(list') /\ AsSeen
  BY <1>3, ItemSeen DEF ClickItem
<1>4. ASSUME \/ EnterField \/ LeaveField \/ MouseMove \/ MouseLeave
             \/ \E item \in DOMAIN widget.items : MouseEnter(item)
      PROVE  ListOK(list') /\ AsSeen
  <2>1. list' = list
    BY <1>4 DEF EnterField, LeaveField, MouseMove, MouseLeave, MouseEnter
  <2> QED BY <1>1, <2>1
<1> QED BY <1>2, <1>3, <1>4 DEF MouseStep

\* Loading and leaving the page: what both sides mean by a list.
LEMMA SubmittedGroups ==
  ASSUME ListOK(list)
  PROVE  /\ list.field \in Seq(Texts) /\ Split(list.field)
         /\ ParseGroups(list.field) = ToSet(list.spans)
<1>1. \A tag \in ToSet(list.field) : ValidateTag(tag) /\ Trim[tag] = tag
  BY DEF ListOK
<1>2. ToSet(list.field) = ToSet(list.spans) /\ list.field \in Seq(Texts)
  BY DEF ListOK, Lists
<1> QED BY <1>1, <1>2 DEF Split, ValidateTag, ParseGroups

LEMMA NewDtoOK == NewDto.groups \in Seq(Texts) /\ Split(NewDto.groups)
<1> DEFINE nothing == <<>>
<1>1. nothing \in Seq(Texts) /\ DOMAIN nothing = {}
  OBVIOUS
<1>2. NewDto = [public |-> FALSE, groups |-> nothing]
  BY DEF NewDto
<1> HIDE DEF nothing
<1> QED BY <1>1, <1>2 DEF Split, ToSet

LEMMA ImportOK ==
  ASSUME NEW groups \in Seq(Texts)
  PROVE  ListOK(ImportTags(groups))
BY AddTagsGrow, NoTagsOK DEF ImportTags

LEMMA OpenGroups ==
  ASSUME GroupsInv, OpenPublication
  PROVE  GroupsInv' /\ ToSet(list'.spans) = ParseGroups(dto.groups)
<1>1. list' = ImportTags(dto.groups) /\ dto' = NewDto
  BY DEF OpenPublication, Load
<1> QED BY <1>1, ImportOK, ImportShowsAll, NewDtoOK DEF GroupsInv

LEMMA SubmitGroups ==
  ASSUME GroupsInv, NEW event, Submit(event)
  PROVE  /\ GroupsInv'
         /\ page' = "away" => ParseGroups(dto'.groups) = ToSet(list.spans)
         /\ page' = "publication" => list' = list
         /\ page' \in {"away", "publication"}
<1>1. ListOK(list) /\ Bound.groups = list.field
  BY DEF GroupsInv, Bound
<1>2. CASE LeavePublication(Bound)
  BY <1>1, <1>2, SubmittedGroups, NoTagsOK DEF LeavePublication, GroupsInv
<1>3. CASE Load(Bound, NoParticipants(Bound))
  <2>1. list' = list /\ dto' = NewDto /\ page' = "publication"
    BY <1>1, <1>3, ImportedAgain DEF Load
  <2> QED BY <1>1, <2>1, NewDtoOK DEF GroupsInv
<1> QED BY <1>2, <1>3 DEF Submit

\* Only two steps replace the page: it is submitted, or opened.
LEMMA PageIsLeft ==
  ASSUME Next, page = "publication", page' = "away"
  PROVE  \E event : Submit(event)
BY DEF Next, PublicationNext, ScriptStep, OpenPublication, ToggleBox, KeyStep, MouseStep,
       TimerStep, EnterField, LeaveField, Edit, PressKey, Paste, PressDelimiter,
       PressEnter, PressTab, PressMove, PressEscape, PressBackspace, ClickRemove,
       MouseEnter, MouseMove, MouseLeave, ClickItem, AddFromField, TakeItem,
       SearchTimer, MenuTimer, SectionSettles, OpenSettings, LoadSettings,
       ChooseSingle, ChoosePriority, SubmitSettings, OpenVote, ToggleGroup, SubmitVote,
       OpenFolded, CollapseSection, CloseFolded, SectionsSettle

LEMMA PageIsOpened ==
  ASSUME Next, page = "away", page' = "publication"
  PROVE  OpenPublication
BY DEF Next, PublicationNext, ScriptStep, Submit, ToggleBox, KeyStep, MouseStep,
       TimerStep, EnterField, LeaveField, Edit, PressKey, Paste, PressDelimiter,
       PressEnter, PressTab, PressMove, PressEscape, PressBackspace, ClickRemove,
       FieldIsFocused, MouseEnter, MouseMove, MouseLeave, ClickItem, AddFromField,
       TakeItem, SearchTimer, MenuTimer, SectionSettles, OpenSettings, LoadSettings,
       ChooseSingle, ChoosePriority, SubmitSettings, OpenVote, ToggleGroup, SubmitVote,
       OpenFolded, CollapseSection, CloseFolded, SectionsSettle

\* Every step keeps the lists in order and changes them only as the user sees.
LEMMA StepSeen ==
  ASSUME WidgetOK(widget), GroupsInv, Next
  PROVE  /\ GroupsInv'
         /\ AsSeen \/ page # "publication" \/ page' # "publication" \/ list' = list
<1>1. ASSUME list' = list, dto' = dto
      PROVE  GroupsInv'
  BY <1>1 DEF GroupsInv
<1>2. CASE KeyStep \/ MouseStep
  <2>1. ListOK(list') /\ AsSeen
    BY <1>2, KeySeen, MouseSeen DEF GroupsInv
  <2>2. dto' = dto
    BY <1>2 DEF KeyStep, MouseStep, EnterField, LeaveField, Edit, PressKey, Paste,
                PressDelimiter, PressEnter, PressTab, PressMove, PressEscape,
                PressBackspace, ClickRemove, MouseEnter, MouseMove, MouseLeave,
                ClickItem, AddFromField, TakeItem
  <2> QED BY <2>1, <2>2 DEF GroupsInv
<1>3. CASE OpenPublication
  BY <1>3, OpenGroups DEF OpenPublication
<1>4. ASSUME NEW event, Submit(event)
      PROVE  /\ GroupsInv'
             /\ page' # "publication" \/ list' = list
  BY <1>4, SubmitGroups
<1>5. CASE ToggleBox \/ TimerStep
  <2>1. list' = list /\ dto' = dto
    BY <1>5 DEF ToggleBox, TimerStep, SearchTimer, MenuTimer, SectionSettles
  <2> QED BY <1>1, <2>1
<1>6. CASE ScriptStep /\ UNCHANGED <<widget, list, error, box, dto>>
  BY <1>1, <1>6
<1> QED BY <1>2, <1>3, <1>4, <1>5, <1>6 DEF Next, PublicationNext

LEMMA GroupsNext ==
  ASSUME WidgetOK(widget), GroupsInv, [Next]_vars
  PROVE  GroupsInv'
<1>1. CASE UNCHANGED vars
  BY <1>1 DEF vars, pageVars, GroupsInv
<1> QED BY <1>1, StepSeen
-----------------------------------------------------------------------------
PagesInv == FieldInv /\ BoxInv /\ ScriptInv /\ GroupsInv

LEMMA PagesInit == Init => PagesInv
<1> SUFFICES ASSUME Init
             PROVE  PagesInv
  OBVIOUS
<1>1. FieldInv
  BY NewWidgetOK DEF Init, PublicationInit, FieldInv, Pages
<1>2. BoxInv
  BY BoxOnLoadOK DEF Init, PublicationInit, BoxInv
<1>3. SettingsInv
  BY ClosedSettingsOK DEF Init, PublicationInit, SettingsInv
<1>4. ballot \in FormSelections
  BY DEF Init, NoSelection, FormSelections
<1>5. FoldedInv
  BY DEF Init, FoldedOnLoad, FoldedInv, Folded, Sections, OnItsWayIn
<1>6. GroupsInv
  <2>1. PICK groups \in Uploads \cup {<<>>} : dto = [NewDto EXCEPT !.groups = groups]
    BY DEF Init, PublicationInit
  <2>2. NewDto.groups = <<>> /\ dto.groups = groups
    BY <2>1 DEF NewDto
  <2>3. groups \in Seq(Texts) /\ Split(groups)
    BY <2>2, NewDtoOK, UploadsType, UploadsAreSplit DEF Split
  <2> QED BY <2>2, <2>3, NoTagsOK DEF Init, PublicationInit, GroupsInv
<1> QED BY <1>1, <1>2, <1>3, <1>4, <1>5, <1>6 DEF PagesInv, ScriptInv

LEMMA PagesNext == PagesInv /\ [Next]_vars => PagesInv'
<1> SUFFICES ASSUME PagesInv, [Next]_vars
             PROVE  PagesInv'
  OBVIOUS
<1>1. FieldInv' /\ BoxInv'
  BY FieldNext, BoxNext DEF PagesInv
<1>5. GroupsInv'
  BY GroupsNext DEF PagesInv, FieldInv
<1>2. CASE ScriptStep
  BY <1>1, <1>5, <1>2, SettingsNext, FoldedNext, BallotNext DEF PagesInv, ScriptInv
<1>3. CASE PublicationNext /\ UNCHANGED scriptVars
  <2>1. page' # "settings" \/ page' = page
    BY <1>3 DEF PublicationNext, OpenPublication, Submit, Load, LeavePublication,
                ToggleBox, KeyStep, MouseStep, TimerStep, EnterField, LeaveField, Edit,
                PressKey, Paste, PressDelimiter, PressEnter, PressTab, PressMove,
                PressEscape, PressBackspace, ClickRemove, MouseEnter, MouseMove,
                MouseLeave, ClickItem, AddFromField, TakeItem, SearchTimer, MenuTimer,
                SectionSettles
  <2> QED BY <1>1, <1>5, <1>3, <2>1 DEF PagesInv, ScriptInv, SettingsInv, FoldedInv, scriptVars
<1>4. CASE UNCHANGED vars
  BY <1>1, <1>5, <1>4 DEF vars, pageVars, scriptVars, PagesInv, ScriptInv, SettingsInv, FoldedInv
<1> QED BY <1>1, <1>2, <1>3, <1>4, <1>5 DEF Next, PagesInv

THEOREM PagesInvariant == Spec => []PagesInv
<1> QED BY PagesInit, PagesNext, PTL DEF Spec

\* Every variable of the pages keeps its type; on the voting form no entry is ever
\* ticked yes and maybe (toggleGroup), whichever boxes are changed.
THEOREM PagesTypeOK == Spec => []PageTypeOK
<1>1. PagesInv => PageTypeOK
  BY WidgetType DEF PagesInv, FieldInv, BoxInv, ScriptInv, SettingsInv, FoldedInv,
                    PageTypeOK
<1> QED BY <1>1, PagesInvariant, PTL

\* The menu of suggestions is never out of date, whatever is typed, pasted, taken
\* or left while searches are due and highlights deferred (autocomplete, menu).
THEOREM PagesMenuIsCurrent == Spec => []MenuIsCurrent
<1>1. PagesInv => MenuIsCurrent
  BY DEF PagesInv, FieldInv, WidgetOK, ClosedOK, MenuIsCurrent, FieldIsFocused
<1> QED BY <1>1, PagesInvariant, PTL

\* Sections agree with box, button and caret as long as each change has been
\* listened to, and the caret is wrong exactly after an odd number of clicks that
\* came too early (showGroups, showPriorities, collapseSection).
THEOREM PagesSectionsFollow == Spec => []SectionsFollow
<1>1. PagesInv => SectionsFollow
  BY DEF PagesInv, BoxInv, ScriptInv, SettingsInv, FoldedInv, SectionsFollow
<1> QED BY <1>1, PagesInvariant, PTL

\* The user sees what will be submitted, whatever is typed, pasted, taken and
\* removed: spans and hidden value hold the same groups in the same order, each
\* once, none blank and none that a comma takes apart (addTag, removeTag).
THEOREM PagesShownIsSubmitted == Spec => []ShownIsSubmitted
<1>1. PagesInv => ShownIsSubmitted
  BY DEF PagesInv, GroupsInv, ListOK, ShownIsSubmitted
<1> QED BY <1>1, PagesInvariant, PTL

\* A step on the page adds one group the user sees, or pieces of a pasted text
\* behind the others, or removes one in its place.
THEOREM PagesTagsAsSeen == Spec => TagsAsSeen
<1> DEFINE Step ==
      page = "publication" /\ list'.spans # list.spans =>
       \/ \E tag \in Expected : list'.spans = Append(list.spans, tag)
       \/ /\ IsPrefix(list.spans, list'.spans)
          /\ \E text \in Texts :
               ToSet(list'.spans) \ ToSet(list.spans) \subseteq ToSet(SplitIntoTags(text))
       \/ \E i \in DOMAIN list.spans : list'.spans = RemoveAt(list.spans, i)
       \/ page' # "publication"
<1>1. PagesInv /\ [Next]_vars => [Step]_vars
  <2> SUFFICES ASSUME PagesInv, Next
               PROVE  Step
    OBVIOUS
  <2>1. CASE AsSeen
    BY <2>1 DEF AsSeen
  <2>2. CASE page # "publication" \/ page' # "publication" \/ list' = list
    BY <2>2
  <2> QED BY <2>1, <2>2, StepSeen DEF PagesInv, FieldInv
<1> QED BY <1>1, PagesInvariant, PTL DEF Spec, TagsAsSeen

\* Page and server mean the same groups: what is submitted is parsed to the groups
\* shown, and a page opened or shown again shows the groups of the dto.
THEOREM PagesGroupsSurvive == Spec => GroupsSurvive
<1> DEFINE Step ==
      /\ page = "publication" /\ page' = "away" =>
           ParseGroups(dto'.groups) = ToSet(list.spans)
      /\ page = "away" /\ page' = "publication" =>
           ToSet(list'.spans) = ParseGroups(dto.groups)
      /\ Submit("confirmation") /\ page' = "publication" =>
           list'.spans = list.spans
<1>1. PagesInv /\ [Next]_vars => [Step]_vars
  <2> SUFFICES ASSUME PagesInv, Next
               PROVE  Step
    OBVIOUS
  <2>1. GroupsInv
    BY DEF PagesInv
  <2>2. ASSUME page = "publication", page' = "away"
        PROVE  ParseGroups(dto'.groups) = ToSet(list.spans)
    BY <2>1, <2>2, PageIsLeft, SubmitGroups
  <2>3. ASSUME page = "away", page' = "publication"
        PROVE  ToSet(list'.spans) = ParseGroups(dto.groups)
    BY <2>1, <2>3, PageIsOpened, OpenGroups
  <2>4. ASSUME Submit("confirmation"), page' = "publication"
        PROVE  list'.spans = list.spans
    BY <2>1, <2>4, SubmitGroups
  <2> QED BY <2>2, <2>3, <2>4
<1> QED BY <1>1, PagesInvariant, PTL DEF Spec, GroupsSurvive
=============================================================================
