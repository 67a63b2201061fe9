---------------------------- MODULE Locators_proofs ----------------------------
(***************************************************************************)
(* For any pages, captions and values: a target anchored on the input's     *)
(* value is found in a row of the caller's value or not at all; on the page *)
(* of the discovery an element is found again as itself; and on any page    *)
(* what the first locator finds is what was recorded, and the only one that *)
(* is.  The chain is a concatenation of optional locators; ChainForm is     *)
(* what the proofs need to know of it: its first locator, its last, and     *)
(* that the element of the discovery is matched by all of them.  CalledForm *)
(* is what templating and substitution make of a text, value by value.      *)
(***************************************************************************)
EXTENDS Locators, SequenceTheorems, TLAPS

\* What stands in the way of RowIsTheCallers being inductive: the target bound at the
\* beginning is kept, and the element found is one that a locator of it matched on the
\* page as it still is, and the only one it matches by the very name.
Matched ==
  /\ rank \in 1 .. Len(chain)
  /\ \E exact \in BOOLEAN : found \in Matches(page, chain[rank], exact)
  /\ \A e \in Matches(page, chain[rank], TRUE) : e = found

FoundByChain ==
  /\ chain = BoundChain(origin, element, example, value)
  /\ rank \in Nat \ {0}
  /\ state = "found" => Matched

\* A locator that only matches within a row of the text.
InRowOf(b, text) == b.by \in {"cell", "in row"} /\ b.text = text

LEMMA AcceptedMatches ==
  ASSUME NEW p, NEW locator, NEW e \in Accepted(p, locator)
  PROVE  /\ \E exact \in BOOLEAN : e \in Matches(p, locator, exact)
         /\ \A f \in Matches(p, locator, TRUE) : f = e
<1> DEFINE exactly == Matches(p, locator, TRUE)
           loosely == Matches(p, locator, FALSE)
<1>1. exactly \subseteq loosely
  BY DEF Matches, Match, Reads
<1>2. Matches(p, locator, pass = 1) = IF pass = 1 THEN exactly ELSE loosely
  <2>1. CASE pass = 1
    <3>1. (pass = 1) = TRUE
      BY <2>1
    <3> QED BY <2>1, <3>1
  <2>2. CASE pass # 1
    <3>1. (pass = 1) = FALSE
      BY <2>2
    <3> QED BY <2>2, <3>1
  <2> QED BY <2>1, <2>2
<1>3. e \in OnlyOne(loosely) \/ e \in OnlyOne(exactly)
  BY <1>2 DEF Accepted
<1> HIDE DEF exactly, loosely
<1>4. ASSUME NEW S, e \in OnlyOne(S) PROVE S = {e}
  BY <1>4 DEF OnlyOne
<1>5. loosely = {e} \/ exactly = {e}
  BY <1>3, <1>4
<1>6. (e \in loosely \/ e \in exactly) /\ \A f \in exactly : f = e
  BY <1>1, <1>5
<1> QED BY <1>6 DEF exactly, loosely

LEMMA OneFragment ==
  ASSUME NEW v, NEW w
  PROVE  Substitute(Template(<<v>>, v), w) = <<w>>
<1>1. Template(<<v>>, v) = <<Param>>
  BY DEF Template, ReplaceAll
<1>2. ReplaceAll(<<Param>>, Param, w) = <<w>>
  BY DEF ReplaceAll
<1> QED BY <1>1, <1>2 DEF Substitute

\* An anchored target has one locator: the row that shows the value of the call.
LEMMA AnchoredChain ==
  ASSUME NEW p, NEW e, NEW v, NEW w, Anchored(p, e, v)
  PROVE  \E b : BoundChain(p, e, v, w) = <<b>> /\ InRowOf(b, <<w>>)
<1>1. PICK l : /\ Reanchored(p, e, v) = <<l>>
               /\ l.by \in {"cell", "in row"} /\ l.text = <<v>>
  <2>1. CASE e[2] = 0
    <3>1. Reanchored(p, e, v) = <<InRow(<<v>>, p[e[1]].control)>>
      BY <2>1 DEF Reanchored
    <3>2. /\ InRow(<<v>>, p[e[1]].control).by \in {"cell", "in row"}
          /\ InRow(<<v>>, p[e[1]].control).text = <<v>>
      BY DEF InRow, Locator
    <3> QED BY <3>1, <3>2
  <2>2. CASE e[2] # 0
    <3>1. Reanchored(p, e, v) = <<Cell(<<v>>, e[2])>>
      BY <2>2 DEF Reanchored
    <3>2. Cell(<<v>>, e[2]).by \in {"cell", "in row"} /\ Cell(<<v>>, e[2]).text = <<v>>
      BY DEF Cell, Locator
    <3> QED BY <3>1, <3>2
  <2> QED BY <2>1, <2>2
<1>2. BoundChain(p, e, v, w) = <<Bound(l, v, w)>>
  <2>1. DOMAIN Reanchored(p, e, v) = {1} /\ Reanchored(p, e, v)[1] = l
    <3>1. DOMAIN <<l>> = {1} /\ <<l>>[1] = l
      OBVIOUS
    <3> QED BY <1>1, <3>1
  <2>2. BoundChain(p, e, v, w) = [k \in {1} |-> Bound(l, v, w)]
    BY <2>1 DEF BoundChain
  <2> QED BY <2>2
<1>3. Bound(l, v, w).by = l.by /\ Bound(l, v, w).text = Substitute(Template(l.text, v), w)
  BY DEF Bound, Locator
<1>4. InRowOf(Bound(l, v, w), <<w>>)
  BY <1>1, <1>3, OneFragment DEF InRowOf
<1> QED BY <1>2, <1>4

LEMMA FoundStays == FoundByChain /\ [Next]_vars => FoundByChain'
<1> SUFFICES ASSUME FoundByChain, [Next]_vars PROVE FoundByChain'
  OBVIOUS
<1> USE DEF FoundByChain
<1>1. (chain = BoundChain(origin, element, example, value))'
  <2>1. UNCHANGED <<recorded, call>>
    BY DEF Next, Resolve, Try, Done, Settle, GiveUp, PageMoves, Terminated, vars
  <2> QED BY <2>1 DEF recorded, call
<1>2. rank' \in Nat \ {0}
  BY DEF Next, Resolve, Try, Done, Settle, GiveUp, PageMoves, Terminated, vars
<1>3. ASSUME state' = "found" PROVE Matched'
  <2>1. CASE state = "found"
    <3>1. UNCHANGED <<chain, page, found, rank>>
      BY <2>1, <1>3 DEF Next, Resolve, Try, Done, Settle, GiveUp, PageMoves, Terminated, vars, call
    <3> QED BY <2>1, <3>1 DEF Matched
  <2>2. CASE state # "found"
    <3>1. Try
      BY <2>2, <1>3 DEF Next, Resolve, Done, Settle, GiveUp, PageMoves, Terminated, vars
    <3>2. UNCHANGED <<chain, page, rank>> /\ rank <= Len(chain)
      BY <3>1, <2>2, <1>3 DEF Try, Done, call
    <3>3. found' \in Accepted(page, chain[rank])
      BY <3>1, <2>2, <1>3 DEF Try
    <3>4. /\ \E exact \in BOOLEAN : found' \in Matches(page, chain[rank], exact)
          /\ \A e \in Matches(page, chain[rank], TRUE) : e = found'
      BY <3>3, AcceptedMatches
    <3>5. rank \in 1 .. Len(chain)
      BY <3>2
    <3> QED BY <3>2, <3>4, <3>5 DEF Matched
  <2> QED BY <2>1, <2>2
<1> QED BY <1>1, <1>2, <1>3

\* RowIsTheCallers: whatever the page of the call is and however it moves, a target
\* anchored on the input is found in a row that shows the caller's value or nowhere.
THEOREM RowKept == Spec => []RowIsTheCallers
<1>1. Init => FoundByChain
  BY DEF Init, FoundByChain
<1>2. FoundByChain /\ [Next]_vars => FoundByChain'
  BY FoundStays
<1>3. FoundByChain => RowIsTheCallers
  <2> SUFFICES ASSUME FoundByChain, state = "found", Anchored(origin, element, example)
               PROVE  Shows(page[found[1]], <<value>>)
    BY DEF RowIsTheCallers
  <2>1. PICK exact \in BOOLEAN : found \in Matches(page, chain[rank], exact)
    BY DEF FoundByChain, Matched
  <2>2. PICK b : BoundChain(origin, element, example, value) = <<b>> /\ InRowOf(b, <<value>>)
    BY AnchoredChain
  <2>3. chain[rank] = b
    <3>1. chain = <<b>>
      BY <2>2 DEF FoundByChain
    <3>2. Len(<<b>>) = 1 /\ <<b>>[1] = b
      OBVIOUS
    <3>3. rank = 1
      BY <3>1, <3>2 DEF FoundByChain, Matched
    <3> QED BY <3>1, <3>2, <3>3
  <2>4. Match(page, b, found, exact)
    BY <2>1, <2>3 DEF Matches
  <2> QED BY <2>2, <2>4 DEF Match, InRowOf
<1> QED BY <1>1, <1>2, <1>3, PTL DEF Spec

--------------------------------------------------------------------------------
(* Texts: what templating and substitution make of them.                        *)

\* The text after is the text before with new wherever old stood.
Changes(before, after, old, new) ==
  /\ Len(after) = Len(before) /\ Len(before) \in Nat /\ DOMAIN before = 1 .. Len(before)
  /\ \A i \in 1 .. Len(before) : after[i] = IF before[i] = old THEN new ELSE before[i]

LEMMA Replaced ==
  ASSUME NEW S, NEW text \in Seq(S), NEW old, NEW new
  PROVE  /\ ReplaceAll(text, old, new) \in Seq(S \cup {new})
         /\ Changes(text, ReplaceAll(text, old, new), old, new)
<1> DEFINE new2 == ReplaceAll(text, old, new)
           n == Len(text)
<1>1. n \in Nat /\ \A i \in 1 .. n : text[i] \in S
  BY ElementOfSeq
<1>2. new2 = [i \in 1 .. n |-> IF text[i] = old THEN new ELSE text[i]]
  BY DEF ReplaceAll
<1> HIDE DEF n, new2
<1>3. new2 \in [1 .. n -> S \cup {new}]
  BY <1>1, <1>2
<1>4. new2 \in Seq(S \cup {new})
  BY <1>1, <1>3, SeqDef
<1>5. Len(new2) = n
  BY <1>1, <1>3, <1>4, LenProperties
<1>6. DOMAIN text = 1 .. n
  BY DEF n
<1> QED BY <1>1, <1>2, <1>4, <1>5, <1>6 DEF n, new2, Changes

\* The value of the discovery is replaced by that of the call, and a placeholder is
\* only left where it is Param that was put in.
LEMMA CalledForm ==
  ASSUME NEW text \in Seq(Fragments), NEW v \in Values, NEW w \in Values \cup {Param}
  PROVE  LET called == Substitute(Template(text, v), w) IN
         /\ called = ReplaceAll(text, v, w)
         /\ called \in Bindable
         /\ Param \in Range(called) => w = Param
         /\ w = v => called = text
         /\ text # NoText <=> called # NoText
<1> DEFINE template == Template(text, v)
           called == Substitute(template, w)
           direct == ReplaceAll(text, v, w)
           S == Fragments \cup {Param}
           n == Len(text)
<1>1. v \in Fragments /\ w \in S /\ Param \notin Fragments
  BY LocatorAssumptions
<1>2. template \in Seq(S) /\ Changes(text, template, v, Param)
  BY Replaced DEF Template
<1>3. direct \in Seq(Fragments \cup {w}) /\ Changes(text, direct, v, w)
  BY Replaced
<1> HIDE DEF template, direct
<1>4. called \in Seq(S \cup {w}) /\ Changes(template, called, Param, w)
  BY Replaced, <1>2 DEF Substitute
<1> HIDE DEF called, n
<1>5. n = Len(text) /\ \A i \in 1 .. Len(text) : text[i] \in Fragments
  BY ElementOfSeq DEF n
<1>6. /\ template \in Seq(S) /\ Len(template) = n
      /\ n \in Nat /\ DOMAIN text = 1 .. n
      /\ \A i \in 1 .. n : /\ text[i] \in Fragments
                           /\ template[i] = IF text[i] = v THEN Param ELSE text[i]
  BY <1>2, <1>5 DEF Changes
<1>7. /\ direct \in Seq(Fragments \cup {w}) /\ Len(direct) = n
      /\ \A i \in 1 .. n : direct[i] = IF text[i] = v THEN w ELSE text[i]
  BY <1>3, <1>5 DEF Changes
<1>8. /\ called \in Seq(S \cup {w}) /\ Len(called) = n
      /\ \A i \in 1 .. n : called[i] = IF template[i] = Param THEN w ELSE template[i]
  BY <1>4, <1>6 DEF Changes
<1>9. S \cup {w} = S
  BY <1>1
<1>10. called \in Seq(S)
  BY <1>8, <1>9
<1>11. DOMAIN called = 1 .. n /\ DOMAIN direct = 1 .. n
  BY <1>6, <1>7, <1>8, LenProperties
<1>12. \A i \in 1 .. n : called[i] = direct[i]
  BY <1>1, <1>6, <1>7, <1>8
<1>13. called = direct
  BY <1>7, <1>8, <1>11, <1>12, SeqEqual
<1>14. ASSUME Param \in Range(called) PROVE w = Param
  <2>1. PICK i \in 1 .. n : called[i] = Param
    BY <1>11, <1>14 DEF Range
  <2> QED BY <1>1, <1>6, <1>7, <1>13, <2>1
<1>15. ASSUME w = v PROVE called = text
  <2>1. \A i \in 1 .. n : called[i] = text[i]
    BY <1>7, <1>12, <1>15
  <2> QED BY <1>6, <1>8, <2>1, SeqEqual DEF n
<1>16. text # NoText <=> called # NoText
  <2>1. text = NoText <=> n = 0
    BY EmptySeq DEF NoText, n
  <2>2. called = NoText <=> n = 0
    BY <1>8, EmptySeq DEF NoText
  <2> QED BY <2>1, <2>2
<1>17. called \in Bindable
  BY <1>10 DEF Bindable
<1> QED BY <1>13, <1>14, <1>15, <1>16, <1>17 DEF called, direct, template

LEMMA LabelForm ==
  ASSUME NEW text \in Texts
  PROVE  Label(text) \in Seq(Fragments) /\ Label(text) # NoText /\ text \in Seq(Fragments)
<1>1. text \in Seq(Fragments) /\ Label(text) # NoText
  BY DEF Texts
<1>2. CASE text # NoText
  <2>1. Len(text) \in Nat \ {0}
    BY <1>1, <1>2, EmptySeq DEF NoText
  <2>2. Front(text) \in Seq(Fragments)
    <3>1. \A i \in 1 .. Len(text) - 1 : text[i] \in Fragments
      BY <1>1, <2>1, ElementOfSeq
    <3> QED BY <1>1, <2>1, <3>1, SubSeqProperties DEF Front
  <2> QED BY <1>1, <2>2 DEF Label
<1> QED BY <1>1, <1>2 DEF Label

LEMMA TextForm ==
  ASSUME NEW text \in Texts \cup {NoText}
  PROVE  text \in Seq(Fragments) /\ (text \in Texts => text # NoText)
<1>1. NoText \in Seq(Fragments)
  BY EmptySeq DEF NoText
<1>2. Label(NoText) = NoText
  BY DEF Label
<1> QED BY <1>1, <1>2 DEF Texts

--------------------------------------------------------------------------------
(* The chain.  Every locator of it is typed, and one that the element of the    *)
(* discovery is matched by.                                                     *)

Ways == {"cell", "path", "in row", "role", "attr", "id", "text"}
Recordable ==
  [by : Ways, kind : Kinds \cup {"none"}, text : Seq(Fragments), name : Seq(Fragments),
   row : Seq(Fragments), col : Seq(Fragments)]
Suited(p, e) ==
  {l \in Recordable : HasColon(p[e[1]], e[2]) \/ \A exact \in BOOLEAN : Match(p, l, e, exact)}

FirstLocator(p, e) ==
  LET control == p[e[1]].control
  IN IF e[2] > 1 THEN CellNextTo(p[e[1]], e[2])
     ELSE IF e[2] = 0 /\ control.name # NoText THEN Role(control)
     ELSE IF e[2] = 0 /\ control.attr # NoText THEN By("attr", control.attr, control)
     ELSE IF e[2] = 0 /\ control.id # NoText THEN By("id", control.id, control)
     ELSE Path(p, e)

LEMMA NumeralForm ==
  ASSUME NEW i \in DOMAIN Numeral
  PROVE  Numeral[i] \in Seq(Fragments) /\ Numeral[i] # NoText /\ Numeral[i] \in Texts
<1>1. Numeral[i] \in Texts
  BY LocatorAssumptions
<1> QED BY <1>1, TextForm

LEMMA RowForm ==
  ASSUME NEW p \in Pages, NEW i \in 1 .. Len(p)
  PROVE  LET row == p[i] IN
         /\ i \in DOMAIN Numeral
         /\ row \in Rows /\ row.cells \in Seq(Texts) /\ Len(row.cells) \in Nat
         /\ row.control \in Controls \cup {NoControl}
         /\ Tds(row) \in 0 .. Width /\ Len(row.cells) <= Tds(row)
         /\ row.control # NoControl => Tds(row) > 0
         /\ row.control.kind \in Captioned => row.control.name # NoText
<1> DEFINE row == p[i]
<1>1. p \in Seq(Rows) /\ i \in DOMAIN Numeral /\ Width \in Nat /\ Tds(row) <= Width
      /\ (row.control.kind \in Captioned => row.control.name # NoText)
  BY LocatorAssumptions
<1>2. row \in Rows
  BY <1>1, ElementOfSeq
<1>3. row.cells \in Seq(Texts) /\ row.control \in Controls \cup {NoControl}
  BY <1>2 DEF Rows
<1>4. Len(row.cells) \in Nat
  BY <1>3
<1> HIDE DEF row
<1>5. /\ Tds(row) \in Nat /\ Len(row.cells) <= Tds(row)
      /\ row.control # NoControl => Tds(row) > 0
  <2>1. CASE row.control = NoControl
    <3>1. Tds(row) = Len(row.cells) + 0
      BY <2>1 DEF Tds
    <3> QED BY <1>4, <2>1, <3>1
  <2>2. CASE row.control # NoControl
    <3>1. Tds(row) = Len(row.cells) + 1
      BY <2>2 DEF Tds
    <3> QED BY <1>4, <3>1
  <2> QED BY <2>1, <2>2
<1>6. Tds(row) \in 0 .. Width
  BY <1>1, <1>5
<1> QED BY <1>1, <1>2, <1>3, <1>4, <1>5, <1>6 DEF row

LEMMA PlaceForm ==
  ASSUME NEW p \in Pages, NEW e \in Places(p)
  PROVE  LET row == p[e[1]] IN
         /\ e \in (1 .. Len(p)) \X (0 .. Width)
         /\ e[1] \in 1 .. Len(p) /\ e[1] \in DOMAIN Numeral
         /\ e[2] \in 0 .. Width /\ e[2] \in Nat /\ e[2] <= Tds(row)
         /\ e[2] = 0 => row.control \in Controls
         /\ TdOf(row, e[2]) \in 1 .. Width /\ TdOf(row, e[2]) \in DOMAIN Numeral
         /\ TdOf(row, e[2]) <= Tds(row)
<1> DEFINE row == p[e[1]]
<1>1. /\ e \in (1 .. Len(p)) \X (0 .. Width)
      /\ IF e[2] = 0 THEN row.control # NoControl ELSE e[2] <= Tds(row)
  BY DEF Places
<1>2. e[1] \in 1 .. Len(p) /\ e[2] \in 0 .. Width
  BY <1>1
<1>3. /\ e[1] \in DOMAIN Numeral /\ row.control \in Controls \cup {NoControl}
      /\ Tds(row) \in 0 .. Width /\ (row.control # NoControl => Tds(row) > 0)
  BY <1>2, RowForm
<1>4. Width \in Nat /\ 1 .. Width \subseteq DOMAIN Numeral
  BY LocatorAssumptions
<1> HIDE DEF row
<1>5. /\ e[2] \in Nat /\ e[2] <= Tds(row)
      /\ TdOf(row, e[2]) \in 1 .. Width /\ TdOf(row, e[2]) <= Tds(row)
  BY <1>1, <1>2, <1>3, <1>4 DEF TdOf
<1> QED BY <1>1, <1>2, <1>3, <1>4, <1>5 DEF row

LEMMA ElementForm ==
  ASSUME NEW p \in Pages, NEW e \in Elements(p)
  PROVE  LET row == p[e[1]] IN
         /\ e \in Places(p)
         /\ e[2] # 0 => e[2] <= Len(row.cells)
         /\ e[2] > 1 => row.cells[e[2] - 1] \in Texts /\ Shows(row, row.cells[e[2] - 1])
<1> DEFINE row == p[e[1]]
<1>1. e \in Places(p) /\ (e[2] # 0 => e[2] <= Len(row.cells))
  BY DEF Elements
<1>2. e[1] \in 1 .. Len(p) /\ e[2] \in Nat
  BY <1>1, PlaceForm
<1>3. row.cells \in Seq(Texts) /\ Len(row.cells) \in Nat
  BY <1>2, RowForm
<1> HIDE DEF row
<1>4. ASSUME e[2] > 1 PROVE row.cells[e[2] - 1] \in Texts /\ Shows(row, row.cells[e[2] - 1])
  <2>1. e[2] - 1 \in 1 .. Len(row.cells)
    BY <1>1, <1>2, <1>3, <1>4
  <2> QED BY <1>3, <2>1, ElementOfSeq DEF Shows
<1> QED BY <1>1, <1>4 DEF row

\* A control's texts.
LEMMA ControlForm ==
  ASSUME NEW control \in Controls
  PROVE  /\ control.kind \in Kinds /\ control.kind # "none"
         /\ control.name \in Seq(Fragments) /\ control.attr \in Seq(Fragments)
         /\ control.id \in Seq(Fragments)
<1>1. /\ control.kind \in Kinds /\ control.name \in Texts \cup {NoText}
      /\ control.attr \in Texts \cup {NoText} /\ control.id \in Texts \cup {NoText}
  BY DEF Controls
<1> QED BY <1>1, TextForm DEF Kinds

LEMMA PathForm ==
  ASSUME NEW p \in Pages, NEW e \in Places(p)
  PROVE  LET row == p[e[1]]
             tag == IF e[2] = 0 THEN row.control.kind ELSE "none"
             byId == e[2] = 0 /\ row.control.id # NoText
         IN /\ Path(p, e).by = "path" /\ Path(p, e).kind = tag /\ Path(p, e).name = NoText
            /\ Path(p, e).text = IF byId THEN row.control.id ELSE NoText
            /\ Path(p, e).row = IF ~byId /\ Len(p) > 1 THEN Numeral[e[1]] ELSE NoText
            /\ Path(p, e).col = IF ~byId /\ Tds(row) > 1 THEN Numeral[TdOf(row, e[2])] ELSE NoText
            /\ Path(p, e) \in Recordable
<1> DEFINE row == p[e[1]]
           control == row.control
           tag == IF e[2] = 0 THEN control.kind ELSE "none"
           byId == e[2] = 0 /\ control.id # NoText
           text == IF byId THEN control.id ELSE NoText
           r == IF ~byId /\ Len(p) > 1 THEN Numeral[e[1]] ELSE NoText
           c == IF ~byId /\ Tds(row) > 1 THEN Numeral[TdOf(row, e[2])] ELSE NoText
<1>1. Path(p, e) = [by |-> "path", kind |-> tag, text |-> text, name |-> NoText, row |-> r, col |-> c]
  <2>1. CASE byId
    BY <2>1 DEF Path, Locator
  <2>2. CASE ~byId
    BY <2>2 DEF Path, Locator
  <2> QED BY <2>1, <2>2
<1>2. e[1] \in DOMAIN Numeral /\ TdOf(row, e[2]) \in DOMAIN Numeral /\ (e[2] = 0 => control \in Controls)
  BY PlaceForm
<1>3. NoText \in Seq(Fragments)
  BY EmptySeq DEF NoText
<1>4. text \in Seq(Fragments) /\ r \in Seq(Fragments) /\ c \in Seq(Fragments) /\ tag \in Kinds \cup {"none"}
  BY <1>2, <1>3, NumeralForm, ControlForm
<1>5. "path" \in Ways
  BY DEF Ways
<1> HIDE DEF text, r, c, tag
<1>6. Path(p, e) \in Recordable
  BY <1>1, <1>3, <1>4, <1>5 DEF Recordable
<1>7. /\ Path(p, e).by = "path" /\ Path(p, e).kind = tag /\ Path(p, e).name = NoText
      /\ Path(p, e).text = text /\ Path(p, e).row = r /\ Path(p, e).col = c
  BY <1>1
<1> QED BY <1>6, <1>7 DEF text, r, c, tag

LEMMA PathSuits ==
  ASSUME NEW p \in Pages, NEW e \in Places(p)
  PROVE  /\ Path(p, e) \in Suited(p, e)
         /\ \A exact \in BOOLEAN : Matches(p, Path(p, e), exact) \subseteq {e}
<1> DEFINE row == p[e[1]]
           control == row.control
           l == Path(p, e)
           byId == e[2] = 0 /\ control.id # NoText
<1>1. /\ l.by = "path" /\ l.kind = (IF e[2] = 0 THEN control.kind ELSE "none")
      /\ l.text = (IF byId THEN control.id ELSE NoText)
      /\ l.row = (IF ~byId /\ Len(p) > 1 THEN Numeral[e[1]] ELSE NoText)
      /\ l.col = (IF ~byId /\ Tds(row) > 1 THEN Numeral[TdOf(row, e[2])] ELSE NoText)
      /\ l \in Recordable
  BY PathForm
<1>2. /\ e \in (1 .. Len(p)) \X (0 .. Width) /\ e[1] \in 1 .. Len(p) /\ e[2] \in Nat
      /\ e[1] \in DOMAIN Numeral /\ TdOf(row, e[2]) \in DOMAIN Numeral /\ e[2] <= Tds(row)
      /\ (e[2] = 0 => control \in Controls)
  BY PlaceForm
<1>3. e[2] = 0 => control.kind # "none"
  BY <1>2, ControlForm
<1> HIDE DEF l
<1>4. ASSUME NEW exact \in BOOLEAN PROVE Match(p, l, e, exact)
  <2>1. CASE byId
    BY <1>1, <2>1 DEF Match
  <2>2. CASE ~byId
    BY <1>1, <1>3, <2>2 DEF Match
  <2> QED BY <2>1, <2>2
<1>5. ASSUME NEW exact \in BOOLEAN, NEW f \in Matches(p, l, exact)
      PROVE  f = e
  <2>1. Match(p, l, f, exact) /\ f \in Places(p)
    BY <1>5 DEF Matches
  <2>2. /\ f \in (1 .. Len(p)) \X (0 .. Width) /\ f[1] \in 1 .. Len(p) /\ f[2] \in Nat
        /\ f[1] \in DOMAIN Numeral /\ TdOf(p[f[1]], f[2]) \in DOMAIN Numeral
        /\ f[2] <= Tds(p[f[1]])
    BY <2>1, PlaceForm
  <2>3. CASE byId
    <3>1. f[2] = 0 /\ p[f[1]].control.id = control.id
      BY <1>1, <2>1, <2>3 DEF Match
    <3>2. f[1] = e[1]
      BY <1>2, <2>2, <2>3, <3>1, LocatorAssumptions
    <3> QED BY <1>2, <2>2, <2>3, <3>1, <3>2
  <2>4. CASE ~byId
    <3>1. /\ IF e[2] = 0 THEN f[2] = 0 ELSE f[2] # 0
          /\ l.row \in {NoText, Numeral[f[1]]} /\ l.col \in {NoText, Numeral[TdOf(p[f[1]], f[2])]}
      BY <1>1, <1>3, <2>1, <2>4 DEF Match
    <3>2. f[1] = e[1]
      <4>1. CASE Len(p) > 1
        <5>1. Numeral[e[1]] = Numeral[f[1]]
          BY <1>1, <1>2, <2>4, <3>1, <4>1, NumeralForm
        <5> QED BY <1>2, <2>2, <5>1, LocatorAssumptions
      <4>2. CASE ~(Len(p) > 1)
        <5>1. Len(p) \in Nat
          BY LocatorAssumptions, LenProperties
        <5> QED BY <1>2, <2>2, <4>2, <5>1
      <4> QED BY <4>1, <4>2
    <3>3. f[2] = e[2]
      <4>1. CASE e[2] = 0
        BY <3>1, <4>1
      <4>2. CASE e[2] # 0 /\ Tds(row) > 1
        <5>1. TdOf(row, e[2]) = e[2] /\ TdOf(p[f[1]], f[2]) = f[2]
          BY <3>1, <4>2 DEF TdOf
        <5>2. Numeral[e[2]] = Numeral[f[2]]
          BY <1>1, <1>2, <2>4, <3>1, <4>2, <5>1, NumeralForm
        <5> QED BY <1>2, <2>2, <5>1, <5>2, LocatorAssumptions
      <4>3. CASE e[2] # 0 /\ ~(Tds(row) > 1)
        <5>1. Tds(row) \in Nat
          BY <1>2, RowForm
        <5>2. f[2] <= Tds(row)
          BY <2>2, <3>2
        <5> HIDE DEF row
        <5> QED BY <1>2, <2>2, <3>1, <4>3, <5>1, <5>2
      <4> QED BY <4>1, <4>2, <4>3
    <3> QED BY <1>2, <2>2, <3>2, <3>3
  <2> QED BY <2>3, <2>4
<1> QED BY <1>1, <1>4, <1>5 DEF Suited, l

LEMMA CellSuits ==
  ASSUME NEW p \in Pages, NEW e \in Elements(p), e[2] > 1
  PROVE  CellNextTo(p[e[1]], e[2]) \in Suited(p, e)
<1> DEFINE row == p[e[1]]
           label == Label(row.cells[e[2] - 1])
           l == CellNextTo(row, e[2])
<1>1. e \in Places(p) /\ row.cells[e[2] - 1] \in Texts /\ Shows(row, row.cells[e[2] - 1])
  BY ElementForm
<1>2. /\ e[2] \in DOMAIN Numeral /\ e[2] # 0
  <2>1. TdOf(row, e[2]) \in DOMAIN Numeral /\ e[2] \in Nat
    BY <1>1, PlaceForm
  <2> QED BY <2>1 DEF TdOf
<1>3. l = [by |-> "cell", kind |-> "none", text |-> label, name |-> NoText,
           row |-> NoText, col |-> Numeral[e[2]]]
  BY DEF CellNextTo, Cell, Locator
<1>4. label \in Seq(Fragments) /\ NoText \in Seq(Fragments) /\ Numeral[e[2]] \in Seq(Fragments)
  BY <1>1, <1>2, LabelForm, NumeralForm, EmptySeq DEF NoText
<1>5. ~HasColon(row, e[2]) => Shows(row, label)
  BY <1>1 DEF HasColon
<1> HIDE DEF label, l, row
<1>6. l \in Recordable
  BY <1>3, <1>4 DEF Recordable, Ways
<1>7. ASSUME ~HasColon(row, e[2]), NEW exact \in BOOLEAN PROVE Match(p, l, e, exact)
  BY <1>2, <1>3, <1>5, <1>7 DEF Match, row
<1> QED BY <1>6, <1>7 DEF Suited, row, l

LEMMA ControlSuits ==
  ASSUME NEW p \in Pages, NEW e \in Elements(p), e[2] = 0,
         NEW control, control = p[e[1]].control
  PROVE  /\ control \in Controls
         /\ control.kind = "link" => control.name # NoText
         /\ Role(control) \in Suited(p, e)
         /\ By("attr", control.attr, control) \in Suited(p, e)
         /\ By("id", control.id, control) \in Suited(p, e)
         /\ control.kind = "link" => By("text", control.name, control) \in Suited(p, e)
<1>1. control \in Controls /\ e[1] \in 1 .. Len(p)
  BY ElementForm, PlaceForm
<1>2. /\ control.kind \in Kinds /\ control.name \in Seq(Fragments)
      /\ control.attr \in Seq(Fragments) /\ control.id \in Seq(Fragments)
      /\ NoText \in Seq(Fragments)
  BY <1>1, ControlForm, EmptySeq DEF NoText
<1>3. ASSUME NEW by \in {"role", "attr", "id", "text"}, NEW text \in Seq(Fragments),
             NEW name \in Seq(Fragments), NEW l,
             l = Locator(by, control.kind, text, name, NoText, NoText),
             \A exact \in BOOLEAN : Match(p, l, e, exact)
      PROVE  l \in Suited(p, e)
  <2>1. l \in Recordable
    BY <1>2, <1>3 DEF Recordable, Ways, Locator
  <2> QED BY <1>3, <2>1 DEF Suited
<1>4. Role(control) \in Suited(p, e)
  <2>1. \A exact \in BOOLEAN : Match(p, Role(control), e, exact)
    BY DEF Match, Role, Locator, Reads
  <2> QED BY <1>2, <1>3, <2>1 DEF Role
<1>5. By("attr", control.attr, control) \in Suited(p, e)
  <2>1. \A exact \in BOOLEAN : Match(p, By("attr", control.attr, control), e, exact)
    BY DEF Match, By, Locator
  <2> QED BY <1>2, <1>3, <2>1 DEF By
<1>6. By("id", control.id, control) \in Suited(p, e)
  <2>1. \A exact \in BOOLEAN : Match(p, By("id", control.id, control), e, exact)
    BY DEF Match, By, Locator
  <2> QED BY <1>2, <1>3, <2>1 DEF By
<1>7. ASSUME control.kind = "link" PROVE By("text", control.name, control) \in Suited(p, e)
  <2>1. OwnText(p[e[1]], e[2]) = control.name
    BY <1>7 DEF OwnText, Caption, Captioned
  <2>2. \A exact \in BOOLEAN : Match(p, By("text", control.name, control), e, exact)
    BY <2>1 DEF Match, By, Locator, Reads
  <2> QED BY <1>2, <1>3, <2>2 DEF By
<1>8. control.kind = "link" => control.name # NoText
  BY <1>1, RowForm DEF Captioned
<1> QED BY <1>1, <1>4, <1>5, <1>6, <1>7, <1>8

\* What LocatorChain appends a locator to: nothing yet, or a chain with the right head.
Begun(s, first) == s # <<>> => s[1] = first

LEMMA AppendBegun ==
  ASSUME NEW S, NEW s \in Seq(S), NEW l \in S, NEW first, Begun(s, first), s = <<>> => l = first
  PROVE  /\ Append(s, l) \in Seq(S) /\ Append(s, l) # <<>> /\ Begun(Append(s, l), first)
         /\ Append(s, l)[Len(Append(s, l))] = l
<1>1. /\ Append(s, l) \in Seq(S) /\ Len(s) \in Nat /\ Len(Append(s, l)) = Len(s) + 1
      /\ Append(s, l)[Len(s) + 1] = l
      /\ \A i \in 1 .. Len(s) : Append(s, l)[i] = s[i]
  BY AppendProperties, LenProperties
<1>2. Len(<<>>) = 0
  OBVIOUS
<1>3. Append(s, l) # <<>>
  BY <1>1, <1>2
<1>4. Append(s, l)[1] = first
  <2>1. CASE s = <<>>
    BY <1>1, <1>2, <2>1
  <2>2. CASE s # <<>>
    <3>1. Len(s) # 0
      BY <2>2, EmptySeq
    <3>2. 1 \in 1 .. Len(s)
      BY <1>1, <3>1
    <3> QED BY <1>1, <2>2, <3>2 DEF Begun
  <2> QED BY <2>1, <2>2
<1> QED BY <1>1, <1>3, <1>4 DEF Begun

\* One more locator under a condition.
LEMMA IfBegins ==
  ASSUME NEW S, NEW s \in Seq(S), NEW first, Begun(s, first),
         NEW condition \in BOOLEAN, NEW l, condition => l \in S,
         condition /\ s = <<>> => l = first
  PROVE  /\ s \o If(condition, l) \in Seq(S) /\ Begun(s \o If(condition, l), first)
         /\ s \o If(condition, l) = <<>> => s = <<>> /\ ~condition
<1>1. CASE condition
  <2>1. s \o If(condition, l) = Append(s, l)
    BY <1>1 DEF If
  <2>2. /\ Append(s, l) \in Seq(S) /\ Append(s, l) # <<>> /\ Begun(Append(s, l), first)
    BY <1>1, AppendBegun
  <2> QED BY <2>1, <2>2
<1>2. CASE ~condition
  <2>1. s \o If(condition, l) = s
    BY <1>2, ConcatEmptySeq DEF If
  <2> QED BY <1>2, <2>1
<1> QED BY <1>1, <1>2

LEMMA ChainForm ==
  ASSUME NEW p \in Pages, NEW e \in Elements(p)
  PROVE  LET chainOf == LocatorChain(p, e) IN
         /\ chainOf \in Seq(Suited(p, e)) /\ Len(chainOf) \in Nat \ {0}
         /\ chainOf[1] = FirstLocator(p, e) /\ chainOf[Len(chainOf)] = Path(p, e)
<1> DEFINE S == Suited(p, e)
           first == FirstLocator(p, e)
           control == p[e[1]].control
<1>1. <<>> \in Seq(S) /\ Begun(<<>>, first) /\ e[2] \in Nat /\ Path(p, e) \in S
  BY EmptySeq, ElementForm, PlaceForm, PathSuits DEF Begun
<1>2. PICK s \in Seq(S) :
        /\ LocatorChain(p, e) = Append(s, Path(p, e))
        /\ Begun(s, first) /\ (s = <<>> => first = Path(p, e))
  <2>1. CASE e[2] > 0
    <3> DEFINE isNext == e[2] > 1
               l == CellNextTo(p[e[1]], e[2])
               s == <<>> \o If(isNext, l)
    <3>1. (isNext => l \in S) /\ isNext \in BOOLEAN
      BY CellSuits
    <3>2. LocatorChain(p, e) = Append(s, Path(p, e))
      <4>1. LocatorChain(p, e) = If(isNext, l) \o <<Path(p, e)>>
        BY <2>1, Zenon DEF LocatorChain
      <4> HIDE DEF l
      <4>2. CASE isNext
        BY <4>1, <4>2 DEF If
      <4>3. CASE ~isNext
        BY <4>1, <4>3 DEF If
      <4> HIDE DEF s, isNext
      <4> QED BY <4>2, <4>3, Zenon
    <3>3. first = IF isNext THEN l ELSE Path(p, e)
      BY <1>1, <2>1 DEF FirstLocator
    <3> HIDE DEF S, isNext, l, first
    <3>4. s \in Seq(S) /\ Begun(s, first) /\ (s = <<>> => ~isNext)
      BY <1>1, <3>1, <3>3, IfBegins
    <3> QED BY <3>2, <3>3, <3>4
  <2>2. CASE e[2] = 0
    <3> DEFINE c1 == control.name # NoText
               c2 == control.attr # NoText
               c3 == control.id # NoText
               c4 == control.kind = "link"
               role == Role(control)
               attr == By("attr", control.attr, control)
               id == By("id", control.id, control)
               text == By("text", control.name, control)
               s1 == <<>> \o If(c1, role)
               s2 == s1 \o If(c2, attr)
               s3 == s2 \o If(c3, id)
               s4 == s3 \o If(c4, text)
    <3>1. /\ c1 \in BOOLEAN /\ c2 \in BOOLEAN /\ c3 \in BOOLEAN /\ c4 \in BOOLEAN
          /\ c4 => c1
          /\ (c1 => role \in S) /\ (c2 => attr \in S) /\ (c3 => id \in S) /\ (c4 => text \in S)
      BY <2>2, ControlSuits
    <3>2. LocatorChain(p, e)
          = If(c1, role) \o If(c2, attr) \o If(c3, id) \o If(c4, text) \o <<Path(p, e)>>
      BY <2>2 DEF LocatorChain
    <3>3. first = IF c1 THEN role ELSE IF c2 THEN attr ELSE IF c3 THEN id ELSE Path(p, e)
      BY <2>2 DEF FirstLocator
    <3> HIDE DEF S, first, control, c1, c2, c3, c4, role, attr, id, text
    <3>4. s1 \in Seq(S) /\ Begun(s1, first) /\ (s1 = <<>> => ~c1)
      BY <1>1, <3>1, <3>3, IfBegins
    <3>5. If(c1, role) = s1
      BY DEF If
    <3> HIDE DEF s1
    <3>6. s2 \in Seq(S) /\ Begun(s2, first) /\ (s2 = <<>> => ~c1 /\ ~c2)
      <4>1. c2 /\ s1 = <<>> => attr = first
        BY <3>3, <3>4
      <4> QED BY <3>1, <3>4, <4>1, IfBegins
    <3> HIDE DEF s2
    <3>7. s3 \in Seq(S) /\ Begun(s3, first) /\ (s3 = <<>> => ~c1 /\ ~c2 /\ ~c3)
      <4>1. c3 /\ s2 = <<>> => id = first
        BY <3>3, <3>6
      <4> QED BY <3>1, <3>6, <4>1, IfBegins
    <3> HIDE DEF s3
    <3>8. s4 \in Seq(S) /\ Begun(s4, first) /\ (s4 = <<>> => ~c1 /\ ~c2 /\ ~c3)
      <4>1. c4 /\ s3 = <<>> => text = first
        BY <3>1, <3>7
      <4> QED BY <3>1, <3>7, <4>1, IfBegins
    <3>9. LocatorChain(p, e) = s4 \o <<Path(p, e)>>
      BY <3>2, <3>5 DEF s2, s3, s4
    <3> HIDE DEF s4
    <3>10. s4 \o <<Path(p, e)>> = Append(s4, Path(p, e))
      BY <3>8
    <3> QED BY <3>3, <3>8, <3>9, <3>10
  <2> QED BY <1>1, <2>1, <2>2
<1> HIDE DEF S, first
<1>3. /\ Append(s, Path(p, e)) \in Seq(S) /\ Append(s, Path(p, e)) # <<>>
      /\ Begun(Append(s, Path(p, e)), first)
      /\ Append(s, Path(p, e))[Len(Append(s, Path(p, e)))] = Path(p, e)
  BY <1>1, <1>2, AppendBegun
<1>4. Len(Append(s, Path(p, e))) \in Nat \ {0}
  BY <1>3, EmptySeq
<1> QED BY <1>2, <1>3, <1>4 DEF Begun, S, first

--------------------------------------------------------------------------------
(* The target in a call: one locator for each that was recorded.               *)

LEMMA BoundForm ==
  ASSUME NEW l \in Recordable, NEW v \in Values, NEW w \in Values \cup {Param}
  PROVE  /\ Bound(l, v, w).by = l.by /\ Bound(l, v, w).kind = l.kind
         /\ Bound(l, v, w).text = ReplaceAll(l.text, v, w)
         /\ Bound(l, v, w).name = ReplaceAll(l.name, v, w)
         /\ Bound(l, v, w).row = ReplaceAll(l.row, v, w)
         /\ Bound(l, v, w).col = ReplaceAll(l.col, v, w)
         /\ Bound(l, v, w) \in LocatorRecords
         /\ Mentions(Bound(l, v, w), Param) => w = Param
         /\ w = v => Bound(l, v, w) = l
<1> DEFINE Called(text) == Substitute(Template(text, v), w)
           b == Bound(l, v, w)
<1>1. /\ l.by \in Ways /\ l.kind \in Kinds \cup {"none"}
      /\ l.text \in Seq(Fragments) /\ l.name \in Seq(Fragments)
      /\ l.row \in Seq(Fragments) /\ l.col \in Seq(Fragments)
      /\ l = Locator(l.by, l.kind, l.text, l.name, l.row, l.col)
  BY DEF Recordable, Locator
<1>2. b = Locator(l.by, l.kind, Called(l.text), Called(l.name), Called(l.row), Called(l.col))
  BY DEF Bound
<1>3. ASSUME NEW text \in Seq(Fragments)
      PROVE  /\ Called(text) = ReplaceAll(text, v, w) /\ Called(text) \in Bindable
             /\ (Param \in Range(Called(text)) => w = Param)
             /\ (w = v => Called(text) = text)
  BY CalledForm
<1> HIDE DEF Called, b
<1>4. /\ b.by = l.by /\ b.kind = l.kind /\ b.text = Called(l.text) /\ b.name = Called(l.name)
      /\ b.row = Called(l.row) /\ b.col = Called(l.col)
  BY <1>2 DEF Locator
<1>5. b \in LocatorRecords
  <2>1. /\ Called(l.text) \in Bindable /\ Called(l.name) \in Bindable
        /\ Called(l.row) \in Bindable /\ Called(l.col) \in Bindable
    BY <1>1, <1>3
  <2> QED BY <1>1, <1>2, <2>1 DEF LocatorRecords, Locator, Ways
<1>6. Mentions(b, Param) => w = Param
  BY <1>1, <1>3, <1>4 DEF Mentions
<1>7. ASSUME w = v PROVE b = l
  BY <1>1, <1>2, <1>3, <1>7
<1>8. /\ b.text = ReplaceAll(l.text, v, w) /\ b.name = ReplaceAll(l.name, v, w)
      /\ b.row = ReplaceAll(l.row, v, w) /\ b.col = ReplaceAll(l.col, v, w)
  BY <1>1, <1>3, <1>4
<1> QED BY <1>4, <1>5, <1>6, <1>7, <1>8 DEF b

LEMMA AnchoredForm ==
  ASSUME NEW p \in Pages, NEW e \in Elements(p), NEW v \in Values, Anchored(p, e, v)
  PROVE  /\ Reanchored(p, e, v) \in Seq(Recordable) /\ Len(Reanchored(p, e, v)) = 1
         /\ e[2] = 0 => Reanchored(p, e, v)[1] = InRow(<<v>>, p[e[1]].control)
         /\ e[2] # 0 => Reanchored(p, e, v)[1] = Cell(<<v>>, e[2])
<1> DEFINE control == p[e[1]].control
           l == IF e[2] = 0 THEN InRow(<<v>>, control) ELSE Cell(<<v>>, e[2])
<1>1. Reanchored(p, e, v) = <<l>>
  BY DEF Reanchored
<1>2. <<v>> \in Seq(Fragments) /\ NoText \in Seq(Fragments)
  BY LocatorAssumptions, EmptySeq DEF NoText
<1>3. e \in Places(p) /\ e[2] \in Nat /\ TdOf(p[e[1]], e[2]) \in DOMAIN Numeral
  BY ElementForm, PlaceForm
<1>4. l \in Recordable
  <2>1. CASE e[2] = 0
    <3>1. control \in Controls
      BY <1>3, <2>1, PlaceForm
    <3>2. control.kind \in Kinds /\ control.name \in Seq(Fragments)
      BY <3>1, ControlForm
    <3> QED BY <1>2, <2>1, <3>2 DEF InRow, Locator, Recordable, Ways
  <2>2. CASE e[2] # 0
    <3>1. Numeral[e[2]] \in Seq(Fragments)
      BY <1>3, <2>2, NumeralForm DEF TdOf
    <3> QED BY <1>2, <2>2, <3>1 DEF Cell, Locator, Recordable, Ways
  <2> QED BY <2>1, <2>2
<1>5. e[2] = 0 => l = InRow(<<v>>, control)
  BY DEF l
<1>6. e[2] # 0 => l = Cell(<<v>>, e[2])
  BY DEF l
<1> HIDE DEF l
<1>7. <<l>> \in Seq(Recordable) /\ Len(<<l>>) = 1 /\ <<l>>[1] = l
  BY <1>4
<1> QED BY <1>1, <1>5, <1>6, <1>7

LEMMA ReanchoredForm ==
  ASSUME NEW p \in Pages, NEW e \in Elements(p), NEW v \in Values
  PROVE  /\ Reanchored(p, e, v) \in Seq(Recordable)
         /\ Len(Reanchored(p, e, v)) \in Nat \ {0}
<1>1. CASE Anchored(p, e, v)
  <2>1. Reanchored(p, e, v) \in Seq(Recordable) /\ Len(Reanchored(p, e, v)) = 1
    BY <1>1, AnchoredForm
  <2> QED BY <2>1
<1>2. CASE ~Anchored(p, e, v)
  <2>1. Reanchored(p, e, v) = LocatorChain(p, e)
    BY <1>2 DEF Reanchored
  <2>2. LocatorChain(p, e) \in Seq(Suited(p, e)) /\ Len(LocatorChain(p, e)) \in Nat \ {0}
    BY ChainForm
  <2>3. Suited(p, e) \subseteq Recordable
    BY DEF Suited
  <2> QED BY <2>1, <2>2, <2>3, SeqMonotonic
<1> QED BY <1>1, <1>2

LEMMA BoundChainForm ==
  ASSUME NEW p \in Pages, NEW e \in Elements(p), NEW v \in Values, NEW w \in Values \cup {Param}
  PROVE  LET target == Reanchored(p, e, v)
             bound == BoundChain(p, e, v, w)
         IN /\ bound \in Seq(LocatorRecords)
            /\ Len(bound) = Len(target) /\ Len(bound) \in Nat \ {0} /\ DOMAIN bound = 1 .. Len(bound)
            /\ \A k \in 1 .. Len(bound) : /\ target[k] \in Recordable
                                          /\ bound[k] = Bound(target[k], v, w)
<1> DEFINE target == Reanchored(p, e, v)
           bound == BoundChain(p, e, v, w)
           n == Len(target)
<1>1. target \in Seq(Recordable) /\ n \in Nat \ {0} /\ DOMAIN target = 1 .. n
  BY ReanchoredForm, LenProperties
<1>2. \A k \in 1 .. n : target[k] \in Recordable
  BY <1>1, ElementOfSeq
<1>3. bound = [k \in 1 .. n |-> Bound(target[k], v, w)]
  BY <1>1 DEF BoundChain
<1>4. \A k \in 1 .. n : Bound(target[k], v, w) \in LocatorRecords
  BY <1>2, BoundForm
<1> HIDE DEF target, n, bound
<1>5. bound \in [1 .. n -> LocatorRecords]
  BY <1>3, <1>4
<1>6. bound \in Seq(LocatorRecords)
  BY <1>1, <1>5, SeqDef
<1>7. Len(bound) = n /\ DOMAIN bound = 1 .. n
  BY <1>1, <1>5, <1>6, LenProperties
<1> QED BY <1>1, <1>2, <1>3, <1>6, <1>7 DEF target, bound, n

--------------------------------------------------------------------------------
(* Types.                                                                       *)

LEMMA AcceptedIsPlace == ASSUME NEW p, NEW locator PROVE Accepted(p, locator) \subseteq Places(p)
<1> SUFFICES ASSUME NEW e \in Accepted(p, locator) PROVE e \in Places(p)
  OBVIOUS
<1>1. PICK exact \in BOOLEAN : e \in Matches(p, locator, exact)
  BY AcceptedMatches
<1> QED BY <1>1 DEF Matches

LEMMA InitTyped == Init => TypeOK
<1> SUFFICES ASSUME Init PROVE TypeOK
  OBVIOUS
<1>1. /\ origin \in Pages /\ page \in Pages /\ element \in Elements(origin)
      /\ example \in Values /\ value \in Values \cup {Param}
      /\ chain = BoundChain(origin, element, example, value)
      /\ pass = 1 /\ rank = 1 /\ found = Nothing /\ state = "trying" /\ settled = TRUE
  BY DEF Init
<1>2. /\ chain \in Seq(LocatorRecords) /\ Len(chain) \in Nat \ {0}
      /\ DOMAIN chain = 1 .. Len(chain)
  BY <1>1, BoundChainForm
<1>3. ASSUME NEW k \in DOMAIN chain, Mentions(chain[k], Param) PROVE value = Param
  BY <1>1, <1>2, <1>3, BoundChainForm, BoundForm
<1> QED BY <1>1, <1>2, <1>3 DEF TypeOK

LEMMA NothingIsNoPlace == ASSUME NEW p \in Pages PROVE Nothing \notin Places(p)
<1> SUFFICES ASSUME Nothing \in Places(p) PROVE FALSE
  OBVIOUS
<1>1. Nothing \in (1 .. Len(p)) \X (0 .. Width)
  BY DEF Places
<1> QED BY <1>1 DEF Nothing

LEMMA TypedStays == TypeOK /\ [Next]_vars => TypeOK'
<1> SUFFICES ASSUME TypeOK, [Next]_vars PROVE TypeOK'
  OBVIOUS
<1>1. Len(chain) \in Nat
  BY LenProperties DEF TypeOK
<1>2. CASE Try
  <2>1. /\ state = "trying" /\ rank <= Len(chain)
        /\ UNCHANGED <<origin, element, example, value, chain, page, pass, settled>>
    BY <1>2 DEF Try, Done, recorded, call
  <2>2. CASE found' \in Accepted(page, chain[rank]) /\ state' = "found" /\ rank' = rank
    <3>1. found' \in Places(page) /\ found' # Nothing
      BY <2>2, AcceptedIsPlace, NothingIsNoPlace DEF TypeOK
    <3> QED BY <2>1, <2>2, <3>1 DEF TypeOK
  <2>3. CASE rank' = rank + 1 /\ UNCHANGED <<found, state>>
    <3>1. rank' \in 1 .. Len(chain) + 1
      BY <1>1, <2>1, <2>3 DEF TypeOK
    <3> QED BY <2>1, <2>3, <3>1 DEF TypeOK
  <2> QED BY <1>2, <2>2, <2>3 DEF Try, Done
<1>3. CASE Settle
  BY <1>1, <1>3 DEF Settle, recorded, call, TypeOK
<1>4. CASE GiveUp
  BY <1>4 DEF GiveUp, Done, recorded, call, TypeOK
<1>5. CASE PageMoves
  <2>1. found = Nothing
    BY <1>5 DEF PageMoves, TypeOK
  <2> QED BY <1>5, <2>1 DEF PageMoves, recorded, call, TypeOK
<1>6. CASE Terminated \/ UNCHANGED vars
  BY <1>6 DEF Terminated, vars, recorded, call, TypeOK
<1> QED BY <1>2, <1>3, <1>4, <1>5, <1>6 DEF Next, Resolve

\* TypeOK: a placeholder is only left in a locator of a target looked at as recorded,
\* and what is found is an element of the page as it is.
THEOREM TypeCorrect == Spec => []TypeOK
<1> QED BY InitTyped, TypedStays, PTL DEF Spec

--------------------------------------------------------------------------------
(* On the page of the discovery.                                                *)

\* What is certain to be found: an element that is not anchored and whose label lost no
\* colon, or one the anchor can tell.
Sure(p, e, v) ==
  IF Anchored(p, e, v) THEN Shows(p[e[1]], <<v>>) /\ ~Untold(p, e, v) ELSE ~HasColon(p[e[1]], e[2])

\* Nothing has moved, the input is that of the discovery.
AtHome == settled /\ page = origin /\ value = example

\* What SamePageSameElement needs of the steps before: no locator of an element that is
\* certain to be found can pass its last one.
OnlyItself ==
  AtHome =>
    /\ Sure(origin, element, example) =>
         /\ state = "found" => found = element
         /\ state # "failed" /\ (state = "trying" => rank <= Len(chain))
    /\ Anchored(origin, element, example) /\ ~Sure(origin, element, example) =>
         IF Shows(origin[element[1]], <<example>>) THEN state # "found" ELSE found # element

\* A locator the element is matched by accepts nothing else.
LEMMA AcceptsItself ==
  ASSUME NEW p, NEW e, NEW l, \A exact \in BOOLEAN : e \in Matches(p, l, exact)
  PROVE  /\ Accepted(p, l) \subseteq {e}
         /\ (\A exact \in BOOLEAN : Matches(p, l, exact) \subseteq {e}) => Accepted(p, l) = {e}
<1>1. e \in Matches(p, l, pass = 1)
  <2>1. (pass = 1) \in BOOLEAN
    OBVIOUS
  <2> QED BY <2>1
<1>2. Accepted(p, l) = OnlyOne(Matches(p, l, pass = 1))
  BY <1>1 DEF Accepted
<1>3. ASSUME NEW S, e \in S PROVE OnlyOne(S) \subseteq {e} /\ (S \subseteq {e} => OnlyOne(S) = {e})
  BY <1>3 DEF OnlyOne
<1>4. (\A exact \in BOOLEAN : Matches(p, l, exact) \subseteq {e}) => Matches(p, l, pass = 1) \subseteq {e}
  <2>1. (pass = 1) \in BOOLEAN
    OBVIOUS
  <2> QED BY <2>1
<1> QED BY <1>1, <1>2, <1>3, <1>4

LEMMA UnanchoredAccepts ==
  ASSUME NEW p \in Pages, NEW e \in Elements(p), NEW v \in Values,
         ~HasColon(p[e[1]], e[2]), ~Anchored(p, e, v)
  PROVE  LET bound == BoundChain(p, e, v, v) IN
         /\ \A k \in 1 .. Len(bound) : Accepted(p, bound[k]) \subseteq {e}
         /\ Accepted(p, bound[Len(bound)]) = {e}
<1> DEFINE bound == BoundChain(p, e, v, v)
           target == LocatorChain(p, e)
<1>1. Reanchored(p, e, v) = target
  BY DEF Reanchored
<1>2. /\ target \in Seq(Suited(p, e)) /\ Len(bound) = Len(target) /\ Len(bound) \in Nat \ {0}
      /\ \A k \in 1 .. Len(bound) : target[k] \in Recordable /\ bound[k] = Bound(target[k], v, v)
      /\ target[Len(target)] = Path(p, e)
  BY <1>1, ChainForm, BoundChainForm
<1>3. e \in Places(p)
  BY ElementForm
<1> HIDE DEF bound, target
<1>4. ASSUME NEW k \in 1 .. Len(bound) PROVE bound[k] = target[k] /\ target[k] \in Suited(p, e)
  BY <1>2, BoundForm, ElementOfSeq
<1>5. ASSUME NEW l \in Suited(p, e), NEW exact \in BOOLEAN PROVE e \in Matches(p, l, exact)
  BY <1>3, <1>5 DEF Suited, Matches
<1>6. \A k \in 1 .. Len(bound) : Accepted(p, bound[k]) \subseteq {e}
  BY <1>4, <1>5, AcceptsItself
<1>7. Accepted(p, bound[Len(bound)]) = {e}
  <2>1. bound[Len(bound)] = Path(p, e)
    BY <1>2, <1>4
  <2>2. /\ \A exact \in BOOLEAN : e \in Matches(p, Path(p, e), exact)
        /\ \A exact \in BOOLEAN : Matches(p, Path(p, e), exact) \subseteq {e}
    BY <1>3, <1>5, PathSuits
  <2> QED BY <2>1, <2>2, AcceptsItself
<1> QED BY <1>6, <1>7 DEF bound

\* What the one locator of an anchored element matches on the page of the discovery.
AnchorMatches(p, e, v, f) ==
  /\ f \in Places(p) /\ Shows(p[f[1]], <<v>>)
  /\ IF e[2] = 0
     THEN /\ f[2] = 0 /\ p[e[1]].control.kind # "textbox"
          /\ p[f[1]].control.kind = p[e[1]].control.kind
          /\ p[f[1]].control.name = p[e[1]].control.name
     ELSE f[2] = e[2]

LEMMA AnchoredBound ==
  ASSUME NEW p \in Pages, NEW e \in Elements(p), NEW v \in Values, Anchored(p, e, v)
  PROVE  LET bound == BoundChain(p, e, v, v) IN
         /\ Len(bound) = 1
         /\ \A f : \A exact \in BOOLEAN : f \in Matches(p, bound[1], exact) <=> AnchorMatches(p, e, v, f)
<1> DEFINE bound == BoundChain(p, e, v, v)
           target == Reanchored(p, e, v)
           control == p[e[1]].control
<1>1. /\ Len(bound) = 1 /\ bound[1] = target[1]
  <2>1. Len(target) = 1
    BY AnchoredForm
  <2>2. /\ Len(bound) = Len(target)
        /\ \A k \in 1 .. Len(bound) : target[k] \in Recordable /\ bound[k] = Bound(target[k], v, v)
    BY BoundChainForm
  <2> HIDE DEF target, bound
  <2>3. 1 \in 1 .. Len(bound)
    BY <2>1, <2>2
  <2> QED BY <2>1, <2>2, <2>3, BoundForm
<1>2. ASSUME NEW exact \in BOOLEAN, NEW f
      PROVE  f \in Matches(p, target[1], exact) <=> AnchorMatches(p, e, v, f)
  <2>1. CASE e[2] = 0
    <3>1. target[1] = InRow(<<v>>, control)
      BY <2>1, AnchoredForm
    <3>2. Match(p, InRow(<<v>>, control), f, exact) <=>
            /\ f[2] = 0 /\ p[f[1]].control.kind = control.kind
            /\ p[f[1]].control.kind # "textbox" /\ Shows(p[f[1]], <<v>>)
            /\ p[f[1]].control.name = control.name
      BY DEF Match, InRow, Locator
    <3> HIDE DEF target
    <3> QED BY <2>1, <3>1, <3>2 DEF AnchorMatches, Matches
  <2>2. CASE e[2] # 0
    <3>1. target[1] = Cell(<<v>>, e[2])
      BY <2>2, AnchoredForm
    <3>2. Match(p, Cell(<<v>>, e[2]), f, exact) <=>
            f[2] # 0 /\ Shows(p[f[1]], <<v>>) /\ Numeral[f[2]] = Numeral[e[2]]
      BY DEF Match, Cell, Locator
    <3>3. ASSUME f \in Places(p), f[2] # 0 PROVE f[2] \in DOMAIN Numeral
      BY <3>3, PlaceForm DEF TdOf
    <3>4. e[2] \in DOMAIN Numeral
      BY <2>2, ElementForm, PlaceForm DEF TdOf
    <3>5. ASSUME f \in Places(p), f[2] # 0 PROVE Numeral[f[2]] = Numeral[e[2]] <=> f[2] = e[2]
      BY <3>3, <3>4, <3>5, LocatorAssumptions
    <3> HIDE DEF target
    <3> QED BY <2>2, <3>1, <3>2, <3>5 DEF AnchorMatches, Matches
  <2> QED BY <2>1, <2>2
<1> HIDE DEF bound, target
<1> QED BY <1>1, <1>2 DEF bound

LEMMA AnchoredAccepts ==
  ASSUME NEW p \in Pages, NEW e \in Elements(p), NEW v \in Values, Anchored(p, e, v)
  PROVE  LET b == BoundChain(p, e, v, v)[1]
             shown == Shows(p[e[1]], <<v>>)
         IN /\ Len(BoundChain(p, e, v, v)) = 1
            /\ shown /\ ~Untold(p, e, v) => Accepted(p, b) = {e}
            /\ shown /\ Untold(p, e, v) => Accepted(p, b) = {}
            /\ ~shown => e \notin Accepted(p, b)
<1> DEFINE b == BoundChain(p, e, v, v)[1]
           shown == Shows(p[e[1]], <<v>>)
           control == p[e[1]].control
           Fits(f) == AnchorMatches(p, e, v, f)
<1>1. /\ Len(BoundChain(p, e, v, v)) = 1
      /\ \A f : \A exact \in BOOLEAN : f \in Matches(p, b, exact) <=> Fits(f)
  BY AnchoredBound
<1>2. e \in Places(p) /\ e \in (1 .. Len(p)) \X (0 .. Width) /\ e[1] \in 1 .. Len(p)
  BY ElementForm, PlaceForm
<1>3. shown /\ ~(e[2] = 0 /\ control.kind = "textbox") => Fits(e)
  BY <1>2 DEF AnchorMatches
<1> HIDE DEF b, Fits
<1>4. ASSUME shown, ~Untold(p, e, v) PROVE Accepted(p, b) = {e}
  <2>1. Fits(e)
    BY <1>3, <1>4 DEF Untold
  <2>2. ASSUME NEW f, Fits(f) PROVE f = e
    <3>1. f \in Places(p) /\ f \in (1 .. Len(p)) \X (0 .. Width) /\ f[1] \in 1 .. Len(p)
          /\ f[2] <= Tds(p[f[1]])
      BY <2>2, PlaceForm DEF Fits, AnchorMatches
    <3>2. f[2] = e[2]
      BY <2>2 DEF Fits, AnchorMatches
    <3>3. f[1] = e[1]
      <4>1. f[1] \in DOMAIN p
        BY <3>1, LocatorAssumptions, LenProperties
      <4> QED BY <1>4, <2>2, <3>1, <3>2, <4>1 DEF Untold, Fits, AnchorMatches
    <3> QED BY <1>2, <3>1, <3>2, <3>3
  <2>3. /\ \A exact \in BOOLEAN : e \in Matches(p, b, exact)
        /\ \A exact \in BOOLEAN : Matches(p, b, exact) \subseteq {e}
    BY <1>1, <2>1, <2>2
  <2> QED BY <2>3, AcceptsItself
<1>5. ASSUME shown, Untold(p, e, v) PROVE Accepted(p, b) = {}
  <2> SUFFICES ASSUME NEW x \in Accepted(p, b) PROVE FALSE
    OBVIOUS
  <2>1. Fits(x) /\ \A f : Fits(f) => f = x
    BY <1>1, AcceptedMatches
  <2>2. ~(e[2] = 0 /\ control.kind = "textbox")
    BY <2>1 DEF Fits, AnchorMatches
  <2>3. PICK i \in DOMAIN p \ {e[1]} :
          /\ Shows(p[i], <<v>>)
          /\ IF e[2] = 0
             THEN p[i].control.kind = control.kind /\ p[i].control.name = control.name
             ELSE e[2] <= Tds(p[i])
    BY <1>5, <2>2 DEF Untold
  <2> DEFINE g == <<i, e[2]>>
  <2>4. g \in Places(p)
    <3>1. i \in 1 .. Len(p)
      BY <2>3, LocatorAssumptions, LenProperties
    <3>2. e[2] = 0 => p[i].control # NoControl
      BY <1>2, <2>3, PlaceForm, ControlForm DEF NoControl
    <3> QED BY <1>2, <2>3, <3>1, <3>2 DEF Places
  <2>5. Fits(g)
    BY <2>2, <2>3, <2>4 DEF Fits, AnchorMatches
  <2>6. g[1] # e[1]
    BY <2>3
  <2> HIDE DEF g
  <2> QED BY <1>3, <1>5, <2>1, <2>2, <2>5, <2>6
<1>6. ASSUME ~shown PROVE e \notin Accepted(p, b)
  <2> SUFFICES ASSUME e \in Accepted(p, b) PROVE FALSE
    OBVIOUS
  <2>1. Fits(e)
    BY <1>1, AcceptedMatches
  <2> QED BY <1>6, <2>1 DEF Fits, AnchorMatches
<1> QED BY <1>1, <1>4, <1>5, <1>6 DEF b

LEMMA OnlyItselfStays == TypeOK /\ FoundByChain /\ OnlyItself /\ [Next]_vars => OnlyItself'
<1> DEFINE sure == Sure(origin, element, example)
           anchored == Anchored(origin, element, example)
           shown == Shows(origin[element[1]], <<example>>)
           Found == state = "found" => found = element
           Goes == state # "failed" /\ (state = "trying" => rank <= Len(chain))
           Else == IF shown THEN state # "found" ELSE found # element
<1> SUFFICES ASSUME TypeOK, FoundByChain, OnlyItself, [Next]_vars, AtHome'
             PROVE  /\ (sure => Found /\ Goes)'
                    /\ (anchored /\ ~sure => Else)'
  BY DEF OnlyItself
<1>1. UNCHANGED <<origin, element, example, value, chain>>
  BY DEF Next, Resolve, Try, Done, Settle, GiveUp, PageMoves, Terminated, vars, recorded, call
<1>2. UNCHANGED page /\ settled
  BY DEF AtHome, Next, Resolve, Try, Done, Settle, GiveUp, PageMoves, Terminated, vars
<1>3. AtHome /\ (sure' <=> sure) /\ (anchored' <=> anchored) /\ (shown' <=> shown)
  <2>1. AtHome
    BY <1>1, <1>2 DEF AtHome
  <2> QED BY <1>1, <2>1
<1>4. /\ origin \in Pages /\ element \in Elements(origin) /\ example \in Values
      /\ chain = BoundChain(origin, element, example, example) /\ page = origin
  BY <1>3 DEF TypeOK, FoundByChain, AtHome
<1>5. Len(chain) \in Nat \ {0} /\ rank \in Nat \ {0}
  BY <1>4, BoundChainForm DEF FoundByChain
<1>6. (sure => Found /\ Goes) /\ (anchored /\ ~sure => Else)
  BY <1>3 DEF OnlyItself
<1>7. element # Nothing
  <2>1. element \in Places(origin)
    BY <1>4, ElementForm
  <2> QED BY <1>4, <2>1, NothingIsNoPlace
<1>8. /\ sure => /\ \A k \in 1 .. Len(chain) : Accepted(page, chain[k]) \subseteq {element}
                 /\ Accepted(page, chain[Len(chain)]) = {element}
      /\ anchored /\ ~sure =>
           \A k \in 1 .. Len(chain) :
             IF shown THEN Accepted(page, chain[k]) = {} ELSE element \notin Accepted(page, chain[k])
  <2>1. CASE anchored
    <3>1. Len(chain) = 1
      BY <1>4, <2>1, AnchoredAccepts
    <3>2. \A k \in 1 .. Len(chain) : k = 1
      BY <3>1
    <3>3. /\ shown /\ ~Untold(origin, element, example) => Accepted(page, chain[1]) = {element}
          /\ shown /\ Untold(origin, element, example) => Accepted(page, chain[1]) = {}
          /\ ~shown => element \notin Accepted(page, chain[1])
      BY <1>4, <2>1, AnchoredAccepts
    <3>4. sure <=> shown /\ ~Untold(origin, element, example)
      BY <2>1 DEF Sure
    <3> HIDE DEF sure, shown, anchored
    <3> QED BY <2>1, <3>1, <3>2, <3>3, <3>4
  <2>2. CASE ~anchored /\ sure
    <3>1. ~HasColon(origin[element[1]], element[2])
      BY <2>2 DEF Sure
    <3> QED BY <1>4, <2>2, <3>1, UnanchoredAccepts
  <2> HIDE DEF sure, shown, anchored
  <2> QED BY <2>1, <2>2
<1> SUFFICES (sure => (Found /\ Goes)') /\ (anchored /\ ~sure => Else')
  BY <1>3
<1> HIDE DEF sure, anchored, shown
<1>9. CASE Try
  <2>1. state = "trying" /\ rank \in 1 .. Len(chain)
    BY <1>5, <1>9 DEF Try
  <2>2. CASE Accepted(page, chain[rank]) # {}
    <3>1. found' \in Accepted(page, chain[rank]) /\ state' = "found"
      BY <1>9, <2>2 DEF Try, Done
    <3>2. sure => found' = element /\ element' = element
      BY <1>1, <1>8, <2>1, <3>1
    <3>3. anchored /\ ~sure => ~shown /\ found' # element
      BY <1>8, <2>1, <2>2, <3>1
    <3> QED BY <1>1, <1>3, <3>1, <3>2, <3>3
  <2>3. CASE Accepted(page, chain[rank]) = {}
    <3>1. rank' = rank + 1 /\ state' = "trying" /\ found' = found
      BY <1>9, <2>1, <2>3 DEF Try
    <3>2. sure => rank # Len(chain)
      BY <1>8, <2>3
    <3>3. sure => rank' <= Len(chain')
      BY <1>1, <1>5, <2>1, <3>1, <3>2
    <3>4. anchored /\ ~sure => Else'
      BY <1>1, <1>3, <1>6, <3>1
    <3> QED BY <3>1, <3>3, <3>4
  <2> QED BY <2>2, <2>3
<1>10. CASE Settle
  <2>1. /\ state = "trying" /\ state' = "trying" /\ found' = found /\ rank' = 1
        /\ rank > Len(chain)
    BY <1>10 DEF Settle
  <2>2. 1 <= Len(chain')
    BY <1>1, <1>5
  <2>3. anchored /\ ~sure => Else'
    BY <1>1, <1>3, <1>6, <2>1
  <2> QED BY <2>1, <2>2, <2>3
<1>11. CASE GiveUp
  <2>1. /\ state = "trying" /\ state' = "failed" /\ found' = found /\ rank > Len(chain)
    BY <1>11 DEF GiveUp, Done
  <2>2. ~sure
    BY <1>5, <1>6, <2>1
  <2>3. anchored /\ ~sure => Else'
    BY <1>1, <1>3, <1>6, <2>1
  <2> QED BY <2>2, <2>3
<1>12. CASE PageMoves
  BY <1>2, <1>12 DEF PageMoves, AtHome
<1>13. CASE Terminated \/ UNCHANGED vars
  BY <1>1, <1>3, <1>6, <1>13 DEF Terminated, vars
<1> QED BY <1>9, <1>10, <1>11, <1>12, <1>13 DEF Next, Resolve

LEMMA InitAlone == Init => FoundByChain /\ OnlyItself
<1> SUFFICES ASSUME Init PROVE FoundByChain /\ OnlyItself
  OBVIOUS
<1>1. Len(chain) \in Nat \ {0}
  BY BoundChainForm DEF Init
<1>2. element # Nothing
  <2>1. element \in Places(origin)
    BY ElementForm DEF Init
  <2> QED BY <2>1, NothingIsNoPlace DEF Init
<1>3. state = "trying" /\ found # element /\ rank = 1
  BY <1>2 DEF Init
<1>4. OnlyItself
  BY <1>1, <1>3 DEF OnlyItself
<1> QED BY <1>4 DEF Init, FoundByChain

\* SamePageSameElement: on the page of the discovery, as long as it does not move, no
\* fallback of the chain reaches another element than the one that was picked, the path
\* at its end keeps an element that is not anchored from being lost, and an anchored one
\* is found wherever its row and its kind tell it from the others.
THEOREM FindsItself == Spec => []SamePageSameElement
<1>1. ASSUME TypeOK, OnlyItself PROVE SamePageSameElement
  <2> DEFINE anchored == Anchored(origin, element, example)
             shown == Shows(origin[element[1]], <<example>>)
             untold == Untold(origin, element, example)
             colon == HasColon(origin[element[1]], element[2])
  <2> SUFFICES ASSUME state # "trying", AtHome
               PROVE  IF ~anchored THEN found = element \/ colon
                      ELSE IF ~shown THEN found # element
                      ELSE IF untold THEN state = "failed" ELSE found = element
    BY DEF SamePageSameElement, AtHome
  <2>1. state \in {"found", "failed"}
    BY <1>1 DEF TypeOK
  <2>2. Sure(origin, element, example) <=> IF anchored THEN shown /\ ~untold ELSE ~colon
    BY DEF Sure
  <2>3. /\ Sure(origin, element, example) => found = element
        /\ anchored /\ ~Sure(origin, element, example) =>
             IF shown THEN state # "found" ELSE found # element
    BY <1>1, <2>1 DEF OnlyItself
  <2> HIDE DEF anchored, shown, untold, colon
  <2> QED BY <2>1, <2>2, <2>3
<1>2. FoundByChain /\ [Next]_vars => FoundByChain'
  BY FoundStays
<1> QED BY <1>1, <1>2, InitTyped, TypedStays, InitAlone, OnlyItselfStays, PTL DEF Spec

--------------------------------------------------------------------------------
(* On any page.                                                                 *)

\* The first locator of a target that is not anchored matches what Recalls says.
LEMMA FirstRecalls ==
  ASSUME origin \in Pages, page \in Pages, element \in Elements(origin), example \in Values,
         value \in Values \cup {Param}, NEW b,
         b = Bound(FirstLocator(origin, element), example, value),
         FirstLocator(origin, element) \in Recordable,
         NEW e \in Places(page), NEW exact \in BOOLEAN
  PROVE  Match(page, b, e, exact) <=> Recalls(e, exact)
<1> DEFINE l == FirstLocator(origin, element)
           was == origin[element[1]]
           is == page[e[1]]
           likewise == e[2] = 0 /\ is.control.kind = was.control.kind
           Called(text) == ReplaceAll(text, example, value)
<1>1. /\ b.by = l.by /\ b.kind = l.kind /\ b.text = Called(l.text) /\ b.name = Called(l.name)
      /\ b.row = Called(l.row) /\ b.col = Called(l.col)
  BY BoundForm
<1>2. element \in Places(origin) /\ element[2] \in Nat
      /\ (element[2] = 0 => was.control \in Controls)
      /\ element[1] \in DOMAIN Numeral /\ TdOf(was, element[2]) \in DOMAIN Numeral
  BY ElementForm, PlaceForm
<1>3. element[2] = 0 => was.control.kind # "none"
  BY <1>2, ControlForm
<1>4. Called(NoText) = NoText
  <2>1. NoText \in Seq(Fragments)
    BY EmptySeq DEF NoText
  <2>2. Called(NoText) = Substitute(Template(NoText, example), value)
    BY <2>1, CalledForm
  <2> QED BY <2>1, <2>2, CalledForm
<1>5. ASSUME NEW i \in DOMAIN Numeral PROVE Called(Numeral[i]) # NoText
  <2>1. Numeral[i] \in Seq(Fragments) /\ Numeral[i] # NoText
    BY NumeralForm
  <2>2. Called(Numeral[i]) = Substitute(Template(Numeral[i], example), value)
    BY <2>1, CalledForm
  <2> QED BY <2>1, <2>2, CalledForm
<1>6. CASE element[2] > 1
  <2>1. /\ l.by = "cell" /\ l.text = Label(was.cells[element[2] - 1])
        /\ l.col = Numeral[element[2]]
    BY <1>6 DEF FirstLocator, CellNextTo, Cell, Locator
  <2>2. Match(page, b, e, exact) <=>
          e[2] # 0 /\ Shows(is, b.text) /\ Numeral[e[2]] = b.col
    BY <1>1, <2>1 DEF Match
  <2>3. Recalls(e, exact) <=> /\ e[2] # 0 /\ Shows(is, Called(Label(was.cells[element[2] - 1])))
                              /\ Numeral[e[2]] = Called(Numeral[element[2]])
    BY <1>6 DEF Recalls
  <2> HIDE DEF l, is, was, Called
  <2> QED BY <1>1, <2>1, <2>2, <2>3
<1>7. CASE element[2] = 0 /\ was.control.name # NoText
  <2>1. l.by = "role" /\ l.kind = was.control.kind /\ l.name = was.control.name
    BY <1>7 DEF FirstLocator, Role, Locator
  <2>2. Match(page, b, e, exact) <=>
          e[2] = 0 /\ is.control.kind = b.kind /\ Reads(is.control.name, b.name, exact)
    BY <1>1, <2>1 DEF Match
  <2>3. Recalls(e, exact) <=> likewise /\ Reads(is.control.name, Called(was.control.name), exact)
    BY <1>7 DEF Recalls
  <2> HIDE DEF l, Called
  <2> QED BY <1>1, <2>1, <2>2, <2>3
<1>8. CASE element[2] = 0 /\ was.control.name = NoText /\ was.control.attr # NoText
  <2>1. l.by = "attr" /\ l.kind = was.control.kind /\ l.text = was.control.attr
    BY <1>8 DEF FirstLocator, By, Locator
  <2>2. Match(page, b, e, exact) <=>
          e[2] = 0 /\ is.control.kind = b.kind /\ is.control.attr = b.text
    BY <1>1, <2>1 DEF Match
  <2>3. Recalls(e, exact) <=> likewise /\ is.control.attr = Called(was.control.attr)
    BY <1>8 DEF Recalls
  <2> HIDE DEF l, Called
  <2> QED BY <1>1, <2>1, <2>2, <2>3
<1>9. CASE element[2] = 0 /\ was.control.name = NoText /\ was.control.attr = NoText
             /\ was.control.id # NoText
  <2>1. l.by = "id" /\ l.text = was.control.id
    BY <1>9 DEF FirstLocator, By, Locator
  <2>2. Match(page, b, e, exact) <=> e[2] = 0 /\ is.control.id = b.text
    BY <1>1, <2>1 DEF Match
  <2>3. Recalls(e, exact) <=> e[2] = 0 /\ is.control.id = Called(was.control.id)
    BY <1>9 DEF Recalls
  <2> HIDE DEF l, Called
  <2> QED BY <1>1, <2>1, <2>2, <2>3
<1>10. CASE /\ ~(element[2] > 1)
            /\ element[2] = 0 => /\ was.control.name = NoText /\ was.control.attr = NoText
                                 /\ was.control.id = NoText
  <2>1. l = Path(origin, element)
    BY <1>2, <1>10 DEF FirstLocator
  <2>2. /\ l.by = "path" /\ l.kind = (IF element[2] = 0 THEN was.control.kind ELSE "none")
        /\ l.text = NoText
        /\ l.row = (IF Len(origin) > 1 THEN Numeral[element[1]] ELSE NoText)
        /\ l.col = (IF Tds(was) > 1 THEN Numeral[TdOf(was, element[2])] ELSE NoText)
    BY <1>2, <1>10, <2>1, PathForm
  <2> DEFINE Has(b2, n) == b2 \in {NoText, n}
  <2>3. Match(page, b, e, exact) <=>
          /\ IF b.kind = "none" THEN e[2] # 0 ELSE e[2] = 0 /\ is.control.kind = b.kind
          /\ Has(b.row, Numeral[e[1]]) /\ Has(b.col, Numeral[TdOf(is, e[2])])
    <3>1. b.by = "path" /\ b.text = NoText
      BY <1>1, <1>4, <2>2
    <3> QED BY <3>1 DEF Match
  <2>4. Recalls(e, exact) <=>
          /\ IF element[2] = 0 THEN likewise ELSE e[2] # 0
          /\ Len(origin) > 1 => Numeral[e[1]] = Called(Numeral[element[1]])
          /\ Tds(was) > 1 => Numeral[TdOf(is, e[2])] = Called(Numeral[TdOf(was, element[2])])
    BY <1>10 DEF Recalls
  <2>5. Called(Numeral[element[1]]) # NoText /\ Called(Numeral[TdOf(was, element[2])]) # NoText
    BY <1>2, <1>5
  <2> HIDE DEF l, Called
  <2>6. Has(b.row, Numeral[e[1]]) <=> (Len(origin) > 1 => Numeral[e[1]] = Called(Numeral[element[1]]))
    BY <1>1, <1>4, <2>2, <2>5
  <2>7. Has(b.col, Numeral[TdOf(is, e[2])]) <=>
          (Tds(was) > 1 => Numeral[TdOf(is, e[2])] = Called(Numeral[TdOf(was, element[2])]))
    BY <1>1, <1>4, <2>2, <2>5
  <2>8. (IF b.kind = "none" THEN e[2] # 0 ELSE e[2] = 0 /\ is.control.kind = b.kind) <=>
          (IF element[2] = 0 THEN likewise ELSE e[2] # 0)
    BY <1>1, <1>3, <2>2
  <2> HIDE DEF Has, is, was, likewise
  <2> QED BY <2>3, <2>4, <2>6, <2>7, <2>8
<1> QED BY <1>2, <1>6, <1>7, <1>8, <1>9, <1>10

\* SilentIsFaithful: whatever the page has become, the element found without drift still
\* has the label, the caption or the attribute it was recorded with, the caller's value
\* in place of the recorded one, and is the only one that has.
THEOREM SilentFindsAreFaithful == Spec => []SilentIsFaithful
<1>1. ASSUME TypeOK, FoundByChain PROVE SilentIsFaithful
  <2> SUFFICES ASSUME state = "found", rank = 1, ~Anchored(origin, element, example)
               PROVE  Recalls(found, FALSE) /\ \A e \in Places(page) : Recalls(e, TRUE) => e = found
    BY DEF SilentIsFaithful
  <2>1. /\ origin \in Pages /\ page \in Pages /\ element \in Elements(origin)
        /\ example \in Values /\ value \in Values \cup {Param}
    BY <1>1 DEF TypeOK
  <2>2. /\ \E exact \in BOOLEAN : found \in Matches(page, chain[1], exact)
        /\ \A e \in Matches(page, chain[1], TRUE) : e = found
    BY <1>1 DEF FoundByChain, Matched
  <2>3. /\ chain[1] = Bound(FirstLocator(origin, element), example, value)
        /\ FirstLocator(origin, element) \in Recordable
    <3>1. Reanchored(origin, element, example) = LocatorChain(origin, element)
      BY DEF Reanchored
    <3>2. LocatorChain(origin, element)[1] = FirstLocator(origin, element)
      BY <2>1, ChainForm
    <3>3. 1 \in 1 .. Len(chain) /\ chain = BoundChain(origin, element, example, value)
      BY <1>1, <2>1, BoundChainForm DEF FoundByChain
    <3> QED BY <2>1, <3>1, <3>2, <3>3, BoundChainForm
  <2>4. \A e \in Places(page), exact \in BOOLEAN :
          Match(page, chain[1], e, exact) <=> Recalls(e, exact)
    BY <2>1, <2>3, FirstRecalls
  <2>5. found \in Places(page) /\ \E exact \in BOOLEAN : Recalls(found, exact)
    BY <2>2, <2>4 DEF Matches
  <2>6. Recalls(found, TRUE) => Recalls(found, FALSE)
    BY DEF Recalls, Reads
  <2>7. \A e \in Places(page) : Recalls(e, TRUE) => e = found
    BY <2>2, <2>4 DEF Matches
  <2> QED BY <2>5, <2>6, <2>7
<1>2. FoundByChain /\ [Next]_vars => FoundByChain'
  BY FoundStays
<1> QED BY <1>1, <1>2, InitTyped, TypedStays, InitAlone, PTL DEF Spec
================================================================================
