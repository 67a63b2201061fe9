-------------------------------- MODULE Locators -------------------------------
(***************************************************************************)
(* How an element picked at discovery is found again at replay: the chain   *)
(* of locators build_locator_chain makes of it (cua/browser.py), the anchor *)
(* on a declared input's value and the templates the recorder puts in       *)
(* (cua/discovery/recorder.py), the values of the call the engine puts back *)
(* (cua/replay/engine.py), and resolve_target trying them on a page that    *)
(* need not be the page of the discovery and may still be loading.          *)
(*                                                                          *)
(* A text is a sequence of fragments, a value of the input one fragment: a  *)
(* value can stand anywhere in a text, in a caption, an attribute or the    *)
(* digits of a position.  A page is one table, its rows text cells (td)     *)
(* with texts of their own and at most one control in a last td; the first  *)
(* row is the header.  There is one declared input; ids are of controls and *)
(* stand once in a page; all is visible and short; fragments do not differ  *)
(* in case alone; a button is a <button>, a text field an <input>, a field's *)
(* own name (aria-label, placeholder) no text of the page; roles, tags and   *)
(* the words of a selector hold no value.                                   *)
(***************************************************************************)
EXTENDS Naturals, SequencesExt

CONSTANTS
  Fragments,   \* the pieces texts are made of
  Colon,       \* the fragment ":"
  Width,       \* the most cells of a row, that of its control included
  Pages,
  Values,      \* what the input may be, at discovery and in a call
  Numeral,     \* Numeral[i]: the digits of i, as a selector spells a position
  Param        \* the input's placeholder "{name}"

NoText == <<>>

\* A label is read without the colon at its end.
Label(text) == IF text # NoText /\ Last(text) = Colon THEN Front(text) ELSE text
Texts == {text \in Seq(Fragments) : Label(text) # NoText}

Kinds == {"link", "button", "textbox", "select"}
Captioned == {"link", "button"}
NoControl == [kind |-> "none", name |-> NoText, attr |-> NoText, id |-> NoText]
\* The name is the accessible one, attr the attribute called name.
Controls ==
  [kind : Kinds, name : Texts \cup {NoText}, attr : Texts \cup {NoText}, id : Texts \cup {NoText}]
Rows == [cells : Seq(Texts), control : Controls \cup {NoControl}]

Tds(row) == Len(row.cells) + IF row.control = NoControl THEN 0 ELSE 1

ASSUME LocatorAssumptions ==
  /\ Width \in Nat
  /\ Pages \subseteq Seq(Rows)
  /\ \A p \in Pages : /\ 1 .. Len(p) \subseteq DOMAIN Numeral
                      /\ \A i \in 1 .. Len(p) :
                           /\ Tds(p[i]) <= Width
                           /\ p[i].control.kind \in Captioned => p[i].control.name # NoText
                      /\ \A i, j \in 1 .. Len(p) : 
                           p[i].control.id = p[j].control.id => p[i].control.id = NoText \/ i = j
  /\ 1 .. Width \subseteq DOMAIN Numeral
  /\ \A i \in DOMAIN Numeral : Numeral[i] \in Texts
  /\ \A i, j \in DOMAIN Numeral : Numeral[i] = Numeral[j] => i = j
  /\ Values \subseteq Fragments
  /\ Param \notin Fragments

VARIABLES
  origin, element, example,   \* the page of the discovery, the element, the input
  value, chain,               \* the input of the call or Param, the target with it put in
  page,                       \* the live page
  pass, rank,                 \* resolve_target: first or final pass, next locator
  found, state,
  settled                     \* history: the page has not moved since the call began

recorded == <<origin, element, example>>
call == <<value, chain>>
vars == <<recorded, call, page, pass, rank, found, state, settled>>

\* The places of a page: <<i, 0>> the control of row i, <<i, c>> its td c.
Places(p) ==
  {e \in (1 .. Len(p)) \X (0 .. Width) :
     IF e[2] = 0 THEN p[e[1]].control # NoControl ELSE e[2] <= Tds(p[e[1]])}
Nothing == <<0, 0>>

Caption(control) == IF control.kind \in Captioned THEN control.name ELSE NoText

\* A td's text, that of the control in it included, and the text that is its own.
TdText(row, c) == IF c <= Len(row.cells) THEN row.cells[c] ELSE Caption(row.control)
TdOf(row, c) == IF c = 0 THEN Tds(row) ELSE c
OwnText(row, c) ==
  IF c = 0 THEN Caption(row.control) ELSE IF c <= Len(row.cells) THEN row.cells[c] ELSE NoText

\* td:text-is(...) in the row
Shows(row, text) == \E c \in 1 .. Len(row.cells) : row.cells[c] = text

\* What a snapshot lists: every control, and the text cells that have a label, which
\* in the first column is the header's and else the cell before.
Elements(p) ==
  {e \in Places(p) :
     LET row == p[e[1]] IN
     e[2] # 0 => /\ e[2] <= Len(row.cells)
                 /\ e[2] = 1 => e[1] > 1 /\ TdText(p[1], 1) # NoText}

--------------------------------------------------------------------------------
(* Discovery: the chain.  An operator named ..._Fault is its neighbour with a *)
(* bug this code could have had; nothing uses it.                             *)

Locator(by, kind, text, name, row, col) ==
  [by |-> by, kind |-> kind, text |-> text, name |-> name, row |-> row, col |-> col]

\* cssPath: up to an id, with the position among several siblings only.
Path(p, e) ==
  LET row == p[e[1]]
      tag == IF e[2] = 0 THEN row.control.kind ELSE "none"
  IN IF e[2] = 0 /\ row.control.id # NoText
     THEN Locator("path", tag, row.control.id, NoText, NoText, NoText)
     ELSE Locator("path", tag, NoText, NoText,
                  IF Len(p) > 1 THEN Numeral[e[1]] ELSE NoText,
                  IF Tds(row) > 1 THEN Numeral[TdOf(row, e[2])] ELSE NoText)

Cell(text, c) == Locator("cell", "none", text, NoText, NoText, Numeral[c])
InRow(text, control) == Locator("in row", control.kind, text, control.name, NoText, NoText)
CellNextTo(row, c) == Cell(Label(row.cells[c - 1]), c)
Role(control) == Locator("role", control.kind, NoText, control.name, NoText, NoText)
By(attribute, text, control) == Locator(attribute, control.kind, text, NoText, NoText, NoText)
If(condition, locator) == IF condition THEN <<locator>> ELSE <<>>

\* FAULT: the structural path comes first.
LocatorChain_Fault(p, e) ==
  LET row == p[e[1]] IN
  <<Path(p, e)>> \o
     IF e[2] > 0 THEN If(e[2] > 1, CellNextTo(row, e[2]))
     ELSE If(row.control.name # NoText, Role(row.control))

\* build_locator_chain
LocatorChain(p, e) ==
  LET row == p[e[1]]
      control == row.control
  IN IF e[2] > 0
     THEN If(e[2] > 1, CellNextTo(row, e[2])) \o <<Path(p, e)>>
     ELSE If(control.name # NoText, Role(control))
          \o If(control.attr # NoText, By("attr", control.attr, control))
          \o If(control.id # NoText, By("id", control.id, control))
          \o If(control.kind = "link", By("text", control.name, control))
          \o <<Path(p, e)>>

\* A td of the element's row -- another than the element -- has the input's value v
\* for its text, be it the caption of the control in it.
KnowsItsRow(p, e, v) ==
  LET row == p[e[1]] IN \E c \in 1 .. Tds(row) : c # e[2] /\ TdText(row, c) = <<v>>

\* ... and the element is a cell that is not labelled by the header, or a control that
\* a selector within the row is known for.
Anchored(p, e, v) ==
  KnowsItsRow(p, e, v) /\ IF e[2] = 0 THEN p[e[1]].control.kind # "select" ELSE e[2] > 1

\* FAULT: the path is kept behind the anchor.
Reanchored_Fault(p, e, v) ==
  IF Anchored(p, e, v) /\ e[2] # 0 THEN <<Cell(<<v>>, e[2]), Path(p, e)>> ELSE LocatorChain(p, e)

\* _reanchor_on_declared_input: the row of that value and nothing else.
Reanchored(p, e, v) ==
  IF ~Anchored(p, e, v) THEN LocatorChain(p, e)
  ELSE IF e[2] = 0 THEN <<InRow(<<v>>, p[e[1]].control)>>
  ELSE <<Cell(<<v>>, e[2])>>

\* _parameterize_target: wherever the input's value stands in a locator, the placeholder.
Template(text, v) == ReplaceAll(text, v, Param)

\* FAULT: locators are left as recorded.
Substitute_Fault(text, w) == text

\* _substitute_target: the placeholder becomes the value of the call.
Substitute(text, w) == ReplaceAll(text, Param, w)

\* Both go over a locator's whole value and name, its selector's digits too.
Bound(locator, v, w) ==
  LET Called(text) == Substitute(Template(text, v), w) IN
  Locator(locator.by, locator.kind, Called(locator.text), Called(locator.name),
          Called(locator.row), Called(locator.col))

\* The target of element e of page p, recorded with input v, in a call with input w;
\* with Param for w the target as recorded, which is what a checkpoint is looked at
\* with again after a recovery or a handoff (replay/engine.py).
BoundChain(p, e, v, w) ==
  LET target == Reanchored(p, e, v) IN [k \in DOMAIN target |-> Bound(target[k], v, w)]

--------------------------------------------------------------------------------
(* Replay: resolve_target *)

\* One text stands within the other.
Holds(text, part) ==
  \E k \in 0 .. Len(text) : /\ k + Len(part) <= Len(text)
                            /\ \A i \in 1 .. Len(part) : text[k + i] = part[i]

Reads(text, wanted, exact) == text = wanted \/ (~exact /\ Holds(text, wanted))

\* The places a locator matches.  A text field in a row is looked for by its value
\* as if that were its name.
Match(p, locator, e, exact) ==
  LET row == p[e[1]]
      control == row.control
      ofKind == e[2] = 0 /\ control.kind = locator.kind
  IN CASE locator.by = "cell"   -> /\ e[2] # 0 /\ Shows(row, locator.text)
                                   /\ Numeral[e[2]] = locator.col
       [] locator.by = "in row" -> /\ ofKind /\ control.kind # "textbox"
                                   /\ Shows(row, locator.text) /\ control.name = locator.name
       [] locator.by = "role"   -> ofKind /\ Reads(control.name, locator.name, exact)
       [] locator.by = "attr"   -> ofKind /\ control.attr = locator.text
       [] locator.by = "id"     -> e[2] = 0 /\ control.id = locator.text
       [] locator.by = "text"   -> Reads(OwnText(row, e[2]), locator.text, exact)
       [] locator.by = "path"   ->
            IF locator.text # NoText THEN ofKind /\ control.id = locator.text
            ELSE /\ IF locator.kind = "none" THEN e[2] # 0 ELSE ofKind
                 /\ locator.row \in {NoText, Numeral[e[1]]}
                 /\ locator.col \in {NoText, Numeral[TdOf(row, e[2])]}

Matches(p, locator, exact) == {e \in Places(p) : Match(p, locator, e, exact)}

\* FAULT: of several matches one is taken.
Accepted_Fault(p, locator) == Matches(p, locator, pass = 1)

OnlyOne(S) == IF \E e \in S : S = {e} THEN S ELSE {}

\* A locator that matches one element only has found it; the first pass gives a role
\* that none has by the very name a second try.
Accepted(p, locator) ==
  LET matches == Matches(p, locator, pass = 1) IN
  IF locator.by = "role" /\ matches = {} THEN OnlyOne(Matches(p, locator, FALSE))
  ELSE OnlyOne(matches)

Init ==
  /\ origin \in Pages /\ element \in Elements(origin)
  /\ example \in Values /\ value \in Values \cup {Param}
  /\ chain = BoundChain(origin, element, example, value)
  /\ page \in Pages
  /\ pass = 1 /\ rank = 1
  /\ found = Nothing /\ state = "trying"
  /\ settled = TRUE

Done(how) == state' = how /\ UNCHANGED <<recorded, call, page, pass, rank, settled>>

Try ==
  /\ state = "trying" /\ rank <= Len(chain)
  /\ LET accepted == Accepted(page, chain[rank]) IN
     IF accepted # {}
     THEN found' \in accepted /\ Done("found")
     ELSE /\ rank' = rank + 1
          /\ UNCHANGED <<recorded, call, page, pass, found, state, settled>>

\* The settle window, then the final pass.
Settle ==
  /\ state = "trying" /\ rank > Len(chain) /\ pass = 1
  /\ pass' = 2 /\ rank' = 1
  /\ UNCHANGED <<recorded, call, page, found, state, settled>>

\* ResolutionError
GiveUp ==
  /\ state = "trying" /\ rank > Len(chain) /\ pass = 2
  /\ Done("failed") /\ UNCHANGED found

\* The page loads on.  Bound: once in a resolution.
PageMoves ==
  /\ state = "trying" /\ settled
  /\ page' \in Pages \ {page} /\ settled' = FALSE
  /\ UNCHANGED <<recorded, call, pass, rank, found, state>>

Terminated == state # "trying" /\ UNCHANGED vars

Resolve == Try \/ Settle \/ GiveUp

Next == Resolve \/ PageMoves \/ Terminated

Spec == Init /\ [][Next]_vars
--------------------------------------------------------------------------------
(* Properties *)

Bindable == Seq(Fragments \cup {Param})
LocatorRecords ==
  [by : {"cell", "path", "in row", "role", "attr", "id", "text"}, kind : Kinds \cup {"none"},
   text : Bindable, name : Bindable, row : Bindable, col : Bindable]

\* The fragment stands somewhere in the locator.
Mentions(locator, fragment) ==
  fragment \in Range(locator.text) \cup Range(locator.name)
                 \cup Range(locator.row) \cup Range(locator.col)

TypeOK ==
  /\ origin \in Pages /\ page \in Pages
  /\ element \in Elements(origin)
  /\ example \in Values /\ value \in Values \cup {Param}
  /\ chain \in Seq(LocatorRecords)
  /\ \A k \in DOMAIN chain : Mentions(chain[k], Param) => value = Param
  /\ pass \in {1, 2}
  /\ rank \in 1 .. Len(chain) + 1
  /\ found \in Places(page) \cup {Nothing}
  /\ state \in {"trying", "found", "failed"}
  /\ found # Nothing <=> state = "found"
  /\ settled \in BOOLEAN

\* Where the row of the discovery was known by the input's value, the element found
\* is in a row that shows the value of this call: never in another row that only is
\* at the same place or has the same captions.  A checkpoint looked at as recorded
\* finds nothing then, instead of holding for another row.
RowIsTheCallers ==
  state = "found" /\ Anchored(origin, element, example) => Shows(page[found[1]], <<value>>)

\* The label in front of the element is written with a colon.
HasColon(row, c) == c > 1 /\ Label(row.cells[c - 1]) # row.cells[c - 1]

\* An anchor on the value in a cell of the element's row that cannot tell the element:
\* it is a text field, which has no caption, or another row shows the value too and has
\* an element of the kind.
Untold(p, e, v) ==
  LET row == p[e[1]] IN
  \/ e[2] = 0 /\ row.control.kind = "textbox"
  \/ \E i \in DOMAIN p \ {e[1]} :
       /\ Shows(p[i], <<v>>)
       /\ IF e[2] = 0
          THEN p[i].control.kind = row.control.kind /\ p[i].control.name = row.control.name
          ELSE e[2] <= Tds(p[i])

\* On the page of the discovery as long as it stays, with the input of the discovery,
\* resolving finds the element itself; an anchored one fails where the anchor cannot
\* tell it, rather than another being taken.  There are two exceptions.  A row that has
\* the value only as the caption of its control is anchored on it all the same, but
\* looked for by the texts of its cells: the element is not found, another in a row that
\* shows the value may be.  And the locator of a label with a colon leaves the colon out
\* and may match another row.
SamePageSameElement ==
  state # "trying" /\ settled /\ page = origin /\ value = example =>
    IF ~Anchored(origin, element, example)
    THEN found = element \/ HasColon(origin[element[1]], element[2])
    ELSE IF ~Shows(origin[element[1]], <<example>>) THEN found # element
    ELSE IF Untold(origin, element, example) THEN state = "failed"
    ELSE found = element

\* Place e of the live page is what the first locator recorded -- a label and a column,
\* a caption, an attribute, an id, else a place -- wherever the value of the discovery
\* stands in it, in a digit of the place too, replaced by the caller's.
Recalls(e, exact) ==
  LET Called(text) == ReplaceAll(text, example, value)
      was == origin[element[1]]
      is == page[e[1]]
      likewise == e[2] = 0 /\ is.control.kind = was.control.kind
  IN IF element[2] > 1
     THEN /\ e[2] # 0 /\ Shows(is, Called(Label(was.cells[element[2] - 1])))
          /\ Numeral[e[2]] = Called(Numeral[element[2]])
     ELSE IF element[2] = 0 /\ was.control.name # NoText
     THEN likewise /\ Reads(is.control.name, Called(was.control.name), exact)
     ELSE IF element[2] = 0 /\ was.control.attr # NoText
     THEN likewise /\ is.control.attr = Called(was.control.attr)
     ELSE IF element[2] = 0 /\ was.control.id # NoText
     THEN e[2] = 0 /\ is.control.id = Called(was.control.id)
     ELSE /\ IF element[2] = 0 THEN likewise ELSE e[2] # 0
          /\ Len(origin) > 1 => Numeral[e[1]] = Called(Numeral[element[1]])
          /\ Tds(was) > 1 => Numeral[TdOf(is, e[2])] = Called(Numeral[TdOf(was, element[2])])

\* An element found by the first locator, which is not reported as drift, is what was
\* recorded, and the only one of the page that is: its label or caption still says so
\* -- or holds the recorded caption, when none has it exactly or in the final pass --
\* and only what has neither is known by an attribute, an id or its place.  The caller's
\* value in place of the recorded one is the exception, and a wide one: where the value
\* of the discovery happens to stand in a caption or an ordinal ("1" in td 12), another
\* value silently asks for another element.
SilentIsFaithful ==
  state = "found" /\ rank = 1 /\ ~Anchored(origin, element, example) =>
    /\ Recalls(found, FALSE)
    /\ \A e \in Places(page) : Recalls(e, TRUE) => e = found
================================================================================
