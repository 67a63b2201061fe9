------------------------------- MODULE MCLocators ------------------------------
(* Small tables: accounts with a "View" link each, a similar link, links and   *)
(* fields that have the value in their caption, attribute or id, rows of a     *)
(* form, labels with a colon, a control alone in its row, and one table with   *)
(* rows enough for a position of two digits.                                   *)
EXTENDS Locators

Control(kind, name, attr, id) == [kind |-> kind, name |-> name, attr |-> attr, id |-> id]
Link(name) == Control("link", name, NoText, NoText)
Row(cells, control) == [cells |-> cells, control |-> control]

View == Link(<<"View">>)
S01 == Row(<<<<"S01">>, <<"5.00">>>>, View)
S02 == Row(<<<<"S02">>, <<"5.00">>>>, View)
Joint == Row(<<<<"S01">>, <<"S02">>>>, Link(<<"View", "all">>))
Own == Row(<<<<"5.00">>, <<"Limit">>>>, Link(<<"S01">>))
Pay == Row(<<<<"Limit">>>>, Link(<<"View", "S01">>))
PayOther == Row(<<<<"Limit">>>>, Link(<<"View", "S02">>))
Limit == Row(<<<<"Limit">>, <<"S01">>>>, Control("select", NoText, <<"S01">>, NoText))
Override == Row(<<<<"Limit">>, <<"S02">>>>, Control("textbox", NoText, <<"S02">>, NoText))
Menu == Row(<<>>, Link(<<"View", "all">>))
Noted == Row(<<<<"Limit", ":">>, <<"5.00">>>>, NoControl)
Owner == Row(<<<<"S01", "Limit", ":">>, <<"5.00">>>>, NoControl)
OwnerOf == Row(<<<<"S02", "Limit">>, <<"5.00">>>>, NoControl)
Plain == Row(<<<<"Limit">>, <<"S01">>>>, NoControl)
Form == Row(<<>>, Control("textbox", NoText, NoText, <<"S01">>))
Unnamed == Row(<<>>, Control("textbox", NoText, NoText, NoText))
Named == Row(<<>>, Control("button", <<"View">>, <<"View">>, <<"Limit">>))
Tall == [i \in 1 .. 12 |-> Row(<<<<"5.00">>>>, NoControl)]

MCPages ==
  {<<S01>>, <<S02>>, <<S01, S02>>, <<S02, S01>>, <<S02, Joint>>, <<S01, Own>>, <<Menu, S02>>,
   <<Pay, PayOther>>, <<PayOther>>, <<Limit>>, <<Limit, Override>>, <<Override, S01>>,
   <<Form, Menu>>, <<Unnamed, Unnamed>>, <<Named, Unnamed>>, <<Noted>>, <<Plain, Noted>>,
   <<Owner, S02>>, <<OwnerOf, S01>>, Tall}
MCNumeral ==
  <<<<"1">>, <<"2">>, <<"3">>, <<"4">>, <<"5">>, <<"6">>, <<"7">>, <<"8">>, <<"9">>,
    <<"1", "0">>, <<"1", "1">>, <<"1", "2">>>>
================================================================================
