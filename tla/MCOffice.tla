------------------------------ MODULE MCOffice ------------------------------
(* Two categories and a third one to come, a live item and an archived one *)
(* with the highest code, and requests of every kind.                      *)
EXTENDS Office, TLC
CONSTANTS rice, oil, flour, basmati, gRice, gOil, gFlour, i1, i2, i3, i4, s1, s2, b1, b2

McHome == basmati :> rice @@ gRice :> rice @@ gOil :> oil @@ gFlour :> flour
McGeneral == rice :> gRice @@ oil :> gOil @@ flour :> gFlour
McItems ==
  i1 :> [cat |-> rice, type |-> basmati, code |-> 1, bar |-> 1, live |-> TRUE, sups |-> {s1}]
  @@ i2 :> [cat |-> oil, type |-> gOil, code |-> 2, bar |-> 2, live |-> FALSE, sups |-> {}]
McContacts == s1 :> b1

R(op) == [op |-> op, item |-> None, cat |-> None, type |-> None, sups |-> {}, coded |-> FALSE, code |-> 0, bar |-> 0,
          sup |-> None, brokers |-> {}, broker |-> None]
McBody == <<
  [R("category") EXCEPT !.cat = flour], [R("dropCategory") EXCEPT !.cat = flour], [R("dropCategory") EXCEPT !.cat = oil],
  [R("type") EXCEPT !.type = basmati], [R("dropType") EXCEPT !.type = basmati], [R("dropType") EXCEPT !.type = gOil],
  [R("item") EXCEPT !.item = i3, !.cat = oil, !.sups = {s1}],
  [R("item") EXCEPT !.item = i4, !.cat = flour, !.code = 3],
  [R("scan") EXCEPT !.item = i3, !.type = gOil, !.code = 2, !.bar = 3],
  [R("batch") EXCEPT !.item = i4, !.type = gOil, !.sups = {s1}],
  [R("edit") EXCEPT !.item = i1, !.cat = oil],
  [R("edit") EXCEPT !.item = i1, !.type = gRice],
  [R("edit") EXCEPT !.item = i1, !.sups = {s2}],
  [R("edit") EXCEPT !.item = i2, !.cat = rice, !.type = basmati],
  [R("edit") EXCEPT !.item = i1, !.coded = TRUE, !.code = 3], [R("edit") EXCEPT !.item = i2, !.coded = TRUE],
  [R("code") EXCEPT !.item = i4],
  [R("setCode") EXCEPT !.item = i1, !.code = 4], [R("setBarcode") EXCEPT !.item = i1, !.bar = 3],
  [R("archive") EXCEPT !.item = i3],
  [R("dropItem") EXCEPT !.item = i1], [R("dropItem") EXCEPT !.item = i2],
  [R("supplier") EXCEPT !.sup = s2, !.brokers = {b1}, !.broker = b1], [R("supplier") EXCEPT !.sup = s2],
  [R("editSupplier") EXCEPT !.sup = s1],
  [R("dropSupplier") EXCEPT !.sup = s1], [R("dropSupplier") EXCEPT !.sup = s2],
  [R("broker") EXCEPT !.broker = b2, !.sups = {s1}], [R("broker") EXCEPT !.broker = b2, !.sups = {s2}],
  [R("editBroker") EXCEPT !.broker = b1, !.sups = {s2}],
  [R("dropBroker") EXCEPT !.broker = b1], [R("dropBroker") EXCEPT !.broker = b2],
  [R("buy") EXCEPT !.sup = s1, !.item = i1, !.broker = b1], R("void")>>
=============================================================================
