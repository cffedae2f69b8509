SPECIFICATION Spec
CONSTANTS
  rice = rice
  oil = oil
  flour = flour
  basmati = basmati
  gRice = gRice
  gOil = gOil
  gFlour = gFlour
  i1 = i1
  i2 = i2
  i3 = i3
  i4 = i4
  s1 = s1
  s2 = s2
  b1 = b1
  b2 = b2
  None = None
  Body <- McBody
  MaxSent = 3
  Home <- McHome
  General <- McGeneral
  Items = {i1, i2, i3, i4}
  Suppliers = {s1, s2}
  Brokers = {b1, b2}
  FirstItems <- McItems
  FirstContacts <- McContacts
INVARIANTS
  TypeInCategory
  Linked
PROPERTIES
  ItemsKept
  AutoCodeFresh
CHECK_DEADLOCK FALSE
