\* Rows taken from the answers of validate_response.
CONSTANTS
  a = a
  t = t
  q = q
  x = x
  y = y
  inside = inside
  beside = beside
  Scalars = {a}
  Totals = {t}
  Cells = {q}
  Derived = {x, y}
  Lines = Lines
  Null = Null
  Submitted <- OuterSubmitted
  RowMaps <- SmallRowMaps
  MaxRows = 2
  Entries = {"answers"}
  Documents <- SmallDocuments
  Compute <- Term
SPECIFICATION Spec
INVARIANTS
  RowScope
CHECK_DEADLOCK FALSE
