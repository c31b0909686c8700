\* Both entry points, up to two submitted elements, every element kind.
CONSTANTS
  a = a
  t = t
  q = q
  x = x
  y = y
  inside = inside
  beside = beside
  Scalars = {a}
  Totals = {t}
  Cells = {q}
  Derived = {x, y}
  Lines = Lines
  Null = Null
  Submitted <- SmallSubmitted
  RowMaps <- SmallRowMaps
  MaxRows = 2
  Entries = {"answers", "values"}
  Documents <- SmallDocuments
  Compute <- Term
SPECIFICATION Spec
INVARIANTS
  EvaluationInvariant
  RowScopeOfValues
  CalculatedIsFixpoint
\* An evaluation stops when it has its result.
CHECK_DEADLOCK FALSE
