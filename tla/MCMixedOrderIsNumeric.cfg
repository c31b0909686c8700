\* One statement of the documentation, MixedOrderIsNumeric.
CONSTANTS
  One = 8
  Epsilon = 2
  Precision = 5
  IntBits = 9
  MaxDouble = 1015808
  MaxZeros = 3
  ExponentForm = 200
  Step = 2
  Texts <- SmallTexts
  Operands <- SmallOperands
  Ops = {"lt"}
  FieldTypes = {"whole"}
SPECIFICATION Spec
INVARIANTS
  MixedOrderIsNumeric
\* A calculation ends when its value is accepted or refused.
CHECK_DEADLOCK FALSE
