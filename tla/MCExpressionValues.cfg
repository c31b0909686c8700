\* Every pair of operands under every operator and field type.
CONSTANTS
  One = 8
  Epsilon = 2
  Precision = 5
  IntBits = 9
  MaxDouble = 1015808
  MaxZeros = 3
  ExponentForm = 200
  Step = 2
  Texts <- SmallTexts
  Operands <- SmallOperands
  Ops = {"eq", "lt", "add", "sub", "mul", "div"}
  FieldTypes = {"integer", "whole", "stepped"}
SPECIFICATION Spec
INVARIANTS
  OrderMirrors
  OrderIsNumeric
  OneEqualityOfNumbers
  NonzeroArithmeticExact
  IntegerResubmissionAccepted
\* A calculation ends when its value is accepted or refused.
CHECK_DEADLOCK FALSE
