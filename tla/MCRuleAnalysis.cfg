SPECIFICATION AnalysisSpec
CONSTANTS
  NoItems = NoItems
  None = None
  Blank = Blank
  Forms <- SmallForms
  Documents <- SmallDocuments
  Expressions <- SmallExpressions
  MaxNesting = 3
  SemanticsOf <- FromForm
  AnswersOf <- BuildAnswerIndex
INVARIANT IndexesAgree
INVARIANT EveryReadWasAnalyzed
INVARIANT ShapeFailureOnlyInNestedAggregate
CHECK_DEADLOCK FALSE
