\* Every reference graph of three components with at most two references each.
CONSTANTS
  Components = {"x", "y", "z"}
  Plain = "plain"
  Unversioned = "unversioned"
  Forms <- TheForms
  Batches <- TheBatches
  MaxDepth = 2
  MaxFields = 14
  MaxBytes = 60
SPECIFICATION FairSpec
INVARIANTS
  SourceAccounted
  VerdictExact
  OutputIsUnfolding
  BudgetCoversOutput
  LayoutsFollowReferences
PROPERTIES
  ExpansionEnds
\* The call ends with its outcome.
CHECK_DEADLOCK FALSE
