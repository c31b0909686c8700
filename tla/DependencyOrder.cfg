\* Every rules document over three fields.
CONSTANT N = 3
SPECIFICATION FairSpec
INVARIANTS
  SortInvariant
  DependenciesFirst
  CycleVerdictExact
PROPERTIES
  SortTerminates
  ImplementsReadyOrder
\* The sort stops when it has its verdict.
CHECK_DEADLOCK FALSE
