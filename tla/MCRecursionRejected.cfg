\* Bounds small enough that both limits, both caps and both loops are met.
CONSTANTS
  Nodes = {"root", "in", "in2", "d", "din", "e"}
  Root = "root"
  Unresolved = "unresolved"
  Schemas <- TheSchemas
  MaxSchemaDepth = 4
  Instances <- TheInstances
  BaseSteps = 4
  StepsPerNode = 1
  MaxCollectedErrors = 3
  MaxReportedErrors = 2
SPECIFICATION CheckSpec
INVARIANT RecursionRejected
\* The call ends with its report.
CHECK_DEADLOCK FALSE
