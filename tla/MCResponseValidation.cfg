\* Flags, calculated fields, rows and spellings, each in every combination.
CONSTANTS
  Fields <- TheFields
  Repeater = "rows"
  Children <- TheChildren
  Pages <- ThePages
  Suites <- TheSuites
  Script <- TheScript
  MaxErrors = 4
  MaxBytes = 4
SPECIFICATION Spec
INVARIANTS
  DraftIsWeaker
  PagesAgree
  NothingDropped
  AcceptedIsStable
  CapIsHonest
\* The client stops after its last call.
CHECK_DEADLOCK FALSE
