CONSTANTS
  IntMax = 2
  Builds = {"checks", "wraps"}
  MayPanic = TRUE
  Calls <- MCCalls
  VersionCalls <- MCVersionCalls
  OwnVersions <- MCOwnVersions
  MaxPublished = 2
SPECIFICATION Spec
INVARIANTS
  EnvelopeIsTruthful
  NextIsLeastNewer
PROPERTY
  ImplementsCallContract
