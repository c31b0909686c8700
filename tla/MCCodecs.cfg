CONSTANTS
  KeyTokens <- MCKeyTokens
  KeyOf <- MCKeyOf
  Scalars <- MCScalars
  Hash <- MCHash
  Meaning <- MCMeaning
  Size <- MCSize
  KeyRank <- MCKeyRank
  TextTokens <- MCTextTokens
  WireElements <- MCWireElements
  MaxDepth = 2
  MaxTokens = 11
  MaxWire = 5
SPECIFICATION CodecsSpec
CHECK_DEADLOCK FALSE
INVARIANTS
  StreamIsOrderedParse
  SeenAreOpenKeys
  DecodedSurvivesBothCodecs
  PackedIsExact
