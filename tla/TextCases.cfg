\* Every short text, put through each rule.
SPECIFICATION Spec
CONSTANTS
  Rules <- MCRules
  PiecesOf <- MCPiecesOf
  BoundOf <- MCBoundOf
  Reviewed <- MCReviewed
  LongText = 3
  Originals <- MCOriginals
INVARIANTS
  MaskingIsComplete
  AddressesAreHiddenWhole
  DriftMakesNoDifference
  NothingIsPlayedDown
  LastReviewWins
  ChunksHoldTheText
  LookupFindsTheOriginal
  CitationsSurviveTokens
  CasesFollowTheHuman
\* A text that is long enough is not extended.
CHECK_DEADLOCK FALSE
