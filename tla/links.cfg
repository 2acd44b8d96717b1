SPECIFICATION Spec
CONSTANTS
  Concepts <- Kept
  Former <- OldHome
  Moves <- OneMove
  Tokens <- LinkTokens
  MaxFront = 1
  MaxTokens = 5
INVARIANTS RelinkedLinksFollow MovedLinksFollow NormalizedForGood OldPathsReported
CHECK_DEADLOCK FALSE
