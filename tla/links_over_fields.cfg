SPECIFICATION Spec
CONSTANTS
  Concepts <- Kept
  Former <- OldHome
  Moves <- OneMove
  Tokens <- TickTokens
  MaxFront = 1
  MaxTokens = 5
INVARIANTS RelinkedLinksFollow
CHECK_DEADLOCK FALSE
