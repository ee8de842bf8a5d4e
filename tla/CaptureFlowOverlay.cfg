SPECIFICATION FairSpec
CONSTANTS
  Cards = {}
  NoCard = NoCard
  Argvs <- MCArgvs
  MaxCaptures = 3
  MaxPending = 2
  MaxFaults = 2
INVARIANTS
  RestsBetweenCommands
  NoStrandedSelection
  OverlayConverges
PROPERTIES
  SelectionIsNotReplaced
  SelectionIsShown
  CommitsAreAnswered
CHECK_DEADLOCK FALSE
