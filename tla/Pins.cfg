SPECIFICATION FairSpec
CONSTANTS
  MaxInt = 11
  PinIds = {p1, p2}
  Captures = {c1}
  MaxPins = 1
  Stagger = 1
  Source <- MCSource
  Positions <- MCPositions
  Drags <- MCDrags
  Cursors <- MCCursors
  Factors <- MCFactors
  Opacities = {}
  Layouts <- MCLayouts
  None = None
  NoPin = NoPin
  SystemRefuses = TRUE
INVARIANTS
  GuardsMatchPins
  PinsCanBeClosed
PROPERTIES
  ReanchorReaches
  LayoutIsFollowed
CHECK_DEADLOCK FALSE
