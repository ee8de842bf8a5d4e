SPECIFICATION Spec
CONSTANTS
  Looks = {red}
  DefaultLook = red
  DrawingTools = {"badge"}
  NoAnnotation = NoAnnotation
  NoTransform = NoTransform
  NoSource = NoSource
  FilesFail = FALSE
  MaxId = 2
  MaxHistory = 1
  MaxCards = 3
INVARIANTS
  NumberingIsDistinct
  MarksAreAppliedOnce
CHECK_DEADLOCK FALSE
