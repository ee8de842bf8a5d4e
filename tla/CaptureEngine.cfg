SPECIFICATION EngineSpec
CONSTANTS
  MaxInt = 1000
  Font <- MCFont
  Layouts <- MCLayouts
  NoLayout = NoLayout
  NoFrame = NoFrame
  NoCapture = NoCapture
  MaxCaptures = 2
  MaxMonitors = 2
  MaxPixels = 6
  ScalePercent = 150
  MinSelection = 1
  Scenes <- MCScenes
  SystemFails = TRUE
INVARIANTS
  PictureIsDesktop
  RedactionHolds
