SPECIFICATION Spec
CONSTANTS
  Shelves = {s1}
  NoShelf = NoShelf
  Threads = {"main", "ticker", "sweeper", "recovery"}
  LowWater = 0
  MaxPins = 1
  MaxDrags = 1
  MaxFaults = 2
INVARIANTS
  RefsCountGuards
  HeldEntriesSurvive
  OnlyUnownedAreReaped
  NoShelfLockLeaks
  ManifestPublishesLast
PROPERTIES
  EvictionSparesRegistered
  IsCaptureStore
CHECK_DEADLOCK FALSE
