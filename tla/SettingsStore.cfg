SPECIFICATION FairSpec
CONSTANTS
  Stores = {"preferences", "policy", "hotkeys"}
  NoFile = NoFile
  Torn = Torn
  NoValue = NoValue
  MaxSets = 3
  MaxFaults = 2
INVARIANTS
  SettledIsPersisted
  AcknowledgedIsDurable
PROPERTIES
  ChangeReachesDisk
  IsDurableRegister
CHECK_DEADLOCK FALSE
