SPECIFICATION Spec
CONSTANTS
  Cards = {c1, c2}
  NoCard = NoCard
  Argvs <- MCArgvs
  MaxCaptures = 1
  MaxPending = 2
  MaxFaults = 1
SYMMETRY CardSymmetry
INVARIANTS
  EditingHoldsACard
PROPERTIES
  RevisionCommitIsAtomic
CHECK_DEADLOCK FALSE
