SPECIFICATION FairSpec
CONSTANTS
  MaxCards = 3
  MaxTime = 2
  Lifetimes = {0, 2}
  Grace = 1
  NoCard = NoCard
  NoTime = NoTime
  Never = Never
  Running = Running
INVARIANTS
  IndexIsPosition
  DraggedIsHeld
PROPERTIES
  ExpiryIsEarned
  DueCardsLeave
