SPECIFICATION WindowSpec
CONSTANTS
  MaxInt = 100000
  MaxCommits = 2
  MaxEvents = 1
  MaxCount = 5
  Background = {bg}
  Layouts <- MCLayouts
  Requests <- MCRequests
  Cursors <- MCCursors
  SystemFails = TRUE
  NoCards = NoCards
INVARIANTS
  PageShowsQueue
  ShelfComesBack
  ShelfIsNotClipped
CHECK_DEADLOCK FALSE
