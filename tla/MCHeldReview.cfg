SPECIFICATION LiveSpec
CONSTANTS
  MaxTasks = 2
  MaxRows = 2
  MaxGeneration = 2
  MaxMoves = 1
  MaxOutages = 1
INVARIANTS
  ResolvedOnce
  ParkedInOnePlace
  ScreenShowsProject
PROPERTIES
  WithheldWhileParked
  HeldEventuallyResolved
CHECK_DEADLOCK FALSE
