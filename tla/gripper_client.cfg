\* One client that waits for the answer before its next goal.
SPECIFICATION Spec
CONSTANTS
  Home = Home
  Move = Move
  Grasp = Grasp
  Open = Open
  Close = Close
  TooWide = TooWide
  Goals = {Grasp, Open, Close, TooWide}
  MaxWidth = 2
  Task <- MCTask
  Target <- MCTarget
  Overlap = FALSE
  Prompt = TRUE
  CommFaults = FALSE
INVARIANTS
  StopsHitTheirGoal
  CancelHalts
\* Every goal answered and the node shut down: nothing is left to do.
CHECK_DEADLOCK FALSE
