\* Overlapping goals, late commands, a stale width, failing stops.
SPECIFICATION FairSpec
CONSTANTS
  Home = Home
  Move = Move
  Grasp = Grasp
  Open = Open
  Close = Close
  TooWide = TooWide
  Goals = {Home, Open}
  MaxWidth = 2
  Task <- MCTask
  Target <- MCTarget
  Overlap = TRUE
  Prompt = FALSE
  CommFaults = TRUE
INVARIANTS
  TypeOK
  AnsweredIsQuiet
PROPERTIES
  AnswersOnce
  GoalEnds
\* Every goal answered and the node shut down: nothing is left to do.
CHECK_DEADLOCK FALSE
