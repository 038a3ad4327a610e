\* isStopped() while a recovery and the controller manager interleave.
SPECIFICATION Spec
CONSTANTS
  None = None
  Garbage = Garbage
  JointTorque = JointTorque
  ControlModes = {JointTorque}
  Faults = 1
  Switches = 1
  Recoveries = 2
  Lifecycles = 0
  Shutdowns = 1
  Budget <- MCBudget
  Asserts = FALSE
  PromptStart = TRUE
  Orderly = FALSE
  CommFaults = FALSE
INVARIANTS
  StoppedMeansNoLoop
CHECK_DEADLOCK FALSE
