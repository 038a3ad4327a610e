\* A failed arm is deactivated, then recovered, then activated: one at a time.
SPECIFICATION RecoveredInactiveSpec
CONSTANTS
  None = None
  Garbage = Garbage
  JointTorque = JointTorque
  ControlModes = {JointTorque}
  Faults = 1
  Switches = 0
  Recoveries = 1
  Lifecycles = 1
  Shutdowns = 1
  Budget <- MCBudget
  Asserts = FALSE
  PromptStart = TRUE
  Orderly = FALSE
  CommFaults = FALSE
INVARIANTS
  ActivationStartsOverNothing
CHECK_DEADLOCK FALSE
