\* Everything at once: recoveries at any time, failing commands, late loops.
\* The process may hang here.
SPECIFICATION Spec
CONSTANTS
  None = None
  Garbage = Garbage
  JointTorque = JointTorque
  ControlModes = {JointTorque}
  Faults = 1
  Switches = 1
  Recoveries = 2
  Lifecycles = 1
  Shutdowns = 1
  Budget <- MCBudget
  Asserts = FALSE
  PromptStart = FALSE
  Orderly = FALSE
  CommFaults = TRUE
INVARIANTS
  TypeOK
  ReadExcludesRestart
CHECK_DEADLOCK FALSE
