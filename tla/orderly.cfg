\* The Release build, one operator who waits for the error to be reaped before
\* asking for a recovery, and loops that start within one cycle; fair threads.
SPECIFICATION FairSpec
CONSTANTS
  None = None
  Garbage = Garbage
  JointTorque = JointTorque
  ControlModes = {JointTorque}
  Faults = 2
  Switches = 2
  Recoveries = 2
  Lifecycles = 2
  Shutdowns = 1
  Budget <- MCBudget
  Asserts = FALSE
  PromptStart = TRUE
  Orderly = TRUE
  CommFaults = FALSE
INVARIANTS
  NeverTerminates
  ReadDoesNotBlockItsLoop
  RecoveryClearsError
  StoppedMeansNoLoop
  HandleConsistent
  NoLoopWhenInitialized
PROPERTIES
  RestartKeepsMode
  RecoveryAnswers
  LoopIsFed
  ImplementsLifecycle
