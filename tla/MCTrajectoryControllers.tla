---------------------- MODULE MCTrajectoryControllers ----------------------
EXTENDS TrajectoryControllers
CONSTANTS MaxMessages, MaxSwitches
MCBudget == [message |-> MaxMessages, switch |-> MaxSwitches]
=============================================================================
