\* Joint and pose targets around two deactivations.
SPECIFICATION FairSpec
CONSTANTS
  Top = 2
  Home = 1
  MaxMessages = 2
  MaxSwitches = 1
  Budget <- MCBudget
INVARIANTS
  TypeOK
  FollowsLastTarget
PROPERTIES
  NoJump
  TargetReached
