\* The four nodes, several chains, a queue that overflows.
SPECIFICATION FairSpec
CONSTANTS
  Joint = Joint
  Unlimited = Unlimited
  Fixed = Fixed
  Bad = Bad
  None = None
  Chains <- MCChains
  Poses = {p1, p2}
  Branches = {b1, b2}
  HomeBranch = b1
  ZeroBranch = b2
  Depth = 2
  MaxRequests = 4
INVARIANTS
  LimitsAreTheJoints
PROPERTIES
  ContinuesLast
  RequestsTaken
\* Nobody has to send a request.
CHECK_DEADLOCK FALSE
