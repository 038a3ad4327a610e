\* Two arms; every effort, the positions of one arm or of the other, and the
\* two thirds of one arm's pose that pass for twelve interfaces of both.
SPECIFICATION Spec
CONSTANTS
  None = None
  Garbage = Garbage
  Down = Down
  RobotCount = 2
  MaxFaults = 2
  Unwritten = {None, Garbage}
  Both = Both
  Left = Left
  Right = Right
  Pose = Pose
  ShortPose = ShortPose
  Controllers = {Left, Right, ShortPose}
  Kind <- MCKind
  Count <- MCCount
  Claim <- MCClaim
INVARIANTS
  TypeOK
  ArmsAgree
  ArmsAreOwned
PROPERTIES
  ArmsAreFed
  ImplementsOneArm
