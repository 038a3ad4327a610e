\* Controllers that claim every interface of their kind, the two halves of an
\* arm, and one of another component; that component may refuse a switch.
SPECIFICATION Spec
CONSTANTS
  None = None
  RobotCount = 1
  Effort = Effort
  Velocity = Velocity
  Pose = Pose
  Twist = Twist
  Half = Half
  OtherHalf = OtherHalf
  ShortPose = ShortPose
  Gripper = Gripper
  Controllers = {Effort, Pose, Half, OtherHalf, Gripper}
  Kind <- MCKind
  Count <- MCCount
INVARIANTS
  TypeOK
  LoopIsOwned
  LoopCanBeStopped
  IdleAcceptsStart
