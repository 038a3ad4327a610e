\* The guard against a running mode.
SPECIFICATION Spec
CONSTANTS
  None = None
  RobotCount = 1
  Effort = Effort
  Velocity = Velocity
  Pose = Pose
  Twist = Twist
  Half = Half
  OtherHalf = OtherHalf
  ShortPose = ShortPose
  Gripper = Gripper
  Controllers = {Effort, Velocity, Pose}
  Kind <- MCKind
  Count <- MCCount
PROPERTIES
  NoSwitchWithoutStop
