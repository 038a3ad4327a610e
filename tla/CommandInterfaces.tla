-------------------------- MODULE CommandInterfaces --------------------------
(***************************************************************************)
(* The command interfaces the hardware components export, and the checks   *)
(* of helper_functions.cpp and prepare_command_mode_switch on a list of    *)
(* them.  FrankaMultiHardwareInterface repeats the function with every     *)
(* size multiplied by robot_count_: RobotCount is 1 for                    *)
(* FrankaHardwareInterface.                                                *)
(*                                                                         *)
(* A controller claims Count[c] interfaces of the kind Kind[c]; a list of  *)
(* interfaces is the set of the controllers it comes from.                 *)
(***************************************************************************)
EXTENDS Integers, FiniteSets, Functions

CONSTANTS Controllers,
          Kind,          \* the kind of interface a controller claims
          Count,         \* and how many of them
          RobotCount,    \* how many arms the component drives
          None

JointModes     == {"JointTorque", "JointPosition", "JointVelocity"}
CartesianModes == {"CartesianPose", "CartesianVelocity"}
ControlModes   == JointModes \cup CartesianModes
Modes          == ControlModes \cup {None}
Kinds          == ControlModes \cup {"Foreign"}

ASSUME SwitchAssumption ==
    /\ IsFiniteSet(Controllers)
    /\ Kind \in [Controllers -> Kinds]
    /\ Count \in [Controllers -> Nat \ {0}]
    /\ RobotCount \in Nat \ {0}
    /\ None \notin Kinds

kNumberOfJoints == 7 * RobotCount
kPoseSize       == 16 * RobotCount
kTwistSize      == 6 * RobotCount

(* How many interfaces of each kind the component exports.                 *)
Exported == [k \in ControlModes |-> IF k \in JointModes THEN kNumberOfJoints
                                    ELSE IF k = "CartesianPose" THEN kPoseSize
                                    ELSE kTwistSize]

(* The words the checks look for in "<joint>/effort", "<joint>/position",  *)
(* "<joint>/velocity", "ee_cartesian_position/NN", "ee_cartesian_velocity/.."*)
(* Foreign stands for the position interfaces of another component; names  *)
(* with other words in them are left out.                                  *)
Words == [JointTorque       |-> {"joint", "effort"},
          JointPosition     |-> {"joint", "position"},
          JointVelocity     |-> {"joint", "velocity"},
          CartesianPose     |-> {"ee_cartesian", "position"},
          CartesianVelocity |-> {"ee_cartesian", "velocity"},
          Foreign           |-> {"position"}]

AllOf(S, word) == S # {} /\ \A c \in S : word \in Words[Kind[c]]

CheckType(S) == IF S = {} THEN 0
                ELSE IF AllOf(S, "joint") THEN 1
                ELSE IF AllOf(S, "ee_cartesian") THEN 2 ELSE -1

(* Neither "not a supported type" nor "a confusing name".                  *)
WellNamed(S) == \E w \in {"effort", "position", "velocity"} :
    /\ AllOf(S, w)
    /\ \A v \in {"effort", "position", "velocity"} \ {w} : ~AllOf(S, v)

Size(S) == SumFunctionOnSet(Count, S)

-----------------------------------------------------------------------------
(* The two halves of prepare_command_mode_switch                           *)

StopOKSwapped(S) ==                 \* faulty: the sizes of pose and twist
    \/ CheckType(S) = 0
    \/ CheckType(S) = 1 /\ WellNamed(S) /\ Size(S) = kNumberOfJoints
    \/ CheckType(S) = 2 /\ WellNamed(S)
       /\ (AllOf(S, "position") => Size(S) = kTwistSize)
       /\ (AllOf(S, "velocity") => Size(S) = kPoseSize)

StopOK(S) ==
    \/ CheckType(S) = 0
    \/ CheckType(S) = 1 /\ WellNamed(S) /\ Size(S) = kNumberOfJoints
    \/ CheckType(S) = 2 /\ WellNamed(S)
       /\ (AllOf(S, "position") => Size(S) = kPoseSize)
       /\ (AllOf(S, "velocity") => Size(S) = kTwistSize)

(* Effort and velocity commands are zeroed; "position command is not       *)
(* reset, since that can be dangerous".                                    *)
Zeroed(S) == {k \in {"JointTorque", "JointVelocity", "CartesianVelocity"} :
                S # {} /\ \A c \in S : Kind[c] = k}

StartOKOfOneArm(S, mode) ==         \* faulty: the sizes of one arm, for several
    /\ mode = None
    /\ \/ CheckType(S) = 0
       \/ CheckType(S) = 1 /\ WellNamed(S) /\ Size(S) = 7
       \/ CheckType(S) = 2 /\ WellNamed(S) /\ Size(S) \in {16, 6}

StartOK(S, mode) ==
    /\ mode = None
    /\ \/ CheckType(S) = 0
       \/ CheckType(S) = 1 /\ WellNamed(S) /\ Size(S) = kNumberOfJoints
       \/ CheckType(S) = 2 /\ WellNamed(S) /\ Size(S) \in {kPoseSize, kTwistSize}

ModeOf(S, mode) ==
    IF CheckType(S) = 1
    THEN IF AllOf(S, "velocity") THEN "JointVelocity"
         ELSE IF AllOf(S, "position") THEN "JointPosition" ELSE "JointTorque"
    ELSE IF CheckType(S) = 2
    THEN IF AllOf(S, "velocity") THEN "CartesianVelocity" ELSE "CartesianPose"
    ELSE mode

(* The controllers that claim interfaces of kind k.                        *)
Claimants(S, k) == {c \in S : Kind[c] = k}

=============================================================================
