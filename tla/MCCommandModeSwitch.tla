------------------------ MODULE MCCommandModeSwitch ------------------------
EXTENDS CommandModeSwitch, TLC
CONSTANTS Effort, Velocity, Pose, Twist, Half, OtherHalf, ShortPose, Gripper

(* Controllers that claim every interface of their kind, the two halves of *)
(* an arm, six of the sixteen pose interfaces, another component's.        *)
Catalog == (Effort    :> <<"JointTorque", 7>>)   @@ (Velocity  :> <<"JointVelocity", 7>>)
        @@ (Pose      :> <<"CartesianPose", 16>>) @@ (Twist    :> <<"CartesianVelocity", 6>>)
        @@ (Half      :> <<"JointPosition", 3>>) @@ (OtherHalf :> <<"JointPosition", 4>>)
        @@ (ShortPose :> <<"CartesianPose", 6>>) @@ (Gripper   :> <<"Foreign", 1>>)
MCKind  == [c \in Controllers |-> Catalog[c][1]]
MCCount == [c \in Controllers |-> Catalog[c][2]]
=============================================================================
