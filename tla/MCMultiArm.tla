----------------------------- MODULE MCMultiArm ------------------------------
EXTENDS MultiArm, TLC
CONSTANTS Both, Left, Right, Pose, ShortPose

(* What the controllers claim of two arms: all efforts, all velocities of  *)
(* one arm or the other, the pose of both, two thirds of one arm's pose.   *)
Catalog == (Both      :> <<"JointTorque", 7, 7>>)
        @@ (Left      :> <<"JointVelocity", 7, 0>>) @@ (Right :> <<"JointVelocity", 0, 7>>)
        @@ (Pose      :> <<"CartesianPose", 16, 16>>)
        @@ (ShortPose :> <<"CartesianPose", 12, 0>>)
MCKind  == [c \in Controllers |-> Catalog[c][1]]
MCCount == [c \in Controllers |-> Catalog[c][2] + Catalog[c][3]]
MCClaim == [c \in Controllers |-> <<Catalog[c][2], Catalog[c][3]>>]
=============================================================================
