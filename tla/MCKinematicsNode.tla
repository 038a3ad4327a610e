--------------------------- MODULE MCKinematicsNode ---------------------------
EXTENDS KinematicsNode

(* A fixed segment at the beginning, in the middle, at the end, or none.   *)
MCChains == {<<Fixed, Joint, Unlimited>>, <<Joint, Fixed, Unlimited>>,
             <<Unlimited, Joint, Fixed>>, <<Joint, Unlimited>>}
=============================================================================
