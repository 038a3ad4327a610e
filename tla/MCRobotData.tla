----------------------------- MODULE MCRobotData -----------------------------
(* RobotData with the service that sets one of the default parameters; the *)
(* broadcaster, the service and a switch take turns at being there, for    *)
(* they meet nowhere but in the control thread.  With a switch the loop is *)
(* one that a recovery has started.                                        *)
EXTENDS RobotData

MCOffered == {"set_joint_stiffness"}

MCInit ==
    /\ Init
    /\ switching => ~broadcasting /\ ~initSet
    /\ calls = (IF broadcasting \/ switching THEN MaxCalls ELSE 0)
MCSpec == MCInit /\ [][Next]_vars /\ Fairness
=============================================================================
