---------------------------- MODULE MCFrankaRobot ----------------------------
EXTENDS FrankaRobot
CONSTANTS Faults, Switches, Recoveries, Lifecycles, Shutdowns
MCBudget == [fault |-> Faults, switch |-> Switches, recovery |-> Recoveries,
             lifecycle |-> Lifecycles, shutdown |-> Shutdowns]

(* A Robot whose arm took the default parameters, whose component is        *)
(* recovered only when it is inactive and stopped, and changes its state    *)
(* only when no recovery is at work: nothing overlaps.                      *)
OneAtATime == /\ ~Recovering /\ Recovering' => ~active /\ stopped
              /\ active # active' => ~Recovering
RecoveredInactiveSpec == Init /\ ~hasError /\ [][Next /\ OneAtATime]_vars
=============================================================================
