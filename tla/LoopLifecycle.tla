--------------------------- MODULE LoopLifecycle ----------------------------
(***************************************************************************)
(* What Robot promises about its one control or reading loop, as the       *)
(* comments of robot.hpp put it: a loop is started when no other is        *)
(* active, stopRobot ends it, and a request to stop is not lost.           *)
(*                                                                         *)
(*    off --Start--> on --Ask--> ending --Finish--> over --Reap--> off     *)
(*                    \------------Fail------------^                       *)
(***************************************************************************)
CONSTANT Modes
VARIABLES phase, mode
vars == <<phase, mode>>

Init == phase = "off" /\ mode \in Modes

Start(m) == phase = "off" /\ phase' = "on" /\ mode' = m

(* stopRobot raises finish_; the loop sees it in its next callback.        *)
Ask    == phase = "on" /\ phase' = "ending" /\ UNCHANGED mode
Finish == phase = "ending" /\ phase' = "over" /\ UNCHANGED mode

(* The loop ends by an exception, asked to stop or not.                    *)
Fail   == phase \in {"on", "ending"} /\ phase' = "over" /\ UNCHANGED mode

(* stopRobot joins the thread.                                             *)
Reap   == phase = "over" /\ phase' = "off" /\ UNCHANGED mode

Next == (\E m \in Modes : Start(m)) \/ Ask \/ Finish \/ Fail \/ Reap

(* A loop that was asked to stop does stop, and one that is over, by an     *)
(* exception too, is joined in the end: before a recovery or a switch      *)
(* starts another, and before Robot is destroyed.                          *)
Spec == Init /\ [][Next]_vars /\ WF_vars(Finish) /\ WF_vars(Reap)
=============================================================================
