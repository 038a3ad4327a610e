-------------------------- MODULE CommandModeSwitch --------------------------
(***************************************************************************)
(* The command mode switch of FrankaHardwareInterface: the checks and the  *)
(* effects of prepare_command_mode_switch, called by the switch_controller *)
(* service, the perform_command_mode_switch the control thread calls in    *)
(* its next update, the command arrays the controllers write through the   *)
(* exported interfaces, and the copy write() hands to Robot.               *)
(*                                                                         *)
(* The life of the loop itself is FrankaRobot's; here a loop is its mode.  *)
(***************************************************************************)
EXTENDS CommandInterfaces

VARIABLES
    controlMode,   \* control_mode_ of the component
    loop,          \* the mode of the loop Robot runs, None: it only reads
    active,        \* the controllers that are active
    request,       \* the accepted switch update() has still to perform
    cmd,           \* the hw_commands_* arrays the interfaces point into
    sent,          \* Robot's copy of them, what its loop commands
    pc,            \* where the control thread is in its cycle
    dropped        \* a switch this component accepted was refused by another one

vars == <<controlMode, loop, active, request, cmd, sent, pc, dropped>>

-----------------------------------------------------------------------------
(* prepare_command_mode_switch                                             *)

ModeAfterStop(S) == IF S = {} THEN controlMode ELSE None

CmdAfterStop(S) == [k \in ControlModes |-> IF k \in Zeroed(S) THEN "zero" ELSE cmd[k]]

NoRequest == [start |-> {}, stop |-> {}]
Idle      == request = NoRequest

(* What the controller manager asks for: stop active controllers, start    *)
(* inactive ones while there are interfaces nobody has claimed, one switch *)
(* at a time; a switch that moves no interface does not reach the hardware.*)
Asks(start, stop) ==
    /\ Idle /\ start \cup stop # {}
    /\ start \cap active = {} /\ stop \subseteq active
    /\ \A k \in ControlModes :
         Size(Claimants((active \ stop) \cup start, k)) <= Exported[k]

PrepareRefusesStop(start, stop) ==
    /\ Asks(start, stop) /\ ~StopOK(stop)
    /\ UNCHANGED vars

PrepareAssignsFirst(start, stop) == \* faulty: control_mode_ before the size check
    /\ Asks(start, stop) /\ StopOK(stop)
    /\ ~StartOK(start, ModeAfterStop(stop)) /\ ModeAfterStop(stop) = None
    /\ controlMode' = ModeOf(start, None)
    /\ cmd' = CmdAfterStop(stop)
    /\ UNCHANGED <<loop, active, request, sent, pc, dropped>>

(* The stop half has been carried out when the start half is refused.      *)
PrepareRefusesStart(start, stop) ==
    /\ Asks(start, stop) /\ StopOK(stop)
    /\ ~StartOK(start, ModeAfterStop(stop))
    /\ controlMode' = ModeAfterStop(stop)
    /\ cmd' = CmdAfterStop(stop)
    /\ UNCHANGED <<loop, active, request, sent, pc, dropped>>

PrepareAccepts(start, stop) ==
    /\ Asks(start, stop) /\ StopOK(stop)
    /\ StartOK(start, ModeAfterStop(stop))
    /\ controlMode' = ModeOf(start, ModeAfterStop(stop))
    /\ cmd' = CmdAfterStop(stop)
    /\ request' = [start |-> start, stop |-> stop]
    /\ UNCHANGED <<loop, active, sent, pc, dropped>>

(* This component accepts and another one does not: the switch is dropped. *)
PeerRefuses(start, stop) ==
    /\ Asks(start, stop) /\ StopOK(stop)
    /\ StartOK(start, ModeAfterStop(stop))
    /\ controlMode' = ModeOf(start, ModeAfterStop(stop))
    /\ cmd' = CmdAfterStop(stop)
    /\ dropped' = TRUE
    /\ UNCHANGED <<loop, active, request, sent, pc>>

-----------------------------------------------------------------------------
(* The control thread: the active controllers update, the switch is        *)
(* performed if one is pending, and write() ends the cycle.                *)

Values == {"zero", "finite", "nan"}

Update ==
    /\ pc = "update" /\ pc' = "switch"
    /\ \E v \in [{k \in ControlModes : \E c \in active : Kind[c] = k} -> Values] :
         cmd' = [k \in ControlModes |-> IF k \in DOMAIN v THEN v[k] ELSE cmd[k]]
    /\ UNCHANGED <<controlMode, loop, active, request, sent, dropped>>

PerformNothing == pc = "switch" /\ Idle /\ pc' = "write"
                  /\ UNCHANGED <<controlMode, loop, active, request, cmd, sent, dropped>>

PerformKeepsRequest ==              \* faulty: the switch is performed again
    /\ pc = "switch" /\ ~Idle /\ pc' = "write"
    /\ loop' = controlMode
    /\ active' = (active \ request.stop) \cup request.start
    /\ UNCHANGED <<controlMode, request, cmd, sent, dropped>>

PerformLate ==                      \* faulty: the loop of stopped controllers goes on
    /\ pc = "switch" /\ ~Idle /\ pc' = "write"
    /\ loop' = IF request.start = {} THEN loop ELSE controlMode
    /\ active' = (active \ request.stop) \cup request.start
    /\ request' = NoRequest
    /\ UNCHANGED <<controlMode, cmd, sent, dropped>>

(* stopRobot and the initialize function of control_mode_; the manager     *)
(* then deactivates and activates the controllers.                         *)
Perform ==
    /\ pc = "switch" /\ ~Idle /\ pc' = "write"
    /\ loop' = controlMode
    /\ active' = (active \ request.stop) \cup request.start
    /\ request' = NoRequest
    /\ UNCHANGED <<controlMode, cmd, sent, dropped>>

(* A command that is not finite holds back all of them.                    *)
Write ==
    /\ pc = "write" /\ pc' = "update"
    /\ sent' = IF \E k \in ControlModes : cmd[k] = "nan" THEN sent ELSE cmd
    /\ UNCHANGED <<controlMode, loop, active, request, cmd, dropped>>

(* Robot has an error, at whatever time: nothing is handed over.           *)
WriteSkips ==
    /\ pc = "write" /\ pc' = "update"
    /\ \A k \in ControlModes : cmd[k] # "nan"
    /\ UNCHANGED <<controlMode, loop, active, request, cmd, sent, dropped>>

(* on_deactivate, and on_activate again, between two cycles: the loop      *)
(* reads, and the efforts are zeroed, whoever is active.                   *)
Reactivate ==
    /\ pc = "update" /\ Idle
    /\ loop' = None
    /\ cmd' = [cmd EXCEPT !["JointTorque"] = "zero"]
    /\ UNCHANGED <<controlMode, active, request, sent, pc, dropped>>

Init ==
    /\ controlMode = None /\ loop = None
    /\ active = {} /\ request = NoRequest
    /\ cmd = [k \in ControlModes |-> "zero"] /\ sent = cmd
    /\ pc = "update" /\ dropped = FALSE

Prepare == \E start \in SUBSET (Controllers \ active), stop \in SUBSET active :
             \/ PrepareRefusesStop(start, stop) \/ PrepareRefusesStart(start, stop)
             \/ PrepareAccepts(start, stop)     \/ PeerRefuses(start, stop)

Next == Update \/ PerformNothing \/ Perform \/ Write \/ WriteSkips
        \/ Reactivate \/ Prepare

Spec == Init /\ [][Next]_vars
-----------------------------------------------------------------------------
(* Properties                                                              *)

TypeOK ==
    /\ controlMode \in Modes /\ loop \in Modes
    /\ active \subseteq Controllers
    /\ request \in [start : SUBSET (Controllers \ active), stop : SUBSET active]
    /\ cmd \in [ControlModes -> Values]
    /\ sent \in [ControlModes -> Values \ {"nan"}]
    /\ pc \in {"update", "switch", "write"} /\ dropped \in BOOLEAN

(* A loop that commands the arm belongs to an active controller: whatever  *)
(* was refused halfway before, perform_command_mode_switch never leaves    *)
(* the arm to a loop nobody feeds.                                         *)
LoopIsOwned == loop # None => \E c \in active : Kind[c] = loop

(* And there is a list of active controllers prepare accepts to stop, so   *)
(* that the "stop the running controller first" of the refusal             *)
(* (franka_hardware_interface.cpp:424) can be done.  False as soon as a    *)
(* controller claims 6 of the 16 pose interfaces: the start takes 6 or 16  *)
(* for either kind, the stop 16 only.                                      *)
LoopCanBeStopped ==
    Idle /\ loop # None =>
      \E S \in SUBSET active : S # {} /\ StopOK(S) /\ \A c \in S : Kind[c] = loop

(* With no controller active, what prepare would accept from a fresh       *)
(* component it accepts: none of its own refusals wedges the component.    *)
(* After a switch it accepted was dropped control_mode_ stays at a mode    *)
(* nothing runs in, and prepare refuses for ever.                          *)
IdleAcceptsStart ==
    Idle /\ active = {} /\ ~dropped =>
      \A S \in SUBSET Controllers : StartOK(S, None) => StartOK(S, controlMode)

(* "only allow new controller to be started if the current control mode is *)
(* NONE" and "Switching between control modes without stopping it first is *)
(* not supported" (franka_hardware_interface.cpp:422,424): the loop goes   *)
(* from one control mode to another only when the controllers of the first *)
(* one are stopped.  A switch refused halfway leaves control_mode_ at None *)
(* over a running loop, and the next start walks through the guard.        *)
NoSwitchWithoutStop ==
    [][loop # None /\ loop' # None /\ loop' # loop
         => \A c \in active : Kind[c] = loop => c \notin active']_vars
=============================================================================
