------------------------------ MODULE MultiArm -------------------------------
(***************************************************************************)
(* FrankaMultiHardwareInterface: one component, several arms, one          *)
(* control_mode_.  prepare_command_mode_switch decides for all arms at     *)
(* once; perform_command_mode_switch and write go from arm to arm on the   *)
(* control thread, in the order of the map arms_, while arms fail, are     *)
(* recovered by their own services, and the next switch is prepared.       *)
(*                                                                         *)
(* Neither the component's control_mode_ nor Robot's is initialised, and   *)
(* perform never calls Robot::setControlMode: a recovery restarts whatever *)
(* mode the Robot's memory holds, or nothing if that is no mode at all.    *)
(***************************************************************************)
EXTENDS CommandInterfaces

CONSTANTS
    Claim,         \* how many interfaces of each arm a controller claims
    Unwritten,     \* what a ControlMode that was never written may hold
    Garbage,       \* and a value that is none of the six modes
    Down,          \* no loop runs
    MaxFaults      \* how many errors the arms have in all

Arms    == 1 .. RobotCount
LastArm == RobotCount

ASSUME ClaimAssumption ==
    /\ Claim \in [Controllers -> [Arms -> Nat]]
    /\ \A c \in Controllers : Count[c] = SumFunctionOnSet(Claim[c], Arms)

ASSUME MultiAssumption ==
    /\ RobotCount > 1
    /\ Garbage \notin Modes /\ Unwritten \subseteq Modes \cup {Garbage} /\ Unwritten # {}
    /\ Down \notin Modes
    /\ MaxFaults \in Nat

VARIABLES
    firstMode,     \* what control_mode_ held before anything was prepared
    controlMode,   \* control_mode_ of the component
    robotMode,     \* control_mode_ of each Robot: never written
    performed,     \* the mode perform last started for an arm
    loop,          \* the mode of the loop an arm runs, or Down
    err,           \* has_error_ of each Robot
    active,        \* the controllers that are active
    request,       \* the accepted switch update() has still to perform
    cmd,           \* the hw_commands_* arrays of each arm
    sent,          \* the copy each Robot has of them
    fed,           \* has the loop perform started been handed commands?
    pc, at,        \* where the control thread is, and at which arm
    on,            \* the component is active
    dropped,       \* a switch this component accepted was refused by another one
    faults         \* errors so far

switchVars == <<firstMode, controlMode, active, request, dropped>>
armVars    == <<robotMode, performed, loop, err, sent, fed>>
vars == <<firstMode, controlMode, robotMode, performed, loop, err, active, request,
          cmd, sent, fed, pc, at, on, dropped, faults>>

-----------------------------------------------------------------------------
(* prepare_command_mode_switch, on the thread of the switch service        *)

ModeAfterStop(S) == IF S = {} THEN controlMode ELSE None

CmdAfterStopOfFirst(S) ==           \* faulty: only the first arm is zeroed
    [a \in Arms |-> [k \in ControlModes |->
        IF k \in Zeroed(S) /\ a = 1 THEN "zero" ELSE cmd[a][k]]]

CmdAfterStop(S) ==
    [a \in Arms |-> [k \in ControlModes |-> IF k \in Zeroed(S) THEN "zero" ELSE cmd[a][k]]]

NoRequest == [start |-> {}, stop |-> {}]
Idle      == request = NoRequest

(* The interfaces of one arm that the controllers of S claim, and those of *)
(* kind k among them.                                                      *)
ClaimsOn(S, a) == SumFunctionOnSet([c \in Controllers |-> Claim[c][a]], S)
ClaimedOf(S, k, a) == ClaimsOn(Claimants(S, k), a)

(* The controller manager asks for one switch at a time, of interfaces     *)
(* nobody else has claimed.                                                *)
Asks(start, stop) ==
    /\ on /\ Idle /\ start \cup stop # {}
    /\ start \cap active = {} /\ stop \subseteq active
    /\ \A k \in ControlModes :
         /\ Size(Claimants((active \ stop) \cup start, k)) <= Exported[k]
         /\ \A a \in Arms : ClaimedOf((active \ stop) \cup start, k, a)
                                 <= Exported[k] \div RobotCount

PrepareRefusesStop(start, stop) ==
    /\ Asks(start, stop) /\ ~StopOK(stop)
    /\ UNCHANGED vars

PrepareRefusesStart(start, stop) ==
    /\ Asks(start, stop) /\ StopOK(stop)
    /\ ~StartOK(start, ModeAfterStop(stop))
    /\ controlMode' = ModeAfterStop(stop)
    /\ cmd' = CmdAfterStop(stop)
    /\ UNCHANGED <<firstMode, active, request, dropped, armVars, pc, at, on, faults>>

(* Another component may refuse the switch this one has accepted.          *)
PrepareAccepts(start, stop) ==
    /\ Asks(start, stop) /\ StopOK(stop)
    /\ StartOK(start, ModeAfterStop(stop))
    /\ controlMode' = ModeOf(start, ModeAfterStop(stop))
    /\ cmd' = CmdAfterStop(stop)
    /\ \/ request' = [start |-> start, stop |-> stop] /\ UNCHANGED dropped
       \/ dropped' = TRUE /\ UNCHANGED request
    /\ UNCHANGED <<firstMode, active, armVars, pc, at, on, faults>>

Prepare == \E start \in SUBSET (Controllers \ active), stop \in SUBSET active :
             \/ PrepareRefusesStop(start, stop) \/ PrepareRefusesStart(start, stop)
             \/ PrepareAccepts(start, stop)

-----------------------------------------------------------------------------
(* The control thread                                                      *)

Values    == {"zero", "finite", "nan"}
Finite(a) == \A k \in ControlModes : cmd[a][k] # "nan"

(* The active controllers write the interfaces they claim; "zero" is a     *)
(* command nobody has written since it was reset.  The Cartesian           *)
(* interfaces point into the copy of the arm that                          *)
(* export_command_interfaces iterated over: what is written there is lost, *)
(* and these commands stay as on_init filled them.                         *)
Writes(a) == {k \in JointModes : \E c \in active : Kind[c] = k /\ Claim[c][a] > 0}

Update ==
    /\ pc = "update" /\ pc' = "switch"
    /\ \E v \in [Arms -> [{k \in ControlModes : \E c \in active : Kind[c] = k} -> {"finite", "nan"}]] :
         cmd' = [a \in Arms |-> [k \in ControlModes |->
                    IF k \in Writes(a) THEN v[a][k] ELSE cmd[a][k]]]
    /\ UNCHANGED <<switchVars, armVars, at, on, faults>>

PerformNothing == pc = "switch" /\ Idle /\ pc' = "write"
                  /\ UNCHANGED <<switchVars, armVars, cmd, at, on, faults>>

NextArmTooFar(from, to) ==          \* faulty: off by one at the end of the map
    /\ at' = IF at <= LastArm THEN at + 1 ELSE 1
    /\ pc' = IF at <= LastArm THEN from ELSE to

NextArm(from, to) ==
    /\ at' = IF at < LastArm THEN at + 1 ELSE 1
    /\ pc' = IF at < LastArm THEN from ELSE to

(* A loop of an arm in reflex ends as soon as it begins.                   *)
LoopOf(a, m) == IF err[a] THEN Down ELSE m

PerformArmUnlessError ==            \* faulty: an arm in error keeps its mode
    /\ pc = "switch" /\ ~Idle
    /\ performed' = [performed EXCEPT ![at] = IF err[at] THEN @ ELSE controlMode]
    /\ loop' = [loop EXCEPT ![at] = IF err[at] THEN @ ELSE controlMode]
    /\ fed' = [fed EXCEPT ![at] = FALSE]
    /\ NextArm("switch", "write")
    /\ active' = IF at < LastArm THEN active ELSE (active \ request.stop) \cup request.start
    /\ request' = IF at < LastArm THEN request ELSE NoRequest
    /\ UNCHANGED <<firstMode, controlMode, robotMode, err, sent, cmd, on, dropped, faults>>

(* stopRobot and initialize* of one arm.  After the last one the manager   *)
(* deactivates and activates the controllers.                              *)
PerformArm ==
    /\ pc = "switch" /\ ~Idle
    /\ performed' = [performed EXCEPT ![at] = controlMode]
    /\ loop' = [loop EXCEPT ![at] = LoopOf(at, controlMode)]
    /\ fed' = [fed EXCEPT ![at] = FALSE]
    /\ NextArm("switch", "write")
    /\ active' = IF at < LastArm THEN active ELSE (active \ request.stop) \cup request.start
    /\ request' = IF at < LastArm THEN request ELSE NoRequest
    /\ UNCHANGED <<firstMode, controlMode, robotMode, err, sent, cmd, on, dropped, faults>>

AnyError(a) == \E b \in Arms : err[b]     \* faulty: asks all the arms
HasError(a) == err[a]

WriteArm ==
    /\ pc = "write" /\ Finite(at) /\ ~HasError(at)
    /\ sent' = [sent EXCEPT ![at] = cmd[at]]
    /\ fed' = [fed EXCEPT ![at] = TRUE]
    /\ NextArm("write", "update")
    /\ UNCHANGED <<switchVars, robotMode, performed, loop, err, cmd, on, faults>>

(* A command that is not finite (ERROR) or an arm in error (OK): write     *)
(* returns, and the arms after this one are not written.                   *)
WriteReturns ==
    /\ pc = "write" /\ (~Finite(at) \/ HasError(at))
    /\ pc' = "update" /\ at' = 1
    /\ UNCHANGED <<switchVars, armVars, cmd, on, faults>>

-----------------------------------------------------------------------------
(* The arms, their recovery services, and the lifecycle of the component   *)

Fault(a) ==
    /\ faults < MaxFaults /\ faults' = faults + 1
    /\ loop[a] # Down
    /\ loop' = [loop EXCEPT ![a] = Down]
    /\ err' = [err EXCEPT ![a] = TRUE]
    /\ UNCHANGED <<switchVars, robotMode, performed, cmd, sent, fed, pc, at, on>>

(* The service of an arm restarts the mode its Robot holds.  The order of  *)
(* its calls and those of the control thread is FrankaRobot's.             *)
Recover(a) ==
    /\ err[a]
    /\ err' = [err EXCEPT ![a] = FALSE]
    /\ loop' = [loop EXCEPT ![a] = IF robotMode[a] \in Modes THEN robotMode[a] ELSE Down]
    /\ fed' = [fed EXCEPT ![a] = FALSE]
    /\ UNCHANGED <<switchVars, robotMode, performed, cmd, sent, pc, at, on, faults>>

(* With an arm a recovery has set going the process would end: FrankaRobot. *)
Activate ==
    /\ pc = "update" /\ ~on /\ on' = TRUE
    /\ \A a \in Arms : loop[a] = Down
    /\ performed' = [a \in Arms |-> None]
    /\ loop' = [a \in Arms |-> LoopOf(a, None)]
    /\ fed' = [a \in Arms |-> FALSE]
    /\ cmd' = [a \in Arms |-> [cmd[a] EXCEPT !["JointTorque"] = "zero"]]
    /\ UNCHANGED <<switchVars, robotMode, err, sent, pc, at, faults>>

(* Asked for when no controller is active, which the code does not check:  *)
(* the Reactivate of CommandModeSwitch is without this restriction.        *)
Deactivate ==
    /\ pc = "update" /\ on /\ on' = FALSE
    /\ Idle /\ active = {}
    /\ loop' = [a \in Arms |-> Down]
    /\ UNCHANGED <<switchVars, robotMode, performed, err, cmd, sent, fed, pc, at, faults>>

(* on_init reads the arms once; the constructor of a Robot whose arm is in *)
(* error notes it.                                                         *)
Init ==
    /\ firstMode \in Unwritten /\ controlMode = firstMode
    /\ robotMode \in [Arms -> Unwritten]
    /\ performed = [a \in Arms |-> None] /\ loop = [a \in Arms |-> Down]
    /\ err \in [Arms -> BOOLEAN]
    /\ faults = Cardinality({a \in Arms : err[a]}) /\ faults <= MaxFaults
    /\ active = {} /\ request = NoRequest
    /\ cmd = [a \in Arms |-> [k \in ControlModes |-> "zero"]] /\ sent = cmd
    /\ fed = [a \in Arms |-> FALSE]
    /\ pc = "update" /\ at = 1
    /\ on = FALSE /\ dropped = FALSE

ControlThread == Update \/ PerformNothing \/ PerformArm \/ WriteArm \/ WriteReturns

Next == ControlThread \/ Activate \/ Deactivate
        \/ (\E a \in Arms : Fault(a) \/ Recover(a)) \/ Prepare

Spec == Init /\ [][Next]_vars /\ WF_vars(ControlThread)
-----------------------------------------------------------------------------
(* Properties                                                              *)

TypeOK ==
    /\ firstMode \in Unwritten /\ controlMode \in Modes \cup Unwritten
    /\ robotMode \in [Arms -> Unwritten]
    /\ performed \in [Arms -> Modes] /\ loop \in [Arms -> Modes \cup {Down}]
    /\ err \in [Arms -> BOOLEAN] /\ fed \in [Arms -> BOOLEAN]
    /\ active \subseteq Controllers
    /\ request \in [start : SUBSET (Controllers \ active), stop : SUBSET active]
    /\ cmd \in [Arms -> [ControlModes -> Values]]
    /\ sent \in [Arms -> [ControlModes -> Values \ {"nan"}]]
    /\ pc \in {"update", "switch", "write"} /\ at \in Arms
    /\ on \in BOOLEAN /\ dropped \in BOOLEAN /\ faults \in 0 .. MaxFaults

(* perform has gone through all the arms, or has not begun.                *)
Settled == pc = "switch" => at = 1

(* One control_mode_ for all arms: when perform is over every arm was told *)
(* the same mode, whatever arms failed or recovered while it went from one *)
(* to the next, and an arm runs that, nothing, or what a recovery found in *)
(* the control_mode_ of its Robot.                                         *)
ArmsAgree ==
    Settled => \A a, b \in Arms :
                 /\ performed[a] = performed[b]
                 /\ loop[a] \in {Down, performed[a], robotMode[a]}

(* A mode performed on an arm belongs to an active controller of that arm. *)
(* In part only: 6 of 16 pose interfaces for each arm are accepted too,    *)
(* and they may all be of one arm.                                         *)
OwnedBy(S, mode, a) ==
    \/ \E c \in S : Kind[c] = mode /\ Claim[c][a] > 0
    \/ /\ mode = "CartesianPose"
       /\ \E T \in SUBSET S : Size(T) = kTwistSize /\ \A c \in T : Kind[c] = mode

ArmsAreOwned ==
    Settled => \A a \in Arms : performed[a] # None => OwnedBy(active, performed[a], a)

(* An arm whose loop perform or a recovery started is handed commands,     *)
(* unless write returns before it comes to it: at an arm in error or with  *)
(* a command that is not finite.  An error of a later arm does not matter. *)
ArmsAreFed ==
    \A a \in Arms : loop[a] # Down /\ ~fed[a] ~>
      fed[a] \/ loop[a] = Down \/ \E b \in 1 .. a : err[b] \/ ~Finite(b)

(* To its last arm the component is a FrankaHardwareInterface with one arm *)
(* more interfaces, that hands nothing over if a command of any arm is not *)
(* finite; one whose control_mode_ happened not to be None refuses all.    *)
AnyNaN(k) == \E a \in Arms : cmd[a][k] = "nan"

OneArm == INSTANCE CommandModeSwitch WITH
    controlMode <- IF firstMode = None THEN controlMode ELSE None,
    loop <- performed[LastArm],
    cmd  <- [k \in ControlModes |-> IF AnyNaN(k) THEN "nan" ELSE cmd[LastArm][k]],
    sent <- sent[LastArm]

ImplementsOneArm == OneArm!Spec
=============================================================================
