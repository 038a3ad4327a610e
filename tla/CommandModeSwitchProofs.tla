----------------------- MODULE CommandModeSwitchProofs -----------------------
(***************************************************************************)
(* Theorems about CommandModeSwitch, for every set of controllers, of any  *)
(* kinds and sizes, and every history of accepted and refused switches.    *)
(***************************************************************************)
EXTENDS CommandModeSwitch, CommandInterfacesProofs

USE SwitchAssumption
USE DEF JointModes, CartesianModes, ControlModes, Modes, Kinds

-----------------------------------------------------------------------------
(* Typing                                                                  *)

(* The component starts with its variables in their types.                 *)
LEMMA TypedInit == Init => TypeOK
<1> SUFFICES ASSUME Init PROVE TypeOK
  OBVIOUS
<1>1. dropped \in BOOLEAN
  BY Zenon DEF Init
<1>2. cmd \in [ControlModes -> Values] /\ sent \in [ControlModes -> Values \ {"nan"}]
  BY DEF Init, Values
<1>3. request \in [start : SUBSET (Controllers \ active), stop : SUBSET active]
  BY DEF Init, NoRequest
<1>. QED BY <1>1, <1>2, <1>3 DEF Init, TypeOK

(* Every variable stays in its type: an accepted switch stops controllers  *)
(* that are active and starts ones that are not, and what reaches Robot is *)
(* finite (perform_command_mode_switch and write of the component).        *)
THEOREM SwitchTypeCorrect == Spec => []TypeOK
<1>1. Init => TypeOK
  BY TypedInit
<1>2. TypeOK /\ [Next]_vars => TypeOK'
  <2> SUFFICES ASSUME TypeOK, [Next]_vars PROVE TypeOK'
    OBVIOUS
  <2>0. ASSUME NEW S \in SUBSET Controllers
        PROVE  /\ ModeAfterStop(S) \in Modes
               /\ CmdAfterStop(S) \in [ControlModes -> Values]
    <3>1. ModeAfterStop(S) \in Modes
      BY DEF TypeOK, ModeAfterStop
    <3>2. CmdAfterStop(S) \in [ControlModes -> Values]
      BY DEF TypeOK, CmdAfterStop, Values
    <3>. QED BY <3>1, <3>2
  <2>1. ASSUME NEW start \in SUBSET (Controllers \ active), NEW stop \in SUBSET active,
               \/ PrepareAccepts(start, stop) \/ PeerRefuses(start, stop)
               \/ PrepareRefusesStart(start, stop) \/ PrepareRefusesStop(start, stop)
        PROVE  TypeOK'
    <3>0. stop \in SUBSET Controllers /\ start \in SUBSET Controllers
      BY DEF TypeOK
    <3>1. CASE PrepareAccepts(start, stop)
      <4>1. ModeAfterStop(stop) = None
        BY <3>1 DEF PrepareAccepts, StartOK
      <4>2. ModeOf(start, ModeAfterStop(stop)) \in Modes
        BY <4>1, <3>0, <3>1, StartTakesItsKind DEF PrepareAccepts
      <4>. QED BY <4>2, <3>0, <3>1, <2>0 DEF PrepareAccepts, TypeOK
    <3>2. CASE PeerRefuses(start, stop)
      <4>1. ModeAfterStop(stop) = None
        BY <3>2 DEF PeerRefuses, StartOK
      <4>2. ModeOf(start, ModeAfterStop(stop)) \in Modes
        BY <4>1, <3>0, <3>2, StartTakesItsKind DEF PeerRefuses
      <4>. QED BY <4>2, <3>0, <3>2, <2>0 DEF PeerRefuses, TypeOK
    <3>3. CASE PrepareRefusesStart(start, stop)
      BY <3>3, <3>0, <2>0 DEF PrepareRefusesStart, TypeOK
    <3>4. CASE PrepareRefusesStop(start, stop)
      BY <3>4 DEF PrepareRefusesStop, TypeOK, vars
    <3>. QED BY <2>1, <3>1, <3>2, <3>3, <3>4
  <2>2. CASE Update
    BY <2>2 DEF Update, TypeOK, Values
  <2>3. CASE PerformNothing
    BY <2>3 DEF PerformNothing, TypeOK
  <2>4. CASE Perform
    BY <2>4 DEF Perform, TypeOK, NoRequest
  <2>5. CASE Write
    <3>1. sent' \in [ControlModes -> Values \ {"nan"}]
      BY <2>5 DEF Write, TypeOK
    <3>. QED BY <3>1, <2>5 DEF Write, TypeOK
  <2>6. CASE WriteSkips \/ UNCHANGED vars
    BY <2>6 DEF TypeOK, WriteSkips, vars
  <2>7. CASE Reactivate
    BY <2>7 DEF Reactivate, TypeOK, Values
  <2>. QED BY <2>1, <2>2, <2>3, <2>4, <2>5, <2>6, <2>7 DEF Next, Prepare
<1>. QED BY <1>1, <1>2, PTL DEF Spec

-----------------------------------------------------------------------------
(* The owner of the loop.  Between prepare and perform control_mode_ is    *)
(* ahead of the loop: it is then None, or the kind of a controller that    *)
(* will be active when the loop is started.                                *)

OwnerInv ==
  /\ TypeOK
  /\ LoopIsOwned
  /\ ~Idle /\ controlMode # None => \E c \in request.start : Kind[c] = controlMode

(* A loop that commands the arm belongs to an active controller, whatever  *)
(* was refused halfway by this component or another one                    *)
(* (prepare_command_mode_switch and perform_command_mode_switch).          *)
THEOREM LoopOwner == Spec => []LoopIsOwned
<1>1. Init => OwnerInv
  BY TypedInit DEF Init, OwnerInv, LoopIsOwned, Idle
<1>2. TypeOK' /\ OwnerInv /\ [Next]_vars => OwnerInv'
  <2> SUFFICES ASSUME TypeOK', OwnerInv, [Next]_vars
               PROVE  /\ LoopIsOwned'
                      /\ ~Idle' /\ controlMode' # None
                           => \E c \in request'.start : Kind[c] = controlMode'
    BY DEF OwnerInv
  <2> USE DEF OwnerInv, LoopIsOwned
  <2>1. ASSUME NEW start \in SUBSET (Controllers \ active), NEW stop \in SUBSET active,
               PrepareAccepts(start, stop)
        PROVE  /\ LoopIsOwned'
               /\ controlMode' # None => \E c \in request'.start : Kind[c] = controlMode'
    <3>1. start \in SUBSET Controllers /\ ModeAfterStop(stop) = None
      BY <2>1 DEF PrepareAccepts, StartOK, TypeOK
    <3>2. controlMode' # None => \E c \in start : Kind[c] = controlMode'
      BY <3>1, <2>1, StartTakesItsKind DEF PrepareAccepts
    <3>. QED BY <3>2, <2>1 DEF PrepareAccepts
  <2>2. ASSUME NEW start \in SUBSET (Controllers \ active), NEW stop \in SUBSET active,
               \/ PrepareRefusesStop(start, stop) \/ PrepareRefusesStart(start, stop)
               \/ PeerRefuses(start, stop)
        PROVE  LoopIsOwned' /\ Idle'
    BY <2>2 DEF PrepareRefusesStop, PrepareRefusesStart, PeerRefuses, Asks, Idle, vars
  <2>3. CASE Perform
    <3>1. ~Idle /\ loop' = controlMode /\ Idle'
      BY <2>3 DEF Perform, Idle
    <3>2. request.start \subseteq active'
      BY <2>3 DEF Perform
    <3>. QED BY <3>1, <3>2
  <2>4. CASE Update \/ PerformNothing \/ Write \/ WriteSkips \/ UNCHANGED vars
    BY <2>4 DEF Update, PerformNothing, Write, WriteSkips, vars, Idle
  <2>5. CASE Reactivate
    BY <2>5 DEF Reactivate, Idle
  <2>. QED BY <2>1, <2>2, <2>3, <2>4, <2>5 DEF Next, Prepare
<1>3. OwnerInv => LoopIsOwned
  BY DEF OwnerInv
<1>. QED BY <1>1, <1>2, <1>3, SwitchTypeCorrect, PTL DEF Spec

-----------------------------------------------------------------------------
(* No component is wedged.                                                 *)

(* A mode the component is in has a controller, the lifecycle of the       *)
(* component notwithstanding.                                              *)
ModeInv == Idle /\ controlMode # None /\ ~dropped => \E c \in active : Kind[c] = controlMode

(* Unless another component refused what this one accepted, a component    *)
(* with no active controller accepts every start a fresh one would         *)
(* (the guard of prepare_command_mode_switch on control_mode_).            *)
THEOREM NeverWedged == Spec => []IdleAcceptsStart
<1>1. Init => ModeInv
  BY DEF Init, ModeInv
<1>2. TypeOK /\ LoopIsOwned' /\ ModeInv /\ [Next]_vars => ModeInv'
  <2> SUFFICES ASSUME TypeOK, LoopIsOwned', ModeInv, [Next]_vars PROVE ModeInv'
    OBVIOUS
  <2> USE DEF ModeInv
  <2>1. ASSUME NEW start \in SUBSET (Controllers \ active), NEW stop \in SUBSET active,
               PrepareAccepts(start, stop)
        PROVE  ~Idle'
    <3>1. request' = [start |-> start, stop |-> stop] /\ start \cup stop # {}
      BY <2>1 DEF PrepareAccepts, Asks
    <3>2. ASSUME request' = NoRequest PROVE FALSE
      <4>1. request'.start = {} /\ request'.stop = {}
        BY <3>2 DEF NoRequest
      <4>. QED BY <3>1, <4>1
    <3>. QED BY <3>2 DEF Idle
  <2>2. ASSUME NEW start \in SUBSET (Controllers \ active), NEW stop \in SUBSET active,
               \/ PrepareRefusesStop(start, stop) \/ PrepareRefusesStart(start, stop)
        PROVE  ModeInv'
    BY <2>2 DEF PrepareRefusesStop, PrepareRefusesStart, ModeAfterStop, Idle, vars
  <2>3. ASSUME NEW start \in SUBSET (Controllers \ active), NEW stop \in SUBSET active,
               PeerRefuses(start, stop)
        PROVE  ModeInv'
    BY <2>3 DEF PeerRefuses
  <2>4. CASE Perform
    BY <2>4 DEF Perform, LoopIsOwned
  <2>5. CASE Update \/ PerformNothing \/ Write \/ WriteSkips \/ UNCHANGED vars
    BY <2>5 DEF Update, PerformNothing, Write, WriteSkips, vars, Idle
  <2>6. CASE Reactivate
    BY <2>6 DEF Reactivate, Idle
  <2>. QED BY <2>1, <2>2, <2>3, <2>4, <2>5, <2>6 DEF Next, Prepare
<1>3. ModeInv => IdleAcceptsStart
  BY DEF ModeInv, IdleAcceptsStart
<1>. QED BY <1>1, <1>2, <1>3, SwitchTypeCorrect, LoopOwner, PTL DEF Spec

-----------------------------------------------------------------------------
(* The way back.  What prepare accepted to start it accepts to stop, and   *)
(* until perform has started it nothing else is accepted.                  *)

StoppableInv ==
  /\ TypeOK
  /\ LoopCanBeStopped
  /\ ~Idle /\ controlMode # None => /\ request.start # {} /\ StopOK(request.start)
                                    /\ \A c \in request.start : Kind[c] = controlMode

(* An accepted switch is one whose start list can be stopped again.        *)
LEMMA AcceptsStoppable ==
  ASSUME NoPoseOfTwistSize, TypeOK,
         NEW start \in SUBSET (Controllers \ active), NEW stop \in SUBSET active,
         PrepareAccepts(start, stop), controlMode' # None
  PROVE  start # {} /\ StopOK(start) /\ \A c \in start : Kind[c] = controlMode'
<1>1. start \in SUBSET Controllers /\ stop \in SUBSET Controllers /\ active \in SUBSET Controllers
  BY DEF TypeOK
<1>2. StartOK(start, None) /\ controlMode' = ModeOf(start, None)
  BY DEF PrepareAccepts, StartOK
<1>3. start # {}
  BY <1>1, <1>2, StartTakesItsKind
<1>4. ASSUME NEW k \in ControlModes PROVE Size(Claimants(start, k)) <= Exported[k]
  <2> DEFINE after == Claimants((active \ stop) \cup start, k)
  <2>1. after \in SUBSET Controllers /\ Claimants(start, k) \in SUBSET after
    BY <1>1 DEF Claimants
  <2>2. Size(after) <= Exported[k]
    BY DEF PrepareAccepts, Asks
  <2> HIDE DEF after
  <2>3. Size(Claimants(start, k)) <= Size(after) /\ Size(after) \in Nat
    BY <2>1, SizeMonotone
  <2>4. Claimants(start, k) \in SUBSET Controllers
    BY <2>1
  <2>5. Size(Claimants(start, k)) \in Nat
    BY <2>4, SizeMonotone
  <2>6. Exported[k] \in Nat
    BY DEF Exported, kNumberOfJoints, kPoseSize, kTwistSize
  <2>. QED BY <2>2, <2>3, <2>5, <2>6
<1>. QED BY <1>1, <1>2, <1>3, <1>4, StartIsStoppable, StartIsOfItsKind

(* "stop the running controller first": there is a list of controllers of  *)
(* the running loop that prepare accepts to stop, whatever was refused     *)
(* halfway before, unless a controller claims 6 of the pose interfaces.    *)
THEOREM RunningLoopCanBeStopped ==
  ASSUME NoPoseOfTwistSize PROVE Spec => []LoopCanBeStopped
<1>1. Init => StoppableInv
  BY TypedInit DEF Init, StoppableInv, LoopCanBeStopped, Idle
<1>2. TypeOK' /\ StoppableInv /\ [Next]_vars => StoppableInv'
  <2> SUFFICES ASSUME TypeOK', StoppableInv, [Next]_vars
               PROVE  /\ LoopCanBeStopped'
                      /\ ~Idle' /\ controlMode' # None =>
                           /\ request'.start # {} /\ StopOK(request'.start)
                           /\ \A c \in request'.start : Kind[c] = controlMode'
    BY DEF StoppableInv
  <2> USE DEF StoppableInv
  <2>1. ASSUME NEW start \in SUBSET (Controllers \ active), NEW stop \in SUBSET active,
               PrepareAccepts(start, stop)
        PROVE  /\ LoopCanBeStopped'
               /\ controlMode' # None =>
                    /\ request'.start # {} /\ StopOK(request'.start)
                    /\ \A c \in request'.start : Kind[c] = controlMode'
    <3>1. request' = [start |-> start, stop |-> stop] /\ start \cup stop # {}
      BY <2>1 DEF PrepareAccepts, Asks
    <3>2. ~Idle' /\ request'.start = start
      BY <3>1 DEF Idle, NoRequest
    <3>3. controlMode' # None =>
            start # {} /\ StopOK(start) /\ \A c \in start : Kind[c] = controlMode'
      BY <2>1, AcceptsStoppable
    <3>. QED BY <3>2, <3>3 DEF LoopCanBeStopped
  <2>2. CASE LoopCanBeStopped' /\ Idle'
    BY <2>2
  <2>3. CASE UNCHANGED <<controlMode, loop, active, request>>
    BY <2>3 DEF LoopCanBeStopped, Idle, NoRequest
  <2>4. ASSUME NEW start \in SUBSET (Controllers \ active), NEW stop \in SUBSET active,
               \/ PrepareRefusesStop(start, stop) \/ PrepareRefusesStart(start, stop)
               \/ PeerRefuses(start, stop)
        PROVE  LoopCanBeStopped' /\ Idle'
    BY <2>4 DEF PrepareRefusesStop, PrepareRefusesStart, PeerRefuses, Asks, Idle,
                NoRequest, LoopCanBeStopped, vars
  <2>5. CASE Perform
    <3>1. Idle' /\ loop' = controlMode /\ request.start \in SUBSET active'
      BY <2>5 DEF Perform, Idle, NoRequest, TypeOK
    <3>2. ~Idle
      BY <2>5 DEF Perform
    <3>3. LoopCanBeStopped'
      BY <3>1, <3>2 DEF LoopCanBeStopped
    <3>. QED BY <3>1, <3>3
  <2>6. CASE Reactivate
    BY <2>6 DEF Reactivate, LoopCanBeStopped, Idle, NoRequest
  <2>7. CASE Update \/ PerformNothing \/ Write \/ WriteSkips \/ UNCHANGED vars
    BY <2>7, <2>3 DEF Update, PerformNothing, Write, WriteSkips, vars
  <2>. QED BY <2>1, <2>2, <2>4, <2>5, <2>6, <2>7 DEF Next, Prepare
<1>3. StoppableInv => LoopCanBeStopped
  BY DEF StoppableInv
<1>4. Spec => []TypeOK
  BY SwitchTypeCorrect
<1>. QED BY <1>1, <1>2, <1>3, <1>4, PTL DEF Spec
=============================================================================
