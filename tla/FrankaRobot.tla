----------------------------- MODULE FrankaRobot -----------------------------
(***************************************************************************)
(* One arm of the Franka stack: the object franka_hardware::Robot, the     *)
(* controller manager thread that reads, switches and writes through it    *)
(* (FrankaHardwareInterface), the error recovery service that runs on a    *)
(* thread of FrankaExecutor, and the control or reading loop that the      *)
(* Robot spawns inside libfranka.                                          *)
(*                                                                         *)
(* Each thread is a program counter; a step is what the thread does        *)
(* between two accesses another thread can observe.  libfranka, the arm    *)
(* and the controller manager are external: they are modelled from the     *)
(* way the code uses them.                                                 *)
(***************************************************************************)
EXTENDS Naturals

CONSTANTS
    ControlModes,   \* the kinds of control loop (JointTorque, JointPosition, ...)
    None,           \* ControlMode::None: the arm is only read
    Garbage,        \* a ControlMode that was never written
    Budget,         \* how often each event of the environment may happen
    Asserts,        \* is assert() compiled in?  compile.sh builds Release: it is not
    PromptStart,    \* a spawned loop reaches libfranka before the next readOnce
    Orderly,        \* recovery is asked for only when the arm is idle (OrderlyRecovery)
    CommFaults      \* may a command to the arm fail with an exception?

Threads == {"cm", "rec"}
Modes   == ControlModes \cup {None}
Events  == {"fault", "switch", "recovery", "lifecycle", "shutdown"}

ASSUME ModesAssumption == None \notin ControlModes /\ Garbage \notin Modes
ASSUME BudgetAssumption == Budget \in [Events -> Nat]
ASSUME BuildAssumption ==
    /\ Asserts \in BOOLEAN /\ PromptStart \in BOOLEAN
    /\ Orderly \in BOOLEAN /\ CommFaults \in BOOLEAN

VARIABLES
    \* the Robot object
    readMutex,      \* who holds read_mutex_: "free", "cm" or "rec"
    stopped,        \* stopped_
    finish,         \* finish_
    hasError,       \* has_error_
    initParamsSet,  \* init_params_set
    robotMode,      \* Robot::control_mode_
    fed,            \* were the commands written since the last loop was spawned?
    \* control_thread_, the thread behind it and the mode it was spawned for
    loop, loopMode,
    \* libfranka: the holder of its control mutex, and whether the arm is in reflex
    lib, reflex,
    \* the hardware interface and the controller manager
    ifaceMode,      \* FrankaHardwareInterface::control_mode_
    pending,        \* a prepared switch waits for the update of the next cycle
    active,         \* the hardware component is active
    \* the threads
    pc, op,         \* program counters, and the operation cm is inside of
    want,           \* the mode the thread is about to start a loop for
    crashed,        \* std::terminate or abort() was reached
    left            \* what is left of Budget

robotVars == <<readMutex, stopped, finish, hasError, initParamsSet, robotMode, fed>>
loopVars  == <<loop, loopMode>>
armVars   == <<lib, reflex>>
cmVars    == <<ifaceMode, pending, active>>
ctlVars   == <<pc, op, want>>
others   == <<cmVars, ctlVars, crashed, left>>
rest     == <<loopVars, armVars, cmVars, op, want, crashed, left>>
vars == <<robotVars, loopVars, armVars, cmVars, ctlVars, crashed, left>>

(* The fields of the Robot object, all but one. *)
butMutex   == <<stopped, finish, hasError, initParamsSet, robotMode, fed>>
butStopped == <<readMutex, finish, hasError, initParamsSet, robotMode, fed>>
butFinish  == <<readMutex, stopped, hasError, initParamsSet, robotMode, fed>>
butError   == <<readMutex, stopped, finish, initParamsSet, robotMode, fed>>
butParams  == <<readMutex, stopped, finish, hasError, robotMode, fed>>
butMode    == <<readMutex, stopped, finish, hasError, initParamsSet, fed>>
butFed     == <<readMutex, stopped, finish, hasError, initParamsSet, robotMode>>

-----------------------------------------------------------------------------
(* Program counters.  "stop*" and "init*" are the bodies of stopRobot and  *)
(* of the five initialize*Control functions with initializeContinuousReading;*)
(* both threads run them.                                                  *)

StopPCs == {"stopTest", "stopRaise", "stopJoin", "stopJoining", "stopHalt", "stopClear", "stopMark"}
InitPCs == {"initAssert", "initMark", "initSpawn"}
CmPCs   == {"boot", "readLock", "readTest", "readOnce", "reading", "readErr", "readRet",
            "update", "setMode", "write", "drain", "down"} \cup StopPCs \cup InitPCs
RecPCs  == {"idle", "auto", "clearErr", "params", "getMode", "recLock", "recUnlock"}
            \cup StopPCs \cup InitPCs
CmOps   == {"activate", "read", "switch", "deactivate", "shutdown"}

Goto(t, l) == pc' = [pc EXCEPT ![t] = l]
Spend(e)   == left[e] > 0 /\ left' = [left EXCEPT ![e] = @ - 1]
Terminate  == crashed' = TRUE
              /\ UNCHANGED <<robotVars, loopVars, armVars, cmVars, ctlVars, left>>

(* Where stopRobot and initialize* return to. *)
AfterStop(t) == IF t = "rec"         THEN "params"
                ELSE IF op = "read"   THEN "readRet"
                ELSE IF op = "switch" THEN "initAssert"
                ELSE IF op = "shutdown" THEN "down" ELSE "readLock"
AfterInitMixedUp(t) == IF op = "switch" THEN "setMode" ELSE "readLock"      \* faulty

AfterInit(t) == IF t = "rec"         THEN "recUnlock"
                ELSE IF op = "switch" THEN "setMode" ELSE "readLock"

(* A thread exists and has not been joined.                               *)
Joinable == loop # "none"
(* A loop that may still run its callback, or is about to.                 *)
LoopLive == loop \in {"spawned", "running", "callback"}

(* Faulty variants, one for each kind of slip a property must notice.  None *)
(* of them is part of the specification.                                   *)

StopRaiseNoJoin(t) ==               \* the thread is not joined
    /\ pc[t] = "stopRaise" /\ finish' = TRUE
    /\ Goto(t, "stopHalt")
    /\ UNCHANGED <<butFinish, rest>>

StopClearSkipped(t) ==              \* finish_ is not reset
    /\ pc[t] = "stopClear" /\ Goto(t, "stopMark")
    /\ UNCHANGED <<robotVars, rest>>

StopMarkSkipped(t) ==               \* stopped_ is not set
    /\ pc[t] = "stopMark" /\ Goto(t, AfterStop(t))
    /\ UNCHANGED <<robotVars, rest>>

InitMarkSkipped(t) ==               \* stopped_ is not cleared
    /\ pc[t] = "initMark" /\ Goto(t, "initSpawn")
    /\ UNCHANGED <<robotVars, rest>>

-----------------------------------------------------------------------------
Init ==
    /\ readMutex = "free" /\ stopped = TRUE /\ finish = FALSE
    /\ hasError \in BOOLEAN             \* setDefaultParams may be refused
    /\ initParamsSet = ~hasError /\ reflex = hasError
    /\ robotMode = Garbage /\ fed = FALSE
    /\ loop = "none" /\ loopMode = None /\ lib = "free"
    /\ ifaceMode = None /\ pending = FALSE /\ active = FALSE
    /\ pc = [cm |-> "boot", rec |-> "idle"] /\ op = "activate"
    /\ want = [t \in Threads |-> None]
    /\ crashed = FALSE /\ left = Budget

-----------------------------------------------------------------------------
(* stopRobot                                                               *)

StopTest(t) ==
    /\ pc[t] = "stopTest" /\ Goto(t, IF stopped THEN AfterStop(t) ELSE "stopRaise")
    /\ UNCHANGED <<robotVars, rest>>

StopRaise(t) ==
    /\ pc[t] = "stopRaise" /\ finish' = TRUE
    /\ Goto(t, "stopJoin")
    /\ UNCHANGED <<butFinish, rest>>

(* join() of a thread that was joined, or is being joined, by another one  *)
(* throws std::system_error, which nobody catches.                         *)
JoinRefused(t) ==
    /\ pc[t] = "stopJoin"
    /\ ~Joinable \/ \E u \in Threads : pc[u] = "stopJoining"
    /\ Terminate

StopJoin(t) ==
    /\ pc[t] = "stopJoin"
    /\ Joinable /\ \A u \in Threads : pc[u] # "stopJoining"
    /\ Goto(t, "stopJoining")
    /\ UNCHANGED <<robotVars, rest>>

StopJoined(t) ==
    /\ pc[t] = "stopJoining" /\ loop = "done" /\ loop' = "none"
    /\ Goto(t, "stopHalt")
    /\ UNCHANGED <<robotVars, loopMode, armVars, cmVars, op, want, crashed, left>>

(* robot_->stop(): the command does not need libfranka's control mutex.    *)
StopHalt(t) ==
    /\ pc[t] = "stopHalt" /\ Goto(t, "stopClear")
    /\ UNCHANGED <<robotVars, rest>>

StopClear(t) ==
    /\ pc[t] = "stopClear" /\ finish' = FALSE
    /\ Goto(t, "stopMark")
    /\ UNCHANGED <<butFinish, rest>>

StopMark(t) ==
    /\ pc[t] = "stopMark" /\ stopped' = TRUE
    /\ Goto(t, AfterStop(t))
    /\ UNCHANGED <<butStopped, rest>>

(* initializeTorqueControl and its five siblings                           *)

InitAssert(t) ==
    /\ pc[t] = "initAssert"
    /\ Asserts => stopped
    /\ Goto(t, "initMark")
    /\ UNCHANGED <<robotVars, rest>>

AssertFails(t) ==
    /\ pc[t] = "initAssert"
    /\ Asserts /\ ~stopped
    /\ Terminate

InitMark(t) ==
    /\ pc[t] = "initMark" /\ stopped' = FALSE
    /\ Goto(t, "initSpawn")
    /\ UNCHANGED <<butStopped, rest>>

InitSpawn(t) ==
    /\ pc[t] = "initSpawn"
    /\ ~Joinable
    /\ loop' = "spawned" /\ loopMode' = want[t] /\ fed' = FALSE
    /\ Goto(t, AfterInit(t))
    /\ UNCHANGED <<butFed, armVars, cmVars, op, want, crashed, left>>

(* Overwriting control_thread_ destroys a joinable std::thread.            *)
SpawnOverLive(t) ==
    /\ pc[t] = "initSpawn"
    /\ Joinable
    /\ Terminate

StopOrStart(t) ==
    \/ StopTest(t) \/ StopRaise(t) \/ JoinRefused(t) \/ StopJoin(t) \/ StopJoined(t)
    \/ StopHalt(t) \/ StopClear(t) \/ StopMark(t)
    \/ InitAssert(t) \/ AssertFails(t) \/ InitMark(t) \/ InitSpawn(t) \/ SpawnOverLive(t)

-----------------------------------------------------------------------------
(* The loop thread                                                         *)

(* robot_->control / robot_->read take libfranka's control mutex.          *)
LoopEnter ==
    /\ loop = "spawned" /\ lib = "free"
    /\ loopMode = None \/ ~reflex
    /\ loop' = "running" /\ lib' = "loop"
    /\ UNCHANGED <<robotVars, loopMode, reflex, others>>

(* An arm in reflex refuses a motion, a reader that holds the control mutex *)
(* is a conflicting operation; the reading loop catches the latter too.    *)
LoopRefused ==
    /\ loop = "spawned"
    /\ IF loopMode = None THEN lib # "free" ELSE lib = "free" /\ reflex
    /\ loop' = "raise"
    /\ UNCHANGED <<robotVars, loopMode, armVars, others>>

(* The control loops do not catch InvalidOperationException.               *)
LoopConflict ==
    /\ loop = "spawned" /\ loopMode # None /\ lib # "free"
    /\ Terminate

(* libfranka received a state and calls the callback.                      *)
LoopPacket ==
    /\ loop = "running" /\ (loopMode = None \/ ~reflex)
    /\ loop' = "callback"
    /\ UNCHANGED <<robotVars, loopMode, armVars, others>>

(* The callback: it needs read_mutex_, stores the state, and ends the loop *)
(* when finish_ is set (a motion cannot finish in reflex: ControlAborted).  *)
LoopCallback ==
    /\ loop = "callback" /\ readMutex = "free"
    /\ ~(loopMode = None /\ reflex)
    /\ IF finish /\ ~reflex THEN loop' = "done" /\ lib' = "free"
                            ELSE loop' = "running" /\ lib' = lib
    /\ UNCHANGED <<robotVars, loopMode, reflex, others>>

(* The reading loop's callback looks for a reflex and throws.              *)
ReflexSeen ==
    /\ loop = "callback" /\ readMutex = "free"
    /\ loopMode = None /\ reflex
    /\ hasError' = TRUE
    /\ loop' = "raise" /\ lib' = "free"
    /\ UNCHANGED <<readMutex, stopped, finish, initParamsSet, robotMode, fed,
                   loopMode, reflex, others>>

(* robot_->control itself throws the ControlException.                     *)
ControlAborted ==
    /\ loop = "running" /\ loopMode # None /\ reflex
    /\ loop' = "raise" /\ lib' = "free"
    /\ UNCHANGED <<robotVars, loopMode, reflex, others>>

(* The catch clauses: setError(true), and the thread ends.                 *)
LoopRaise ==
    /\ loop = "raise"
    /\ hasError' = TRUE /\ loop' = "done"
    /\ UNCHANGED <<butError, loopMode, armVars, others>>

LoopStep == LoopEnter \/ LoopRefused \/ LoopConflict \/ LoopPacket \/ LoopCallback
            \/ ReflexSeen \/ ControlAborted \/ LoopRaise

-----------------------------------------------------------------------------
(* The controller manager thread: on_activate, then read, update, write    *)
(* for ever; on_deactivate and on_activate on request; ~Robot at the end.  *)

CmGoto(from, to) ==
    /\ pc.cm = from /\ Goto("cm", to)

Activate ==
    /\ CmGoto("boot", "initAssert") \/ (CmGoto("readLock", "initAssert") /\ ~active)
    /\ op' = "activate" /\ active' = TRUE
    /\ want' = [want EXCEPT !["cm"] = None]
    /\ UNCHANGED <<robotVars, loopVars, armVars, ifaceMode, pending, crashed, left>>

(* Robot::read, called from FrankaHardwareInterface::read *)
ReadLock ==
    /\ readMutex = "free" /\ readMutex' = "cm"
    /\ CmGoto("readLock", "readTest")
    /\ UNCHANGED <<butMutex, rest>>

ReadTest ==
    /\ CmGoto("readTest", IF hasError \/ stopped THEN "readOnce" ELSE "readRet")
    /\ UNCHANGED <<robotVars, rest>>

ReadOnce ==
    /\ lib = "free"
    /\ PromptStart => loop # "spawned"
    /\ lib' = "cm" /\ CmGoto("readOnce", "reading")
    /\ UNCHANGED <<robotVars, loopVars, reflex, cmVars, op, want, crashed, left>>

ReadConflictThenStops ==            \* faulty: the error test is outside of the try block
    /\ lib # "free"
    /\ pc.cm = "readOnce" /\ Goto("cm", "readErr")
    /\ UNCHANGED <<robotVars, rest>>

(* InvalidOperationException: the cached state is returned.                *)
ReadConflict ==
    /\ lib # "free" /\ CmGoto("readOnce", "readRet")
    /\ UNCHANGED <<robotVars, rest>>

ReadDone ==
    /\ CmGoto("reading", "readErr")
    /\ lib' = "free"
    /\ UNCHANGED <<robotVars, loopVars, reflex, cmVars, op, want, crashed, left>>

ReadErr ==
    /\ CmGoto("readErr", IF hasError THEN "stopTest" ELSE "readRet")
    /\ op' = "read"
    /\ UNCHANGED <<robotVars, loopVars, armVars, cmVars, want, crashed, left>>

ReadRetKeepsLock ==                 \* faulty: read_mutex_ outlives the call
    /\ pc.cm = "readRet" /\ Goto("cm", "update")
    /\ UNCHANGED <<robotVars, rest>>

ReadRet ==
    /\ readMutex' = "free" /\ CmGoto("readRet", "update")
    /\ UNCHANGED <<butMutex, rest>>

(* Is a recovery being served?                                            *)
Recovering == pc.rec # "idle"

(* A service thread: prepare_command_mode_switch accepted a request.      *)
Prepare(m) ==
    /\ active /\ ~pending /\ op # "shutdown"
    /\ Orderly => ~Recovering
    /\ ifaceMode' = m /\ pending' = TRUE
    /\ Spend("switch")
    /\ UNCHANGED <<robotVars, loopVars, armVars, active, ctlVars, crashed>>

PerformNoStop ==                    \* faulty: the running loop is not stopped first
    /\ pending
    /\ pc.cm = "update" /\ Goto("cm", "initAssert")
    /\ op' = "switch" /\ want' = [want EXCEPT !["cm"] = ifaceMode]
    /\ UNCHANGED <<robotVars, loopVars, armVars, cmVars, crashed, left>>

(* perform_command_mode_switch *)
Perform ==
    /\ pending /\ CmGoto("update", "stopTest")
    /\ op' = "switch" /\ want' = [want EXCEPT !["cm"] = ifaceMode]
    /\ UNCHANGED <<robotVars, loopVars, armVars, cmVars, crashed, left>>

SetModeOnce ==                      \* faulty: the Robot only hears of the first mode
    /\ pc.cm = "setMode" /\ Goto("cm", "write")
    /\ robotMode' = (IF robotMode = Garbage THEN ifaceMode ELSE robotMode)
    /\ pending' = FALSE
    /\ UNCHANGED <<butMode, loopVars, armVars, ifaceMode, active, op, want, crashed, left>>

SetMode ==
    /\ CmGoto("setMode", "write")
    /\ robotMode' = ifaceMode /\ pending' = FALSE
    /\ UNCHANGED <<butMode, loopVars, armVars, ifaceMode, active, op, want, crashed, left>>

NoSwitch ==
    /\ ~pending /\ CmGoto("update", "write")
    /\ UNCHANGED <<robotVars, rest>>

WriteInverted ==                    \* faulty: the guard on has_error_ is inverted
    /\ pc.cm = "write" /\ Goto("cm", "readLock")
    /\ fed' = (fed \/ hasError)
    /\ UNCHANGED <<butFed, rest>>

(* FrankaHardwareInterface::write: nothing is written while has_error_.    *)
Write ==
    /\ CmGoto("write", "readLock")
    /\ fed' = (fed \/ ~hasError)
    /\ UNCHANGED <<butFed, rest>>

Deactivate ==
    /\ active /\ ~pending
    /\ Orderly => ~Recovering
    /\ CmGoto("readLock", "stopTest")
    /\ op' = "deactivate" /\ active' = FALSE
    /\ Spend("lifecycle")
    /\ UNCHANGED <<robotVars, loopVars, armVars, ifaceMode, pending, want, crashed>>

(* rclcpp::ok() is false: the loop ends, the executor's thread is joined,  *)
(* and ~Robot calls stopRobot.                                             *)
Shutdown ==
    /\ CmGoto("readLock", "drain")
    /\ op' = "shutdown"
    /\ Spend("shutdown")
    /\ UNCHANGED <<robotVars, loopVars, armVars, cmVars, want, crashed>>

Drained ==
    /\ pc.rec = "idle" /\ CmGoto("drain", "stopTest")
    /\ UNCHANGED <<robotVars, rest>>

CmStep == Activate \/ ReadLock \/ ReadTest \/ ReadOnce \/ ReadConflict \/ ReadDone
          \/ ReadErr \/ ReadRet \/ Perform \/ SetMode \/ NoSwitch \/ Write \/ Drained

-----------------------------------------------------------------------------
(* triggerAutomaticRecovery                                                *)

RecGoto(from, to) ==
    /\ pc.rec = from /\ Goto("rec", to)

(* The discipline of an orderly operator: recovery is asked for once the   *)
(* controller manager has stopped the failed loop, and switches and        *)
(* lifecycle changes wait until it has ended.                              *)
OrderlyRecovery == stopped /\ active /\ ~pending
                   /\ pc.cm \notin InitPCs

RecBegin ==
    /\ hasError /\ op # "shutdown"
    /\ Orderly => OrderlyRecovery
    /\ RecGoto("idle", "auto")
    /\ Spend("recovery")
    /\ UNCHANGED <<robotVars, loopVars, armVars, cmVars, op, want, crashed>>

(* doAutomaticErrorRecovery *)
RecAuto ==
    /\ RecGoto("auto", "clearErr")
    /\ reflex' = FALSE
    /\ UNCHANGED <<robotVars, loopVars, lib, cmVars, op, want, crashed, left>>

(* The recovery gives the arm a command: the automatic recovery, or the    *)
(* default parameters when they were never set.                            *)
Commanding == pc.rec = "auto" \/ (pc.rec = "params" /\ ~initParamsSet)

(* ControlException and NetworkException end the service with success=false. *)
RecFails ==
    /\ CommFaults /\ Commanding
    /\ Goto("rec", "idle")
    /\ UNCHANGED <<robotVars, rest>>

(* CommandException is not caught.                                         *)
RecUncaught ==
    /\ CommFaults /\ Commanding
    /\ Terminate

RecClearSkipped ==                  \* faulty: has_error_ is not cleared
    /\ pc.rec = "clearErr" /\ Goto("rec", "stopTest")
    /\ UNCHANGED <<robotVars, rest>>

RecClear ==
    /\ RecGoto("clearErr", "stopTest")
    /\ hasError' = FALSE
    /\ UNCHANGED <<butError, rest>>

(* A NetworkException of robot_->stop() leaves stopRobot half done when the *)
(* service catches it.                                                     *)
HaltFails ==
    /\ CommFaults /\ RecGoto("stopHalt", "idle")
    /\ UNCHANGED <<robotVars, rest>>

RecParams ==
    /\ RecGoto("params", "getMode")
    /\ initParamsSet' = TRUE
    /\ UNCHANGED <<butParams, rest>>

(* getControlMode; a control_mode_ that was never written holds anything.  *)
RecGetMode ==
    /\ RecGoto("getMode", "recLock")
    /\ \E m \in IF robotMode = Garbage THEN Modes \cup {Garbage} ELSE {robotMode} :
          want' = [want EXCEPT !["rec"] = m]
    /\ UNCHANGED <<robotVars, loopVars, armVars, cmVars, op, crashed, left>>

RecLockSkipped ==                   \* faulty: read_mutex_ is not taken
    /\ pc.rec = "recLock"
    /\ Goto("rec", IF want["rec"] \in Modes THEN "initAssert" ELSE "recUnlock")
    /\ UNCHANGED <<robotVars, rest>>

(* read_mutex_ is held while the loop is restarted; a mode that is none of *)
(* the six starts nothing.                                                 *)
RecLock ==
    /\ readMutex = "free" /\ readMutex' = "rec"
    /\ RecGoto("recLock", IF want["rec"] \in Modes THEN "initAssert" ELSE "recUnlock")
    /\ UNCHANGED <<butMutex, rest>>

RecUnlock ==
    /\ RecGoto("recUnlock", "idle")
    /\ readMutex' = "free"
    /\ UNCHANGED <<butMutex, rest>>

RecStep == RecAuto \/ RecFails \/ RecUncaught \/ RecClear \/ HaltFails
           \/ RecParams \/ RecGetMode \/ RecLock \/ RecUnlock

-----------------------------------------------------------------------------
(* The arm detects a collision, a limit or a communication violation.      *)
Fault ==
    /\ ~reflex
    /\ reflex' = TRUE
    /\ Spend("fault")
    /\ UNCHANGED <<robotVars, loopVars, lib, cmVars, ctlVars, crashed>>

(* Nobody catches a NetworkException of stop() or readOnce() on the thread *)
(* of the controller manager, nor anything but a ControlException on that  *)
(* of the loop.                                                            *)
ExceptionEscapes ==
    /\ CommFaults
    /\ pc.cm \in {"stopHalt", "reading"} \/ loop \in {"spawned", "running"}
    /\ Terminate

(* The process is gone, in one way or the other.                           *)
Ended == (crashed \/ pc.cm = "down") /\ UNCHANGED vars

Environment == Fault \/ (\E m \in Modes : Prepare(m)) \/ RecBegin \/ Deactivate \/ Shutdown
               \/ ExceptionEscapes

Step ==
    /\ ~crashed
    /\ \/ \E t \in Threads : StopOrStart(t)
       \/ LoopStep \/ CmStep \/ RecStep \/ Environment

Next == Step \/ Ended

Spec == Init /\ [][Next]_vars

-----------------------------------------------------------------------------
(* Fairness: every thread is scheduled; libfranka delivers a state every   *)
(* millisecond; a mutex that is released again and again is acquired in    *)
(* the end, because the controller manager sleeps between two cycles.      *)
Fairness ==
    /\ WF_vars(~crashed /\ (StopOrStart("cm") \/ CmStep))
    /\ WF_vars(~crashed /\ (StopOrStart("rec") \/ RecStep))
    /\ WF_vars(~crashed /\ LoopStep)
    /\ SF_vars(~crashed /\ ReadLock) /\ SF_vars(~crashed /\ RecLock)
    /\ SF_vars(~crashed /\ (LoopCallback \/ ReflexSeen))

FairSpec == Spec /\ Fairness

-----------------------------------------------------------------------------
(* Properties                                                              *)

(* Every variable stays in its type.                                       *)
TypeOK ==
    /\ readMutex \in {"free", "cm", "rec"}
    /\ stopped \in BOOLEAN /\ finish \in BOOLEAN /\ hasError \in BOOLEAN
    /\ initParamsSet \in BOOLEAN /\ fed \in BOOLEAN
    /\ robotMode \in Modes \cup {Garbage}
    /\ loop \in {"none", "spawned", "running", "callback", "raise", "done"}
    /\ loopMode \in Modes
    /\ lib \in {"free", "cm", "loop"} /\ reflex \in BOOLEAN
    /\ ifaceMode \in Modes /\ pending \in BOOLEAN /\ active \in BOOLEAN
    /\ pc \in [Threads -> CmPCs \cup RecPCs] /\ pc.cm \in CmPCs /\ pc.rec \in RecPCs
    /\ op \in CmOps
    /\ want \in [Threads -> Modes \cup {Garbage}]
    /\ crashed \in BOOLEAN
    /\ left \in [Events -> Nat]

(* robot.hpp:124, isStopped: "true if there is no control or reading loop  *)
(* running".  stopped_ is a plain bool that two threads set at the ends of *)
(* stopRobot and of initialize*.                                           *)
StoppedMeansNoLoop == stopped /\ ~crashed => ~LoopLive

(* A thread is past the test of stopRobot, or past the assert of           *)
(* initialize*: the only places where stopped_ and control_thread_ may     *)
(* disagree.                                                               *)
Changing(t) == pc[t] \in (StopPCs \ {"stopTest"}) \cup {"initMark", "initSpawn"}

(* Outside of stopRobot and initialize*, stopped_ says whether there is a  *)
(* thread to join: the next stopRobot neither joins twice nor forgets one. *)
HandleConsistent ==
    ~crashed /\ (\A t \in Threads : ~Changing(t)) => (stopped <=> ~Joinable)

(* robot.hpp:66-81: "Before using this method make sure that no other      *)
(* control or reading loop is currently active"; the asserts in robot.cpp. *)
NoLoopWhenInitialized == \A t \in Threads : pc[t] = "initAssert" /\ ~crashed => stopped

(* robot.hpp:79-81, of initializeContinuousReading: "make sure that no     *)
(* other control or reading loop is currently active".  on_activate calls  *)
(* it: while no recovery is at work, no other loop is there.               *)
ActivationStartsOverNothing ==
    pc.cm = "initAssert" /\ op = "activate" /\ ~Recovering /\ ~crashed => stopped

(* No joined thread is joined again, no running one is overwritten, and no *)
(* exception leaves a thread.                                              *)
NeverTerminates == ~crashed

(* robot.hpp:91-96, read: "in a thread-safe way".  read() never waits, its *)
(* read_mutex_ in hand, for a loop that waits for read_mutex_.             *)
ReadDoesNotBlockItsLoop ==
    ~(pc.cm = "stopJoining" /\ readMutex = "cm" /\ loop = "callback")

(* finish_ is raised over a live thread only while somebody is in          *)
(* stopRobot: a restarted loop never finds a stop request left behind.     *)
StopRequestOwned ==
    finish /\ Joinable =>
        \E t \in Threads : pc[t] \in {"stopJoin", "stopJoining", "stopHalt", "stopClear"}

(* robot.cpp:82 and franka_error_recovery_service_server.cpp:44: while the *)
(* controller manager is inside of read(), in readOnce or stopping a loop, *)
(* the recovery does not start one, and the other way around.              *)
ReadExcludesRestart ==
    ~crashed => ~(/\ \/ pc.cm \in {"readTest", "readOnce", "reading", "readErr", "readRet"}
                     \/ pc.cm \in StopPCs /\ op = "read"
                  /\ pc.rec \in InitPCs \cup {"recUnlock"})

(* When the recovery service reports success, has_error_ is clear, unless  *)
(* the loop it has just restarted failed in turn.                          *)
RecoveryClearsError == pc.rec = "recUnlock" /\ hasError => loop \in {"raise", "done"}

(* The recovery service restarts the kind of loop that failed, as long as  *)
(* the component has not been deactivated: on_activate starts a reading    *)
(* loop and leaves Robot::control_mode_ at the mode of before.             *)
RestartKeepsMode ==
    [][pc.rec = "initSpawn" /\ InitSpawn("rec") /\ robotMode # Garbage
       /\ left["lifecycle"] = Budget["lifecycle"]
          => loopMode' = loopMode]_vars

(* The recovery service answers.                                           *)
RecoveryAnswers == Recovering ~> ~Recovering

(* A control loop gets a command that was written for it.                  *)
LoopIsFed == LoopLive /\ loopMode # None /\ ~stopped ~> (fed \/ hasError \/ stopped)

(* The loop lifecycle that the comments of robot.hpp promise.              *)
Lifecycle == INSTANCE LoopLifecycle WITH
    phase <- IF loop = "none" THEN "off"
             ELSE IF loop \in {"raise", "done"} THEN "over"
             ELSE IF finish THEN "ending" ELSE "on",
    mode  <- loopMode
ImplementsLifecycle == Lifecycle!Spec
-----------------------------------------------------------------------------
(* The inductive invariant of an orderly system (Orderly), from which      *)
(* StoppedMeansNoLoop, HandleConsistent and NoLoopWhenInitialized follow.  *)

(* read_mutex_ is in the hands of the thread whose code is inside of it.   *)
ReadSection == {"readTest", "readOnce", "reading", "readErr", "readRet"}
MutexInv ==
    /\ readMutex = "cm" <=> pc.cm \in ReadSection \/ (pc.cm \in StopPCs /\ op = "read")
    /\ readMutex = "rec" <=> pc.rec \in InitPCs \cup {"recUnlock"}
    /\ pc.cm = "drain" => op = "shutdown"

(* While read() is past readOnce, no loop is on its way into libfranka      *)
(* (PromptStart): what it may have to join has left libfranka already.     *)
PromptInv ==
    /\ loop \in {"running", "callback"} => lib = "loop"
    /\ lib = "loop" => loop \in {"running", "callback"}
    /\ lib = "cm" <=> pc.cm = "reading"
    /\ pc.cm \in {"reading", "readErr"} \/ (pc.cm \in StopPCs /\ op = "read")
          => loop \in {"none", "raise", "done"}

(* What the controller manager is doing when it is inside of an operation. *)
OperationInv ==
    /\ pending => active
    /\ pc.cm = "boot" => ~active
    /\ pc.cm \in StopPCs /\ op = "deactivate" => ~active
    /\ pc.cm \in StopPCs \cup InitPCs \cup {"setMode"} /\ op = "switch" => pending
    /\ pc.cm = "setMode" => op = "switch"
    /\ pc.cm \in StopPCs => op # "activate"
    /\ pc.cm \in InitPCs => active /\ op \in {"activate", "switch"}
    /\ pc.cm \in {"drain", "down"} => op = "shutdown"
    /\ op = "shutdown" => pc.cm \in {"drain", "down"} \cup StopPCs
    /\ ~active => stopped \/ (pc.cm \in StopPCs /\ op = "deactivate")

(* A recovery meets a controller manager that is not changing the loop.    *)
RecoveryInv ==
    /\ Recovering => active /\ ~pending /\ ~Changing("cm") /\ pc.cm \notin InitPCs
    /\ Recovering /\ op = "shutdown" => pc.cm = "drain"
    /\ pc.rec \notin {"idle", "initSpawn", "recUnlock"} => stopped
    /\ pc.rec \notin StopPCs \ {"stopTest"}

(* stopped_ and the thread behind control_thread_, at every place.         *)
HandleInv ==
    /\ \A t \in Threads :
          /\ pc[t] \in {"stopRaise", "stopJoin", "stopJoining"} => ~stopped /\ Joinable
          /\ pc[t] \in {"stopHalt", "stopClear", "stopMark"}    => ~stopped /\ ~Joinable
          /\ pc[t] \in {"initAssert", "initMark"}               => stopped
          /\ pc[t] = "initSpawn"                                => ~stopped /\ ~Joinable
    /\ (\A t \in Threads : pc[t] \notin {"stopHalt", "stopClear", "stopMark", "initSpawn"})
          => (stopped <=> ~Joinable)

OrderlyInv == MutexInv /\ OperationInv /\ RecoveryInv /\ HandleInv

=============================================================================
