-------------------------- MODULE FrankaRobotProofs --------------------------
(***************************************************************************)
(* Theorems about FrankaRobot, for every set of control modes, every       *)
(* budget of events and every build.                                       *)
(***************************************************************************)
EXTENDS FrankaRobot, TLAPS

(* Frames: the tuples of variables that a step leaves alone.               *)
USE DEF robotVars, loopVars, armVars, cmVars, ctlVars, others, rest, butMutex, butStopped,
        butFinish, butError, butParams, butMode, butFed

(* The return points of stopRobot and initialize* are places of the thread *)
(* that called them.                                                       *)
LEMMA ReturnPoints ==
    /\ AfterStop("cm") \in CmPCs /\ AfterStop("rec") \in RecPCs
    /\ AfterInit("cm") \in CmPCs /\ AfterInit("rec") \in RecPCs
  BY DEF AfterStop, AfterInit, CmPCs, RecPCs, StopPCs, InitPCs

(* An event that is paid for leaves a budget.                              *)
LEMMA SpendType ==
    ASSUME TypeOK, NEW e \in Events, Spend(e)
    PROVE  left' \in [Events -> Nat]
  BY DEF TypeOK, Spend

(* TypeOK alone is not inductive: want may be Garbage, which is no mode of *)
(* a loop.  A thread inside initialize* has one of the six modes in hand.  *)
WantMode == want["cm"] \in Modes /\ (pc.rec \in InitPCs => want["rec"] \in Modes)

(* stopRobot and initialize*, run by either thread, keep the types.        *)
LEMMA StopOrStartType ==
    ASSUME TypeOK, WantMode, NEW t \in Threads, StopOrStart(t)
    PROVE  TypeOK'
<1> USE DEF TypeOK, Goto, Threads, CmPCs, RecPCs, StopPCs, InitPCs
<1>1. CASE StopTest(t)  BY <1>1, ReturnPoints DEF StopTest
<1>2. CASE StopRaise(t)  BY <1>2 DEF StopRaise
<1>3. CASE JoinRefused(t)  BY <1>3 DEF JoinRefused, Terminate
<1>4. CASE StopJoin(t)  BY <1>4 DEF StopJoin
<1>5. CASE StopJoined(t)  BY <1>5 DEF StopJoined
<1>6. CASE StopHalt(t)  BY <1>6 DEF StopHalt
<1>7. CASE StopClear(t)
  <2>1. finish' \in BOOLEAN
    BY <1>7, Zenon DEF StopClear
  <2>2. QED  BY <2>1, <1>7 DEF StopClear
<1>8. CASE StopMark(t)  BY <1>8, ReturnPoints DEF StopMark
<1>9. CASE InitAssert(t)  BY <1>9 DEF InitAssert
<1>10. CASE AssertFails(t)  BY <1>10 DEF AssertFails, Terminate
<1>11. CASE InitMark(t)
  <2>1. stopped' \in BOOLEAN
    BY <1>11, Zenon DEF InitMark
  <2>2. QED  BY <2>1, <1>11 DEF InitMark
<1>12. CASE InitSpawn(t)
  <2>1. fed' \in BOOLEAN
    BY <1>12, Zenon DEF InitSpawn
  <2>2. want[t] \in Modes
    BY <1>12 DEF InitSpawn, WantMode
  <2>3. QED  BY <2>1, <2>2, <1>12, ReturnPoints DEF InitSpawn
<1>13. CASE SpawnOverLive(t)  BY <1>13 DEF SpawnOverLive, Terminate
<1>14. QED  BY <1>1, <1>2, <1>3, <1>4, <1>5, <1>6, <1>7, <1>8, <1>9, <1>10, <1>11, <1>12, <1>13 DEF StopOrStart

(* The loop thread keeps the types.                                        *)
LEMMA LoopStepType == ASSUME TypeOK, LoopStep PROVE TypeOK'
<1> USE DEF TypeOK
<1>1. CASE LoopEnter  BY <1>1 DEF LoopEnter
<1>2. CASE LoopRefused  BY <1>2 DEF LoopRefused
<1>3. CASE LoopConflict  BY <1>3 DEF LoopConflict, Terminate
<1>4. CASE LoopPacket  BY <1>4 DEF LoopPacket
<1>5. CASE LoopCallback  BY <1>5 DEF LoopCallback
<1>6. CASE ReflexSeen  BY <1>6 DEF ReflexSeen
<1>7. CASE ControlAborted  BY <1>7 DEF ControlAborted
<1>8. CASE LoopRaise  BY <1>8 DEF LoopRaise
<1>9. QED  BY <1>1, <1>2, <1>3, <1>4, <1>5, <1>6, <1>7, <1>8 DEF LoopStep

(* The controller manager keeps the types.                                 *)
LEMMA CmStepType == ASSUME TypeOK, CmStep PROVE TypeOK'
<1> USE DEF TypeOK, Goto, CmOps, Modes, Threads, CmPCs, RecPCs, StopPCs, InitPCs
<1>1. CASE Activate  BY <1>1 DEF Activate, CmGoto
<1>2. CASE ReadLock  BY <1>2 DEF ReadLock, CmGoto
<1>3. CASE ReadTest  BY <1>3 DEF ReadTest, CmGoto
<1>4. CASE ReadOnce  BY <1>4 DEF ReadOnce, CmGoto
<1>5. CASE ReadConflict  BY <1>5 DEF ReadConflict, CmGoto
<1>6. CASE ReadDone  BY <1>6 DEF ReadDone, CmGoto
<1>7. CASE ReadErr  BY <1>7 DEF ReadErr, CmGoto
<1>8. CASE ReadRet  BY <1>8 DEF ReadRet, CmGoto
<1>9. CASE Perform  BY <1>9 DEF Perform, CmGoto
<1>10. CASE SetMode
  <2>1. pending' \in BOOLEAN
    BY <1>10, Zenon DEF SetMode
  <2>2. QED  BY <2>1, <1>10 DEF SetMode, CmGoto
<1>11. CASE NoSwitch  BY <1>11 DEF NoSwitch, CmGoto
<1>12. CASE Write  BY <1>12 DEF Write, CmGoto
<1>13. CASE Drained  BY <1>13 DEF Drained, CmGoto
<1>14. QED  BY <1>1, <1>2, <1>3, <1>4, <1>5, <1>6, <1>7, <1>8, <1>9, <1>10, <1>11, <1>12, <1>13 DEF CmStep

(* The recovery service keeps the types.                                   *)
LEMMA RecStepType == ASSUME TypeOK, RecStep PROVE TypeOK'
<1> USE DEF TypeOK, Goto, Modes, Threads, CmPCs, RecPCs, StopPCs, InitPCs
<1>1. CASE RecAuto
  <2>1. reflex' \in BOOLEAN
    BY <1>1, Zenon DEF RecAuto
  <2>2. QED  BY <2>1, <1>1 DEF RecAuto, RecGoto
<1>2. CASE RecFails  BY <1>2 DEF RecFails, Commanding
<1>3. CASE RecUncaught  BY <1>3 DEF RecUncaught, Terminate
<1>4. CASE RecClear
  <2>1. hasError' \in BOOLEAN
    BY <1>4, Zenon DEF RecClear
  <2>2. QED  BY <2>1, <1>4 DEF RecClear, RecGoto
<1>5. CASE HaltFails  BY <1>5 DEF HaltFails, RecGoto
<1>7. CASE RecParams  BY <1>7 DEF RecParams, RecGoto
<1>8. CASE RecGetMode  BY <1>8 DEF RecGetMode, RecGoto
<1>9. CASE RecLock  BY <1>9 DEF RecLock, RecGoto
<1>10. CASE RecUnlock  BY <1>10 DEF RecUnlock, RecGoto
<1>11. QED  BY <1>1, <1>2, <1>3, <1>4, <1>5, <1>7, <1>8, <1>9, <1>10 DEF RecStep

(* So does the environment.                                                *)
LEMMA EnvironmentType == ASSUME TypeOK, Environment PROVE TypeOK'
<1> USE DEF TypeOK, Goto, CmOps, Threads, CmPCs, RecPCs, StopPCs, InitPCs
<1>1. CASE Fault  BY <1>1, SpendType DEF Fault, Events
<1>2. CASE RecBegin  BY <1>2, SpendType DEF RecBegin, Events, RecGoto
<1>3. CASE Deactivate
  <2>1. active' \in BOOLEAN
    BY <1>3, Zenon DEF Deactivate
  <2>2. QED  BY <2>1, <1>3, SpendType DEF Deactivate, Events, CmGoto
<1>4. CASE Shutdown  BY <1>4, SpendType DEF Shutdown, Events, CmGoto
<1>5. ASSUME NEW m \in Modes, Prepare(m) PROVE TypeOK'
  BY <1>5, SpendType DEF Prepare, Events
<1>6. CASE ExceptionEscapes  BY <1>6 DEF ExceptionEscapes, Terminate
<1>7. QED  BY <1>1, <1>2, <1>3, <1>4, <1>5, <1>6 DEF Environment

(* Only the controller manager and the recovery choose a mode.             *)
LEMMA WantModeStep ==
    ASSUME TypeOK, WantMode, Step
    PROVE  WantMode'
<1> USE DEF TypeOK, WantMode, Goto, Threads, InitPCs
<1>1. ASSUME NEW t \in Threads, StopOrStart(t) PROVE WantMode'
  <2>1. (t = "rec" /\ pc'["rec"] \in InitPCs => pc["rec"] \in InitPCs) /\ want' = want
        /\ (t = "cm" => pc'["rec"] = pc["rec"])
    BY <1>1 DEF StopOrStart, StopTest, StopRaise, JoinRefused, StopJoin, StopJoined, StopHalt,
       StopClear, StopMark, InitAssert, AssertFails, InitMark, InitSpawn, SpawnOverLive,
       Terminate, ctlVars, AfterStop, AfterInit
  <2>2. QED  BY <1>1, <2>1
<1>2. CASE LoopStep
  BY <1>2 DEF LoopStep, LoopEnter, LoopRefused, LoopConflict, LoopPacket, LoopCallback,
     ReflexSeen, ControlAborted, LoopRaise, Terminate, ctlVars
<1>3. CASE CmStep
  BY <1>3 DEF CmStep, CmGoto, Modes, Activate, ReadLock, ReadTest, ReadOnce, ReadConflict,
     ReadDone, ReadErr, ReadRet, Perform, SetMode, NoSwitch, Write, Drained
<1>4. CASE RecStep
  BY <1>4 DEF RecStep, RecGoto, RecAuto, RecFails, RecUncaught, RecClear, HaltFails,
     RecParams, RecGetMode, RecLock, RecUnlock, Terminate, ctlVars
<1>5. CASE Environment
  BY <1>5 DEF Environment, CmGoto, RecGoto, Fault, RecBegin, Prepare, Deactivate, Shutdown,
     ExceptionEscapes, Terminate, ctlVars
<1>6. QED  BY <1>1, <1>2, <1>3, <1>4, <1>5 DEF Step

(* Both hold throughout.                                                   *)
TypeInv == TypeOK /\ WantMode
LEMMA TypeInvariant == Spec => []TypeInv
<1> USE DEF TypeInv
<1>1. Init => TypeInv
  <2> SUFFICES ASSUME Init PROVE TypeInv
    OBVIOUS
  <2>1. stopped \in BOOLEAN /\ finish \in BOOLEAN /\ fed \in BOOLEAN
        /\ pending \in BOOLEAN /\ active \in BOOLEAN /\ crashed \in BOOLEAN
    BY Zenon DEF Init
  <2>2. hasError \in BOOLEAN /\ initParamsSet \in BOOLEAN /\ reflex \in BOOLEAN
    <3>1. CASE hasError = TRUE   BY <3>1, Zenon DEF Init
    <3>2. CASE hasError = FALSE  BY <3>2, Zenon DEF Init
    <3>3. QED  BY <3>1, <3>2, Zenon DEF Init
  <2>3. QED
    BY <2>1, <2>2, BudgetAssumption
    DEF Init, TypeOK, WantMode, Modes, Threads, CmPCs, RecPCs, CmOps, StopPCs, InitPCs
<1>2. TypeInv /\ [Next]_vars => TypeInv'
  <2> SUFFICES ASSUME TypeInv, [Next]_vars PROVE TypeInv'
    OBVIOUS
  <2>1. CASE Step
    BY <2>1, StopOrStartType, LoopStepType, CmStepType, RecStepType, EnvironmentType,
       WantModeStep DEF Step
  <2>2. CASE UNCHANGED vars
    BY <2>2 DEF TypeOK, WantMode, vars
  <2>3. QED  BY <2>1, <2>2 DEF Next, Ended
<1>3. QED  BY <1>1, <1>2, PTL DEF Spec

(* Every variable of FrankaRobot stays in its type: TypeOK.                *)
THEOREM TypeCorrect == Spec => []TypeOK
<1>1. TypeInv => TypeOK
  BY DEF TypeInv
<1>2. QED  BY <1>1, TypeInvariant, PTL

(* The threads are where TypeOK says: all that the next lemmas need of it. *)
PlaceInv == /\ pc \in [Threads -> CmPCs \cup RecPCs]
            /\ pc.cm \in CmPCs /\ pc.rec \in RecPCs /\ op \in CmOps
            /\ loop \in {"none", "spawned", "running", "callback", "raise", "done"}

(* stopRobot and initialize* keep the invariant of an orderly system: the  *)
(* joins and spawns that would terminate the process are not enabled.      *)
LEMMA OrderlyStopOrStart ==
    ASSUME Orderly, PlaceInv, OrderlyInv, NEW t \in Threads, StopOrStart(t)
    PROVE  OrderlyInv'
<1> USE DEF OrderlyInv, MutexInv, OperationInv, RecoveryInv, HandleInv, PlaceInv, ReadSection, Recovering, Changing, Joinable, Goto, Threads, CmPCs, RecPCs, CmOps, StopPCs, InitPCs
<1>1. CASE StopTest(t)  BY <1>1 DEF StopTest, AfterStop
<1>2. CASE StopRaise(t)  BY <1>2 DEF StopRaise
<1>3. CASE JoinRefused(t)  BY <1>3 DEF JoinRefused, Terminate
<1>4. CASE StopJoin(t)  BY <1>4 DEF StopJoin
<1>5. CASE StopJoined(t)  BY <1>5 DEF StopJoined
<1>6. CASE StopHalt(t)  BY <1>6 DEF StopHalt
<1>7. CASE StopClear(t)  BY <1>7 DEF StopClear
<1>8. CASE StopMark(t)  BY <1>8 DEF StopMark, AfterStop
<1>9. CASE InitAssert(t)  BY <1>9 DEF InitAssert
<1>10. CASE AssertFails(t)  BY <1>10 DEF AssertFails, Terminate
<1>11. CASE InitMark(t)  BY <1>11 DEF InitMark
<1>12. CASE InitSpawn(t)  BY <1>12 DEF InitSpawn, AfterInit
<1>13. CASE SpawnOverLive(t)  BY <1>13 DEF SpawnOverLive, Terminate
<1>14. QED  BY <1>1, <1>2, <1>3, <1>4, <1>5, <1>6, <1>7, <1>8, <1>9, <1>10, <1>11, <1>12, <1>13 DEF StopOrStart

(* The loop thread ends or goes on, but stays joinable.                    *)
LEMMA OrderlyLoop == ASSUME Orderly, PlaceInv, OrderlyInv, LoopStep PROVE OrderlyInv'
<1> USE DEF OrderlyInv, MutexInv, OperationInv, RecoveryInv, HandleInv, PlaceInv, ReadSection, Recovering, Changing, Joinable, Goto, Threads, CmPCs, RecPCs, CmOps, StopPCs, InitPCs
<1>1. CASE LoopEnter  BY <1>1 DEF LoopEnter
<1>2. CASE LoopRefused  BY <1>2 DEF LoopRefused
<1>3. CASE LoopConflict  BY <1>3 DEF LoopConflict, Terminate
<1>4. CASE LoopPacket  BY <1>4 DEF LoopPacket
<1>5. CASE LoopCallback  BY <1>5 DEF LoopCallback
<1>6. CASE ReflexSeen  BY <1>6 DEF ReflexSeen
<1>7. CASE ControlAborted  BY <1>7 DEF ControlAborted
<1>8. CASE LoopRaise  BY <1>8 DEF LoopRaise
<1>9. QED  BY <1>1, <1>2, <1>3, <1>4, <1>5, <1>6, <1>7, <1>8 DEF LoopStep

(* The controller manager keeps the invariant.                             *)
LEMMA OrderlyCm == ASSUME Orderly, PlaceInv, OrderlyInv, CmStep PROVE OrderlyInv'
<1> USE DEF OrderlyInv, MutexInv, OperationInv, RecoveryInv, HandleInv, PlaceInv, ReadSection, Recovering, Changing, Joinable, Goto, Threads, CmPCs, RecPCs, CmOps, StopPCs, InitPCs
<1>1. CASE Activate  BY <1>1 DEF Activate, CmGoto
<1>2. CASE ReadLock  BY <1>2 DEF ReadLock, CmGoto
<1>3. CASE ReadTest  BY <1>3 DEF ReadTest, CmGoto
<1>4. CASE ReadOnce  BY <1>4 DEF ReadOnce, CmGoto
<1>5. CASE ReadConflict  BY <1>5 DEF ReadConflict, CmGoto
<1>6. CASE ReadDone  BY <1>6 DEF ReadDone, CmGoto
<1>7. CASE ReadErr  BY <1>7 DEF ReadErr, CmGoto
<1>8. CASE ReadRet  BY <1>8 DEF ReadRet, CmGoto
<1>9. CASE Perform  BY <1>9 DEF Perform, CmGoto
<1>10. CASE SetMode  BY <1>10 DEF SetMode, CmGoto
<1>11. CASE NoSwitch  BY <1>11 DEF NoSwitch, CmGoto
<1>12. CASE Write  BY <1>12 DEF Write, CmGoto
<1>13. CASE Drained  BY <1>13 DEF Drained, CmGoto
<1>14. QED  BY <1>1, <1>2, <1>3, <1>4, <1>5, <1>6, <1>7, <1>8, <1>9, <1>10, <1>11, <1>12, <1>13 DEF CmStep

(* The recovery service keeps the invariant.                               *)
LEMMA OrderlyRec == ASSUME Orderly, PlaceInv, OrderlyInv, RecStep PROVE OrderlyInv'
<1> USE DEF OrderlyInv, MutexInv, OperationInv, RecoveryInv, HandleInv, PlaceInv, ReadSection, Recovering, Changing, Joinable, Goto, Threads, CmPCs, RecPCs, CmOps, StopPCs, InitPCs
<1>1. CASE RecAuto  BY <1>1 DEF RecAuto, RecGoto
<1>2. CASE RecFails  BY <1>2 DEF RecFails, Commanding
<1>3. CASE RecUncaught  BY <1>3 DEF RecUncaught, Terminate
<1>4. CASE RecClear  BY <1>4 DEF RecClear, RecGoto
<1>5. CASE HaltFails  BY <1>5 DEF HaltFails, RecGoto
<1>7. CASE RecParams  BY <1>7 DEF RecParams, RecGoto
<1>8. CASE RecGetMode  BY <1>8 DEF RecGetMode, RecGoto
<1>9. CASE RecLock  BY <1>9 DEF RecLock, RecGoto
<1>10. CASE RecUnlock  BY <1>10 DEF RecUnlock, RecGoto
<1>11. QED  BY <1>1, <1>2, <1>3, <1>4, <1>5, <1>7, <1>8, <1>9, <1>10 DEF RecStep

(* An orderly environment keeps the invariant.                             *)
LEMMA OrderlyEnvironment == ASSUME Orderly, PlaceInv, OrderlyInv, Environment PROVE OrderlyInv'
<1> USE DEF OrderlyInv, MutexInv, OperationInv, RecoveryInv, HandleInv, PlaceInv, ReadSection, Recovering, Changing, Joinable, Goto, Threads, CmPCs, RecPCs, CmOps, StopPCs, InitPCs
<1>1. CASE Fault  BY <1>1 DEF Fault
<1>2. CASE RecBegin  BY <1>2 DEF RecBegin, RecGoto, OrderlyRecovery
<1>3. CASE Deactivate  BY <1>3 DEF Deactivate, CmGoto
<1>4. CASE Shutdown  BY <1>4 DEF Shutdown, CmGoto
<1>5. ASSUME NEW m \in Modes, Prepare(m) PROVE OrderlyInv'
  BY <1>5 DEF Prepare
<1>6. CASE ExceptionEscapes  BY <1>6 DEF ExceptionEscapes, Terminate
<1>7. QED  BY <1>1, <1>2, <1>3, <1>4, <1>5, <1>6 DEF Environment

(* In an orderly system the places where stopped_ and control_thread_ may  *)
(* disagree are never entered by two threads at once: OrderlyInv.          *)
THEOREM OrderlyInvariant == ASSUME Orderly PROVE Spec => []OrderlyInv
<1>1. Init => OrderlyInv
  BY DEF Init, OrderlyInv, MutexInv, OperationInv, RecoveryInv, HandleInv, ReadSection,
     Recovering, Changing, Joinable, Threads, StopPCs, InitPCs
<1>2. TypeOK /\ OrderlyInv /\ [Next]_vars => OrderlyInv'
  <2> SUFFICES ASSUME TypeOK, OrderlyInv, [Next]_vars PROVE OrderlyInv'
    OBVIOUS
  <2>1. PlaceInv
    BY DEF TypeOK, PlaceInv
  <2>2. CASE Step
    BY <2>1, <2>2, Orderly, OrderlyStopOrStart, OrderlyLoop, OrderlyCm, OrderlyRec, OrderlyEnvironment
    DEF Step
  <2>3. CASE UNCHANGED vars
    BY <2>3 DEF vars, OrderlyInv, MutexInv, OperationInv, RecoveryInv, HandleInv, ReadSection,
       Recovering, Changing, Joinable
  <2>4. QED  BY <2>2, <2>3 DEF Next, Ended
<1>3. QED  BY <1>1, <1>2, TypeCorrect, PTL DEF Spec

(* robot.hpp:124 in an orderly system: isStopped() is true only when no    *)
(* control or reading loop is running: StoppedMeansNoLoop.                 *)
THEOREM OrderlyIsStopped == ASSUME Orderly PROVE Spec => []StoppedMeansNoLoop
<1>1. OrderlyInv => StoppedMeansNoLoop
  BY DEF OrderlyInv, HandleInv, StoppedMeansNoLoop, LoopLive, Joinable, Threads
<1>2. QED  BY <1>1, OrderlyInvariant, PTL

(* stopped_ tells whether there is a thread to join: HandleConsistent.     *)
THEOREM OrderlyHandle == ASSUME Orderly PROVE Spec => []HandleConsistent
<1>1. OrderlyInv => HandleConsistent
  BY DEF OrderlyInv, HandleInv, HandleConsistent, Changing, StopPCs, Threads
<1>2. QED  BY <1>1, OrderlyInvariant, PTL

(* robot.hpp:66-81 and the asserts of robot.cpp in an orderly system: no   *)
(* loop is started beside another: NoLoopWhenInitialized.                  *)
THEOREM OrderlyInitialize == ASSUME Orderly PROVE Spec => []NoLoopWhenInitialized
<1>1. OrderlyInv => NoLoopWhenInitialized
  BY DEF OrderlyInv, HandleInv, NoLoopWhenInitialized
<1>2. QED  BY <1>1, OrderlyInvariant, PTL

(* Whoever is inside of read() or of the restart holds read_mutex_.        *)
LEMMA MutexStep ==
    ASSUME PlaceInv, MutexInv, Step
    PROVE  MutexInv'
<1> USE DEF MutexInv, ReadSection, PlaceInv, Goto, Threads, CmPCs, RecPCs, CmOps, StopPCs, InitPCs
<1>1. ASSUME NEW t \in Threads, StopOrStart(t) PROVE MutexInv'
  <2>1. CASE StopTest(t)  BY <2>1 DEF StopTest, AfterStop
  <2>2. CASE StopRaise(t)  BY <2>2 DEF StopRaise
  <2>3. CASE JoinRefused(t)  BY <2>3 DEF JoinRefused, Terminate
  <2>4. CASE StopJoin(t)  BY <2>4 DEF StopJoin
  <2>5. CASE StopJoined(t)  BY <2>5 DEF StopJoined
  <2>6. CASE StopHalt(t)  BY <2>6 DEF StopHalt
  <2>7. CASE StopClear(t)  BY <2>7 DEF StopClear
  <2>8. CASE StopMark(t)  BY <2>8 DEF StopMark, AfterStop
  <2>9. CASE InitAssert(t)  BY <2>9 DEF InitAssert
  <2>10. CASE AssertFails(t)  BY <2>10 DEF AssertFails, Terminate
  <2>11. CASE InitMark(t)  BY <2>11 DEF InitMark
  <2>12. CASE InitSpawn(t)  BY <2>12 DEF InitSpawn, AfterInit
  <2>13. CASE SpawnOverLive(t)  BY <2>13 DEF SpawnOverLive, Terminate
  <2>14. QED  BY <1>1, <2>1, <2>2, <2>3, <2>4, <2>5, <2>6, <2>7, <2>8, <2>9, <2>10, <2>11, <2>12, <2>13 DEF StopOrStart
<1>2. CASE LoopStep
  <2>1. CASE LoopEnter  BY <2>1 DEF LoopEnter
  <2>2. CASE LoopRefused  BY <2>2 DEF LoopRefused
  <2>3. CASE LoopConflict  BY <2>3 DEF LoopConflict, Terminate
  <2>4. CASE LoopPacket  BY <2>4 DEF LoopPacket
  <2>5. CASE LoopCallback  BY <2>5 DEF LoopCallback
  <2>6. CASE ReflexSeen  BY <2>6 DEF ReflexSeen
  <2>7. CASE ControlAborted  BY <2>7 DEF ControlAborted
  <2>8. CASE LoopRaise  BY <2>8 DEF LoopRaise
  <2>9. QED  BY <1>2, <2>1, <2>2, <2>3, <2>4, <2>5, <2>6, <2>7, <2>8 DEF LoopStep
<1>3. CASE CmStep
  <2>1. CASE Activate  BY <2>1 DEF Activate, CmGoto
  <2>2. CASE ReadLock  BY <2>2 DEF ReadLock, CmGoto
  <2>3. CASE ReadTest  BY <2>3 DEF ReadTest, CmGoto
  <2>4. CASE ReadOnce  BY <2>4 DEF ReadOnce, CmGoto
  <2>5. CASE ReadConflict  BY <2>5 DEF ReadConflict, CmGoto
  <2>6. CASE ReadDone  BY <2>6 DEF ReadDone, CmGoto
  <2>7. CASE ReadErr  BY <2>7 DEF ReadErr, CmGoto
  <2>8. CASE ReadRet  BY <2>8 DEF ReadRet, CmGoto
  <2>9. CASE Perform  BY <2>9 DEF Perform, CmGoto
  <2>10. CASE SetMode  BY <2>10 DEF SetMode, CmGoto
  <2>11. CASE NoSwitch  BY <2>11 DEF NoSwitch, CmGoto
  <2>12. CASE Write  BY <2>12 DEF Write, CmGoto
  <2>13. CASE Drained  BY <2>13 DEF Drained, CmGoto
  <2>14. QED  BY <1>3, <2>1, <2>2, <2>3, <2>4, <2>5, <2>6, <2>7, <2>8, <2>9, <2>10, <2>11, <2>12, <2>13 DEF CmStep
<1>4. CASE RecStep
  <2>1. CASE RecAuto  BY <2>1 DEF RecAuto, RecGoto
  <2>2. CASE RecFails  BY <2>2 DEF RecFails, Commanding
  <2>3. CASE RecUncaught  BY <2>3 DEF RecUncaught, Terminate
  <2>4. CASE RecClear  BY <2>4 DEF RecClear, RecGoto
  <2>5. CASE HaltFails  BY <2>5 DEF HaltFails, RecGoto
  <2>7. CASE RecParams  BY <2>7 DEF RecParams, RecGoto
  <2>8. CASE RecGetMode  BY <2>8 DEF RecGetMode, RecGoto
  <2>9. CASE RecLock  BY <2>9 DEF RecLock, RecGoto
  <2>10. CASE RecUnlock  BY <2>10 DEF RecUnlock, RecGoto
  <2>11. QED  BY <1>4, <2>1, <2>2, <2>3, <2>4, <2>5, <2>7, <2>8, <2>9, <2>10 DEF RecStep
<1>5. CASE Environment
  <2>1. CASE Fault  BY <2>1 DEF Fault
  <2>2. CASE RecBegin  BY <2>2 DEF RecBegin, RecGoto
  <2>3. ASSUME NEW m \in Modes, Prepare(m) PROVE MutexInv'  BY <2>3 DEF Prepare
  <2>4. CASE Deactivate  BY <2>4 DEF Deactivate, CmGoto
  <2>5. CASE Shutdown  BY <2>5 DEF Shutdown, CmGoto
  <2>6. CASE ExceptionEscapes  BY <2>6 DEF ExceptionEscapes, Terminate
  <2>7. QED  BY <1>5, <2>1, <2>2, <2>3, <2>4, <2>5, <2>6 DEF Environment
<1>6. QED  BY <1>1, <1>2, <1>3, <1>4, <1>5 DEF Step

(* robot.cpp:82 and franka_error_recovery_service_server.cpp:44, for every *)
(* order of recoveries, switches, faults and failures:                     *)
(* ReadExcludesRestart.                                                    *)
THEOREM ReadExclusion == Spec => []ReadExcludesRestart
<1>1. Init => MutexInv
  BY DEF Init, MutexInv, ReadSection, StopPCs, InitPCs
<1>2. TypeOK /\ MutexInv /\ [Next]_vars => MutexInv'
  <2> SUFFICES ASSUME TypeOK, MutexInv, [Next]_vars PROVE MutexInv'
    OBVIOUS
  <2>1. CASE Step
    BY <2>1, MutexStep DEF TypeOK, PlaceInv
  <2>2. CASE UNCHANGED vars
    BY <2>2 DEF vars, MutexInv
  <2>3. QED  BY <2>1, <2>2 DEF Next, Ended
<1>3. MutexInv => ReadExcludesRestart
  BY DEF MutexInv, ReadExcludesRestart, ReadSection
<1>4. QED  BY <1>1, <1>2, <1>3, TypeCorrect, PTL DEF Spec

(* A loop that reaches libfranka promptly is not met by readOnce.          *)
LEMMA PromptStep ==
    ASSUME PromptStart, PlaceInv, MutexInv, PromptInv, Step
    PROVE  PromptInv'
<1> USE DEF PromptInv, MutexInv, ReadSection, Joinable, PlaceInv, Goto, Threads, CmPCs, RecPCs, CmOps, StopPCs, InitPCs
<1>1. ASSUME NEW t \in Threads, StopOrStart(t) PROVE PromptInv'
  <2>1. CASE StopTest(t)  BY <2>1 DEF StopTest, AfterStop
  <2>2. CASE StopRaise(t)  BY <2>2 DEF StopRaise
  <2>3. CASE JoinRefused(t)  BY <2>3 DEF JoinRefused, Terminate
  <2>4. CASE StopJoin(t)  BY <2>4 DEF StopJoin
  <2>5. CASE StopJoined(t)  BY <2>5 DEF StopJoined
  <2>6. CASE StopHalt(t)  BY <2>6 DEF StopHalt
  <2>7. CASE StopClear(t)  BY <2>7 DEF StopClear
  <2>8. CASE StopMark(t)  BY <2>8 DEF StopMark, AfterStop
  <2>9. CASE InitAssert(t)  BY <2>9 DEF InitAssert
  <2>10. CASE AssertFails(t)  BY <2>10 DEF AssertFails, Terminate
  <2>11. CASE InitMark(t)  BY <2>11 DEF InitMark
  <2>12. CASE InitSpawn(t)  BY <2>12 DEF InitSpawn, AfterInit
  <2>13. CASE SpawnOverLive(t)  BY <2>13 DEF SpawnOverLive, Terminate
  <2>14. QED  BY <1>1, <2>1, <2>2, <2>3, <2>4, <2>5, <2>6, <2>7, <2>8, <2>9, <2>10, <2>11, <2>12, <2>13 DEF StopOrStart
<1>2. CASE LoopStep
  <2>1. CASE LoopEnter  BY <2>1 DEF LoopEnter
  <2>2. CASE LoopRefused  BY <2>2 DEF LoopRefused
  <2>3. CASE LoopConflict  BY <2>3 DEF LoopConflict, Terminate
  <2>4. CASE LoopPacket  BY <2>4 DEF LoopPacket
  <2>5. CASE LoopCallback  BY <2>5 DEF LoopCallback
  <2>6. CASE ReflexSeen  BY <2>6 DEF ReflexSeen
  <2>7. CASE ControlAborted  BY <2>7 DEF ControlAborted
  <2>8. CASE LoopRaise  BY <2>8 DEF LoopRaise
  <2>9. QED  BY <1>2, <2>1, <2>2, <2>3, <2>4, <2>5, <2>6, <2>7, <2>8 DEF LoopStep
<1>3. CASE CmStep
  <2>1. CASE Activate  BY <2>1 DEF Activate, CmGoto
  <2>2. CASE ReadLock  BY <2>2 DEF ReadLock, CmGoto
  <2>3. CASE ReadTest  BY <2>3 DEF ReadTest, CmGoto
  <2>4. CASE ReadOnce  BY PromptStart, <2>4 DEF ReadOnce, CmGoto
  <2>5. CASE ReadConflict  BY <2>5 DEF ReadConflict, CmGoto
  <2>6. CASE ReadDone  BY <2>6 DEF ReadDone, CmGoto
  <2>7. CASE ReadErr  BY <2>7 DEF ReadErr, CmGoto
  <2>8. CASE ReadRet  BY <2>8 DEF ReadRet, CmGoto
  <2>9. CASE Perform  BY <2>9 DEF Perform, CmGoto
  <2>10. CASE SetMode  BY <2>10 DEF SetMode, CmGoto
  <2>11. CASE NoSwitch  BY <2>11 DEF NoSwitch, CmGoto
  <2>12. CASE Write  BY <2>12 DEF Write, CmGoto
  <2>13. CASE Drained  BY <2>13 DEF Drained, CmGoto
  <2>14. QED  BY <1>3, <2>1, <2>2, <2>3, <2>4, <2>5, <2>6, <2>7, <2>8, <2>9, <2>10, <2>11, <2>12, <2>13 DEF CmStep
<1>4. CASE RecStep
  <2>1. CASE RecAuto  BY <2>1 DEF RecAuto, RecGoto
  <2>2. CASE RecFails  BY <2>2 DEF RecFails, Commanding
  <2>3. CASE RecUncaught  BY <2>3 DEF RecUncaught, Terminate
  <2>4. CASE RecClear  BY <2>4 DEF RecClear, RecGoto
  <2>5. CASE HaltFails  BY <2>5 DEF HaltFails, RecGoto
  <2>7. CASE RecParams  BY <2>7 DEF RecParams, RecGoto
  <2>8. CASE RecGetMode  BY <2>8 DEF RecGetMode, RecGoto
  <2>9. CASE RecLock  BY <2>9 DEF RecLock, RecGoto
  <2>10. CASE RecUnlock  BY <2>10 DEF RecUnlock, RecGoto
  <2>11. QED  BY <1>4, <2>1, <2>2, <2>3, <2>4, <2>5, <2>7, <2>8, <2>9, <2>10 DEF RecStep
<1>5. CASE Environment
  <2>1. CASE Fault  BY <2>1 DEF Fault
  <2>2. CASE RecBegin  BY <2>2 DEF RecBegin, RecGoto
  <2>3. ASSUME NEW m \in Modes, Prepare(m) PROVE PromptInv'  BY <2>3 DEF Prepare
  <2>4. CASE Deactivate  BY <2>4 DEF Deactivate, CmGoto
  <2>5. CASE Shutdown  BY <2>5 DEF Shutdown, CmGoto
  <2>6. CASE ExceptionEscapes  BY <2>6 DEF ExceptionEscapes, Terminate
  <2>7. QED  BY <1>5, <2>1, <2>2, <2>3, <2>4, <2>5, <2>6 DEF Environment
<1>6. QED  BY <1>1, <1>2, <1>3, <1>4, <1>5 DEF Step

(* robot.hpp:91-96 when loops start promptly, whoever asks for a recovery: *)
(* read() does not join a loop that waits for read_mutex_:                 *)
(* ReadDoesNotBlockItsLoop.                                                *)
THEOREM PromptReadIsSafe == ASSUME PromptStart PROVE Spec => []ReadDoesNotBlockItsLoop
<1>1. Init => MutexInv /\ PromptInv
  BY DEF Init, MutexInv, PromptInv, ReadSection, StopPCs, InitPCs
<1>2. TypeOK /\ MutexInv /\ PromptInv /\ [Next]_vars => MutexInv' /\ PromptInv'
  <2> SUFFICES ASSUME TypeOK, MutexInv, PromptInv, [Next]_vars PROVE MutexInv' /\ PromptInv'
    OBVIOUS
  <2>1. CASE Step
    BY <2>1, MutexStep, PromptStep, PromptStart DEF TypeOK, PlaceInv
  <2>2. CASE UNCHANGED vars
    BY <2>2 DEF vars, MutexInv, PromptInv
  <2>3. QED  BY <2>1, <2>2 DEF Next, Ended
<1>3. TypeOK /\ MutexInv /\ PromptInv => ReadDoesNotBlockItsLoop
  BY DEF TypeOK, MutexInv, PromptInv, ReadDoesNotBlockItsLoop, StopPCs, ReadSection
<1>4. QED  BY <1>1, <1>2, <1>3, TypeCorrect, PTL DEF Spec

(* A raised finish_ has an owner in stopRobot, joined thread or not.       *)
StopSection == {"stopJoin", "stopJoining", "stopHalt", "stopClear"}
FinishInv == finish => pc.cm \in StopSection \/ pc.rec \in StopSection

(* Only StopClear leaves stopRobot, unless a command to the arm fails.     *)
LEMMA FinishStep ==
    ASSUME ~CommFaults, PlaceInv, FinishInv, Step
    PROVE  FinishInv'
<1> USE DEF FinishInv, StopSection, PlaceInv, Goto, Threads, CmPCs, RecPCs, CmOps, StopPCs, InitPCs
<1>1. ASSUME NEW t \in Threads, StopOrStart(t) PROVE FinishInv'
  <2>1. CASE StopTest(t)  BY <2>1 DEF StopTest, AfterStop
  <2>2. CASE StopRaise(t)  BY <2>2 DEF StopRaise
  <2>3. CASE JoinRefused(t)  BY <2>3 DEF JoinRefused, Terminate
  <2>4. CASE StopJoin(t)  BY <2>4 DEF StopJoin
  <2>5. CASE StopJoined(t)  BY <2>5 DEF StopJoined
  <2>6. CASE StopHalt(t)  BY <2>6 DEF StopHalt
  <2>7. CASE StopClear(t)  BY <2>7 DEF StopClear
  <2>8. CASE StopMark(t)  BY <2>8 DEF StopMark, AfterStop
  <2>9. CASE InitAssert(t)  BY <2>9 DEF InitAssert
  <2>10. CASE AssertFails(t)  BY <2>10 DEF AssertFails, Terminate
  <2>11. CASE InitMark(t)  BY <2>11 DEF InitMark
  <2>12. CASE InitSpawn(t)  BY <2>12 DEF InitSpawn, AfterInit
  <2>13. CASE SpawnOverLive(t)  BY <2>13 DEF SpawnOverLive, Terminate
  <2>14. QED  BY <1>1, <2>1, <2>2, <2>3, <2>4, <2>5, <2>6, <2>7, <2>8, <2>9, <2>10, <2>11, <2>12, <2>13 DEF StopOrStart
<1>2. CASE LoopStep
  <2>1. CASE LoopEnter  BY <2>1 DEF LoopEnter
  <2>2. CASE LoopRefused  BY <2>2 DEF LoopRefused
  <2>3. CASE LoopConflict  BY <2>3 DEF LoopConflict, Terminate
  <2>4. CASE LoopPacket  BY <2>4 DEF LoopPacket
  <2>5. CASE LoopCallback  BY <2>5 DEF LoopCallback
  <2>6. CASE ReflexSeen  BY <2>6 DEF ReflexSeen
  <2>7. CASE ControlAborted  BY <2>7 DEF ControlAborted
  <2>8. CASE LoopRaise  BY <2>8 DEF LoopRaise
  <2>9. QED  BY <1>2, <2>1, <2>2, <2>3, <2>4, <2>5, <2>6, <2>7, <2>8 DEF LoopStep
<1>3. CASE CmStep
  <2>1. CASE Activate  BY <2>1 DEF Activate, CmGoto
  <2>2. CASE ReadLock  BY <2>2 DEF ReadLock, CmGoto
  <2>3. CASE ReadTest  BY <2>3 DEF ReadTest, CmGoto
  <2>4. CASE ReadOnce  BY <2>4 DEF ReadOnce, CmGoto
  <2>5. CASE ReadConflict  BY <2>5 DEF ReadConflict, CmGoto
  <2>6. CASE ReadDone  BY <2>6 DEF ReadDone, CmGoto
  <2>7. CASE ReadErr  BY <2>7 DEF ReadErr, CmGoto
  <2>8. CASE ReadRet  BY <2>8 DEF ReadRet, CmGoto
  <2>9. CASE Perform  BY <2>9 DEF Perform, CmGoto
  <2>10. CASE SetMode  BY <2>10 DEF SetMode, CmGoto
  <2>11. CASE NoSwitch  BY <2>11 DEF NoSwitch, CmGoto
  <2>12. CASE Write  BY <2>12 DEF Write, CmGoto
  <2>13. CASE Drained  BY <2>13 DEF Drained, CmGoto
  <2>14. QED  BY <1>3, <2>1, <2>2, <2>3, <2>4, <2>5, <2>6, <2>7, <2>8, <2>9, <2>10, <2>11, <2>12, <2>13 DEF CmStep
<1>4. CASE RecStep
  <2>1. CASE RecAuto  BY <2>1 DEF RecAuto, RecGoto
  <2>2. CASE RecFails  BY <2>2 DEF RecFails, Commanding
  <2>3. CASE RecUncaught  BY <2>3 DEF RecUncaught, Terminate
  <2>4. CASE RecClear  BY <2>4 DEF RecClear, RecGoto
  <2>5. CASE HaltFails  BY ~CommFaults, <2>5 DEF HaltFails, RecGoto
  <2>7. CASE RecParams  BY <2>7 DEF RecParams, RecGoto
  <2>8. CASE RecGetMode  BY <2>8 DEF RecGetMode, RecGoto
  <2>9. CASE RecLock  BY <2>9 DEF RecLock, RecGoto
  <2>10. CASE RecUnlock  BY <2>10 DEF RecUnlock, RecGoto
  <2>11. QED  BY <1>4, <2>1, <2>2, <2>3, <2>4, <2>5, <2>7, <2>8, <2>9, <2>10 DEF RecStep
<1>5. CASE Environment
  <2>1. CASE Fault  BY <2>1 DEF Fault
  <2>2. CASE RecBegin  BY <2>2 DEF RecBegin, RecGoto
  <2>3. ASSUME NEW m \in Modes, Prepare(m) PROVE FinishInv'  BY <2>3 DEF Prepare
  <2>4. CASE Deactivate  BY <2>4 DEF Deactivate, CmGoto
  <2>5. CASE Shutdown  BY <2>5 DEF Shutdown, CmGoto
  <2>6. CASE ExceptionEscapes  BY <2>6 DEF ExceptionEscapes, Terminate
  <2>7. QED  BY <1>5, <2>1, <2>2, <2>3, <2>4, <2>5, <2>6 DEF Environment
<1>6. QED  BY <1>1, <1>2, <1>3, <1>4, <1>5 DEF Step

(* It has one throughout.                                                  *)
LEMMA FinishInvariant == ASSUME ~CommFaults PROVE Spec => []FinishInv
<1>1. Init => FinishInv
  BY DEF Init, FinishInv
<1>2. TypeOK /\ FinishInv /\ [Next]_vars => FinishInv'
  <2> SUFFICES ASSUME TypeOK, FinishInv, [Next]_vars PROVE FinishInv'
    OBVIOUS
  <2>1. CASE Step
    BY <2>1, FinishStep, ~CommFaults DEF TypeOK, PlaceInv
  <2>2. CASE UNCHANGED vars
    BY <2>2 DEF vars, FinishInv
  <2>3. QED  BY <2>1, <2>2 DEF Next, Ended
<1>3. QED  BY <1>1, <1>2, TypeCorrect, PTL DEF Spec

(* No stop request is left behind over a live loop, in any interleaving,   *)
(* as long as commands to the arm succeed: StopRequestOwned.               *)
THEOREM StopRequests == ASSUME ~CommFaults PROVE Spec => []StopRequestOwned
<1>1. FinishInv => StopRequestOwned
  BY DEF FinishInv, StopRequestOwned, StopSection, Threads
<1>2. QED  BY <1>1, FinishInvariant, PTL

(* In an orderly system whose loops start promptly and whose commands to   *)
(* the arm succeed, none of the steps that end the process is enabled.     *)
LEMMA CrashDisabled ==
    ASSUME Orderly, PromptStart, ~CommFaults, TypeOK, PromptInv, OrderlyInv
    PROVE  /\ \A t \in Threads : ~JoinRefused(t) /\ ~AssertFails(t) /\ ~SpawnOverLive(t)
           /\ ~LoopConflict /\ ~RecUncaught /\ ~ExceptionEscapes
<1>1. ASSUME NEW t \in Threads PROVE ~JoinRefused(t)
  BY DEF JoinRefused, OrderlyInv, HandleInv, RecoveryInv, Recovering, Changing, StopPCs, Threads
<1>2. ASSUME NEW t \in Threads PROVE ~AssertFails(t) /\ ~SpawnOverLive(t)
  BY DEF AssertFails, SpawnOverLive, OrderlyInv, HandleInv
<1>3. ~LoopConflict
  BY DEF LoopConflict, PromptInv, TypeOK
<1>4. ~RecUncaught /\ ~ExceptionEscapes
  BY ~CommFaults DEF RecUncaught, ExceptionEscapes
<1>5. QED  BY <1>1, <1>2, <1>3, <1>4

(* Every other step leaves crashed as it is.                               *)
LEMMA NoCrashStep ==
    ASSUME Orderly, PromptStart, ~CommFaults, TypeOK, PromptInv, OrderlyInv, ~crashed, Step
    PROVE  ~crashed'
<1> USE CrashDisabled
<1>1. ASSUME NEW t \in Threads, StopOrStart(t) PROVE ~crashed'
  <2>1. CASE StopTest(t)  BY <2>1 DEF StopTest, AfterStop
  <2>2. CASE StopRaise(t)  BY <2>2 DEF StopRaise
  <2>3. CASE JoinRefused(t)  BY <2>3 DEF JoinRefused, Terminate
  <2>4. CASE StopJoin(t)  BY <2>4 DEF StopJoin
  <2>5. CASE StopJoined(t)  BY <2>5 DEF StopJoined
  <2>6. CASE StopHalt(t)  BY <2>6 DEF StopHalt
  <2>7. CASE StopClear(t)  BY <2>7 DEF StopClear
  <2>8. CASE StopMark(t)  BY <2>8 DEF StopMark, AfterStop
  <2>9. CASE InitAssert(t)  BY <2>9 DEF InitAssert
  <2>10. CASE AssertFails(t)  BY <2>10 DEF AssertFails, Terminate
  <2>11. CASE InitMark(t)  BY <2>11 DEF InitMark
  <2>12. CASE InitSpawn(t)  BY <2>12 DEF InitSpawn, AfterInit
  <2>13. CASE SpawnOverLive(t)  BY <2>13 DEF SpawnOverLive, Terminate
  <2>14. QED  BY <1>1, <2>1, <2>2, <2>3, <2>4, <2>5, <2>6, <2>7, <2>8, <2>9, <2>10, <2>11, <2>12, <2>13 DEF StopOrStart
<1>2. CASE LoopStep
  <2>1. CASE LoopEnter  BY <2>1 DEF LoopEnter
  <2>2. CASE LoopRefused  BY <2>2 DEF LoopRefused
  <2>3. CASE LoopConflict  BY <2>3 DEF LoopConflict, Terminate
  <2>4. CASE LoopPacket  BY <2>4 DEF LoopPacket
  <2>5. CASE LoopCallback  BY <2>5 DEF LoopCallback
  <2>6. CASE ReflexSeen  BY <2>6 DEF ReflexSeen
  <2>7. CASE ControlAborted  BY <2>7 DEF ControlAborted
  <2>8. CASE LoopRaise  BY <2>8 DEF LoopRaise
  <2>9. QED  BY <1>2, <2>1, <2>2, <2>3, <2>4, <2>5, <2>6, <2>7, <2>8 DEF LoopStep
<1>3. CASE CmStep
  <2>1. CASE Activate  BY <2>1 DEF Activate, CmGoto
  <2>2. CASE ReadLock  BY <2>2 DEF ReadLock, CmGoto
  <2>3. CASE ReadTest  BY <2>3 DEF ReadTest, CmGoto
  <2>4. CASE ReadOnce  BY <2>4 DEF ReadOnce, CmGoto
  <2>5. CASE ReadConflict  BY <2>5 DEF ReadConflict, CmGoto
  <2>6. CASE ReadDone  BY <2>6 DEF ReadDone, CmGoto
  <2>7. CASE ReadErr  BY <2>7 DEF ReadErr, CmGoto
  <2>8. CASE ReadRet  BY <2>8 DEF ReadRet, CmGoto
  <2>9. CASE Perform  BY <2>9 DEF Perform, CmGoto
  <2>10. CASE SetMode  BY <2>10 DEF SetMode, CmGoto
  <2>11. CASE NoSwitch  BY <2>11 DEF NoSwitch, CmGoto
  <2>12. CASE Write  BY <2>12 DEF Write, CmGoto
  <2>13. CASE Drained  BY <2>13 DEF Drained, CmGoto
  <2>14. QED  BY <1>3, <2>1, <2>2, <2>3, <2>4, <2>5, <2>6, <2>7, <2>8, <2>9, <2>10, <2>11, <2>12, <2>13 DEF CmStep
<1>4. CASE RecStep
  <2>1. CASE RecAuto  BY <2>1 DEF RecAuto, RecGoto
  <2>2. CASE RecFails  BY <2>2 DEF RecFails, Commanding
  <2>3. CASE RecUncaught  BY <2>3 DEF RecUncaught, Terminate
  <2>4. CASE RecClear  BY <2>4 DEF RecClear, RecGoto
  <2>5. CASE HaltFails  BY <2>5 DEF HaltFails, RecGoto
  <2>7. CASE RecParams  BY <2>7 DEF RecParams, RecGoto
  <2>8. CASE RecGetMode  BY <2>8 DEF RecGetMode, RecGoto
  <2>9. CASE RecLock  BY <2>9 DEF RecLock, RecGoto
  <2>10. CASE RecUnlock  BY <2>10 DEF RecUnlock, RecGoto
  <2>11. QED  BY <1>4, <2>1, <2>2, <2>3, <2>4, <2>5, <2>7, <2>8, <2>9, <2>10 DEF RecStep
<1>5. CASE Environment
  <2>1. CASE Fault  BY <2>1 DEF Fault
  <2>2. CASE RecBegin  BY <2>2 DEF RecBegin, RecGoto
  <2>3. ASSUME NEW m \in Modes, Prepare(m) PROVE ~crashed'  BY <2>3 DEF Prepare
  <2>4. CASE Deactivate  BY <2>4 DEF Deactivate, CmGoto
  <2>5. CASE Shutdown  BY <2>5 DEF Shutdown, CmGoto
  <2>6. CASE ExceptionEscapes  BY <2>6 DEF ExceptionEscapes, Terminate
  <2>7. QED  BY <1>5, <2>1, <2>2, <2>3, <2>4, <2>5, <2>6 DEF Environment
<1>6. QED  BY <1>1, <1>2, <1>3, <1>4, <1>5 DEF Step

(* The orderly system never reaches std::terminate or abort():             *)
(* NeverTerminates.                                                        *)
THEOREM OrderlyNeverTerminates ==
    ASSUME Orderly, PromptStart, ~CommFaults PROVE Spec => []NeverTerminates
<1>1. Init => MutexInv /\ PromptInv /\ ~crashed
  BY DEF Init, MutexInv, PromptInv, ReadSection, StopPCs, InitPCs
<1>2. TypeOK /\ OrderlyInv /\ MutexInv /\ PromptInv /\ ~crashed /\ [Next]_vars
      => MutexInv' /\ PromptInv' /\ ~crashed'
  <2> SUFFICES ASSUME TypeOK, OrderlyInv, MutexInv, PromptInv, ~crashed, [Next]_vars
               PROVE  MutexInv' /\ PromptInv' /\ ~crashed'
    OBVIOUS
  <2>1. PlaceInv
    BY DEF TypeOK, PlaceInv
  <2>2. CASE Step
    BY <2>1, <2>2, MutexStep, PromptStep, NoCrashStep, Orderly, PromptStart, ~CommFaults
  <2>3. CASE UNCHANGED vars
    BY <2>3 DEF vars, MutexInv, PromptInv
  <2>4. QED  BY <2>2, <2>3 DEF Next, Ended
<1>3. QED
  BY <1>1, <1>2, TypeCorrect, OrderlyInvariant, PTL DEF Spec, NeverTerminates

-----------------------------------------------------------------------------
(* What a recovery leaves                                                  *)

(* From the moment the recovery has cleared has_error_ until it returns, an*)
(* error is that of the loop it has started.                               *)
ClearedInv ==
    /\ pc.rec \in StopPCs \cup InitPCs \cup {"params", "getMode", "recLock"} => ~hasError
    /\ pc.rec = "recUnlock" /\ hasError => loop \in {"raise", "done"}

(* No other loop can fail meanwhile: there is none before the restart.     *)
LEMMA ClearedStep ==
    ASSUME Orderly, PlaceInv, OrderlyInv, ClearedInv, Step
    PROVE  ClearedInv'
<1> USE DEF ClearedInv, OrderlyInv, MutexInv, OperationInv, RecoveryInv, HandleInv, PlaceInv, ReadSection, Recovering, Changing, Joinable, Goto, Threads, CmPCs, RecPCs, CmOps, StopPCs, InitPCs
<1>1. ASSUME NEW t \in Threads, StopOrStart(t) PROVE ClearedInv'
  <2>1. CASE StopTest(t)  BY <2>1 DEF StopTest, AfterStop
  <2>2. CASE StopRaise(t)  BY <2>2 DEF StopRaise
  <2>3. CASE JoinRefused(t)  BY <2>3 DEF JoinRefused, Terminate
  <2>4. CASE StopJoin(t)  BY <2>4 DEF StopJoin
  <2>5. CASE StopJoined(t)  BY <2>5 DEF StopJoined
  <2>6. CASE StopHalt(t)  BY <2>6 DEF StopHalt
  <2>7. CASE StopClear(t)  BY <2>7 DEF StopClear
  <2>8. CASE StopMark(t)  BY <2>8 DEF StopMark, AfterStop
  <2>9. CASE InitAssert(t)  BY <2>9 DEF InitAssert
  <2>10. CASE AssertFails(t)  BY <2>10 DEF AssertFails, Terminate
  <2>11. CASE InitMark(t)  BY <2>11 DEF InitMark
  <2>12. CASE InitSpawn(t)  BY <2>12 DEF InitSpawn, AfterInit
  <2>13. CASE SpawnOverLive(t)  BY <2>13 DEF SpawnOverLive, Terminate
  <2>14. QED  BY <1>1, <2>1, <2>2, <2>3, <2>4, <2>5, <2>6, <2>7, <2>8, <2>9, <2>10, <2>11, <2>12, <2>13 DEF StopOrStart
<1>2. CASE LoopStep
  <2>1. CASE LoopEnter  BY <2>1 DEF LoopEnter
  <2>2. CASE LoopRefused  BY <2>2 DEF LoopRefused
  <2>3. CASE LoopConflict  BY <2>3 DEF LoopConflict, Terminate
  <2>4. CASE LoopPacket  BY <2>4 DEF LoopPacket
  <2>5. CASE LoopCallback  BY <2>5 DEF LoopCallback
  <2>6. CASE ReflexSeen  BY <2>6 DEF ReflexSeen
  <2>7. CASE ControlAborted  BY <2>7 DEF ControlAborted
  <2>8. CASE LoopRaise  BY <2>8 DEF LoopRaise
  <2>9. QED  BY <1>2, <2>1, <2>2, <2>3, <2>4, <2>5, <2>6, <2>7, <2>8 DEF LoopStep
<1>3. CASE CmStep
  <2>1. CASE Activate  BY <2>1 DEF Activate, CmGoto
  <2>2. CASE ReadLock  BY <2>2 DEF ReadLock, CmGoto
  <2>3. CASE ReadTest  BY <2>3 DEF ReadTest, CmGoto
  <2>4. CASE ReadOnce  BY <2>4 DEF ReadOnce, CmGoto
  <2>5. CASE ReadConflict  BY <2>5 DEF ReadConflict, CmGoto
  <2>6. CASE ReadDone  BY <2>6 DEF ReadDone, CmGoto
  <2>7. CASE ReadErr  BY <2>7 DEF ReadErr, CmGoto
  <2>8. CASE ReadRet  BY <2>8 DEF ReadRet, CmGoto
  <2>9. CASE Perform  BY <2>9 DEF Perform, CmGoto
  <2>10. CASE SetMode  BY <2>10 DEF SetMode, CmGoto
  <2>11. CASE NoSwitch  BY <2>11 DEF NoSwitch, CmGoto
  <2>12. CASE Write  BY <2>12 DEF Write, CmGoto
  <2>13. CASE Drained  BY <2>13 DEF Drained, CmGoto
  <2>14. QED  BY <1>3, <2>1, <2>2, <2>3, <2>4, <2>5, <2>6, <2>7, <2>8, <2>9, <2>10, <2>11, <2>12, <2>13 DEF CmStep
<1>4. CASE RecStep
  <2>1. CASE RecAuto  BY <2>1 DEF RecAuto, RecGoto
  <2>2. CASE RecFails  BY <2>2 DEF RecFails, Commanding
  <2>3. CASE RecUncaught  BY <2>3 DEF RecUncaught, Terminate
  <2>4. CASE RecClear  BY <2>4 DEF RecClear, RecGoto
  <2>5. CASE HaltFails  BY <2>5 DEF HaltFails, RecGoto
  <2>7. CASE RecParams  BY <2>7 DEF RecParams, RecGoto
  <2>8. CASE RecGetMode  BY <2>8 DEF RecGetMode, RecGoto
  <2>9. CASE RecLock  BY <2>9 DEF RecLock, RecGoto
  <2>10. CASE RecUnlock  BY <2>10 DEF RecUnlock, RecGoto
  <2>11. QED  BY <1>4, <2>1, <2>2, <2>3, <2>4, <2>5, <2>7, <2>8, <2>9, <2>10 DEF RecStep
<1>5. CASE Environment
  <2>1. CASE Fault  BY <2>1 DEF Fault
  <2>2. CASE RecBegin  BY <2>2 DEF RecBegin, RecGoto, OrderlyRecovery
  <2>3. ASSUME NEW m \in Modes, Prepare(m) PROVE ClearedInv'  BY <2>3 DEF Prepare
  <2>4. CASE Deactivate  BY <2>4 DEF Deactivate, CmGoto
  <2>5. CASE Shutdown  BY <2>5 DEF Shutdown, CmGoto
  <2>6. CASE ExceptionEscapes  BY <2>6 DEF ExceptionEscapes, Terminate
  <2>7. QED  BY <1>5, <2>1, <2>2, <2>3, <2>4, <2>5, <2>6 DEF Environment
<1>6. QED  BY <1>1, <1>2, <1>3, <1>4, <1>5 DEF Step

(* When the recovery service reports success in an orderly system, no      *)
(* error is left but one of the loop it has just started:                  *)
(* RecoveryClearsError.                                                    *)
THEOREM RecoverySucceeds == ASSUME Orderly PROVE Spec => []RecoveryClearsError
<1>1. Init => ClearedInv
  BY DEF Init, ClearedInv, StopPCs, InitPCs
<1>2. TypeOK /\ OrderlyInv /\ ClearedInv /\ [Next]_vars => ClearedInv'
  <2> SUFFICES ASSUME TypeOK, OrderlyInv, ClearedInv, [Next]_vars PROVE ClearedInv'
    OBVIOUS
  <2>1. CASE Step
    BY <2>1, ClearedStep, Orderly DEF TypeOK, PlaceInv
  <2>2. CASE UNCHANGED vars
    BY <2>2 DEF vars, ClearedInv
  <2>3. QED  BY <2>1, <2>2 DEF Next, Ended
<1>3. ClearedInv => RecoveryClearsError
  BY DEF ClearedInv, RecoveryClearsError
<1>4. QED  BY <1>1, <1>2, <1>3, TypeCorrect, OrderlyInvariant, PTL DEF Spec

(* Before the first deactivation the loop is of the mode that the Robot    *)
(* was told last, but for the time from its start to the telling, and a    *)
(* recovery has that mode in hand.                                         *)
SameLife == left["lifecycle"] = Budget["lifecycle"]
KeptModeInv ==
    /\ left["lifecycle"] <= Budget["lifecycle"]
    /\ ~active => pc.cm = "boot" \/ ~SameLife
    /\ pc.cm = "boot" => robotMode = Garbage
    /\ pc.cm \in InitPCs /\ op = "activate" /\ SameLife => robotMode = Garbage
    /\ pc.cm \in StopPCs \cup InitPCs /\ op = "switch" => want["cm"] = ifaceMode
    /\ pc.cm = "setMode" => loopMode = ifaceMode
    /\ SameLife /\ robotMode # Garbage /\ pc.cm # "setMode" => loopMode = robotMode
    /\ pc.rec \in InitPCs \cup {"recLock"} /\ robotMode # Garbage => want["rec"] = robotMode

(* Nothing is switched while the recovery is at it.                        *)
LEMMA KeptModeStep ==
    ASSUME Orderly, TypeOK, PlaceInv, OrderlyInv, KeptModeInv, Step
    PROVE  KeptModeInv'
<1>0. /\ Budget["lifecycle"] \in Nat /\ left["lifecycle"] \in Nat
      /\ robotMode \in Modes \cup {Garbage} /\ Garbage \notin Modes /\ ifaceMode \in Modes
      /\ want \in [Threads -> Modes \cup {Garbage}] /\ left \in [Events -> Nat]
  BY BudgetAssumption, ModesAssumption DEF TypeOK, Events
<1> USE <1>0
<1> USE DEF KeptModeInv, SameLife, Spend, Events, OrderlyInv, MutexInv, OperationInv, RecoveryInv, HandleInv, PlaceInv, ReadSection, Recovering, Changing, Joinable, Goto, Threads, CmPCs, RecPCs, CmOps, StopPCs, InitPCs
<1>1. ASSUME NEW t \in Threads, StopOrStart(t) PROVE KeptModeInv'
  <2>1. CASE StopTest(t)  BY <2>1 DEF StopTest, AfterStop
  <2>2. CASE StopRaise(t)  BY <2>2 DEF StopRaise
  <2>3. CASE JoinRefused(t)  BY <2>3 DEF JoinRefused, Terminate
  <2>4. CASE StopJoin(t)  BY <2>4 DEF StopJoin
  <2>5. CASE StopJoined(t)  BY <2>5 DEF StopJoined
  <2>6. CASE StopHalt(t)  BY <2>6 DEF StopHalt
  <2>7. CASE StopClear(t)  BY <2>7 DEF StopClear
  <2>8. CASE StopMark(t)  BY <2>8 DEF StopMark, AfterStop
  <2>9. CASE InitAssert(t)  BY <2>9 DEF InitAssert
  <2>10. CASE AssertFails(t)  BY <2>10 DEF AssertFails, Terminate
  <2>11. CASE InitMark(t)  BY <2>11 DEF InitMark
  <2>12. CASE InitSpawn(t)  BY <2>12 DEF InitSpawn, AfterInit
  <2>13. CASE SpawnOverLive(t)  BY <2>13 DEF SpawnOverLive, Terminate
  <2>14. QED  BY <1>1, <2>1, <2>2, <2>3, <2>4, <2>5, <2>6, <2>7, <2>8, <2>9, <2>10, <2>11, <2>12, <2>13 DEF StopOrStart
<1>2. CASE LoopStep
  <2>1. CASE LoopEnter  BY <2>1 DEF LoopEnter
  <2>2. CASE LoopRefused  BY <2>2 DEF LoopRefused
  <2>3. CASE LoopConflict  BY <2>3 DEF LoopConflict, Terminate
  <2>4. CASE LoopPacket  BY <2>4 DEF LoopPacket
  <2>5. CASE LoopCallback  BY <2>5 DEF LoopCallback
  <2>6. CASE ReflexSeen  BY <2>6 DEF ReflexSeen
  <2>7. CASE ControlAborted  BY <2>7 DEF ControlAborted
  <2>8. CASE LoopRaise  BY <2>8 DEF LoopRaise
  <2>9. QED  BY <1>2, <2>1, <2>2, <2>3, <2>4, <2>5, <2>6, <2>7, <2>8 DEF LoopStep
<1>3. CASE CmStep
  <2>1. CASE Activate  BY <2>1 DEF Activate, CmGoto
  <2>2. CASE ReadLock  BY <2>2 DEF ReadLock, CmGoto
  <2>3. CASE ReadTest  BY <2>3 DEF ReadTest, CmGoto
  <2>4. CASE ReadOnce  BY <2>4 DEF ReadOnce, CmGoto
  <2>5. CASE ReadConflict  BY <2>5 DEF ReadConflict, CmGoto
  <2>6. CASE ReadDone  BY <2>6 DEF ReadDone, CmGoto
  <2>7. CASE ReadErr  BY <2>7 DEF ReadErr, CmGoto
  <2>8. CASE ReadRet  BY <2>8 DEF ReadRet, CmGoto
  <2>9. CASE Perform  BY <2>9 DEF Perform, CmGoto
  <2>10. CASE SetMode  BY <2>10 DEF SetMode, CmGoto
  <2>11. CASE NoSwitch  BY <2>11 DEF NoSwitch, CmGoto
  <2>12. CASE Write  BY <2>12 DEF Write, CmGoto
  <2>13. CASE Drained  BY <2>13 DEF Drained, CmGoto
  <2>14. QED  BY <1>3, <2>1, <2>2, <2>3, <2>4, <2>5, <2>6, <2>7, <2>8, <2>9, <2>10, <2>11, <2>12, <2>13 DEF CmStep
<1>4. CASE RecStep
  <2>1. CASE RecAuto  BY <2>1 DEF RecAuto, RecGoto
  <2>2. CASE RecFails  BY <2>2 DEF RecFails, Commanding
  <2>3. CASE RecUncaught  BY <2>3 DEF RecUncaught, Terminate
  <2>4. CASE RecClear  BY <2>4 DEF RecClear, RecGoto
  <2>5. CASE HaltFails  BY <2>5 DEF HaltFails, RecGoto
  <2>7. CASE RecParams  BY <2>7 DEF RecParams, RecGoto
  <2>8. CASE RecGetMode  BY <2>8 DEF RecGetMode, RecGoto
  <2>9. CASE RecLock  BY <2>9 DEF RecLock, RecGoto
  <2>10. CASE RecUnlock  BY <2>10 DEF RecUnlock, RecGoto
  <2>11. QED  BY <1>4, <2>1, <2>2, <2>3, <2>4, <2>5, <2>7, <2>8, <2>9, <2>10 DEF RecStep
<1>5. CASE Environment
  <2>1. CASE Fault  BY <2>1 DEF Fault
  <2>2. CASE RecBegin  BY <2>2 DEF RecBegin, RecGoto, OrderlyRecovery
  <2>3. ASSUME NEW m \in Modes, Prepare(m) PROVE KeptModeInv'  BY <2>3 DEF Prepare
  <2>4. CASE Deactivate  BY <2>4 DEF Deactivate, CmGoto
  <2>5. CASE Shutdown  BY <2>5 DEF Shutdown, CmGoto
  <2>6. CASE ExceptionEscapes  BY <2>6 DEF ExceptionEscapes, Terminate
  <2>7. QED  BY <1>5, <2>1, <2>2, <2>3, <2>4, <2>5, <2>6 DEF Environment
<1>6. QED  BY <1>1, <1>2, <1>3, <1>4, <1>5 DEF Step

(* In an orderly system a recovery restarts the kind of loop that failed,  *)
(* as long as the component has not been deactivated: RestartKeepsMode.    *)
THEOREM RecoveryKeepsMode == ASSUME Orderly PROVE Spec => RestartKeepsMode
<1> DEFINE Kept == pc.rec = "initSpawn" /\ InitSpawn("rec") /\ robotMode # Garbage
                   /\ left["lifecycle"] = Budget["lifecycle"] => loopMode' = loopMode
<1>1. Init => KeptModeInv
  BY BudgetAssumption DEF Init, KeptModeInv, SameLife, Events, StopPCs, InitPCs
<1>2. TypeOK /\ OrderlyInv /\ KeptModeInv /\ [Next]_vars => KeptModeInv'
  <2> SUFFICES ASSUME TypeOK, OrderlyInv, KeptModeInv, [Next]_vars PROVE KeptModeInv'
    OBVIOUS
  <2>1. CASE Step
    BY <2>1, KeptModeStep, Orderly DEF TypeOK, PlaceInv
  <2>2. CASE UNCHANGED vars
    BY <2>2 DEF vars, KeptModeInv, SameLife
  <2>3. QED  BY <2>1, <2>2 DEF Next, Ended
<1>3. OrderlyInv /\ KeptModeInv => Kept
  BY DEF OrderlyInv, RecoveryInv, OperationInv, Recovering, KeptModeInv, SameLife, InitPCs, InitSpawn
<1>4. OrderlyInv /\ KeptModeInv /\ [Next]_vars => [Kept]_vars
  BY <1>3
<1>5. QED  BY <1>1, <1>2, <1>4, TypeCorrect, OrderlyInvariant, PTL DEF Spec, RestartKeepsMode

-----------------------------------------------------------------------------
(* The lifecycle                                                           *)

(* Every step of an orderly system whose commands to the arm succeed is a  *)
(* step of the loop's lifecycle, or none at all.                           *)
LEMMA LifecycleStep ==
    ASSUME Orderly, ~CommFaults, TypeOK, WantMode, PlaceInv, OrderlyInv, FinishInv, Step
    PROVE  [Lifecycle!Next]_(Lifecycle!vars)
<1>0. loopMode \in Modes
  BY DEF TypeOK
<1> USE <1>0
<1> USE DEF LoopLive, FinishInv, WantMode, StopSection, Lifecycle!Next, Lifecycle!Start, Lifecycle!Ask, Lifecycle!Finish, Lifecycle!Fail, Lifecycle!Reap, Lifecycle!vars, OrderlyInv, MutexInv, OperationInv, RecoveryInv, HandleInv, PlaceInv, ReadSection, Recovering, Changing, Joinable, Goto, Threads, CmPCs, RecPCs, CmOps, StopPCs, InitPCs
<1>1. ASSUME NEW t \in Threads, StopOrStart(t) PROVE [Lifecycle!Next]_(Lifecycle!vars)
  <2>1. CASE StopTest(t)  BY <2>1 DEF StopTest, AfterStop
  <2>2. CASE StopRaise(t)  BY <2>2 DEF StopRaise
  <2>3. CASE JoinRefused(t)  BY <2>3 DEF JoinRefused, Terminate
  <2>4. CASE StopJoin(t)  BY <2>4 DEF StopJoin
  <2>5. CASE StopJoined(t)  BY <2>5 DEF StopJoined
  <2>6. CASE StopHalt(t)  BY <2>6 DEF StopHalt
  <2>7. CASE StopClear(t)  BY <2>7 DEF StopClear
  <2>8. CASE StopMark(t)  BY <2>8 DEF StopMark, AfterStop
  <2>9. CASE InitAssert(t)  BY <2>9 DEF InitAssert
  <2>10. CASE AssertFails(t)  BY <2>10 DEF AssertFails, Terminate
  <2>11. CASE InitMark(t)  BY <2>11 DEF InitMark
  <2>12. CASE InitSpawn(t)  BY <2>12 DEF InitSpawn, AfterInit
  <2>13. CASE SpawnOverLive(t)  BY <2>13 DEF SpawnOverLive, Terminate
  <2>14. QED  BY <1>1, <2>1, <2>2, <2>3, <2>4, <2>5, <2>6, <2>7, <2>8, <2>9, <2>10, <2>11, <2>12, <2>13 DEF StopOrStart
<1>2. CASE LoopStep
  <2>1. CASE LoopEnter  BY <2>1 DEF LoopEnter
  <2>2. CASE LoopRefused  BY <2>2 DEF LoopRefused
  <2>3. CASE LoopConflict  BY <2>3 DEF LoopConflict, Terminate
  <2>4. CASE LoopPacket  BY <2>4 DEF LoopPacket
  <2>5. CASE LoopCallback  BY <2>5 DEF LoopCallback
  <2>6. CASE ReflexSeen  BY <2>6 DEF ReflexSeen
  <2>7. CASE ControlAborted  BY <2>7 DEF ControlAborted
  <2>8. CASE LoopRaise  BY <2>8 DEF LoopRaise
  <2>9. QED  BY <1>2, <2>1, <2>2, <2>3, <2>4, <2>5, <2>6, <2>7, <2>8 DEF LoopStep
<1>3. CASE CmStep
  <2>1. CASE Activate  BY <2>1 DEF Activate, CmGoto
  <2>2. CASE ReadLock  BY <2>2 DEF ReadLock, CmGoto
  <2>3. CASE ReadTest  BY <2>3 DEF ReadTest, CmGoto
  <2>4. CASE ReadOnce  BY <2>4 DEF ReadOnce, CmGoto
  <2>5. CASE ReadConflict  BY <2>5 DEF ReadConflict, CmGoto
  <2>6. CASE ReadDone  BY <2>6 DEF ReadDone, CmGoto
  <2>7. CASE ReadErr  BY <2>7 DEF ReadErr, CmGoto
  <2>8. CASE ReadRet  BY <2>8 DEF ReadRet, CmGoto
  <2>9. CASE Perform  BY <2>9 DEF Perform, CmGoto
  <2>10. CASE SetMode  BY <2>10 DEF SetMode, CmGoto
  <2>11. CASE NoSwitch  BY <2>11 DEF NoSwitch, CmGoto
  <2>12. CASE Write  BY <2>12 DEF Write, CmGoto
  <2>13. CASE Drained  BY <2>13 DEF Drained, CmGoto
  <2>14. QED  BY <1>3, <2>1, <2>2, <2>3, <2>4, <2>5, <2>6, <2>7, <2>8, <2>9, <2>10, <2>11, <2>12, <2>13 DEF CmStep
<1>4. CASE RecStep
  <2>1. CASE RecAuto  BY <2>1 DEF RecAuto, RecGoto
  <2>2. CASE RecFails  BY <2>2 DEF RecFails, Commanding
  <2>3. CASE RecUncaught  BY <2>3 DEF RecUncaught, Terminate
  <2>4. CASE RecClear  BY <2>4 DEF RecClear, RecGoto
  <2>5. CASE HaltFails  BY <2>5 DEF HaltFails, RecGoto
  <2>7. CASE RecParams  BY <2>7 DEF RecParams, RecGoto
  <2>8. CASE RecGetMode  BY <2>8 DEF RecGetMode, RecGoto
  <2>9. CASE RecLock  BY <2>9 DEF RecLock, RecGoto
  <2>10. CASE RecUnlock  BY <2>10 DEF RecUnlock, RecGoto
  <2>11. QED  BY <1>4, <2>1, <2>2, <2>3, <2>4, <2>5, <2>7, <2>8, <2>9, <2>10 DEF RecStep
<1>5. CASE Environment
  <2>1. CASE Fault  BY <2>1 DEF Fault
  <2>2. CASE RecBegin  BY <2>2 DEF RecBegin, RecGoto, OrderlyRecovery
  <2>3. ASSUME NEW m \in Modes, Prepare(m) PROVE [Lifecycle!Next]_(Lifecycle!vars)  BY <2>3 DEF Prepare
  <2>4. CASE Deactivate  BY <2>4 DEF Deactivate, CmGoto
  <2>5. CASE Shutdown  BY <2>5 DEF Shutdown, CmGoto
  <2>6. CASE ExceptionEscapes  BY <2>6 DEF ExceptionEscapes, Terminate
  <2>7. QED  BY <1>5, <2>1, <2>2, <2>3, <2>4, <2>5, <2>6 DEF Environment
<1>6. QED  BY <1>1, <1>2, <1>3, <1>4, <1>5 DEF Step

(* What robot.hpp promises about the loop: in an orderly system whose      *)
(* commands to the arm succeed it begins over nothing, a request to stop   *)
(* is never lost, and only stopRobot reaps it.  This is ImplementsLifecycle*)
(* without the fairness of LoopLifecycle.                                  *)
THEOREM LoopKeepsLifecycle ==
    ASSUME Orderly, ~CommFaults
    PROVE  Spec => Lifecycle!Init /\ [][Lifecycle!Next]_(Lifecycle!vars)
<1>1. Init => Lifecycle!Init
  BY DEF Init, Lifecycle!Init, Modes
<1>2. TypeInv /\ OrderlyInv /\ FinishInv /\ [Next]_vars => [Lifecycle!Next]_(Lifecycle!vars)
  <2> SUFFICES ASSUME TypeInv, OrderlyInv, FinishInv, [Next]_vars
               PROVE  [Lifecycle!Next]_(Lifecycle!vars)
    OBVIOUS
  <2>1. CASE Step
    BY <2>1, LifecycleStep, Orderly, ~CommFaults DEF TypeInv, TypeOK, PlaceInv
  <2>2. CASE UNCHANGED vars
    BY <2>2 DEF vars, Lifecycle!vars
  <2>3. QED  BY <2>1, <2>2 DEF Next, Ended
<1>3. QED  BY <1>1, <1>2, TypeInvariant, OrderlyInvariant, FinishInvariant, PTL DEF Spec

=============================================================================
