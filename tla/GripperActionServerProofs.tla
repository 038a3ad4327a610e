---------------------- MODULE GripperActionServerProofs ----------------------
(***************************************************************************)
(* Theorems about GripperActionServer, for every set of goals, their kinds *)
(* and widths, and every interleaving of their threads.                    *)
(***************************************************************************)
EXTENDS GripperActionServer, TLAPS

USE GripperAssumption

(* The future of a goal is ready when its thread is about to answer, there *)
(* is no command before the thread starts one, only a goal that is being   *)
(* cancelled stops the gripper, and an answer is the last thing a thread   *)
(* does.                                                                   *)
ThreadInv ==
  \A g \in Goals :
    /\ pc[g] \in {"none", "start"} => cmd[g] = "none"
    /\ pc[g] = "result" => Ready(g)
    /\ pc[g] = "none" => status[g] = "unsent"
    /\ pc[g] \in {"stop", "get"} => status[g] = "canceling"
    /\ Terminal(g) => pc[g] = "done" /\ cmd[g] \notin {"launched", "running"}
    /\ status[g] = "unsent" => pc[g] = "none"

GripperInv == TypeOK /\ ThreadInv

-----------------------------------------------------------------------------
(* Typing                                                                  *)

(* Every action keeps the variables in their types.                        *)
LEMMA TypeStep == TypeOK /\ [Next]_vars => TypeOK'
<1> SUFFICES ASSUME TypeOK, [Next]_vars PROVE TypeOK'
  OBVIOUS
<1> USE DEF TypeOK, Goto, Turn, Widths
<1>1. ASSUME NEW g \in Goals, HandleGoal(g) PROVE TypeOK'
  BY <1>1 DEF HandleGoal, goalVars
<1>2. ASSUME NEW g \in Goals, HandleCancel(g) PROVE TypeOK'
  BY <1>2 DEF HandleCancel, goalVars
<1>3. ASSUME NEW g \in Goals, Execute(g) PROVE TypeOK'
  BY <1>3 DEF Execute, goalVars
<1>4. ASSUME NEW g \in Goals, OnExecuteGripperCommand(g) PROVE TypeOK'
  BY <1>4 DEF OnExecuteGripperCommand, Choice, Decide, goalVars
<1>5. ASSUME NEW g \in Goals, Poll(g) PROVE TypeOK'
  BY <1>5 DEF Poll, goalVars
<1>6. ASSUME NEW g \in Goals, Check(g) PROVE TypeOK'
  BY <1>6 DEF Check, goalVars
<1>7. ASSUME NEW g \in Goals, Stop(g) PROVE TypeOK'
  BY <1>7 DEF Stop, End, InProgress, goalVars
<1>8. ASSUME NEW g \in Goals, Canceled(g) PROVE TypeOK'
  BY <1>8 DEF Canceled, goalVars
<1>9. ASSUME NEW g \in Goals, Result(g) PROVE TypeOK'
  BY <1>9 DEF Result, goalVars
<1>10. ASSUME NEW g \in Goals, Leave(g) PROVE TypeOK'
  BY <1>10 DEF Leave, goalVars
<1>11. ASSUME NEW g \in Goals, StopThrows(g) PROVE TypeOK'
  BY <1>11 DEF StopThrows, goalVars
<1>12. ASSUME NEW g \in Goals, SendCommand(g) PROVE TypeOK'
  BY <1>12 DEF SendCommand, End, InProgress, goalVars
<1>13. ASSUME NEW g \in Goals, CommandReturns(g) PROVE TypeOK'
  BY <1>13 DEF CommandReturns, goalVars
<1>14. ASSUME NEW g \in Goals, FingersMove(g) PROVE TypeOK'
  BY <1>14 DEF FingersMove, goalVars
<1>15. CASE StopService
  BY <1>15 DEF StopService, End, InProgress, goalVars
<1>16. CASE PublishGripperState \/ Shutdown
  BY <1>16 DEF PublishGripperState, Shutdown, goalVars
<1>17. CASE UNCHANGED vars
  BY <1>17 DEF vars, goalVars
<1>. QED
  BY <1>1, <1>2, <1>3, <1>4, <1>5, <1>6, <1>7, <1>8, <1>9, <1>10, <1>11, <1>12, <1>13, <1>14, <1>15, <1>16, <1>17
     DEF Next, Thread

(* Every variable stays in its type: no handle, thread or future reaches a *)
(* state that is none of theirs (executeCommand, executeGripperCommand).   *)
THEOREM GripperTypeCorrect == Spec => []TypeOK
<1>1. Init => TypeOK
  BY DEF Init, TypeOK, Widths
<1>. QED BY <1>1, TypeStep, PTL DEF Spec

-----------------------------------------------------------------------------
(* The threads                                                             *)

(* Every action keeps the invariant of the threads.                        *)
LEMMA ThreadStep == TypeOK /\ ThreadInv /\ [Next]_vars => ThreadInv'
<1> SUFFICES ASSUME TypeOK, ThreadInv, [Next]_vars PROVE ThreadInv'
  OBVIOUS
<1> USE DEF TypeOK, ThreadInv, Goto, Turn, Ready, Terminal
<1>1. ASSUME NEW g \in Goals, HandleGoal(g) PROVE ThreadInv'
  BY <1>1 DEF HandleGoal, goalVars
<1>2. ASSUME NEW g \in Goals, HandleCancel(g) PROVE ThreadInv'
  BY <1>2 DEF HandleCancel, goalVars
<1>3. ASSUME NEW g \in Goals, Execute(g) PROVE ThreadInv'
  BY <1>3 DEF Execute, goalVars
<1>4. ASSUME NEW g \in Goals, OnExecuteGripperCommand(g) PROVE ThreadInv'
  BY <1>4 DEF OnExecuteGripperCommand, goalVars
<1>5. ASSUME NEW g \in Goals, Poll(g) PROVE ThreadInv'
  BY <1>5 DEF Poll
<1>6. ASSUME NEW g \in Goals, Check(g) PROVE ThreadInv'
  BY <1>6 DEF Check, goalVars
<1>7. ASSUME NEW g \in Goals, Stop(g) PROVE ThreadInv'
  BY <1>7 DEF Stop, End, InProgress, goalVars
<1>8. ASSUME NEW g \in Goals, Canceled(g) PROVE ThreadInv'
  BY <1>8 DEF Canceled, goalVars
<1>9. ASSUME NEW g \in Goals, Result(g) PROVE ThreadInv'
  BY <1>9 DEF Result, goalVars
<1>10. ASSUME NEW g \in Goals, Leave(g) PROVE ThreadInv'
  BY <1>10 DEF Leave, goalVars
<1>11. ASSUME NEW g \in Goals, StopThrows(g) PROVE ThreadInv'
  BY <1>11 DEF StopThrows, goalVars
<1>12. ASSUME NEW g \in Goals, SendCommand(g) PROVE ThreadInv'
  BY <1>12 DEF SendCommand, End, InProgress, goalVars
<1>13. ASSUME NEW g \in Goals, CommandReturns(g) PROVE ThreadInv'
  BY <1>13 DEF CommandReturns, goalVars
<1>14. ASSUME NEW g \in Goals, FingersMove(g) PROVE ThreadInv'
  BY <1>14 DEF FingersMove, goalVars
<1>15. CASE StopService
  BY <1>15 DEF StopService, End, InProgress, goalVars
<1>16. CASE PublishGripperState \/ Shutdown
  BY <1>16 DEF PublishGripperState, Shutdown, goalVars
<1>17. CASE UNCHANGED vars
  BY <1>17 DEF vars, goalVars
<1>. QED
  BY <1>1, <1>2, <1>3, <1>4, <1>5, <1>6, <1>7, <1>8, <1>9, <1>10, <1>11, <1>12, <1>13, <1>14, <1>15, <1>16, <1>17
     DEF Next, Thread

(* The inductive invariant holds throughout.                               *)
LEMMA GripperInvariant == Spec => []GripperInv
<1>1. Init => ThreadInv
  BY DEF Init, ThreadInv, Terminal, Ready
<1>. QED BY <1>1, ThreadStep, GripperTypeCorrect, PTL DEF Spec, GripperInv

(* A goal that has been answered has no command left to run, on every path *)
(* of executeCommand and executeGripperCommand.                            *)
THEOREM AnsweredGoalsAreQuiet == Spec => []AnsweredIsQuiet
<1>1. GripperInv => AnsweredIsQuiet
  BY DEF GripperInv, ThreadInv, AnsweredIsQuiet
<1>. QED BY <1>1, GripperInvariant, PTL

(* A goal is answered at most once, with "canceled" only if its client     *)
(* asked for it and with "succeeded" only if its command returned true or  *)
(* the fingers were taken to be there already.                             *)
THEOREM GoalsAreAnsweredOnce == Spec => AnswersOnce
<1> DEFINE Once == \A g \in Goals : status'[g] # status[g] =>
                    /\ ~Terminal(g)
                    /\ status'[g] = "canceled" => status[g] = "canceling"
                    /\ status'[g] = "succeeded" => cmd[g] = "true" \/ op'[g] = "succeed"
<1>1. GripperInv /\ [Next]_vars => [Once]_vars
  <2> SUFFICES ASSUME GripperInv, [Next]_vars PROVE Once
    OBVIOUS
  <2> USE DEF GripperInv, TypeOK, ThreadInv, Turn, Terminal
  <2>1. ASSUME NEW g \in Goals, HandleGoal(g) PROVE Once
    BY <2>1 DEF HandleGoal, Ready
  <2>2. ASSUME NEW g \in Goals, HandleCancel(g) PROVE Once
    BY <2>2 DEF HandleCancel, Ready
  <2>3. ASSUME NEW g \in Goals, OnExecuteGripperCommand(g) PROVE Once
    BY <2>3 DEF OnExecuteGripperCommand, Ready
  <2>4. ASSUME NEW g \in Goals, Canceled(g) PROVE Once
    BY <2>4 DEF Canceled, Ready
  <2>5. ASSUME NEW g \in Goals, Result(g) PROVE Once
    BY <2>5 DEF Result, Ready
  <2>6. ASSUME NEW g \in Goals,
              \/ Execute(g) \/ Poll(g) \/ Check(g) \/ Stop(g) \/ Leave(g)
              \/ StopThrows(g) \/ SendCommand(g) \/ CommandReturns(g) \/ FingersMove(g)
        PROVE  Once
    BY <2>6 DEF Execute, Poll, Check, Stop, Leave, StopThrows, SendCommand, CommandReturns, FingersMove, End, goalVars
  <2>7. CASE StopService \/ PublishGripperState \/ Shutdown \/ UNCHANGED vars
    BY <2>7 DEF StopService, PublishGripperState, Shutdown, End, vars, goalVars
  <2>. QED
    BY <2>1, <2>2, <2>3, <2>4, <2>5, <2>6, <2>7 DEF Next, Thread
<1>. QED BY <1>1, GripperInvariant, PTL DEF Spec, AnswersOnce

-----------------------------------------------------------------------------
(* Stops                                                                   *)

(* A thread that goes to stop the gripper has seen its command sent, if    *)
(* commands are sent promptly; once it has stopped it, the command is over.*)
HaltInv ==
  \A g \in Goals :
    /\ pc[g] \in {"poll", "check", "stop", "get"} => cmd[g] # "none"
    /\ pc[g] = "stop" => cmd[g] # "launched"
    /\ pc[g] = "get" => Ready(g)

(* Every action keeps that.                                                *)
LEMMA HaltStep == Prompt /\ TypeOK /\ ThreadInv /\ HaltInv /\ [Next]_vars => HaltInv'
<1> SUFFICES ASSUME Prompt, TypeOK, ThreadInv, HaltInv, [Next]_vars PROVE HaltInv'
  OBVIOUS
<1> USE DEF TypeOK, ThreadInv, HaltInv, Goto, Turn, Ready
<1>1. ASSUME NEW g \in Goals, HandleGoal(g) PROVE HaltInv'
  BY <1>1 DEF HandleGoal, goalVars
<1>2. ASSUME NEW g \in Goals, HandleCancel(g) PROVE HaltInv'
  BY <1>2 DEF HandleCancel, goalVars
<1>3. ASSUME NEW g \in Goals, Execute(g) PROVE HaltInv'
  BY <1>3 DEF Execute, goalVars
<1>4. ASSUME NEW g \in Goals, OnExecuteGripperCommand(g) PROVE HaltInv'
  BY <1>4 DEF OnExecuteGripperCommand, goalVars
<1>5. ASSUME NEW g \in Goals, Poll(g) PROVE HaltInv'
  BY <1>5 DEF Poll, goalVars
<1>6. ASSUME NEW g \in Goals, Check(g) PROVE HaltInv'
  BY <1>6 DEF Check, goalVars
<1>7. ASSUME NEW g \in Goals, Stop(g) PROVE HaltInv'
  BY <1>7 DEF Stop, End, InProgress, goalVars
<1>8. ASSUME NEW g \in Goals, Canceled(g) PROVE HaltInv'
  BY <1>8 DEF Canceled, goalVars
<1>9. ASSUME NEW g \in Goals, Result(g) PROVE HaltInv'
  BY <1>9 DEF Result, goalVars
<1>10. ASSUME NEW g \in Goals, Leave(g) PROVE HaltInv'
  BY <1>10 DEF Leave, goalVars
<1>11. ASSUME NEW g \in Goals, StopThrows(g) PROVE HaltInv'
  BY <1>11 DEF StopThrows, goalVars
<1>12. ASSUME NEW g \in Goals, SendCommand(g) PROVE HaltInv'
  BY <1>12 DEF SendCommand, End, InProgress, goalVars
<1>13. ASSUME NEW g \in Goals, CommandReturns(g) PROVE HaltInv'
  BY <1>13 DEF CommandReturns, goalVars
<1>14. ASSUME NEW g \in Goals, FingersMove(g) PROVE HaltInv'
  BY <1>14 DEF FingersMove, goalVars
<1>15. CASE StopService
  BY <1>15 DEF StopService, End, InProgress, goalVars
<1>16. CASE PublishGripperState \/ Shutdown
  BY <1>16 DEF PublishGripperState, Shutdown, goalVars
<1>17. CASE UNCHANGED vars
  BY <1>17 DEF vars, goalVars
<1>. QED
  BY <1>1, <1>2, <1>3, <1>4, <1>5, <1>6, <1>7, <1>8, <1>9, <1>10, <1>11, <1>12, <1>13, <1>14, <1>15, <1>16, <1>17
     DEF Next, Thread

(* When a thread has called stop() for the cancellation of its goal, the   *)
(* goal's command is over: future.get() does not wait (executeCommand).    *)
THEOREM StoppedGoalsHalt == ASSUME Prompt PROVE Spec => []CancelHalts
<1>1. Init => HaltInv
  BY DEF Init, HaltInv, Ready
<1>2. HaltInv => CancelHalts
  BY DEF HaltInv, Ready, CancelHalts
<1>3. TypeOK /\ ThreadInv /\ HaltInv /\ [Next]_vars => HaltInv'
  BY HaltStep
<1>. QED BY <1>1, <1>2, <1>3, GripperInvariant, PTL DEF Spec, GripperInv

(* Goals one after the other: one at most is open, no command has ended    *)
(* before its thread began, and one that stop() has ended belongs to a goal*)
(* that is being cancelled, if nobody called ~/stop.                       *)
OneGoalInv ==
  /\ \A g, h \in Goals : status[g] \in {"executing", "canceling"}
                         /\ status[h] \in {"executing", "canceling"} => g = h
  /\ \A g \in Goals : /\ status[g] = "unsent" => cause[g] = "none"
                      /\ cause[g] = "stopped" /\ ~asked /\ ~Terminal(g) => status[g] = "canceling"

(* Every action keeps that.                                                *)
LEMMA OneGoalStep ==
  ~Overlap /\ TypeOK /\ ThreadInv /\ OneGoalInv /\ [Next]_vars => OneGoalInv'
<1> SUFFICES ASSUME ~Overlap, TypeOK, ThreadInv, OneGoalInv, [Next]_vars PROVE OneGoalInv'
  OBVIOUS
<1> USE DEF TypeOK, ThreadInv, OneGoalInv, Goto, Turn, Ready, Terminal
<1>1. ASSUME NEW g \in Goals, HandleGoal(g) PROVE OneGoalInv'
  BY <1>1 DEF HandleGoal, goalVars
<1>2. ASSUME NEW g \in Goals, HandleCancel(g) PROVE OneGoalInv'
  BY <1>2 DEF HandleCancel, goalVars
<1>3. ASSUME NEW g \in Goals, Execute(g) PROVE OneGoalInv'
  BY <1>3 DEF Execute, goalVars
<1>4. ASSUME NEW g \in Goals, OnExecuteGripperCommand(g) PROVE OneGoalInv'
  BY <1>4 DEF OnExecuteGripperCommand, goalVars
<1>5. ASSUME NEW g \in Goals, Poll(g) PROVE OneGoalInv'
  BY <1>5 DEF Poll, goalVars
<1>6. ASSUME NEW g \in Goals, Check(g) PROVE OneGoalInv'
  BY <1>6 DEF Check, goalVars
<1>7. ASSUME NEW g \in Goals, Stop(g) PROVE OneGoalInv'
  BY <1>7 DEF Stop, End, InProgress, goalVars
<1>8. ASSUME NEW g \in Goals, Canceled(g) PROVE OneGoalInv'
  BY <1>8 DEF Canceled, goalVars
<1>9. ASSUME NEW g \in Goals, Result(g) PROVE OneGoalInv'
  BY <1>9 DEF Result, goalVars
<1>10. ASSUME NEW g \in Goals, Leave(g) PROVE OneGoalInv'
  BY <1>10 DEF Leave, goalVars
<1>11. ASSUME NEW g \in Goals, StopThrows(g) PROVE OneGoalInv'
  BY <1>11 DEF StopThrows, goalVars
<1>12. ASSUME NEW g \in Goals, SendCommand(g) PROVE OneGoalInv'
  BY <1>12 DEF SendCommand, End, InProgress, goalVars
<1>13. ASSUME NEW g \in Goals, CommandReturns(g) PROVE OneGoalInv'
  BY <1>13 DEF CommandReturns, goalVars
<1>14. ASSUME NEW g \in Goals, FingersMove(g) PROVE OneGoalInv'
  BY <1>14 DEF FingersMove, goalVars
<1>15. CASE StopService
  BY <1>15 DEF StopService, End, InProgress, goalVars
<1>16. CASE PublishGripperState \/ Shutdown
  BY <1>16 DEF PublishGripperState, Shutdown, goalVars
<1>17. CASE UNCHANGED vars
  BY <1>17 DEF vars, goalVars
<1>. QED
  BY <1>1, <1>2, <1>3, <1>4, <1>5, <1>6, <1>7, <1>8, <1>9, <1>10, <1>11, <1>12, <1>13, <1>14, <1>15, <1>16, <1>17
     DEF Next, Thread

(* A client that waits for the answer to a goal before it sends the next   *)
(* never loses a command to the cancellation of another goal (stop() in    *)
(* executeCommand).                                                        *)
THEOREM StopsStayWithTheirGoal == ASSUME ~Overlap PROVE Spec => []StopsHitTheirGoal
<1>1. Init => OneGoalInv
  BY DEF Init, OneGoalInv
<1>2. OneGoalInv => StopsHitTheirGoal
  BY DEF OneGoalInv, StopsHitTheirGoal
<1>3. TypeOK /\ ThreadInv /\ OneGoalInv /\ [Next]_vars => OneGoalInv'
  BY OneGoalStep
<1>. QED BY <1>1, <1>2, <1>3, GripperInvariant, PTL DEF Spec, GripperInv
=============================================================================
