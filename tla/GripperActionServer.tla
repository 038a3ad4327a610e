------------------------- MODULE GripperActionServer -------------------------
(***************************************************************************)
(* The action servers of franka_gripper: four kinds of goals, each run by  *)
(* a detached thread of its own, which starts the command on the gripper   *)
(* in an std::async, polls its future and the goal handle, and stops the   *)
(* gripper when the goal is being cancelled.  All of them share one        *)
(* gripper, its ~/stop service and the state the timer reads.              *)
(***************************************************************************)
EXTENDS Integers

CONSTANTS Goals,
          Task,         \* which of the four action servers a goal is sent to
          Target,       \* the width a goal asks for
          MaxWidth,     \* widths are 0..MaxWidth, one apart when not "the same"
          Overlap,      \* goals are sent while others are being executed
          Prompt,       \* a command is sent before its future is polled twice
          CommFaults    \* stop() may throw

Tasks == {"kHoming", "kMove", "kGrasp", "kGripperCommand"}

ASSUME GripperAssumption ==
    /\ MaxWidth \in Nat
    /\ Task \in [Goals -> Tasks]
    /\ Target \in [Goals -> Int]
    /\ \A b \in {Overlap, Prompt, CommFaults} : b \in BOOLEAN

VARIABLES
    status,    \* the state of the goal handle
    pc,        \* where the goal's thread is
    cmd,       \* the goal's command and its future
    op,        \* what onExecuteGripperCommand chose
    cause,     \* what ended the command, for the properties
    width,     \* the gripper's fingers
    known,     \* current_gripper_state_.width
    asked,     \* the ~/stop service was called since the last goal was sent
    ok,        \* rclcpp::ok()
    crashed    \* std::terminate

goalVars == <<status, pc, cmd, op, cause>>
vars     == <<goalVars, width, known, asked, ok, crashed>>

Terminal(g) == status[g] \in {"succeeded", "aborted", "canceled"}
Ready(g)    == cmd[g] \in {"true", "false"}       \* the future's value
InProgress  == {g \in Goals : cmd[g] = "running"}
Widths      == 0..MaxWidth

Goto(g, l)    == pc' = [pc EXCEPT ![g] = l]
Turn(g, s)    == status' = [status EXCEPT ![g] = s]

Init ==
    /\ status = [g \in Goals |-> "unsent"]
    /\ pc     = [g \in Goals |-> "none"]
    /\ cmd    = [g \in Goals |-> "none"]
    /\ op     = [g \in Goals |-> "none"]
    /\ cause  = [g \in Goals |-> "none"]
    /\ width \in Widths /\ known = width
    /\ asked = FALSE /\ ok = TRUE /\ crashed = FALSE

-----------------------------------------------------------------------------
(* The gripper                                                             *)

(* A command that is in progress ends without success when the gripper is  *)
(* stopped, or when the gripper takes another command.                     *)
End(S, why) ==
    /\ cmd'   = [g \in Goals |-> IF g \in S THEN "false" ELSE cmd[g]]
    /\ cause' = [g \in Goals |-> IF g \in S THEN why ELSE cause[g]]

(* A failed grasp holds nothing; a grasp succeeds on an object of any width.*)
CommandReturns(g) ==
    /\ cmd[g] = "running"
    /\ \E r \in {"true", "false"} :
         /\ r = "true" => width = Target[g] \/ op[g] \in {"grasp", "homing"}
         /\ cmd' = [cmd EXCEPT ![g] = r]
    /\ cause' = [cause EXCEPT ![g] = "returned"]
    /\ UNCHANGED <<status, pc, op, width, known, asked, ok, crashed>>

FingersMove(g) ==
    /\ cmd[g] = "running" /\ width # Target[g]
    /\ width' = IF width < Target[g] THEN width + 1 ELSE width - 1
    /\ width' \in Widths
    /\ UNCHANGED <<goalVars, known, asked, ok, crashed>>

-----------------------------------------------------------------------------
(* The node's executor: goals, cancel requests, ~/stop, the timer          *)

(* handleGoal accepts every goal; its thread is detached.                  *)
HandleGoal(g) ==
    /\ ok /\ status[g] = "unsent"
    /\ ~Overlap => \A h \in Goals : status[h] = "unsent" \/ Terminal(h)
    /\ Turn(g, "executing") /\ Goto(g, "start")
    /\ asked' = FALSE
    /\ UNCHANGED <<cmd, op, cause, width, known, ok, crashed>>

(* handleCancel accepts every cancel request.                              *)
HandleCancel(g) ==
    /\ ok /\ status[g] = "executing" /\ Turn(g, "canceling")
    /\ UNCHANGED <<pc, cmd, op, cause, width, known, asked, ok, crashed>>

(* An exception of stop() becomes the answer of the service.               *)
StopService ==
    /\ ok /\ asked' = TRUE
    /\ \/ End(InProgress, "stopped") /\ UNCHANGED <<status, pc, op>>
       \/ CommFaults /\ UNCHANGED goalVars
    /\ UNCHANGED <<width, known, ok, crashed>>

PublishDoubled ==                   \* faulty: the sum of the two fingers, twice
    /\ ok /\ known' = 2 * width
    /\ UNCHANGED <<goalVars, width, asked, ok, crashed>>

(* A failed readOnce leaves the state as it is.                            *)
PublishGripperState ==
    /\ ok /\ known' = width
    /\ UNCHANGED <<goalVars, width, asked, ok, crashed>>

Shutdown == ok /\ ok' = FALSE /\ UNCHANGED <<goalVars, width, known, asked, crashed>>

-----------------------------------------------------------------------------
(* The goal's thread                                                       *)

Decide(target, w) == IF target > MaxWidth \/ target < 0 THEN "abort"
                     ELSE IF target = w THEN "succeed"
                     ELSE IF target >= w THEN "move" ELSE "grasp"

Choice(g) == Decide(Target[g], known)

Execute(g) ==
    /\ pc[g] = "start" /\ Task[g] # "kGripperCommand"
    /\ op' = [op EXCEPT ![g] = IF Task[g] = "kHoming" THEN "homing"
                               ELSE IF Task[g] = "kMove" THEN "move" ELSE "grasp"]
    /\ cmd' = [cmd EXCEPT ![g] = "launched"] /\ Goto(g, "poll")
    /\ UNCHANGED <<status, cause, width, known, asked, ok, crashed>>

OnExecuteGripperCommand(g) ==
    /\ pc[g] = "start" /\ Task[g] = "kGripperCommand"
    /\ LET d == Choice(g) IN
         /\ op' = [op EXCEPT ![g] = d]
         /\ \/ d = "abort"   /\ Turn(g, "aborted")   /\ Goto(g, "done") /\ UNCHANGED cmd
            \/ d = "succeed" /\ Turn(g, "succeeded") /\ Goto(g, "done") /\ UNCHANGED cmd
            \/ d \in {"move", "grasp"} /\ Goto(g, "poll")
               /\ cmd' = [cmd EXCEPT ![g] = "launched"] /\ UNCHANGED status
    /\ UNCHANGED <<cause, width, known, asked, ok, crashed>>

(* The async thread sends the command: it takes over from one in progress, *)
(* or the gripper refuses it.                                              *)
SendCommand(g) ==
    /\ cmd[g] = "launched"
    /\ \/ /\ cmd' = [h \in Goals |-> IF h = g THEN "running"
                                     ELSE IF h \in InProgress THEN "false" ELSE cmd[h]]
          /\ cause' = [h \in Goals |-> IF h \in InProgress THEN "preempted" ELSE cause[h]]
       \/ End({g}, "refused")
    /\ UNCHANGED <<status, pc, op, width, known, asked, ok, crashed>>

(* while (!resultIsReady && ok): wait_for times out or the future is ready.*)
Poll(g) ==
    /\ pc[g] = "poll"
    /\ Goto(g, IF ~ok THEN "leave" ELSE IF Ready(g) THEN "result" ELSE "check")
    /\ UNCHANGED <<status, cmd, op, cause, width, known, asked, ok, crashed>>

CheckOnce(g) ==                     \* faulty: an interrupted goal is not polled again
    /\ pc[g] = "check" /\ (Prompt => cmd[g] # "launched")
    /\ Goto(g, IF status[g] = "canceling" THEN "stop" ELSE "check")
    /\ UNCHANGED <<status, cmd, op, cause, width, known, asked, ok, crashed>>

(* is_canceling, or feedback and around again.                             *)
Check(g) ==
    /\ pc[g] = "check" /\ (Prompt => cmd[g] # "launched")
    /\ Goto(g, IF status[g] = "canceling" THEN "stop" ELSE "poll")
    /\ UNCHANGED <<status, cmd, op, cause, width, known, asked, ok, crashed>>

StopSkipped(g) ==                   \* faulty: the gripper is not stopped
    /\ pc[g] = "stop" /\ Goto(g, "get")
    /\ UNCHANGED <<status, cmd, op, cause, width, known, asked, ok, crashed>>

StopLater(g) ==                     \* faulty: the handle is turned before the stop
    /\ pc[g] = "stop"
    /\ \/ ~Terminal(g) /\ Turn(g, "canceled") /\ UNCHANGED <<pc, cmd, cause>>
       \/ Terminal(g) /\ End(InProgress, "stopped") /\ Goto(g, "done") /\ UNCHANGED status
    /\ UNCHANGED <<op, width, known, asked, ok, crashed>>

(* stop() ends whatever command is in progress.                            *)
Stop(g) ==
    /\ pc[g] = "stop" /\ Goto(g, "get")
    /\ End(InProgress, "stopped")
    /\ UNCHANGED <<status, op, width, known, asked, ok, crashed>>

StopThrows(g) ==
    /\ CommFaults /\ pc[g] = "stop" /\ crashed' = TRUE
    /\ UNCHANGED <<goalVars, width, known, asked, ok>>

CanceledNow(g) ==                   \* faulty: the future is not waited for
    /\ pc[g] = "get"
    /\ Turn(g, "canceled") /\ Goto(g, "done")
    /\ UNCHANGED <<cmd, op, cause, width, known, asked, ok, crashed>>

CanceledNoReturn(g) ==              \* faulty: the cancelled goal is answered again
    /\ pc[g] = "get" /\ Ready(g)
    /\ Turn(g, "canceled") /\ Goto(g, "result")
    /\ UNCHANGED <<cmd, op, cause, width, known, asked, ok, crashed>>

(* future.get() blocks until the command has returned.                     *)
Canceled(g) ==
    /\ pc[g] = "get" /\ Ready(g)
    /\ Turn(g, "canceled") /\ Goto(g, "done")
    /\ UNCHANGED <<cmd, op, cause, width, known, asked, ok, crashed>>

(* rclcpp::ok() is asked again before the goal is answered.                *)
Result(g) ==
    /\ pc[g] = "result"
    /\ IF ok THEN Turn(g, IF cmd[g] = "true" THEN "succeeded" ELSE "aborted") /\ Goto(g, "done")
       ELSE UNCHANGED status /\ Goto(g, "leave")
    /\ UNCHANGED <<cmd, op, cause, width, known, asked, ok, crashed>>

(* The future's destructor waits for the command, and the code leaves the  *)
(* goal open.  (What rclcpp's own goal handle then does is not modelled.)  *)
Leave(g) ==
    /\ pc[g] = "leave" /\ Ready(g) /\ Goto(g, "done")
    /\ UNCHANGED <<status, cmd, op, cause, width, known, asked, ok, crashed>>

-----------------------------------------------------------------------------
Thread(g) == Execute(g) \/ OnExecuteGripperCommand(g) \/ Poll(g) \/ Check(g) \/ Stop(g)
             \/ Canceled(g) \/ Result(g) \/ Leave(g)

Next == ~crashed /\
    \/ \E g \in Goals : \/ HandleGoal(g) \/ HandleCancel(g) \/ Thread(g) \/ StopThrows(g)
                        \/ SendCommand(g) \/ CommandReturns(g) \/ FingersMove(g)
    \/ StopService \/ PublishGripperState \/ Shutdown

Spec == Init /\ [][Next]_vars

(* The threads are scheduled, and a command returns.                       *)
FairSpec == Spec /\ \A g \in Goals : /\ WF_vars(~crashed /\ Thread(g))
                                     /\ WF_vars(~crashed /\ SendCommand(g))
                                     /\ WF_vars(~crashed /\ CommandReturns(g))

-----------------------------------------------------------------------------
(* Properties                                                              *)

TypeOK ==
    /\ status \in [Goals -> {"unsent", "executing", "canceling", "succeeded", "aborted", "canceled"}]
    /\ pc \in [Goals -> {"none", "start", "poll", "check", "stop", "get", "result", "leave", "done"}]
    /\ cmd \in [Goals -> {"none", "launched", "running", "true", "false"}]
    /\ op \in [Goals -> {"none", "abort", "succeed", "move", "grasp", "homing"}]
    /\ cause \in [Goals -> {"none", "returned", "stopped", "preempted", "refused"}]
    /\ width \in Widths /\ known \in Widths
    /\ {asked, ok, crashed} \subseteq BOOLEAN

(* The gripper executes one command at a time, and a goal that has been    *)
(* answered has none that is still to run: future.get() comes before the   *)
(* answer, on every path of executeCommand.                                *)
AnsweredIsQuiet ==
    \A g \in Goals : Terminal(g) => cmd[g] \notin {"launched", "running"}

(* A goal is told it was cancelled only if its client asked for it, and it *)
(* is answered once, however cancel requests race with results.            *)
AnswersOnce ==
    [][\A g \in Goals : status'[g] # status[g] =>
         /\ ~Terminal(g)
         /\ status'[g] = "canceled" => status[g] = "canceling"
         /\ status'[g] = "succeeded" => cmd[g] = "true" \/ op'[g] = "succeed"]_vars

(* When goals do not overlap, a command is ended by stop() only for its    *)
(* own goal's cancellation or the ~/stop service: no stop() arrives late   *)
(* and hits the next goal.                                                 *)
StopsHitTheirGoal ==
    \A g \in Goals : cause[g] = "stopped" /\ ~asked /\ ~Terminal(g) => status[g] = "canceling"

(* After stop() the command of a cancelled goal no longer moves the        *)
(* gripper, as long as commands are sent before they are stopped.          *)
CancelHalts ==
    \A g \in Goals : pc[g] = "get" => cmd[g] \notin {"launched", "running"}

(* Every accepted goal is answered, unless the node is shut down or an     *)
(* exception of stop() ends it.                                            *)
GoalEnds == \A g \in Goals : status[g] = "executing" ~> Terminal(g) \/ ~ok \/ crashed
=============================================================================
