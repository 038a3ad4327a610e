------------------------ MODULE TrajectoryControllers ------------------------
(***************************************************************************)
(* The two controllers that romer_controllers builds:                      *)
(* CartesianPositionController, which follows targets that callbacks of    *)
(* the executor receive while the control thread runs update(), and        *)
(* MoveToStartExampleController.  Both evaluate a MotionGenerator at the   *)
(* time since start_time_ and pull the arm there.                          *)
(*                                                                         *)
(* A joint configuration is a number; a trajectory starts from rest and    *)
(* then moves by one a cycle.  start_time_ is kept as the time since then. *)
(* A MotionGenerator is built from q_ and q_goal_, which the callbacks,    *)
(* update() and on_activate share, before motion_generator_ is assigned.   *)
(***************************************************************************)
EXTENDS Integers, Sequences

CONSTANTS Top,          \* configurations are 0..Top
          Home,         \* q_goal_ of on_init
          Budget        \* how many messages and deactivations there may be

Configs     == 0..Top
Generators  == [from : Configs, to : Configs]
Controllers == {"cartesian", "start"}
Short       == -1       \* a JointState with a number of positions other than 7
Freed       == [from |-> -1, to |-> -1]       \* a MotionGenerator that was deleted
Blank       == [from |-> 0, to |-> 0]

ASSUME ConfigAssumption == Top \in Nat /\ Home \in Configs
ASSUME BudgetAssumption == Budget \in [{"message", "switch"} -> Nat]

VARIABLES
    q,            \* where the arm is: the state interfaces
    active,       \* the active controller: its interfaces are assigned
    \* the members of the controllers
    subscribed,   \* CartesianPositionController's subscriptions and client exist
    measured,     \* its q_
    goal,         \* its q_goal_
    generator,    \* motion_generator_ of each
    age,          \* now() - start_time_ of each
    \* the control thread
    pc, time,     \* trajectory_time of this update()
    using,        \* the generator this update() works on
    desired,      \* what the arm is pulled to
    built,        \* what each thread has built and not assigned yet
    \* the executor's thread, the time since it read the clock for start_time_,
    \* and the requests to the IK service
    cb, stamp, requests,
    \* history: the last target, was it overtaken by an older one, was it set
    \* or turned into a trajectory while another thread was at q_ or q_goal_
    last, late, mixed,
    \* history: has update() evaluated a trajectory since the callback took the
    \* start of its own; did it meet one that was only half replaced or stale
    passed, torn,
    crashed, left

arm     == <<q, active, desired>>
members == <<subscribed, measured, goal, generator, age>>
control == <<pc, time, using>>
callback == <<cb, stamp>>
history == <<last, late, mixed, passed, torn>>
vars == <<arm, members, control, built, callback, requests, history, crashed, left>>

(* calculateDesiredValues                                                  *)
At(g, t) ==
    LET way == IF t <= 1 THEN 0 ELSE t - 1
    IN  IF g.from <= g.to
        THEN IF g.from + way < g.to THEN g.from + way ELSE g.to
        ELSE IF g.from - way > g.to THEN g.from - way ELSE g.to

(* The arm goes no further than its joint limits.                          *)
Clip(x) == IF x < 0 THEN 0 ELSE IF x > Top THEN Top ELSE x

Spend(e) == left[e] > 0 /\ left' = [left EXCEPT ![e] = @ - 1]
Goto(from, to) == pc = from /\ pc' = to

(* on_activate is at work on the members.                                  *)
Activating == pc \in {"activateBuild", "activateAssign", "activateStart"}
(* on_activate has set q_goal_, and its trajectory is not assigned yet.    *)
Undecided == pc \in {"activateBuild", "activateAssign"}
(* update() of the CartesianPositionController has read start_time_.       *)
Evaluating == active = "cartesian" /\ pc \in {"fetch", "evaluate"}
(* A callback has replaced motion_generator_, but not yet start_time_.     *)
HalfReplaced == cb \in {"stamp", "start"}
(* A callback has begun to build its trajectory and not assigned it.       *)
Building == cb \in {"delta", "assign"}

Init ==
    /\ q \in Configs /\ active = "none" /\ desired = q
    /\ subscribed = FALSE /\ measured = 0 /\ goal = Home
    /\ generator = [c \in Controllers |-> Blank]
    /\ age = [c \in Controllers |-> 0]
    /\ pc = "manage" /\ time = 0 /\ using = Blank
    /\ built = [t \in {"control", "callback"} |-> Blank]
    /\ cb = "idle" /\ stamp = 0 /\ requests = << >>
    /\ last = Home /\ late = FALSE /\ mixed = FALSE /\ passed = FALSE /\ torn = FALSE
    /\ crashed = FALSE /\ left = Budget

-----------------------------------------------------------------------------
(* The control thread: update of the active controller, manage_switch, and *)
(* the arm moves.                                                          *)

NoUpdate ==
    /\ active = "none" /\ Goto("update", "manage")
    /\ UNCHANGED <<arm, members, time, using, built, callback, requests, history, crashed, left>>

(* updateJointStates; it may fall into the constructor of a MotionGenerator *)
(* that a callback builds from q_.                                         *)
Update ==
    /\ active # "none" /\ Goto("update", "clock")
    /\ measured' = IF active = "cartesian" THEN q ELSE measured
    /\ mixed' = (mixed \/ (active = "cartesian" /\ cb = "delta"))
    /\ UNCHANGED <<arm, subscribed, goal, generator, age, time, using, built, callback, requests,
                   last, late, passed, torn, crashed, left>>

UpdateRestarts ==                   \* faulty: start_time_ is set in every update
    /\ active # "none" /\ Goto("clock", "fetch")
    /\ time' = 0 /\ age' = [age EXCEPT ![active] = 0]
    /\ passed' = (passed \/ Building)
    /\ torn' = (torn \/ (active = "cartesian" /\ HalfReplaced))
    /\ UNCHANGED <<arm, subscribed, measured, goal, generator, using, built, callback, requests,
                   last, late, mixed, crashed, left>>

(* trajectory_time = now() - start_time_                                   *)
UpdateTime ==
    /\ active # "none" /\ Goto("clock", "fetch")
    /\ time' = age[active]
    /\ passed' = (passed \/ Building)
    /\ torn' = (torn \/ (active = "cartesian" /\ HalfReplaced))
    /\ UNCHANGED <<arm, members, using, built, callback, requests, last, late, mixed,
                   crashed, left>>

(* motion_generator_->getDesiredJointPositions, without target_mutex_      *)
Fetch ==
    /\ Goto("fetch", "evaluate") /\ using' = generator[active]
    /\ UNCHANGED <<arm, members, time, built, callback, requests, history, crashed, left>>

Evaluate ==
    /\ using # Freed /\ Goto("evaluate", "manage")
    /\ desired' = At(using, time)
    /\ using' = Blank /\ time' = 0
    /\ UNCHANGED <<q, active, members, built, callback, requests, history, crashed, left>>

(* The generator was deleted meanwhile: anything may come out of it.       *)
EvaluateFreed ==
    /\ using = Freed /\ Goto("evaluate", "manage")
    /\ \/ desired' \in Configs /\ crashed' = crashed
       \/ desired' = desired /\ crashed' = TRUE
    /\ using' = Blank /\ time' = 0
    /\ UNCHANGED <<q, active, members, built, callback, requests, history, left>>

NoSwitch ==
    /\ Goto("manage", "move")
    /\ UNCHANGED <<arm, members, time, using, built, callback, requests, history, crashed, left>>

(* There is no on_deactivate: only the interfaces are released.            *)
Deactivate ==
    /\ active # "none" /\ Goto("manage", "manage") /\ Spend("switch")
    /\ active' = "none" /\ desired' = q
    /\ UNCHANGED <<q, members, time, using, built, callback, requests, history, crashed>>

(* MoveToStartExampleController::on_activate                               *)
ActivateMoveToStart ==
    /\ active = "none" /\ Goto("manage", "move")
    /\ active' = "start" /\ desired' = q
    /\ generator' = [generator EXCEPT !["start"] = [from |-> q, to |-> Home]]
    /\ age' = [age EXCEPT !["start"] = 0]
    /\ torn' = FALSE
    /\ UNCHANGED <<q, subscribed, measured, goal, time, using, built, callback, requests,
                   last, late, mixed, passed, crashed, left>>

ActivateKeepsGoal ==                \* faulty: q_goal_ is that of the last activation
    /\ active = "none" /\ Goto("manage", "activateBuild")
    /\ active' = "cartesian" /\ desired' = q
    /\ measured' = q
    /\ last' = q /\ late' = FALSE
    /\ mixed' = Building /\ torn' = (Building \/ HalfReplaced)
    /\ UNCHANGED <<q, subscribed, goal, generator, age, time, using, built, callback, requests,
                   passed, crashed, left>>

(* CartesianPositionController::on_activate, without target_mutex_: the    *)
(* subscriptions of an earlier activation are still there, and so may be a *)
(* callback that has not ended.                                            *)
Activate ==
    /\ active = "none" /\ Goto("manage", "activateBuild")
    /\ active' = "cartesian" /\ desired' = q
    /\ measured' = q /\ goal' = q
    /\ last' = q /\ late' = FALSE
    /\ mixed' = Building /\ torn' = (Building \/ HalfReplaced)
    /\ UNCHANGED <<q, subscribed, generator, age, time, using, built, callback, requests,
                   passed, crashed, left>>

(* make_unique<MotionGenerator>(0.2, q_, q_goal_)                          *)
ActivateBuild ==
    /\ Goto("activateBuild", "activateAssign")
    /\ built' = [built EXCEPT !["control"] = [from |-> measured, to |-> goal]]
    /\ UNCHANGED <<arm, members, time, using, callback, requests, history, crashed, left>>

(* motion_generator_ = ...: a callback may have replaced it meanwhile.     *)
ActivateAssign ==
    /\ Goto("activateAssign", "activateStart")
    /\ generator' = [generator EXCEPT !["cartesian"] = built["control"]]
    /\ built' = [built EXCEPT !["control"] = Blank]
    /\ UNCHANGED <<arm, subscribed, measured, goal, age, time, using, callback, requests,
                   history, crashed, left>>

(* A new client drops the answers the old one waits for.                   *)
ActivateStart ==
    /\ Goto("activateStart", "move")
    /\ age' = [age EXCEPT !["cartesian"] = 0]
    /\ subscribed' = TRUE /\ requests' = << >>
    /\ UNCHANGED <<arm, measured, goal, generator, time, using, built, callback, history,
                   crashed, left>>

Later(t) == IF t <= Top THEN t + 1 ELSE t

(* The arm follows within the cycle, and a cycle of time passes.           *)
Move ==
    /\ Goto("move", "update") /\ q' = desired
    /\ age' = [c \in Controllers |-> Later(age[c])]
    /\ stamp' = IF cb = "start" THEN Later(stamp) ELSE stamp
    /\ UNCHANGED <<active, desired, subscribed, measured, goal, generator, time, using, built,
                   cb, requests, history, crashed, left>>

Control == NoUpdate \/ Update \/ UpdateTime \/ Fetch \/ Evaluate \/ EvaluateFreed \/ NoSwitch
           \/ ActivateBuild \/ ActivateAssign \/ ActivateStart \/ Move

-----------------------------------------------------------------------------
(* The callbacks: one at a time, the node has one callback group.          *)

ReceiveUnchecked(x) ==              \* faulty: the number of positions is not checked
    /\ subscribed /\ cb = "idle" /\ Spend("message")
    /\ cb' = "measure" /\ goal' = x /\ last' = x /\ late' = FALSE /\ mixed' = Undecided
    /\ requests' = [i \in DOMAIN requests |-> [requests[i] EXCEPT !.old = TRUE]]
    /\ UNCHANGED <<arm, subscribed, measured, generator, age, control, built, stamp, passed, torn,
                   crashed>>

(* /joint_position_target                                                  *)
Receive(x) ==
    /\ subscribed /\ cb = "idle" /\ Spend("message")
    /\ IF x = Short THEN UNCHANGED <<cb, goal, last, late, mixed, requests>>
       ELSE /\ cb' = "measure" /\ goal' = x /\ last' = x /\ late' = FALSE /\ mixed' = Undecided
            /\ requests' = [i \in DOMAIN requests |-> [requests[i] EXCEPT !.old = TRUE]]
    /\ UNCHANGED <<arm, subscribed, measured, generator, age, control, built, stamp, passed, torn,
                   crashed>>

(* /ee_pose_target: a pose whose solution is x is sent to the IK service,  *)
(* if the service is ready.                                                *)
ReceivePose(x) ==
    /\ subscribed /\ cb = "idle" /\ Spend("message")
    /\ requests' \in {requests, Append(requests, [to |-> x, old |-> FALSE])}
    /\ UNCHANGED <<arm, members, control, built, callback, history, crashed>>

(* The answers come in the order of the requests.                          *)
Answer ==
    /\ cb = "idle" /\ requests # << >>
    /\ cb' = "measure" /\ goal' = Head(requests).to
    /\ late' = Head(requests).old /\ mixed' = Undecided
    /\ last' = IF late' THEN last ELSE goal'
    /\ requests' = Tail(requests)
    /\ UNCHANGED <<arm, subscribed, measured, generator, age, control, built, stamp, passed, torn,
                   crashed, left>>

AnswerFails ==
    /\ cb = "idle" /\ requests # << >> /\ requests' = Tail(requests)
    /\ UNCHANGED <<arm, members, control, built, callback, history, crashed, left>>

(* updateJointStates                                                       *)
Measure ==
    /\ cb = "measure" /\ active = "cartesian"
    /\ measured' = q /\ cb' = "build"
    /\ UNCHANGED <<arm, subscribed, goal, generator, age, control, built, stamp, requests, history,
                   crashed, left>>

(* state_interfaces_.at() throws once the interfaces were released, and    *)
(* nothing between the callback and the executor's thread catches it.      *)
MeasureReleased ==
    /\ cb = "measure" /\ active # "cartesian" /\ crashed' = TRUE
    /\ UNCHANGED <<arm, members, control, built, callback, requests, history, left>>

(* The constructor of the MotionGenerator takes q_ by reference: q_start_, *)
(* and then the way from q_ to q_goal_.                                    *)
BuildStart ==
    /\ cb = "build" /\ cb' = "delta"
    /\ built' = [built EXCEPT !["callback"] = [from |-> measured, to |-> measured]]
    /\ passed' = FALSE
    /\ UNCHANGED <<arm, members, control, stamp, requests, last, late, mixed, torn, crashed, left>>

BuildDelta ==
    /\ cb = "delta" /\ cb' = "assign"
    /\ built' = [built EXCEPT !["callback"].to = Clip(built["callback"].from + goal - measured)]
    /\ UNCHANGED <<arm, members, control, stamp, requests, history, crashed, left>>

(* motion_generator_ = ...                                                 *)
Assign ==
    /\ cb = "assign" /\ cb' = "stamp"
    /\ generator' = [generator EXCEPT !["cartesian"] = built["callback"]]
    /\ built' = [built EXCEPT !["callback"] = Blank]
    /\ using' = IF Evaluating /\ pc = "evaluate" THEN Freed ELSE using
    /\ torn' = (torn \/ (active = "cartesian" /\ (passed \/ Evaluating)))
    /\ passed' = FALSE
    /\ UNCHANGED <<arm, subscribed, measured, goal, age, pc, time, stamp, requests, last, late,
                   mixed, crashed, left>>

(* Two assignments at once may delete the same MotionGenerator twice.      *)
AssignTogether ==
    /\ cb = "assign" /\ pc = "activateAssign" /\ crashed' = TRUE
    /\ UNCHANGED <<arm, members, control, built, callback, requests, history, left>>

(* now() is called,                                                        *)
ReadClock ==
    /\ cb = "stamp" /\ cb' = "start" /\ stamp' = 0
    /\ UNCHANGED <<arm, members, control, built, requests, history, crashed, left>>

StartSkipped ==                     \* faulty: start_time_ is not reset
    /\ cb = "start" /\ cb' = "idle" /\ stamp' = 0
    /\ UNCHANGED <<arm, members, control, built, requests, history, crashed, left>>

(* and start_time_ assigned.                                               *)
Start ==
    /\ cb = "start" /\ cb' = "idle" /\ stamp' = 0
    /\ age' = [age EXCEPT !["cartesian"] = stamp]
    /\ UNCHANGED <<arm, subscribed, measured, goal, generator, control, built, requests, history,
                   crashed, left>>

Callback == Measure \/ MeasureReleased \/ BuildStart \/ BuildDelta \/ Assign \/ AssignTogether
            \/ ReadClock \/ Start

Step ==
    \/ Control \/ Callback \/ Deactivate \/ ActivateMoveToStart \/ Activate
    \/ Answer \/ AnswerFails
    \/ \E x \in Configs \cup {Short} : Receive(x)
    \/ \E x \in Configs : ReceivePose(x)

(* The process is gone.                                                    *)
Ended == crashed /\ UNCHANGED vars

Next == (~crashed /\ Step) \/ Ended

Spec == Init /\ [][Next]_vars

(* The control thread runs, and so does the executor's thread.             *)
FairSpec == Spec /\ WF_vars(~crashed /\ Control) /\ WF_vars(~crashed /\ Callback)

-----------------------------------------------------------------------------
(* Properties                                                              *)

TypeOK ==
    /\ q \in Configs /\ desired \in Configs /\ measured \in Configs /\ goal \in Configs
    /\ active \in Controllers \cup {"none"}
    /\ generator \in [Controllers -> Generators] /\ using \in Generators \cup {Freed}
    /\ built \in [{"control", "callback"} -> Generators]
    /\ age \in [Controllers -> 0..(Top + 1)] /\ time \in 0..(Top + 1) /\ stamp \in 0..(Top + 1)
    /\ pc \in {"update", "clock", "fetch", "evaluate", "manage", "activateBuild", "activateAssign",
               "activateStart", "move"}
    /\ cb \in {"idle", "measure", "build", "delta", "assign", "stamp", "start"}
    /\ requests \in Seq([to : Configs, old : BOOLEAN])
    /\ last \in Configs
    /\ {subscribed, late, mixed, passed, torn, crashed} \subseteq BOOLEAN
    /\ left \in [{"message", "switch"} -> Nat]

(* A trajectory begins where the arm is, also when it replaces one that is *)
(* halfway, and when the controller is activated again, so that the arm is *)
(* never asked to jump.  The code keeps this up only while a callback's    *)
(* trajectory is assigned, with its start_time_, before update() evaluates *)
(* another time: update() takes no lock, and from an evaluation that falls *)
(* between the two assignments or into one, from a trajectory whose start  *)
(* the arm had left before it was assigned, or from an activation that     *)
(* meets such a callback, everything up to the next activation is torn.    *)
NoJump ==
    [][pc = "evaluate" /\ pc' = "manage" /\ ~torn => desired' - q \in -1..1]_vars

(* romer_controllers.xml: "Moves the robot to a joint configuration, read  *)
(* from the /joint_position_target topic".  Between two callbacks the      *)
(* trajectory leads to the last target, unless the IK service's answer to  *)
(* an earlier pose has overtaken it; and to where the arm was when no      *)
(* target came since the activation.  Not so when the target is mixed up   *)
(* with what another thread does: on_activate may assign a trajectory it   *)
(* built before a whole callback over that of the callback, and update()   *)
(* may overwrite q_ in the middle of a MotionGenerator's constructor.      *)
FollowsLastTarget ==
    active = "cartesian" /\ cb = "idle" /\ ~Undecided /\ ~late /\ ~mixed
        => generator["cartesian"].to = last

(* The arm gets there, torn updates or not, unless it is sent elsewhere or *)
(* another target, if only the same once more, is mixed up on its way.     *)
TargetReached ==
    \A x \in Configs :
        active = "cartesian" /\ cb = "idle" /\ ~Undecided /\ ~mixed /\ goal = x
            ~> q = x \/ goal # x \/ mixed \/ active # "cartesian" \/ crashed

-----------------------------------------------------------------------------
(* The invariants the proofs rest on.                                      *)

(* The trajectory leads to q_goal_ but where one of the two places that    *)
(* set both is between them, and q_goal_ is the last target if no late     *)
(* answer has replaced it.                                                 *)
TargetInv ==
    active = "cartesian" =>
        /\ ~late => goal = last
        /\ ~mixed =>
             /\ pc = "activateAssign" => built["control"].to = goal
             /\ cb = "delta"  => built["callback"].from = measured
             /\ cb = "assign" => built["callback"].to = goal
             /\ cb \in {"idle", "stamp", "start"} /\ ~Undecided
                   => generator["cartesian"].to = goal

(* update() is called for an active controller.                            *)
UpdateInv == pc \in {"clock", "fetch", "evaluate"} => active # "none"

Near(x, y) == x - y \in -1..1

(* What the active controller will ask of the arm t after start_time_; a   *)
(* callback that has replaced the trajectory has still to reset that.      *)
Ahead(t) == IF active = "start" \/ ~HalfReplaced THEN At(generator[active], t)
                                                 ELSE generator[active].from

(* A configuration the control thread would not jump to from where it is.  *)
Fits(x) ==
    /\ Evaluating \/ Activating   => x = q
    /\ pc \in {"update", "clock"} => Near(x, q)
    /\ pc \in {"manage", "move"}  => Near(x, desired)

(* While nothing is torn, each place of the cycle knows that the           *)
(* trajectory and the arm are within a step of each other, and so is what  *)
(* a callback has begun to build from q_.                                  *)
JumpInv ==
    /\ Activating => active = "cartesian" /\ desired = q
    /\ UpdateInv
    /\ pc \in {"update", "clock"} => desired = q
    /\ ~torn =>
        /\ Evaluating => ~HalfReplaced
        /\ pc \in {"fetch", "evaluate"} =>
             time = age[active] /\ Near(At(generator[active], time), q)
        /\ pc = "evaluate" => using = generator[active]
        /\ pc \in {"manage", "move"} => Near(desired, q)
        /\ pc = "activateAssign" => built["control"].from = q
        /\ pc = "activateStart"  => Near(generator["cartesian"].from, q)
        /\ active # "none" /\ pc \in {"update", "clock"} => Near(Ahead(age[active]), q)
        /\ active # "none" /\ pc \in {"manage", "move"}  => Near(Ahead(age[active] + 1), desired)
        /\ active = "cartesian" =>
             /\ Fits(measured) /\ (pc = "clock" => measured = q)
             /\ Building /\ ~passed => Fits(built["callback"].from)
             /\ cb = "start" => stamp = 0 \/ (stamp = 1 /\ pc \in {"update", "clock"})
=============================================================================
