# A formal model of the Franka Panda stack (romer_panda_arm_ros2)

TLA+ modules, TLC configurations and TLAPS proofs for the C++ of this
repository.  Paths are relative to `src/`.  `PROJECT.json` maps every definition
that models code to the lines it stands for.

## 1. The system

A Panda arm is driven through libfranka, which wants a command from a real-time
callback every millisecond.  `franka_hardware` wraps it as a ros2_control
hardware component; `franka_control2` runs the controller manager;
`franka_gripper` is a separate node; `romer` holds the controllers and services
of this project.

```
 switch_controller service     error recovery / parameter services
 (executor of the manager)     (FrankaExecutor, multi-threaded, one thread spins)
          |  prepare                      |  stopRobot, recovery, initialize*
          v                               v
 FrankaHardwareInterface  --read,write,perform-->  Robot  --spawns--> loop thread
   ^ control thread (franka_control2_node)            |                   |
   | read, update, write, sleep                       +---- libfranka ----+
 controllers (romer_controllers)

 goals, cancel requests, ~/stop, timer --> GripperActionServer --> franka::Gripper
   (single-threaded executor)              one detached thread and one async per goal
```

### 1.1 Components

| component | state | operations | made hard by | correct when |
|---|---|---|---|---|
| `Robot` (`franka_hardware/src/robot.cpp`) | `control_thread_`, `stopped_`, `finish_`, `has_error_`, `control_mode_`, `init_params_set`, `current_state_`, command arrays, `read_mutex_`, `write_mutex_` | constructor, `read`, `write`, `stopRobot`, five `initialize*Control`, `initializeContinuousReading`, `doAutomaticErrorRecovery`, `setError`, six setters, destructor | three threads; plain `bool`s as flags; join under a mutex the joined thread needs; an assigned `std::thread` must not be joinable | one loop at a time; `stopped_`, handle and thread agree; a stop ends; an error stops the loop and can be recovered from |
| `FrankaHardwareInterface` | `control_mode_`, `hw_commands_*`, `hw_franka_*`, `initialized` flags | `on_init`, `on_activate`, `on_deactivate`, `read`, `write`, `prepare_` and `perform_command_mode_switch`, exports | prepare has effects before it refuses, runs on a service thread, is followed by perform a cycle later, or never | the loop belongs to an active controller; what runs can be stopped; a refusal does not wedge the component |
| error recovery service | none; works on `Robot` | `triggerAutomaticRecovery` | runs beside the control thread, catches some exceptions only, restarts the mode it finds | restarts the loop that failed, never a second one |
| parameter service | none; works on `Robot` | seven setter services | `write_mutex_` is held while the arm answers; an answer may come too late; a recovery sets defaults without the mutex | an answer per request, the callback goes on, what was reported done is in force |
| `FrankaExecutor` | a thread | constructor, destructor | its thread must be joined before `~Robot` | callbacks never outlive the robot |
| control node | a thread | read, update, write at `update_rate` | shutdown beside running services | clean end |
| `FrankaMultiHardwareInterface` | one `control_mode_`, a container per arm | the operations above, arm after arm | arms fail and recover between two steps of a loop over them; early returns in `write`; modes never written; addresses in copies of containers | the arms agree, each is owned and fed, the whole behaves as one arm |
| `GripperActionServer` | the gripper, `current_gripper_state_`, `is_canceled` of each goal | four actions, `~/stop`, a timer | a detached thread per goal over one gripper; cancel races with the result; a 30 Hz cached state | every goal answered, once, rightly, with nothing left moving |
| `CartesianPositionController` | `q_goal_`, `motion_generator_`, `start_time_`, subscriptions | `on_activate`, `update`, two target callbacks, the IK service's answer | callbacks take `target_mutex_`, `update` and `on_activate` do not; late answers; subscriptions outlive the activation | the arm follows the last target, without a jump, and gets there |
| move-to-start, `MotionGenerator` | a trajectory | `on_activate`, `update` | floating point | begins where the arm is, ends at the goal |
| `JointPositionController`, `...WithCV` | the last target | - | not built (`romer_controllers/CMakeLists.txt:40`) | - |
| kinematics services, `JointPositionPublisher` | solvers, `q_last_`, `q_initialized` | constructor, request or pose callback | the service is offered before the solvers exist; the constructor spins or gives up; a seed outlives failures | requests are looked at; the seed stays on the arm's branch; limits belong to their joints |
| state broadcaster, semantic components | one message | `update`, `get_values_as_message` | filled while another thread publishes it; `trylock` | a message is of one state; publishing goes on |
| other publishers, camera scripts | none to speak of | timers | - | - |
| launch files, URDF, messages | configuration | - | - | - |

### 1.2 How they interact

* The control thread calls `read`, the controllers, `perform`, `write`, in this
  order, in one cycle; `on_activate` and `on_deactivate` hold the resource
  manager's lock, so they do not overlap a cycle.
* `prepare` runs on the thread of the `switch_controller` service.  It shares
  `control_mode_` and the command arrays with the control thread, without a lock:
  it sets commands to zero joint by joint while `write()` may be copying them.
* The recovery service shares `stopped_`, `finish_`, `has_error_` and
  `control_thread_` with the control thread.  It takes `read_mutex_` only around
  the restart of the loop.
* The loop thread shares `has_error_`, `finish_` and, through libfranka's own
  control mutex, the connection; its callback takes `read_mutex_`, then looks at
  `finish_`.
* The parameter service and the recovery send settings to the arm beside the
  loop.  A setter keeps `write_mutex_`, which the callback and `write()` need,
  until the arm answers; the recovery's defaults take no mutex.
* The callback stores `current_state_` under `read_mutex_`; `read()` copies it,
  and the broadcaster copies that copy into the message of a RealtimePublisher,
  whose thread publishes it.
* All arms of `FrankaMultiHardwareInterface` share one control thread and one
  executor; each has its own loop thread and its own services.
* The control thread runs `update` and `on_activate` of the controllers; the
  manager's executor runs their target callbacks, one at a time, beside it.  Both
  build trajectories, and take steps of their own to build one and to assign it.
* A gripper goal's thread shares the gripper with all the others; `stop()` ends
  whatever command is in progress.

## 2. Modules

| module | models | state and actions against the code |
|---|---|---|
| `FrankaRobot` | `Robot`, the control thread's calls into it, the recovery service, the loop thread, `FrankaExecutor`'s join | `stopped`, `finish`, `hasError`, `robotMode`, `readMutex` are the fields; `loop` is `control_thread_` with the thread behind it; `pc["cm"]`, `pc["rec"]` are the control thread and the service.  `Stop*` are the lines of `stopRobot`, `Init*` those of `initialize*`, run by both threads; `Read*`, `Perform`, `SetMode`, `Write`, `Deactivate`, `Activate`, `Shutdown`, `Drained` are the control thread's; `Rec*` the service's; `Loop*`, `ReflexSeen`, `ControlAborted` the loop's |
| `LoopLifecycle` | what `robot.hpp` promises about the loop | `off`, `on`, `ending`, `over`; the abstract specification of `FrankaRobot` |
| `CommandInterfaces` | `helper_functions.cpp`, the exports, and the checks of prepare on a list of interfaces, for one arm or several | `StopOK`, `StartOK` are the two halves of prepare without their effects; `RobotCount` is `robot_count_` |
| `CommandModeSwitch` | `prepare_` and `perform_command_mode_switch`, activation, the command arrays, `write`'s finite check | `controlMode` is `control_mode_`; `cmd` the `hw_commands_*`; `sent` is `Robot`'s copy; `Prepare*` are the three ways out of prepare, `PeerRefuses` an accepted switch that another component refuses; `Update`, `Perform`, `Write`, `WriteSkips` are the cycle, `Reactivate` a deactivation and the next activation |
| `GripperActionServer` | the gripper node | `status` is the goal handle, `pc` the goal's thread, `cmd` its `std::async` and future, `known` is `current_gripper_state_`; `HandleGoal`, `HandleCancel`, `StopService`, `PublishGripperState` are the callbacks, `Execute` to `Leave` are `executeCommand` and its callers |
| `TrajectoryControllers` | the two controllers `romer_controllers` builds, over one arm | `measured`, `goal`, `generator`, `age` are `q_`, `q_goal_`, `motion_generator_`, `now() - start_time_`; `pc` is the control thread: `Update`, `UpdateTime`, `Fetch`, `Evaluate` are `update`, `Activate*` are `on_activate`; `Receive`, `ReceivePose`, `Answer`, then `Measure`, `BuildStart`, `BuildDelta`, `Assign`, `ReadClock`, `Start` are the callbacks; `built` is what `make_unique<MotionGenerator>` has constructed and nobody has assigned yet |
| `MultiArm` | `FrankaMultiHardwareInterface` | `controlMode` is its one `control_mode_`, `robotMode[a]` the never written one of each `Robot`; `at` is the arm the loops of perform and write are at (`PerformArm`, `WriteArm`, `WriteReturns`); `Fault`, `Recover` are an arm and its service.  `CommandModeSwitch` is its abstract specification |
| `RobotData` | the data of a `Robot`: `read`, `write`, the zeroing in prepare, the loop's callback, the seven setters, the parameter service, the defaults of a recovery, the broadcaster and its publisher | `state`, `command` are `current_state_` and the `*_command_` arrays, `source` the `hw_commands_*` they are copied from, `got` what `read()` returned, `out` what the callback returned; `mutex` the three mutexes; `msg`, `turn` the RealtimePublisher.  Writers go part by part (`Assign`, `ZeroJoint`, `Store`, `FillMotion`, `FillErrors`); `queue` and `Handle` are the arm, which may answer after `TimesOut` |
| `KinematicsNode` | a kinematics service, or `JointPositionPublisher` | `role` says which; `pc` is the node's thread in its constructor (`waiting` for robot_state_publisher, `loading` the URDF) or `spinning`; `lastConfig`, `seeded` are `q_last_`, `q_initialized`; one action per way out of the constructor, one per callback, `Dies` for a callback without solver |
| `MC*` | - | values of the constants for TLC |
| `*Proofs` | - | theorems about the module of the same name |

A step is what a thread does between two accesses that another thread can
observe.  Interfaces names are abstracted to the words the checks search for,
command values to zero, finite and not finite, positions of the gripper to
`0..MaxWidth`, one tolerance apart.  A joint configuration is a number in
`0..Top`, a trajectory rests for a cycle and then moves by one, torques are where
they pull the arm, which follows within the cycle; a step of two is thus a jump.
The branch of `update` for `moved_` is left out: nothing sets `moved_` to true.  libfranka, the arm, the gripper and the
controller manager are external: modelled from how the code uses them, and
marked so in the map.  Definitions marked `faulty` are not part of any
specification: each is the body of one action with one slip in it, kept to show
that a property notices the slip.

The modules see one system from several sides.  `FrankaRobot` has the loop's life
and takes any switch as accepted (`Prepare`); `CommandModeSwitch` has the
acceptance and takes the loop as its mode; `RobotData` has what passes through the
mutexes while a loop runs, and starts or aborts one in a step; `MultiArm` takes
`Robot`'s calls as steps and has what comes of several of them in a row.  In
`RobotData` a state, a command and a setting are numbers, the same in all their
parts: a torn value is one whose parts differ, but for the zeros of prepare
(`Zero`), which belong to no cycle.  A critical section that only reads
is one step, for no writer can be inside of it.

In `KinematicsNode` a configuration is a pose and a branch (elbow, wrist) on which
the arm reaches it.  That the solver, when it converges, stays on the branch of its
seed is assumed of KDL's Newton iteration; that it may fail anywhere, with any
iterate in `q_result`, is not.  The forward kinematics and dynamics do not fail for
arrays of the chain's size, which the code always passes.

### 2.1 Constants that choose the system

* `Asserts`: `compile.sh` builds Release, which compiles `assert` out; a plain
  `colcon build` keeps it.  The proofs hold for both; the runs take Release.
* `Orderly`: a recovery is asked for when the control thread has already
  stopped the failed loop, and a switch or a lifecycle change waits for its end.
  Nothing in the code enforces this.  `FALSE` lets it come at any time.
* `PromptStart`: a spawned thread reaches libfranka before the control thread's
  next `readOnce`, that is within one cycle.  With `FALSE` a read that follows a
  stale `has_error_` can hold libfranka's mutex over a late control loop
  (`LoopConflict`) or wait, `read_mutex_` in hand, for a loop that needs it.
* `CommFaults`: commands to the arm or the gripper may throw; what nobody catches
  ends the process (`RecUncaught`, `ExceptionEscapes`).
* `Overlap`, `Prompt` (gripper): goals overlap; a command is sent before its
  future is polled a second time.
* `Unwritten` (several arms): what a `ControlMode` no code has written holds.
* `Claim` (several arms): how many interfaces of each arm a controller claims.
* `switching`, `broadcasting`, `initSet` (data, chosen in `Init`): is the controller
  one whose commands prepare zeroes, is there a broadcaster, were the defaults set.
* `Offered`, `Cycles`, `Packets` (data): the services that are called; where the
  numbers of commands and states begin again.

## 3. Runs

Every bound is a constant in the `.cfg`.  `Budget` says how often each event of
the environment may happen; threads are not bounded.

| run | question | answer |
|---|---|---|
| `orderly` | Does an orderly operator ever meet a crash, a blocked read, a flag that lies or a lost stop?  Does the system make progress, and does the loop implement `LoopLifecycle`? | No crash, and yes, over 228,757 states: a control mode and `None`, two faults, two switches, two recoveries, two deactivations with the activations after them and a shutdown in all orders |
| `races` | What survives recoveries at any time, failing commands, exceptions on every thread, late threads? | Types, and the exclusion of `read()` and the restart, over 1,259,497 states |
| `isstopped_doc` | Is `isStopped()` what `robot.hpp:124` says? | No: two threads in `stopRobot` and `initialize*` leave `stopped_` true over a loop |
| `init_doc` | Does the `initializeContinuousReading` of `on_activate` start over nothing (`robot.hpp:79`), if nothing overlaps: a recovery is asked for only of a component that was deactivated and stopped, and the component is not activated before it is served? | No: the loop of the active component fails, the component is deactivated, the recovery restarts a loop for it, and `on_activate` starts a second |
| `switch` | Whatever is asked and refused, is a running loop owned and stoppable, and is an idle component usable? | Yes, with a torque, a pose and two half-arm controllers and one of another component |
| `guard_doc` | Is a mode replaced only after its controller was stopped (`:422`, `:424`)? | No: a refused switch resets `control_mode_` over the running loop |
| `multi` | Do several arms behave as one, whatever fails between two of them? | Yes, over 205,090 states with two arms and two faults, but for the excuses of 3.1 |
| `robot_data` | Is what passes through `Robot` between six threads whole, and do they all go on? | Yes, over 378,722 states, but for the zeros prepare writes into commands that are being copied |
| `gripper` | Overlapping goals, late commands, stale width, failing stops, shutdown: are goals quiet once answered, answered once, and always? | Yes, by the code's own order of stop, get, answer |
| `gripper_client` | For a client that waits for each answer: do stops hit their own goal, do cancels leave the fingers at rest? | Yes, four kinds of goals in all orders, over 691,412 states |
| `trajectory` | Do targets, IK answers, updates and activations, in any interleaving, leave the arm following the last target, without a jump, until it is there? | Yes, over 1,333,487 states, where the threads leave each other alone; 3.1 says what the code does where they do not |
| `kinematics` | Do requests before the solvers, poses out of reach and a robot_state_publisher that comes and goes leave requests unseen or the arm on another branch? | No, over 12,888 states |

The bounds are enough for the following reasons.  A race on `stopped_` or the
handle needs one recovery and one more caller, a stale flag a second fault, a
stale mode a second switch; two of each let every such history be followed by
another one.  The loop is of a control mode or of `None`, the reading loop, which
take different ways out of an error; what is started for the one and restarted for
the other is what `RestartKeepsMode` looks for, and two control modes differ in the
struct they return only.  In the switch, the controllers are one that fills its kind (7), one
Cartesian (16), two that only together fill a kind (3 + 4), and one of another
component: the checks look at nothing else.  Two gripper goals suffice for one
to disturb another; `MaxWidth` 2 has a narrower, an equal and a wider width.
Of the trajectories, `Top` 2 has the shortest one that can jump; two messages are
a target that replaces another one halfway or overtakes its answer, and one
deactivation, followed by any activation, leaves old subscriptions behind.
Two arms have a first, a last and a next one; the controllers claim both arms,
either, or two thirds of one.  With two parts, two numbers and two fields every
torn value is one whose parts differ, and it takes one write to tear it, so
numbers that begin again after two hide none.  One service stands for the seven,
which differ in the call to libfranka only, and is one whose parameter the
defaults of a recovery set too; two calls and one abort are a late answer and a
newer setting with a recovery between.  The run lets the broadcaster or the
service be there, not both: they share nothing but the control thread; where
prepare zeroes commands, there is neither a broadcaster nor a call left, for they do
not touch commands.  The
queue of a kinematics node holds two of four requests, so that it overflows; the
chains have their fixed segment at every place.

`CHECK_DEADLOCK FALSE` is used where the system may really stop: in `races` and
the runs of the defects the process may hang, in the gripper runs all goals
are answered and the node is shut down, and nobody has to send a kinematics node
a request.

### 3.1 Properties that hold only in part

`StoppedMeansNoLoop` and `NoLoopWhenInitialized` pass in `orderly` and fail
without `Orderly`: the discipline, not the code, protects them; `NeverTerminates`,
`HandleConsistent` and `RecoveryClearsError` likewise.  `LoopIsFed` excuses an error,
also one that a loop reports late.
`LoopCanBeStopped` fails as soon as the catalogue has a controller that claims 6
of the 16 pose interfaces (`ShortPose`): the start takes 6 or 16 for pose and
twist alike, the stop 16 and 6.  `IdleAcceptsStart` excuses a component whose
accepted switch was `dropped` because another one refused it; `control_mode_`
then stays at a mode in which nothing runs and every later start is refused.
`ActivationStartsOverNothing` fails although nothing overlaps in `init_doc`.
`RestartKeepsMode` excuses a mode never written (`robot.hpp:263` has no
initialiser) and fails if a deactivation intervenes.

`motion_generator_ = make_unique<MotionGenerator>(..., q_, q_goal_)` constructs
first and assigns then, and `start_time_` comes after both.  `update` takes none of
the locks of a callback, `on_activate` takes none at all, and all of them write
`q_`.  So the code does the following, and TLC finds each as soon as its excuse is
left out:

* A callback constructs from the joints it measured, `update` evaluates the old
  trajectory and the arm moves, and the callback assigns a trajectory that begins
  where the arm was (`passed`, `cartesian_position_controller.cpp:195`, `:232`).
* `update` uses a new trajectory with the old `start_time_`, or one that is deleted
  while it does (`EvaluateFreed`).

An activation that meets a callback between its construction and its `start_time_`
is counted as torn too.  That is a precaution the proof uses; within the bounds of
the run TLC finds no jump without it.

From then on until the next activation the controller is `torn`, and `NoJump` says
nothing of it: where the arm is asked to be after a jump, and when, depends on what
it was torn by.  While nothing is torn, neither targets halfway nor activations make
the arm jump.

* `on_activate` constructs [q, q], a whole callback sets `q_goal_` and assigns its
  trajectory, and `on_activate` assigns the stale one over it (`:180`).
* `update` overwrites `q_` between the two reads of it in the constructor, and the
  trajectory ends beside the target (`motion_generator.cpp:28`, `:31`).

The target is `mixed` then, until the next one or the next activation.
`FollowsLastTarget` excuses that, and a `late` answer: the IK service's answer to a
pose replaces a target that came after it.  `TargetReached` excuses no torn update,
only a `mixed` target, and a process that a target after a deactivation has ended
(`MeasureReleased`), that evaluated a deleted generator, or in which two threads
assigned at once (`AssignTogether`).

`CommandsAreOfOneCycle` says that the joints the arm is given are of one cycle of the
controllers.  Where prepare stops a controller of efforts or velocities, zeros may be
among them: it writes them joint by joint with no lock
(`franka_hardware_interface.cpp:354`, `:380`) while `write()` copies the array for
the loop that still runs, and half of a command reaches the arm with zeros for the
other half.  Of controllers whose commands prepare leaves alone, commands are whole.

`ArmsAreOwned` excuses a pose mode started with 6 interfaces per arm, which may
all be of one arm: the start takes 6 or 16 times `robot_count_`.  The excuse is that
some active pose controllers have this many together.  That all of them have, which
holds of two or three arms, is false of four, as the attempt to prove it showed: two
lists of 24 pose interfaces, started one after the other once a refused start has
reset `control_mode_`, fill three arms and leave the fourth without.  `ArmsAreFed`
excuses an arm behind one in error or behind a command that is not finite, for
there `write()` returns.  `ArmsAgree` lets a recovery restart what the `Robot`'s
uninitialised `control_mode_` holds.  `ImplementsOneArm` hides an uninitialised
`control_mode_` of the component, with which every start is refused (`firstMode`).
`SettingsHold` is about settings reported as done; a default that a recovery sets
meanwhile is a newer setting, and stays.  It takes libfranka as it is used: the arm
does requests in the order they were sent, and one that got no answer in time may
still be done.  The liveness
properties of `RobotData` excuse the process that a refused default ends
(`DefaultRefused`), `RequestsTaken` the node that handled a request without its
solver.  `CallbackReturns` and `BroadcastGoesOn` need every thread to
be scheduled, `RequestsTaken` the wait of the constructor to be bounded: section 4.

## 4. Fairness

`FairSpec` of `FrankaRobot` has weak fairness of each thread (the operating
system schedules them; libfranka calls back every millisecond; a command
returns or throws) and strong fairness of the three places that take
`read_mutex_`: the mutex is released again and again, for all of the sleep that
ends a control cycle, and whoever waits gets it then.  Nothing is assumed of
faults, requests or the shutdown.  `GripperActionServer` has weak fairness of
the goal threads and of a command's being sent and returning; none of the
client, the timer or the shutdown.  `TrajectoryControllers` has weak fairness of
the control thread's cycle and of a callback that has begun; none of messages,
answers or switches.  `MultiArm` has weak fairness of the control thread only.
`RobotData` has strong fairness of each thread: they take mutexes that are
released again and again, and whoever waits long enough gets one, as the control
thread gets a `trylock()` at a publisher that polls; nothing makes the arm answer,
but a setter that waits for it times out.  `KinematicsNode` has weak fairness of
its only thread, whose wait is bounded by three seconds.  `LoopLifecycle` promises
that a loop that was asked to end ends and that one that is over is joined;
`FrankaRobot` shows that its threads keep the promise.

## 5. Proofs

TLAPS proves, for all values of the constants:

| theorem | of | assumes | argument |
|---|---|---|---|
| `TypeCorrect` | `TypeOK` of `FrankaRobot` | nothing | one step per action |
| `ReadExclusion` | `ReadExcludesRestart` | nothing | `MutexInv`: `read_mutex_` belongs to the thread whose code is inside of it |
| `OrderlyInvariant` | `OrderlyInv` | `Orderly` | see below |
| `OrderlyIsStopped`, `OrderlyHandle`, `OrderlyInitialize` | `StoppedMeansNoLoop`, `HandleConsistent`, `NoLoopWhenInitialized` | `Orderly` | from `OrderlyInv` |
| `PromptReadIsSafe` | `ReadDoesNotBlockItsLoop` | `PromptStart` | `PromptInv` |
| `StopRequests` | `StopRequestOwned` | no `CommFaults` | `FinishInv`: who set `finish_` has not left |
| `OrderlyNeverTerminates` | `NeverTerminates` | `Orderly`, `PromptStart`, no `CommFaults` | the four invariants exclude the guard of every `Terminate` |
| `RecoverySucceeds`, `RecoveryKeepsMode` | `RecoveryClearsError`, `RestartKeepsMode` | `Orderly` | `ClearedInv`: no loop is there to fail until the restart; `KeptModeInv`: whom the loop, the `Robot` and the recovery take their mode from |
| `LoopKeepsLifecycle` | the safety part of `ImplementsLifecycle` | `Orderly`, no `CommFaults` | `OrderlyInv`, `FinishInv`: every step is one of `LoopLifecycle` or a stutter |
| `SwitchTypeCorrect` | `TypeOK` of `CommandModeSwitch` | finitely many controllers | accepted requests stay within the active ones |
| `LoopOwner` | `LoopIsOwned` | the same | `OwnerInv` |
| `NeverWedged` | `IdleAcceptsStart` | the same | `ModeInv`: without a dropped switch, an idle `control_mode_` is `None` or an active controller's |
| `RunningLoopCanBeStopped` | `LoopCanBeStopped` | the same, `NoPoseOfTwistSize` | `StoppableInv`, lemmas on sums, see below |
| `GripperTypeCorrect` | `TypeOK` of the gripper | nothing | one step per action |
| `AnsweredGoalsAreQuiet`, `GoalsAreAnsweredOnce` | `AnsweredIsQuiet`, `AnswersOnce` | nothing | `GripperInv` |
| `StoppedGoalsHalt` | `CancelHalts` | `Prompt` | `HaltInv`: a thread that calls `stop()` has seen its command sent |
| `StopsStayWithTheirGoal` | `StopsHitTheirGoal` | no `Overlap` | `OneGoalInv`: one open goal at most, and what it has stopped is its own |
| `TrajectoryTypeCorrect` | `TypeOK` of the controllers | nothing | `AtIsConfig`; an `update` has a controller (`UpdateInv`) |
| `LastTarget` | `FollowsLastTarget`: unless an answer was late, or another thread was at `q_` or `q_goal_` in the midst | nothing | `TargetInv`: what has been built and not assigned leads to `q_goal_` too |
| `NoJumpUnlessTorn` | `NoJump`: as long as what is put in place begins where the arm is and is there before `update` evaluates another time | nothing | `JumpInv`; lemmas on trajectories |
| `StartTakesItsKind` | a lemma on `CommandInterfaces` | finitely many controllers | an accepted start has controllers of one kind, and that is the mode |
| `MultiTypeCorrect` | `TypeOK` of `MultiArm` | the same, any number of arms | one step per action |
| `ArmsAreToldAlike` | `ArmsAgree` | the same | `AgreeInv`: the arms before `at` have the new mode, the others still agree on the old one |
| `ArmsHaveOwners` | `ArmsAreOwned` | the same | `OwnerInv`; `FullSharesAll`: who claims all of a kind claims some of each arm |
| `SeveralArmsAreOne` | `ImplementsOneArm` | the same | `WrittenInv`, `PlaceInv`: what the last arm sees is what `CommandModeSwitch` does |
| `RunningArmsCanBeStopped`, `IdleArmsAreUsable` | `LoopCanBeStopped` and `IdleAcceptsStart` for several arms | the same, the first `NoPoseOfTwistSize` | the theorems about one arm, through the refinement |
| `DataTypeCorrect` | `TypeOK` of `RobotData` | nothing | one step per action |
| `ArmGetsCommandsOfOneCycle`, `ReadReturnsWholeStates`, `BroadcastsWholeStates`, `HandedOverIsUntouched` | `CommandsAreOfOneCycle`, `StatesAreWhole`, `MessagesAreWhole`, `MessageNotOverwritten` | nothing | `MutexInv` and `WholeInv`, see below |
| `SuccessIsInForce` | `SettingsHold` | nothing | `SettingInv` |
| `MutexesAreReleased` | `HoldersGoOn` | nothing | `MutexInv`, `LeftInv`: who holds a mutex waits for none and has a part left to copy, or an answer to take or give up |
| `NodeTypeCorrect` | `TypeOK` of `KinematicsNode` | nothing | one step per action |
| `AnswersStayOnBranch` | `ContinuesLast` | nothing | `SeedInv`: after an answer `q_last_` is on its branch |
| `SolversHaveTheLimits` | `LimitsAreTheJoints` | nothing | `LimitsInOrder`: what the loop over the segments has put down after n of them |

`StoppedMeansNoLoop` is not inductive: `StopMark` sets `stopped_` without a look
at the thread.  `OrderlyInv` says what each place of the code knows.  `HandleInv`
gives, for each program counter of `stopRobot` and `initialize*`, the values of
`stopped_` and the handle; it survives the other thread only because a recovery
never meets a control thread that is changing the loop (`RecoveryInv`), which
in turn needs to know what the control thread is inside of (`OperationInv`) and
who holds `read_mutex_` (`MutexInv`).  `PromptInv` adds that while `read()` is
past `readOnce` no loop is inside libfranka, so that the loop it joins does not
wait for its mutex.  For the switch, `LoopIsOwned` needs that a pending request
with a `control_mode_` other than `None` starts a controller of that kind
(`OwnerInv`).  For the gripper, `AnsweredIsQuiet` needs that a thread
that is about to answer holds a ready future (`ThreadInv`).
For the controllers, `NoJump` is about one step but needs to know at each place of
the cycle, and of the callback, how far the trajectory, `q_`, and what the arm is
asked for may be apart: `JumpInv` says that they are within a step, that a
trajectory whose `start_time_` is still to be reset counts from its beginning
(`Ahead`), that what a callback has begun to build starts where the control thread
would not jump from (`Fits`), unless an update has `passed` since, and that while
nothing is torn `update` holds the generator and the time that belong together.  It rests on three lemmas about `At`: a trajectory
begins at its start, moves by at most one a cycle, and has ended at `Top + 1`.
For the data, a value is whole only while its mutex is free: `WholeInv` says so of
each of the three mutexes, and of the parts already copied while its holder, which
`MutexInv` gives by the program counters, is at it; the commands are whole but for
the zeros of prepare, which take no mutex (`OneCycle`).  `SettingsHold` needs that the
arm takes settings in the order of their numbers and that an answer a thread still
waits for is that of the setting in force (`SettingInv`): a late answer finds
nobody waiting for its number.

What can be stopped and who owns an arm are questions of how many interfaces
a set of controllers claims.  `Size` is a fold that chooses one controller after the
other; `CommandInterfacesProofs` shows that the fold exists and does not depend on
the choice, and that sums are natural numbers, monotone and additive, each time by a
smallest set for which it were not so (`SmallestSet`), for the induction theorems of
the library take an operator.  A start list is accepted with 6 or 16 Cartesian
interfaces of either kind, a stop list with 16 of the pose and 6 of the twist only:
`StartIsStoppable` says that what was started can be stopped if no pose controllers
have six interfaces together (`NoPoseOfTwistSize`).  The hypothesis is needed, for the
code does not check it.  It holds of the controllers of this repository, which claim
no pose interfaces, and, as `WholePoses` shows, of all that claim more than six of
the 16 numbers of a pose each.  `StoppableInv` then carries the started list along,
from the prepare that accepts it to the perform that activates it.

Several arms inherit what is proved of one.  `MultiArmProofs` instantiates
`CommandModeSwitchProofs` as `ImplementsOneArm` instantiates its module: the theorems
about one large arm hold of what the last arm sees, and `AgreeInv` takes them to all.

`LimitsOf` folds a chain segment by segment.  `LimitsOfAll` follows it: after n
segments the next limits to be set are those of the joint behind the `Joints(chain, n)`
there were, and each joint before has its own at its number, which no later one has.

The assumptions on constants are the named `ASSUME`s of the modules; TLC
evaluates them in every run.

Model-checked only: all liveness, which the prover does not reach, the fairness in
`ImplementsLifecycle` and in `FairSpec` with it, and `NoSwitchWithoutStop`, which the
code violates.  Every invariant and action property that a run passes is proved.
`MutexesAreReleased` is what can be proved of `CallbackReturns` and `BroadcastGoesOn`:
there is no ring of threads that wait for each other.

Proved but not run, because what they say follows from properties that are:
`StopRequestOwned` (`ImplementsLifecycle` would find a stop
request left behind), `MessageNotOverwritten` (`MessagesAreWhole`), `HoldersGoOn`
(`CallbackReturns`), the types of `RobotData` and `KinematicsNode`, and what
`MultiArmProofs` takes over from one arm.

## 6. What the code does that its comments do not say

1. `isStopped()` can be true over a running loop (`robot.cpp:101`).
2. A recovery of a component that was deactivated after its loop failed restarts a
   loop for it; the next activation
   fails the assert of `robot.cpp:248`, or overwrites a joinable thread
   (`franka_error_recovery_service_server.cpp:44`).
3. A switch refused in its start half has already reset `control_mode_`
   (`franka_hardware_interface.cpp:423`).

Seen while modelling, without a run of their own: the `read()` of `on_activate`
does not read (`franka_hardware_interface.cpp:101`); prepare zeroes commands that
are being copied (`:354`); a trajectory may be assigned after the arm has left its
start, or over that of a later target (`cartesian_position_controller.cpp:180`,
`:195`); `GripperCommand` decides on a
width up to a timer period old (`gripper_action_server.cpp:172`); what is written to
the Cartesian interfaces of several arms is lost
(`franka_multi_hardware_interface.cpp:218`); a recovery of one of several arms does
not restart its mode (`:529`); a request that comes while a kinematics node asks for
the URDF ends the node (`cartesian_to_joint_service.cpp:45`).

## 7. Not modelled

`JointPositionController` and `JointPositionControllerWithCV`, which are not
built; the polynomials of `MotionGenerator`, the solvers of KDL and every other
computation on doubles (out of TLC's reach); the URDF checks of `on_init`; the
lookup of interfaces by the semantic components; the publishers of fixed or measured
poses, camera scripts, launch files, descriptions, messages.  Within the modelled
components: what the resource manager does with a component whose `write()`
returns an error; the life of the gripper node after its executor has returned
(its threads are detached); memory that the interfaces of several arms point to
after the copies are gone; the loop of `FrankaExecutor`'s constructor that waits
for its thread.  Of the names of interfaces of other components one kind is
there, `.../position`; what rclcpp does with a goal handle nobody answered is not.
Switches and lifecycle changes come one at a time, as the controller manager serves
them; a deactivation may come with controllers active (in `CommandModeSwitch`; in
`MultiArm`, where it costs TLC too much, it comes without any), and a recovery with
the component inactive (`MultiArm` leaves out the activation that then meets a
running loop, which is `init_doc`'s).  Data races on the flags are taken as interleavings of whole reads
and writes.

## 8. Plan

1. Done: `FrankaRobot` with `LoopLifecycle`; `CommandInterfaces` and
   `CommandModeSwitch`; `GripperActionServer`; `TrajectoryControllers`; `MultiArm`,
   which implements `CommandModeSwitch`; `RobotData`; `KinematicsNode`; a proof
   module for each but `LoopLifecycle`.
2. Left: the safety that the other liveness properties rest on, as
   `MutexesAreReleased` is for `RobotData` (a goal's future gets ready, a trajectory
   comes nearer to its end with every update); the error of `write()` in the resource
   manager; several arms whose `Robot`s are those of `FrankaRobot`, thread by thread.
