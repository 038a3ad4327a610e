-------------------- MODULE TrajectoryControllersProofs --------------------
(***************************************************************************)
(* Theorems about TrajectoryControllers, for every range of configurations *)
(* and every number of messages and deactivations.                         *)
(***************************************************************************)
EXTENDS TrajectoryControllers, TLAPS

USE ConfigAssumption, BudgetAssumption
USE DEF Configs, Controllers

-----------------------------------------------------------------------------
(* What the motion generator computes                                      *)

(* A trajectory stays within the configurations.                           *)
LEMMA AtIsConfig ==
  ASSUME NEW g \in Generators, NEW t \in Nat
  PROVE  At(g, t) \in Configs
BY DEF At, Generators

(* A trajectory begins at its start, and rests there for a cycle.          *)
LEMMA AtBegins ==
  ASSUME NEW g \in Generators
  PROVE  At(g, 0) = g.from /\ At(g, 1) = g.from
BY DEF At, Generators

(* A trajectory moves by at most one a cycle.                              *)
LEMMA AtIsSteady ==
  ASSUME NEW g \in Generators, NEW t \in Nat
  PROVE  Near(At(g, t + 1), At(g, t))
<1>1. t = 0 \/ t >= 1
  OBVIOUS
<1>. QED BY <1>1 DEF At, Generators, Near

(* A trajectory has ended after Top + 1 cycles.                            *)
LEMMA AtEnds ==
  ASSUME NEW g \in Generators
  PROVE  At(g, Top + 1) = At(g, Top + 2)
BY DEF At, Generators

(* Configurations that are near each other are so in either order.         *)
LEMMA NearIsSymmetric ==
  ASSUME NEW x \in Configs, NEW y \in Configs
  PROVE  Near(x, x) /\ (Near(x, y) <=> Near(y, x))
BY DEF Near

-----------------------------------------------------------------------------
(* Typing                                                                  *)

(* The flags of TypeOK, apart from the rest.                               *)
Flags == {subscribed, late, mixed, passed, torn, crashed} \subseteq BOOLEAN

(* Before the first activation there is a trajectory from 0 to 0.          *)
LEMMA BlankIsGenerator == Blank \in Generators
BY DEF Blank, Generators

(* The arm stays within the configurations.                                *)
LEMMA ClipIsConfig ==
  ASSUME NEW x \in Int
  PROVE  Clip(x) \in Configs
BY DEF Clip

(* A cycle later, or at the end of the times that matter.                  *)
LEMMA LaterIsTime ==
  ASSUME NEW t \in 0..(Top + 1)
  PROVE  Later(t) \in 0..(Top + 1)
BY DEF Later

(* What the history notes of where the threads are is a truth value.       *)
LEMMA PlacesAreBoolean ==
  Undecided \in BOOLEAN /\ Building \in BOOLEAN /\ (Building \/ HalfReplaced) \in BOOLEAN
BY DEF Undecided, Building, HalfReplaced

(* A step of the control thread keeps the types.                           *)
LEMMA ControlTyped == TypeOK /\ UpdateInv /\ Control => TypeOK' /\ UpdateInv'
<1> SUFFICES ASSUME TypeOK, UpdateInv, Control PROVE TypeOK' /\ UpdateInv'
  OBVIOUS
<1> USE BlankIsGenerator DEF TypeOK, UpdateInv, Goto, arm, members, callback, history
<1>1. CASE NoUpdate
  BY <1>1 DEF NoUpdate
<1>2. CASE Update
  <2>1. Flags'
    BY <1>2, Zenon DEF Update, Flags
  <2>. QED BY <1>2, <2>1 DEF Update, Flags
<1>3. CASE UpdateTime
  <2>1. Flags'
    BY <1>3, Zenon DEF UpdateTime, Flags
  <2>. QED BY <1>3, <2>1 DEF UpdateTime, Flags
<1>4. CASE Fetch
  BY <1>4 DEF Fetch
<1>5. CASE Evaluate
  <2>1. using \in Generators /\ time \in Nat
    BY <1>5 DEF Evaluate
  <2>2. desired' \in Configs
    BY <1>5, <2>1, AtIsConfig DEF Evaluate
  <2>. QED BY <1>5, <2>2 DEF Evaluate
<1>6. CASE EvaluateFreed
  <2>1. Flags'
    BY <1>6, Zenon DEF EvaluateFreed, Flags
  <2>. QED BY <1>6, <2>1 DEF EvaluateFreed, Flags
<1>7. CASE NoSwitch
  BY <1>7 DEF NoSwitch
<1>8. CASE ActivateBuild
  <2>1. [from |-> measured, to |-> goal] \in Generators
    BY DEF Generators
  <2>. QED BY <1>8, <2>1 DEF ActivateBuild
<1>9. CASE ActivateAssign
  BY <1>9 DEF ActivateAssign
<1>10. CASE ActivateStart
  <2>1. Flags'
    BY <1>10, Zenon DEF ActivateStart, Flags
  <2>. QED BY <1>10, <2>1 DEF ActivateStart, Flags
<1>11. CASE Move
  BY <1>11, LaterIsTime DEF Move
<1>. QED
  BY <1>1, <1>2, <1>3, <1>4, <1>5, <1>6, <1>7, <1>8, <1>9, <1>10, <1>11 DEF Control

(* A switch of controllers keeps the types.                                *)
LEMMA SwitchTyped ==
  TypeOK /\ UpdateInv /\ (Deactivate \/ ActivateMoveToStart \/ Activate)
    => TypeOK' /\ UpdateInv'
<1> SUFFICES ASSUME TypeOK, UpdateInv, Deactivate \/ ActivateMoveToStart \/ Activate
             PROVE  TypeOK' /\ UpdateInv'
  OBVIOUS
<1> USE DEF TypeOK, UpdateInv, Goto, members, callback, history
<1>1. CASE Deactivate
  BY <1>1 DEF Deactivate, Spend
<1>2. CASE ActivateMoveToStart
  <2>1. [from |-> q, to |-> Home] \in Generators
    BY DEF Generators
  <2>2. Flags'
    BY <1>2, Zenon DEF ActivateMoveToStart, Flags
  <2>. QED BY <1>2, <2>1, <2>2 DEF ActivateMoveToStart, Flags
<1>3. CASE Activate
  <2>1. Flags'
    BY <1>3, PlacesAreBoolean, Zenon DEF Activate, Flags
  <2>. QED BY <1>3, <2>1 DEF Activate, Flags
<1>. QED BY <1>1, <1>2, <1>3

(* A callback that has been entered keeps the types.                       *)
LEMMA CallbackTyped == TypeOK /\ UpdateInv /\ Callback => TypeOK' /\ UpdateInv'
<1> SUFFICES ASSUME TypeOK, UpdateInv, Callback PROVE TypeOK' /\ UpdateInv'
  OBVIOUS
<1> USE BlankIsGenerator DEF TypeOK, UpdateInv, arm, members, control, callback, history
<1>1. CASE Measure
  BY <1>1 DEF Measure
<1>2. CASE MeasureReleased \/ AssignTogether
  <2>1. Flags'
    BY <1>2, Zenon DEF MeasureReleased, AssignTogether, Flags
  <2>. QED BY <1>2, <2>1 DEF MeasureReleased, AssignTogether, Flags
<1>3. CASE BuildStart
  <2>1. [from |-> measured, to |-> measured] \in Generators
    BY DEF Generators
  <2>2. Flags'
    BY <1>3, Zenon DEF BuildStart, Flags
  <2>. QED BY <1>3, <2>1, <2>2 DEF BuildStart, Flags
<1>4. CASE BuildDelta
  <2>1. Clip(built["callback"].from + goal - measured) \in Configs
    <3>1. built["callback"].from + goal - measured \in Int
      BY DEF Generators
    <3>. QED BY <3>1, ClipIsConfig
  <2>2. built'["callback"] \in Generators
    BY <1>4, <2>1 DEF BuildDelta, Generators
  <2>. QED BY <1>4, <2>2 DEF BuildDelta
<1>5. CASE Assign
  <2>1. Flags'
    BY <1>5, Zenon DEF Assign, Flags
  <2>. QED BY <1>5, <2>1 DEF Assign, Flags
<1>6. CASE ReadClock
  BY <1>6 DEF ReadClock
<1>7. CASE Start
  BY <1>7 DEF Start
<1>. QED BY <1>1, <1>2, <1>3, <1>4, <1>5, <1>6, <1>7 DEF Callback

(* Requests to the IK service.                                             *)
Requests == [to : Configs, old : BOOLEAN]

(* A message or an answer keeps the types.                                 *)
LEMMA MessageTyped ==
  ASSUME TypeOK, UpdateInv,
         \/ Answer \/ AnswerFails
         \/ \E x \in Configs \cup {Short} : Receive(x)
         \/ \E x \in Configs : ReceivePose(x)
  PROVE  TypeOK' /\ UpdateInv'
<1> USE DEF arm, members, control, callback, history
<1>0. requests \in Seq(Requests)
  BY DEF TypeOK, Requests
<1>1. CASE Answer
  <2>1. Head(requests) \in Requests /\ Tail(requests) \in Seq(Requests)
    BY <1>0, <1>1 DEF Answer
  <2>2. Head(requests).to \in Configs /\ Head(requests).old \in BOOLEAN
    BY <2>1, Zenon DEF Requests
  <2>3. Flags'
    BY <1>1, <2>2, PlacesAreBoolean, Zenon DEF Answer, TypeOK, Flags
  <2>4. requests' \in Seq(Requests)
    BY <1>1, <2>1 DEF Answer
  <2>5. last' \in Configs /\ goal' \in Configs
    BY <1>1, <2>2 DEF Answer, TypeOK
  <2>. QED BY <1>1, <2>3, <2>4, <2>5 DEF Answer, TypeOK, UpdateInv, Requests, Flags
<1>2. CASE AnswerFails
  <2>1. Tail(requests) \in Seq(Requests)
    BY <1>0, <1>2 DEF AnswerFails
  <2>. QED BY <1>2, <2>1 DEF AnswerFails, TypeOK, UpdateInv, Requests
<1>3. ASSUME NEW x \in Configs \cup {Short}, Receive(x) PROVE TypeOK' /\ UpdateInv'
  <2>1. CASE x = Short
    BY <1>3, <2>1 DEF Receive, Spend, TypeOK, UpdateInv
  <2>2. CASE x # Short
    <3>1. \A i \in DOMAIN requests : [requests[i] EXCEPT !.old = TRUE] \in Requests
      <4> SUFFICES ASSUME NEW i \in DOMAIN requests
                   PROVE  [requests[i] EXCEPT !.old = TRUE] \in Requests
        OBVIOUS
      <4>1. requests[i] \in Requests
        BY <1>0
      <4>. QED BY <4>1, Zenon DEF Requests
    <3>2. requests' \in Seq(Requests)
      BY <1>0, <1>3, <2>2, <3>1 DEF Receive
    <3>3. Flags'
      BY <1>3, <2>2, PlacesAreBoolean, Zenon DEF Receive, TypeOK, Flags
    <3>4. last' \in Configs /\ goal' \in Configs
      BY <1>3, <2>2 DEF Receive
    <3>. QED BY <1>3, <2>2, <3>2, <3>3, <3>4
             DEF Receive, Spend, TypeOK, UpdateInv, Requests, Flags
  <2>. QED BY <2>1, <2>2
<1>4. ASSUME NEW x \in Configs, ReceivePose(x) PROVE TypeOK' /\ UpdateInv'
  <2>1. [to |-> x, old |-> FALSE] \in Requests
    BY DEF Requests
  <2>2. requests' \in Seq(Requests)
    BY <1>0, <1>4, <2>1 DEF ReceivePose
  <2>. QED BY <1>4, <2>2
           DEF ReceivePose, Spend, TypeOK, UpdateInv, Requests
<1>. QED BY <1>1, <1>2, <1>3, <1>4
(* The initial state has the types.                                        *)
LEMMA InitTyped == Init => TypeOK /\ UpdateInv
<1> SUFFICES ASSUME Init PROVE TypeOK /\ UpdateInv
  OBVIOUS
<1>1. Flags
  BY Zenon DEF Init, Flags
<1>. QED BY <1>1, BlankIsGenerator DEF Init, TypeOK, UpdateInv, Flags

(* Every step keeps the types.                                             *)
LEMMA StepTyped == TypeOK /\ UpdateInv /\ [Next]_vars => TypeOK' /\ UpdateInv'
<1> SUFFICES ASSUME TypeOK, UpdateInv, [Next]_vars PROVE TypeOK' /\ UpdateInv'
  OBVIOUS
<1>1. CASE Control
  BY <1>1, ControlTyped
<1>2. CASE Deactivate \/ ActivateMoveToStart \/ Activate
  BY <1>2, SwitchTyped
<1>3. CASE Callback
  BY <1>3, CallbackTyped
<1>4. CASE \/ Answer \/ AnswerFails
           \/ \E x \in Configs \cup {Short} : Receive(x)
           \/ \E x \in Configs : ReceivePose(x)
  BY <1>4, MessageTyped
<1>5. CASE UNCHANGED vars
  BY <1>5 DEF vars, arm, members, control, callback, history, TypeOK, UpdateInv
<1>. QED BY <1>1, <1>2, <1>3, <1>4, <1>5 DEF Next, Step, Ended

(* Every variable stays in its type, in every interleaving of the control  *)
(* thread with the callbacks: the arm is never sent out of the             *)
(* configurations, also by a generator that has been deleted.              *)
THEOREM TrajectoryTypeCorrect == Spec => []TypeOK
<1>1. Init => TypeOK /\ UpdateInv
  BY InitTyped
<1>2. (TypeOK /\ UpdateInv) /\ [Next]_vars => (TypeOK /\ UpdateInv)'
  BY StepTyped
<1>. QED BY <1>1, <1>2, PTL DEF Spec

-----------------------------------------------------------------------------
(* Targets                                                                 *)

(* TargetInv is preserved by the control thread: an activation builds the  *)
(* trajectory to q_goal_, and no callback sets another while it does       *)
(* without mixing it up.                                                   *)
LEMMA ControlKeepsTarget ==
  TypeOK /\ TargetInv /\ (Control \/ Deactivate \/ ActivateMoveToStart \/ Activate)
    => TargetInv'
<1> SUFFICES ASSUME TypeOK, TargetInv,
                    Control \/ Deactivate \/ ActivateMoveToStart \/ Activate
             PROVE  TargetInv'
  OBVIOUS
<1> USE DEF TargetInv, TypeOK, Goto, Undecided, Building, arm, members, callback, history
<1>1. CASE NoUpdate \/ Fetch \/ Evaluate \/ EvaluateFreed \/ NoSwitch \/ Move
  BY <1>1 DEF NoUpdate, Fetch, Evaluate, EvaluateFreed, NoSwitch, Move
<1>2. CASE Update
  BY <1>2 DEF Update
<1>3. CASE UpdateTime
  BY <1>3 DEF UpdateTime
<1>4. CASE ActivateBuild
  BY <1>4 DEF ActivateBuild
<1>5. CASE ActivateAssign
  BY <1>5 DEF ActivateAssign
<1>6. CASE ActivateStart
  BY <1>6 DEF ActivateStart
<1>7. CASE Deactivate \/ ActivateMoveToStart
  BY <1>7 DEF Deactivate, ActivateMoveToStart
<1>8. CASE Activate
  BY <1>8 DEF Activate
<1>. QED BY <1>1, <1>2, <1>3, <1>4, <1>5, <1>6, <1>7, <1>8 DEF Control

(* TargetInv is preserved by the callbacks: while q_ does not change in    *)
(* its constructor, a MotionGenerator goes from q_ to q_goal_.             *)
LEMMA CallbackKeepsTarget == TypeOK /\ TargetInv /\ Callback => TargetInv'
<1> SUFFICES ASSUME TypeOK, TargetInv, Callback PROVE TargetInv'
  OBVIOUS
<1> USE DEF TargetInv, TypeOK, Undecided, arm, members, control, callback, history
<1>1. CASE Measure
  BY <1>1 DEF Measure
<1>2. CASE MeasureReleased \/ AssignTogether
  BY <1>2 DEF MeasureReleased, AssignTogether
<1>3. CASE BuildStart
  BY <1>3 DEF BuildStart
<1>4. CASE BuildDelta
  <2>1. \A x \in Configs : Clip(measured + x - measured) = x
    BY DEF Clip
  <2>2. built["callback"].from = measured
          => Clip(built["callback"].from + goal - measured) = goal
    BY <2>1
  <2>3. DOMAIN built = {"control", "callback"} /\ built["callback"] \in Generators
    OBVIOUS
  <2>4. built'["callback"].to = Clip(built["callback"].from + goal - measured)
    BY <1>4, <2>3 DEF BuildDelta, Generators
  <2>5. built'["control"] = built["control"]
    BY <1>4, <2>3 DEF BuildDelta
  <2>. QED BY <1>4, <2>2, <2>4, <2>5 DEF BuildDelta
<1>5. CASE Assign
  BY <1>5 DEF Assign
<1>6. CASE ReadClock \/ Start
  BY <1>6 DEF ReadClock, Start
<1>. QED BY <1>1, <1>2, <1>3, <1>4, <1>5, <1>6 DEF Callback

(* TargetInv is preserved: a received target and an answer set q_goal_,    *)
(* and the callback goes on to build a trajectory to it.                   *)
LEMMA StepKeepsTarget == TypeOK /\ TargetInv /\ [Next]_vars => TargetInv'
<1> SUFFICES ASSUME TypeOK, TargetInv, [Next]_vars PROVE TargetInv'
  OBVIOUS
<1> USE DEF TargetInv, Undecided, arm, members, control, callback, history
<1>1. CASE Answer
  BY <1>1 DEF Answer
<1>2. CASE AnswerFails
  BY <1>2 DEF AnswerFails
<1>3. ASSUME NEW x \in Configs \cup {Short}, Receive(x) PROVE TargetInv'
  <2>1. CASE x = Short
    BY <1>3, <2>1 DEF Receive
  <2>2. CASE x # Short
    BY <1>3, <2>2 DEF Receive
  <2>. QED BY <2>1, <2>2
<1>4. ASSUME NEW x \in Configs, ReceivePose(x) PROVE TargetInv'
  BY <1>4 DEF ReceivePose
<1>5. CASE UNCHANGED vars
  BY <1>5 DEF vars
<1>. QED
  BY <1>1, <1>2, <1>3, <1>4, <1>5, ControlKeepsTarget, CallbackKeepsTarget
     DEF Next, Step, Ended

(* Whatever messages come in whatever order, and however the callbacks     *)
(* interleave with activations and updates: between two callbacks the      *)
(* CartesianPositionController's trajectory leads to the last target it    *)
(* was given, unless a late answer of the IK service has replaced it or    *)
(* another thread was at q_ or q_goal_ in the midst of it.                 *)
THEOREM LastTarget == Spec => []FollowsLastTarget
<1>1. Init => TypeOK /\ UpdateInv /\ TargetInv
  <2>1. Init => TargetInv
    BY DEF Init, TargetInv
  <2>. QED BY <2>1, InitTyped
<1>2. (TypeOK /\ UpdateInv /\ TargetInv) /\ [Next]_vars
        => (TypeOK /\ UpdateInv /\ TargetInv)'
  BY StepTyped, StepKeepsTarget
<1>3. TargetInv => FollowsLastTarget
  BY DEF TargetInv, FollowsLastTarget
<1>. QED BY <1>1, <1>2, <1>3, PTL DEF Spec

-----------------------------------------------------------------------------
(* Jumps                                                                   *)

(* How far a trajectory is a cycle later, also one that has ended: then    *)
(* the time since its start stays at Top + 1.                              *)
LEMMA AheadAfterMove ==
  ASSUME TypeOK, active \in Controllers, Move
  PROVE  Ahead(age[active])' = Ahead(age[active] + 1)
<1>1. active' = active /\ generator' = generator /\ cb' = cb
  BY DEF Move
<1>2. HalfReplaced' <=> HalfReplaced
  BY <1>1 DEF HalfReplaced
<1>3. age[active] \in 0..(Top + 1) /\ generator[active] \in Generators
  BY DEF TypeOK
<1>4. age'[active] = IF age[active] <= Top THEN age[active] + 1 ELSE age[active]
  BY DEF Move, TypeOK, Later
<1>5. At(generator[active], age'[active]) = At(generator[active], age[active] + 1)
  BY <1>3, <1>4, AtEnds
<1>. QED BY <1>1, <1>2, <1>5 DEF Ahead

(* What the members that trajectories are made of hold.                    *)
LEMMA Ranges ==
  ASSUME TypeOK
  PROVE  /\ generator \in [Controllers -> Generators]
         /\ built \in [{"control", "callback"} -> Generators]
         /\ built["callback"].from \in Configs /\ built["control"].from \in Configs
         /\ age \in [Controllers -> 0..(Top + 1)]
         /\ q \in Configs /\ desired \in Configs /\ measured \in Configs /\ goal \in Configs
         /\ time \in 0..(Top + 1) /\ stamp \in 0..(Top + 1)
         /\ active \in Controllers \cup {"none"}
         /\ cb \in {"idle", "measure", "build", "delta", "assign", "stamp", "start"}
         /\ pc \in {"update", "clock", "fetch", "evaluate", "manage", "activateBuild",
                    "activateAssign", "activateStart", "move"}
BY DEF TypeOK, Generators

(* JumpInv is preserved by the control thread.                             *)
LEMMA ControlKeepsJumpInv == TypeOK /\ JumpInv /\ Control => JumpInv'
<1> SUFFICES ASSUME TypeOK, JumpInv, Control PROVE JumpInv'
  OBVIOUS
<1> USE Ranges DEF JumpInv, UpdateInv, Fits, Goto, Activating, Evaluating, Building,
                   arm, members, callback, history
<1>1. CASE NoUpdate
  BY <1>1, NearIsSymmetric DEF NoUpdate
<1>2. CASE Update
  BY <1>2, NearIsSymmetric DEF Update, Ahead, HalfReplaced
<1>3. CASE UpdateTime
  BY <1>3, NearIsSymmetric DEF UpdateTime, Ahead, HalfReplaced
<1>4. CASE Fetch
  BY <1>4 DEF Fetch, HalfReplaced
<1>5. CASE Evaluate
  <2>1. using \in Generators /\ desired' \in Configs
    BY <1>5, AtIsConfig DEF Evaluate, TypeOK
  <2>2. ~torn => Near(At(generator[active], time + 1), desired')
    BY <1>5, AtIsSteady DEF Evaluate
  <2>3. ~torn => Near(desired', q) /\ Near(q, desired')
    BY <1>5, <2>1, NearIsSymmetric DEF Evaluate
  <2>. QED BY <1>5, <2>1, <2>2, <2>3 DEF Evaluate, Ahead, HalfReplaced
<1>6. CASE EvaluateFreed
  <2>1. torn
    <3>1. generator[active] \in Generators
      BY <1>6 DEF EvaluateFreed
    <3>. QED BY <3>1, <1>6 DEF EvaluateFreed, Generators, Freed
  <2>. QED BY <2>1, <1>6 DEF EvaluateFreed
<1>7. CASE NoSwitch
  BY <1>7 DEF NoSwitch, Ahead, HalfReplaced
<1>8. CASE ActivateBuild
  BY <1>8 DEF ActivateBuild, HalfReplaced
<1>9. CASE ActivateAssign
  BY <1>9, NearIsSymmetric DEF ActivateAssign, HalfReplaced
<1>10. CASE ActivateStart
  BY <1>10, NearIsSymmetric, AtBegins DEF ActivateStart, Ahead, HalfReplaced
<1>11. CASE Move
  BY <1>11, AheadAfterMove, NearIsSymmetric DEF Move, HalfReplaced, Later
<1>. QED
  BY <1>1, <1>2, <1>3, <1>4, <1>5, <1>6, <1>7, <1>8, <1>9, <1>10, <1>11 DEF Control

(* JumpInv is preserved by a switch of controllers: an activation sends    *)
(* the arm to where it is and begins a trajectory there.                   *)
LEMMA SwitchKeepsJumpInv ==
  TypeOK /\ JumpInv /\ (Deactivate \/ ActivateMoveToStart \/ Activate) => JumpInv'
<1> SUFFICES ASSUME TypeOK, JumpInv, Deactivate \/ ActivateMoveToStart \/ Activate
             PROVE  JumpInv'
  OBVIOUS
<1> USE Ranges DEF JumpInv, UpdateInv, Fits, Goto, Activating, Evaluating, Building,
                   members, callback, history
<1>1. CASE Deactivate
  BY <1>1, NearIsSymmetric DEF Deactivate
<1>2. CASE ActivateMoveToStart
  <2>1. [from |-> q, to |-> Home] \in Generators
    BY DEF Generators
  <2>2. At([from |-> q, to |-> Home], 1) = q
    BY <2>1, AtBegins
  <2>. QED BY <1>2, <2>2, NearIsSymmetric DEF ActivateMoveToStart, Ahead
<1>3. CASE Activate
  BY <1>3 DEF Activate, HalfReplaced
<1>. QED BY <1>1, <1>2, <1>3

(* JumpInv is preserved by the callbacks: outside an update they build     *)
(* from where the arm is, and until start_time_ is reset the new           *)
(* trajectory counts from its beginning.                                   *)
LEMMA CallbackKeepsJumpInv == TypeOK /\ JumpInv /\ Callback => JumpInv'
<1> SUFFICES ASSUME TypeOK, JumpInv, Callback PROVE JumpInv'
  OBVIOUS
<1> USE Ranges DEF JumpInv, UpdateInv, Fits, Activating, Evaluating, Building,
                   arm, members, control, callback, history
<1>1. CASE Measure
  BY <1>1, NearIsSymmetric DEF Measure, Ahead, HalfReplaced
<1>2. CASE MeasureReleased \/ AssignTogether
  BY <1>2 DEF MeasureReleased, AssignTogether, Ahead, HalfReplaced
<1>3. CASE BuildStart
  BY <1>3 DEF BuildStart, Ahead, HalfReplaced
<1>4. CASE BuildDelta
  <2>1. built'["callback"].from = built["callback"].from /\ built'["control"] = built["control"]
    BY <1>4 DEF BuildDelta, Generators
  <2>. QED BY <1>4, <2>1 DEF BuildDelta, Ahead, HalfReplaced
<1>5. CASE Assign
  BY <1>5, NearIsSymmetric DEF Assign, Ahead, HalfReplaced
<1>6. CASE ReadClock
  BY <1>6 DEF ReadClock, Ahead, HalfReplaced
<1>7. CASE Start
  BY <1>7, AtBegins DEF Start, Ahead, HalfReplaced
<1>. QED BY <1>1, <1>2, <1>3, <1>4, <1>5, <1>6, <1>7 DEF Callback

(* JumpInv is preserved by messages and answers: they do not touch the     *)
(* trajectory before the callback goes on.                                 *)
LEMMA MessageKeepsJumpInv ==
  ASSUME TypeOK, JumpInv,
         \/ Answer \/ AnswerFails
         \/ \E x \in Configs \cup {Short} : Receive(x)
         \/ \E x \in Configs : ReceivePose(x)
  PROVE  JumpInv'
<1> USE DEF JumpInv, UpdateInv, Fits, Activating, Evaluating, Building, Ahead, HalfReplaced,
            arm, members, control, callback, history
<1>1. CASE Answer
  BY <1>1 DEF Answer
<1>2. CASE AnswerFails
  BY <1>2 DEF AnswerFails
<1>3. ASSUME NEW x \in Configs \cup {Short}, Receive(x) PROVE JumpInv'
  BY <1>3 DEF Receive
<1>4. ASSUME NEW x \in Configs, ReceivePose(x) PROVE JumpInv'
  BY <1>4 DEF ReceivePose
<1>. QED BY <1>1, <1>2, <1>3, <1>4

(* An evaluation that is not torn asks for a place within a step.          *)
LEMMA EvaluateIsNear ==
  ASSUME TypeOK, JumpInv, Next, pc = "evaluate", pc' = "manage", ~torn
  PROVE  desired' - q \in -1..1
<1>1. active \in Controllers /\ generator[active] \in Generators /\ using # Freed
  <2>1. active \in Controllers /\ using = generator[active]
    BY DEF TypeOK, JumpInv, UpdateInv
  <2>2. generator[active] \in Generators
    BY <2>1 DEF TypeOK
  <2>. QED BY <2>1, <2>2 DEF Generators, Freed
<1>2. Evaluate
  <2>1. Control \/ pc' = pc \/ pc = "manage"
    BY DEF Next, Step, Ended, vars, control, Callback, Deactivate, ActivateMoveToStart,
           Activate, Measure, MeasureReleased, BuildStart, BuildDelta, Assign,
           AssignTogether, ReadClock, Start, Answer, AnswerFails, Receive, ReceivePose, Goto
  <2>. QED BY <1>1, <2>1 DEF Control, NoUpdate, Update, UpdateTime, Fetch, EvaluateFreed,
                            NoSwitch, ActivateBuild, ActivateAssign, ActivateStart, Move, Goto
<1>. QED BY <1>2 DEF Evaluate, JumpInv, Near

(* The arm is never asked to jump, whatever targets replace each other     *)
(* halfway and whatever is activated over what, while what a callback puts *)
(* in place of motion_generator_ and start_time_ begins where the arm is   *)
(* and is there before update() evaluates another time.                    *)
THEOREM NoJumpUnlessTorn == Spec => NoJump
<1>1. Init => TypeOK /\ UpdateInv /\ JumpInv
  <2>1. Init => JumpInv
    BY DEF Init, JumpInv, UpdateInv, Activating, Evaluating, Near
  <2>. QED BY <2>1, InitTyped
<1>2. (TypeOK /\ UpdateInv /\ JumpInv) /\ [Next]_vars => (TypeOK /\ UpdateInv /\ JumpInv)'
  <2> SUFFICES ASSUME TypeOK, UpdateInv, JumpInv, [Next]_vars
               PROVE  (TypeOK /\ UpdateInv /\ JumpInv)'
    OBVIOUS
  <2>1. CASE UNCHANGED vars
    BY <2>1 DEF vars, arm, members, control, callback, history, TypeOK, UpdateInv, JumpInv,
                Fits, Activating, Evaluating, Building, Ahead, HalfReplaced
  <2>2. CASE Next
    <3>1. JumpInv' \/ UNCHANGED vars
      BY <2>2, ControlKeepsJumpInv, SwitchKeepsJumpInv, CallbackKeepsJumpInv,
         MessageKeepsJumpInv DEF Next, Step, Ended
    <3>. QED BY <2>1, <3>1, StepTyped
  <2>. QED BY <2>1, <2>2
<1>3. (TypeOK /\ JumpInv) /\ [Next]_vars
        => [pc = "evaluate" /\ pc' = "manage" /\ ~torn => desired' - q \in -1..1]_vars
  BY EvaluateIsNear
<1>. QED BY <1>1, <1>2, <1>3, PTL DEF Spec, NoJump
=============================================================================
