---------------------------- MODULE KinematicsNode ----------------------------
(***************************************************************************)
(* The four nodes of romer_publishers that compute with the arm's          *)
(* kinematics: the services cartesian_to_joint, joint_to_cartesian and     *)
(* coriolis, and joint_position_publisher, which subscribes to poses.      *)
(*                                                                         *)
(* All are built alike.  The constructor offers the service (or subscribes)*)
(* first, then waits three seconds for robot_state_publisher, asks it for  *)
(* the URDF, and constructs the solvers.  While it waits for the URDF the  *)
(* node spins: a request is handled before there is a solver.  When the    *)
(* constructor gives up, the node goes on spinning without one.            *)
(***************************************************************************)
EXTENDS Integers, Sequences, FiniteSets, SequencesExt

CONSTANTS
    Joint, Unlimited, Fixed,   \* the segments of a chain: a joint with limits,
                               \* one without, none at all
    Chains,                    \* the chains a URDF may describe
    Bad,                       \* a description without such a chain
    Poses,
    Branches,                  \* the arm reaches a pose in several ways
    HomeBranch, ZeroBranch,
    Depth,                     \* of the queue of requests or of poses
    MaxRequests,
    None

Roles      == {"cartesian_to_joint", "joint_to_cartesian", "coriolis", "publisher"}
Configs    == [pose : Poses \cup {None}, branch : Branches]

(* The seeds: the ready pose of the arm, and all joints at zero.           *)
Home  == [pose |-> None, branch |-> HomeBranch]
Zeros == [pose |-> None, branch |-> ZeroBranch]

ASSUME NodeAssumption ==
    /\ Chains \subseteq Seq({Joint, Unlimited, Fixed}) /\ Bad \notin Chains
    /\ HomeBranch \in Branches /\ ZeroBranch \in Branches
    /\ None \notin Poses /\ None \notin Configs
    /\ Depth \in Nat \ {0} /\ MaxRequests \in Nat

VARIABLES
    role,
    description,   \* the URDF robot_state_publisher has
    up,            \* robot_state_publisher is there
    pc,            \* the node's only thread
    asking,        \* the request for the URDF is with robot_state_publisher
    solver,        \* the solvers exist
    limits,        \* joint_min_ and joint_max_
    lastConfig,    \* q_last_
    seeded,        \* q_initialized
    out,           \* the joints answered or published last
    queue,         \* requests, or poses
    received, taken

nodeVars == <<solver, limits, lastConfig, seeded, out>>
vars == <<role, description, up, pc, asking, nodeVars, queue, received, taken>>

-----------------------------------------------------------------------------
(* The constructor                                                         *)

Found ==                            \* wait_for_service(3s), and get_parameters
    /\ pc = "waiting" /\ up
    /\ pc' = "loading" /\ asking' = TRUE
    /\ UNCHANGED <<role, description, up, nodeVars, queue, received, taken>>

GivesUpNever ==                     \* faulty: waits again
    /\ pc = "waiting" /\ ~up
    /\ UNCHANGED vars

GivesUp ==
    /\ pc = "waiting" /\ ~up
    /\ pc' = "spinning"
    /\ UNCHANGED <<role, description, up, asking, nodeVars, queue, received, taken>>

LoadFails ==                        \* no URDF, no tree, no chain
    /\ pc = "loading" /\ asking /\ description = Bad
    /\ pc' = "spinning" /\ asking' = FALSE
    /\ UNCHANGED <<role, description, up, nodeVars, queue, received, taken>>

(* The joints among the first n segments: Chain::getNrOfJoints.            *)
Joints(chain, n) == Cardinality({i \in 1 .. n : chain[i] # Fixed})
NoLimits(chain) == [j \in 1 .. Joints(chain, Len(chain)) |-> None]

LimitsOfSegments(chain) ==          \* faulty: counts the fixed segments too
    FoldLeft(LAMBDA acc, s : [j |-> acc.j + 1,
                              q |-> IF s = Fixed THEN acc.q
                                    ELSE [acc.q EXCEPT ![acc.j] = s]],
             [j |-> 1, q |-> NoLimits(chain)], chain).q

(* The loop over the segments: the j-th limits are those of the segment's  *)
(* joint, or -pi and pi when the URDF gives it none.                       *)
LimitsOf(chain) ==
    FoldLeft(LAMBDA acc, s : IF s = Fixed THEN acc
                             ELSE [j |-> acc.j + 1, q |-> [acc.q EXCEPT ![acc.j] = s]],
             [j |-> 1, q |-> NoLimits(chain)], chain).q

Load ==
    /\ pc = "loading" /\ asking /\ description # Bad
    /\ pc' = "spinning" /\ asking' = FALSE
    /\ solver' = TRUE
    /\ limits' = IF role \in {"cartesian_to_joint", "publisher"}
                 THEN LimitsOf(description) ELSE limits
    /\ lastConfig' = IF role = "cartesian_to_joint" THEN Home ELSE lastConfig
    /\ UNCHANGED <<role, description, up, seeded, out, queue, received, taken>>

-----------------------------------------------------------------------------
(* What the node spins for                                                 *)

Taken ==
    /\ pc \in {"loading", "spinning"} /\ queue # <<>>
    /\ queue' = Tail(queue) /\ taken' = taken + 1

(* ChainIkSolverPos_NR_JL: Newton steps from the seed.  What converges is  *)
(* the solution of the seed's branch; q_result is some iterate otherwise.  *)
Solutions(seed, pose) ==
    {[ok |-> TRUE, q |-> [pose |-> pose, branch |-> seed.branch]]}
      \cup {[ok |-> FALSE, q |-> [pose |-> None, branch |-> b]] : b \in Branches}

HandlePose ==
    /\ role = "cartesian_to_joint" /\ solver /\ Taken
    /\ \E s \in Solutions(lastConfig, Head(queue).pose) :
         IF s.ok THEN out' = s.q /\ lastConfig' = s.q
                 ELSE UNCHANGED <<out, lastConfig>>
    /\ UNCHANGED <<role, description, up, pc, asking, solver, limits, seeded, received>>

(* The position of a joint that the message has not is read all the same.  *)
HandleJoints ==
    /\ role = "joint_to_cartesian" /\ solver /\ Taken
    /\ pc' \in IF Head(queue).whole THEN {pc} ELSE {pc, "dead"}
    /\ UNCHANGED <<role, description, up, asking, nodeVars, received>>

(* Positions and velocities; Coriolis and gravity vectors.                 *)
HandleCoriolis ==
    /\ role = "coriolis" /\ solver /\ Taken
    /\ pc' \in IF Head(queue).whole THEN {pc} ELSE {pc, "dead"}
    /\ UNCHANGED <<role, description, up, asking, nodeVars, received>>

Seed == IF seeded THEN lastConfig ELSE Home

PoseCallbackKeepsIterate ==         \* faulty: stores q_result whether or not it is a solution
    /\ role = "publisher" /\ solver /\ Taken
    /\ seeded' = TRUE
    /\ \E s \in Solutions(Seed, Head(queue).pose) :
         /\ lastConfig' = s.q
         /\ out' = IF s.ok THEN s.q ELSE out
    /\ UNCHANGED <<role, description, up, pc, asking, solver, limits, received>>

(* The first pose resizes q_last_, which leaves it at zero if the solver   *)
(* fails: the next pose is then solved from there.                         *)
PoseCallback ==
    /\ role = "publisher" /\ solver /\ Taken
    /\ seeded' = TRUE
    /\ \E s \in Solutions(Seed, Head(queue).pose) :
         /\ lastConfig' = IF s.ok THEN s.q ELSE IF seeded THEN lastConfig ELSE Zeros
         /\ out' = IF s.ok THEN s.q ELSE out
    /\ UNCHANGED <<role, description, up, pc, asking, solver, limits, received>>

(* The callbacks dereference the solver, whether it is there or not.       *)
Dies ==
    /\ ~solver /\ Taken
    /\ pc' = "dead"
    /\ UNCHANGED <<role, description, up, asking, nodeVars, received>>

Handle == HandlePose \/ HandleJoints \/ HandleCoriolis \/ PoseCallback \/ Dies

-----------------------------------------------------------------------------
(* Everybody else                                                          *)

(* The queue keeps the last Depth of them.                                 *)
Receive(r) ==
    /\ pc # "dead" /\ received < MaxRequests
    /\ received' = received + 1
    /\ IF Len(queue) < Depth
         THEN queue' = Append(queue, r) /\ UNCHANGED taken
         ELSE queue' = Append(Tail(queue), r) /\ taken' = taken + 1
    /\ UNCHANGED <<role, description, up, pc, asking, nodeVars>>

(* robot_state_publisher ends with the request, or begins without it.      *)
Toggle ==
    /\ up' = ~up /\ asking' = FALSE
    /\ UNCHANGED <<role, description, pc, nodeVars, queue, received, taken>>

Requests == [pose : Poses, whole : BOOLEAN]

Init ==
    /\ role \in Roles
    /\ description \in Chains \cup {Bad} /\ up \in BOOLEAN
    /\ pc = "waiting" /\ asking = FALSE
    /\ solver = FALSE /\ limits = <<>> /\ seeded = FALSE
    /\ lastConfig = None /\ out = None
    /\ queue = <<>> /\ received = 0 /\ taken = 0

Thread == Found \/ GivesUp \/ LoadFails \/ Load \/ Handle

Next == Thread \/ Toggle \/ (\E r \in Requests : Receive(r))

Spec == Init /\ [][Next]_vars

(* The node's thread goes on: wait_for_service ends after three seconds,   *)
(* the spinning executor takes what there is.                              *)
FairSpec == Spec /\ WF_vars(Thread)
-----------------------------------------------------------------------------
(* The variables keep their types.                                         *)
TypeOK ==
    /\ role \in Roles /\ description \in Chains \cup {Bad} /\ up \in BOOLEAN
    /\ pc \in {"waiting", "loading", "spinning", "dead"} /\ asking \in BOOLEAN
    /\ solver \in BOOLEAN /\ seeded \in BOOLEAN
    /\ lastConfig \in Configs \cup {None} /\ out \in Configs \cup {None}
    /\ queue \in Seq(Requests) /\ Len(queue) <= Depth
    /\ received \in 0 .. MaxRequests /\ taken = received - Len(queue)

(* The j-th limits the solver is given are those of the j-th joint,       *)
(* wherever the chain has fixed segments, and every joint has some.        *)
LimitsAreTheJoints ==
    IF solver /\ role \in {"cartesian_to_joint", "publisher"}
    THEN /\ DOMAIN limits = 1 .. Joints(description, Len(description))
         /\ \A i \in DOMAIN description :
              description[i] # Fixed =>
                limits[Joints(description, i)] = description[i]
    ELSE limits = <<>>

(* The arm does not change its branch between two sets of joints a node    *)
(* gives, however many poses in between could not be reached.              *)
ContinuesLast == [][out # None => out'.branch = out.branch]_out

(* The node looks at every request, or drops it for newer ones, or dies,   *)
(* with robot_state_publisher or without.                                  *)
RequestsTaken ==
    \A n \in 1 .. MaxRequests : received >= n ~> taken >= n \/ pc = "dead"
=============================================================================
