------------------------- MODULE KinematicsNodeProofs -------------------------
(***************************************************************************)
(* The kinematics nodes keep their types, give joints of one branch, and   *)
(* give their solvers the limits of the joints in order, whatever the      *)
(* queue, the chains and the poses.  LimitsOf folds the chain with the     *)
(* choice of a function: that there is such a function, and what it makes  *)
(* of the first n segments, is shown by the least n for which it is not.   *)
(***************************************************************************)
EXTENDS KinematicsNode, FiniteSetTheorems, TLAPS

(* Receiving and taking keep the queue and its count.                      *)
LEMMA QueueTail ==
    ASSUME NEW q \in Seq(Requests), q # <<>>
    PROVE  /\ Tail(q) \in Seq(Requests) /\ Len(Tail(q)) = Len(q) - 1
           /\ Head(q) \in Requests /\ Len(q) \in Nat \ {0}
  OBVIOUS

LEMMA QueueAppend ==
    ASSUME NEW q \in Seq(Requests), NEW r \in Requests
    PROVE  /\ Append(q, r) \in Seq(Requests) /\ Len(Append(q, r)) = Len(q) + 1
  OBVIOUS

(* A solution is of the branch of its seed.                                *)
LEMMA SolutionsAreConfigs ==
    ASSUME NEW c \in Configs, NEW p \in Poses, NEW s \in Solutions(c, p)
    PROVE  s.ok \in BOOLEAN /\ s.q \in Configs /\ (s.ok => s.q.branch = c.branch)
  <1>1. CASE s = [ok |-> TRUE, q |-> [pose |-> p, branch |-> c.branch]]
    BY <1>1 DEF Configs
  <1>2. CASE \E b \in Branches : s = [ok |-> FALSE, q |-> [pose |-> None, branch |-> b]]
    BY <1>2 DEF Configs
  <1> QED  BY <1>1, <1>2 DEF Solutions

LEMMA SeedsAreConfigs == Home \in Configs /\ Zeros \in Configs
  BY NodeAssumption DEF Home, Zeros, Configs

(* Strengthening: a solver that has been constructed has a seed, and when  *)
(* joints have been given, the seed of the next is of their branch.        *)
SeedInv ==
    /\ role = "cartesian_to_joint" /\ solver => lastConfig \in Configs
    /\ role = "publisher" /\ seeded => lastConfig \in Configs
    /\ out # None => /\ solver /\ lastConfig \in Configs
                     /\ lastConfig.branch = out.branch
                     /\ role = "publisher" => seeded
    /\ pc = "waiting" => ~solver
    /\ asking => pc \in {"loading", "dead"}
    /\ pc = "loading" => ~solver

NodeInv == TypeOK /\ SeedInv

LEMMA InitNodeInv == Init => NodeInv
  <1> SUFFICES ASSUME Init PROVE NodeInv
    OBVIOUS
  <1>1. asking = FALSE /\ solver = FALSE /\ seeded = FALSE /\ asking \in BOOLEAN
        /\ solver \in BOOLEAN /\ seeded \in BOOLEAN
    BY Zenon DEF Init
  <1>2. queue \in Seq(Requests) /\ Len(queue) <= Depth /\ received \in 0 .. MaxRequests
        /\ taken = received - Len(queue)
    <2>1. received = 0 /\ taken = 0
      BY DEF Init
    <2>2. Depth \in Nat /\ MaxRequests \in Nat
      BY NodeAssumption
    <2>3. queue \in Seq(Requests) /\ Len(queue) = 0
      BY DEF Init
    <2> QED  BY <2>1, <2>2, <2>3
  <1>3. TypeOK
    BY <1>1, <1>2 DEF Init, TypeOK
  <1>4. SeedInv
    BY <1>1 DEF Init, SeedInv
  <1> QED  BY <1>3, <1>4 DEF NodeInv

(* Taking the head of the queue.                                           *)
LEMMA TakenTypes ==
    ASSUME TypeOK, Taken, received' = received
    PROVE  /\ queue' \in Seq(Requests) /\ Len(queue') <= Depth
           /\ taken' = received' - Len(queue')
           /\ Head(queue) \in Requests /\ Head(queue).pose \in Poses
  <1>1. queue \in Seq(Requests) /\ queue # <<>> /\ Len(queue) <= Depth
        /\ taken = received - Len(queue) /\ received \in Nat /\ Depth \in Nat
    BY NodeAssumption DEF TypeOK, Taken
  <1>2. /\ Tail(queue) \in Seq(Requests) /\ Len(Tail(queue)) = Len(queue) - 1
        /\ Head(queue) \in Requests /\ Len(queue) \in Nat \ {0}
    BY <1>1, QueueTail
  <1>3. queue' = Tail(queue) /\ taken' = taken + 1
    BY DEF Taken
  <1>4. Head(queue).pose \in Poses
    BY <1>2 DEF Requests
  <1> QED  BY <1>1, <1>2, <1>3, <1>4

LEMMA NextNodeInv == NodeInv /\ [Next]_vars => NodeInv' /\ (out # None => out'.branch = out.branch)
  <1> SUFFICES ASSUME NodeInv, [Next]_vars
               PROVE  NodeInv' /\ (out # None => out'.branch = out.branch)
    OBVIOUS
  <1> USE DEF NodeInv
  <1>1. CASE Found
    BY <1>1, NodeAssumption DEF Found, TypeOK, SeedInv, nodeVars
  <1>2. CASE GivesUp
    BY <1>2, NodeAssumption DEF GivesUp, TypeOK, SeedInv, nodeVars
  <1>3. CASE LoadFails
    BY <1>3, NodeAssumption DEF LoadFails, TypeOK, SeedInv, nodeVars
  <1>4. CASE Load
    <2>1. out = None
      BY <1>4 DEF Load, SeedInv
    <2> QED  BY <1>4, <2>1, SeedsAreConfigs, NodeAssumption DEF Load, TypeOK, SeedInv
  <1>5. CASE HandlePose
    <2>1. PICK s \in Solutions(lastConfig, Head(queue).pose) :
            IF s.ok THEN out' = s.q /\ lastConfig' = s.q ELSE UNCHANGED <<out, lastConfig>>
      BY <1>5 DEF HandlePose
    <2>2. received' = received /\ Taken
      BY <1>5 DEF HandlePose
    <2>3. lastConfig \in Configs
      BY <1>5 DEF HandlePose, SeedInv
    <2>4. s.ok \in BOOLEAN /\ s.q \in Configs /\ (s.ok => s.q.branch = lastConfig.branch)
      BY <2>2, <2>3, TakenTypes, SolutionsAreConfigs
    <2>5. CASE s.ok
      BY <1>5, <2>1, <2>2, <2>3, <2>4, <2>5, TakenTypes DEF HandlePose, TypeOK, SeedInv
    <2>6. CASE ~s.ok
      BY <1>5, <2>1, <2>2, <2>3, <2>6, TakenTypes DEF HandlePose, TypeOK, SeedInv
    <2> QED  BY <2>5, <2>6
  <1>6. CASE HandleJoints
    <2>1. pc' \in {pc, "dead"} /\ received' = received /\ Taken
      BY <1>6 DEF HandleJoints
    <2> QED  BY <1>6, <2>1, TakenTypes DEF HandleJoints, TypeOK, SeedInv, nodeVars
  <1>7. CASE HandleCoriolis
    <2>1. pc' \in {pc, "dead"} /\ received' = received /\ Taken
      BY <1>7 DEF HandleCoriolis
    <2> QED  BY <1>7, <2>1, TakenTypes DEF HandleCoriolis, TypeOK, SeedInv, nodeVars
  <1>8. CASE PoseCallback
    <2>1. PICK s \in Solutions(Seed, Head(queue).pose) :
            /\ lastConfig' = IF s.ok THEN s.q ELSE IF seeded THEN lastConfig ELSE Zeros
            /\ out' = IF s.ok THEN s.q ELSE out
      BY <1>8 DEF PoseCallback
    <2>2. received' = received /\ Taken
      BY <1>8 DEF PoseCallback
    <2>3. Seed \in Configs /\ (seeded => lastConfig \in Configs /\ Seed = lastConfig)
      BY <1>8, SeedsAreConfigs DEF PoseCallback, SeedInv, Seed
    <2>4. s.ok \in BOOLEAN /\ s.q \in Configs /\ (s.ok => s.q.branch = Seed.branch)
      BY <2>2, <2>3, TakenTypes, SolutionsAreConfigs
    <2>5. out # None => seeded /\ lastConfig.branch = out.branch
      BY <1>8 DEF PoseCallback, SeedInv
    <2>6. CASE s.ok
      BY <1>8, <2>1, <2>2, <2>3, <2>4, <2>5, <2>6, TakenTypes DEF PoseCallback, TypeOK, SeedInv
    <2>7. CASE ~s.ok
      <3>1. lastConfig' \in Configs /\ out' = out /\ (seeded => lastConfig' = lastConfig)
        BY <2>1, <2>3, <2>7, SeedsAreConfigs
      <3> QED  BY <1>8, <2>2, <2>5, <3>1, TakenTypes DEF PoseCallback, TypeOK, SeedInv
    <2> QED  BY <2>6, <2>7
  <1>9. CASE Dies
    BY <1>9, TakenTypes DEF Dies, TypeOK, SeedInv, nodeVars
  <1>10. CASE Toggle
    BY <1>10 DEF Toggle, TypeOK, SeedInv, nodeVars
  <1>11. ASSUME NEW r \in Requests, Receive(r)  PROVE NodeInv' /\ (out # None => out'.branch = out.branch)
    <2>1. queue \in Seq(Requests) /\ Len(queue) <= Depth /\ taken = received - Len(queue)
          /\ received \in 0 .. MaxRequests /\ Depth \in Nat \ {0} /\ MaxRequests \in Nat
          /\ Len(queue) \in Nat
      BY NodeAssumption DEF TypeOK
    <2>2. received' \in 0 .. MaxRequests /\ received' = received + 1
      BY <1>11, <2>1 DEF Receive
    <2>3. queue' \in Seq(Requests) /\ Len(queue') <= Depth /\ taken' = received' - Len(queue')
      <3>1. CASE Len(queue) < Depth
        BY <1>11, <2>1, <2>2, <3>1, QueueAppend DEF Receive
      <3>2. CASE ~(Len(queue) < Depth)
        <4>1. queue # <<>>
          BY <2>1, <3>2
        <4>2. Tail(queue) \in Seq(Requests) /\ Len(Tail(queue)) = Len(queue) - 1
          BY <2>1, <4>1, QueueTail
        <4>3. queue' = Append(Tail(queue), r) /\ taken' = taken + 1
          BY <1>11, <3>2 DEF Receive
        <4>4. Append(Tail(queue), r) \in Seq(Requests) /\ Len(Append(Tail(queue), r)) = Len(queue)
          BY <1>11, <2>1, <4>2, QueueAppend
        <4> QED  BY <2>1, <2>2, <4>3, <4>4
      <3> QED  BY <3>1, <3>2
    <2> QED  BY <1>11, <2>2, <2>3 DEF Receive, TypeOK, SeedInv, nodeVars
  <1>12. CASE UNCHANGED vars
    BY <1>12 DEF vars, nodeVars, TypeOK, SeedInv
  <1> QED
    BY <1>1, <1>2, <1>3, <1>4, <1>5, <1>6, <1>7, <1>8, <1>9, <1>10, <1>11, <1>12
    DEF Next, Thread, Handle

(* Every node keeps its types, and never queues more than Depth requests.  *)
THEOREM NodeTypeCorrect == Spec => []TypeOK
  <1>1. NodeInv => TypeOK
    BY DEF NodeInv
  <1>2. NodeInv /\ [Next]_vars => NodeInv'
    BY NextNodeInv
  <1> QED  BY InitNodeInv, <1>1, <1>2, PTL DEF Spec

(* The joints a node gives stay on one branch, however many poses between  *)
(* them cannot be reached: q_last_ changes only with an answer, or before  *)
(* the first.                                                              *)
THEOREM AnswersStayOnBranch == Spec => ContinuesLast
  <1>1. NodeInv /\ [Next]_vars => NodeInv'
    BY NextNodeInv
  <1>2. NodeInv /\ [Next]_vars => [out # None => out'.branch = out.branch]_out
    BY NextNodeInv
  <1> QED  BY InitNodeInv, <1>1, <1>2, PTL DEF Spec, ContinuesLast

-----------------------------------------------------------------------------
(* The limits of the joints                                                *)

(* What LimitsOf does with a segment.                                      *)
SetLimits(acc, s) ==
    IF s = Fixed THEN acc
    ELSE [j |-> acc.j + 1, q |-> [acc.q EXCEPT ![acc.j] = s]]

(* The last segment of s.                                                *)
Greatest(s) == CHOOSE i \in s : \A k \in s : i >= k

(* g folds the segments of S, the last one last.                           *)
Folds(chain, S, g) ==
    g = [s \in SUBSET S |->
           IF s = {} THEN [j |-> 1, q |-> NoLimits(chain)]
           ELSE SetLimits(g[s \ {Greatest(s)}], chain[Greatest(s)])]

(* LimitsOf is what such a fold of the whole chain makes of it.            *)
LEMMA LimitsAreFolded ==
    ASSUME NEW chain
    PROVE  LimitsOf(chain) = (CHOOSE g : Folds(chain, DOMAIN chain, g))[DOMAIN chain].q
  BY Zenon DEF LimitsOf, FoldLeft, MapThenFoldSet, Folds, SetLimits, Max, Greatest


(* Induction on the naturals: what fails somewhere fails first somewhere.  *)
LEMMA LeastNatural ==
    ASSUME NEW T, T \subseteq Nat, T # {}
    PROVE  \E n \in T : \A m \in T : n <= m
  <1> DEFINE R == OpToRel(<, Nat)
  <1>1. IsWellFoundedOn(R, Nat)
    BY NatLessThanWellFounded
  <1>2. \A x, y \in Nat : y < x => <<y, x>> \in R
    BY DEF OpToRel
  <1> HIDE DEF R
  <1>3. PICK x \in T : \A y \in T : ~ (<<y, x>> \in R)
    <2>1. \E x \in T : \A y \in T : ~ (<<y, x>> \in R)
      BY <1>1, WFMin, Zenon
    <2> QED  BY <2>1
  <1>4. ASSUME NEW y \in T PROVE x <= y
    <2>1. ~ (y < x)
      BY <1>2, <1>3, Zenon
    <2> QED BY <2>1
  <1> QED BY <1>4

(* The last of the first n segments is the n-th.                           *)
LEMMA GreatestIs ==
    ASSUME NEW n \in Nat, NEW s \in SUBSET (1 .. n), n \in s
    PROVE  Greatest(s) = n
  <1>1. \A i \in s : (\A k \in s : i >= k) => i = n
    OBVIOUS
  <1>2. n \in s /\ \A k \in s : n >= k
    OBVIOUS
  <1> QED  BY <1>1, <1>2 DEF Greatest

(* A fold of n segments extends to one of n + 1 ...                        *)
LEMMA FoldsGrow ==
    ASSUME NEW chain, NEW n \in Nat, NEW g, Folds(chain, 1 .. n, g)
    PROVE  \E h : Folds(chain, 1 .. (n + 1), h)
  <1> DEFINE base == [j |-> 1, q |-> NoLimits(chain)]
             h == [s \in SUBSET (1 .. (n + 1)) |->
                     IF n + 1 \in s THEN SetLimits(g[s \ {n + 1}], chain[n + 1]) ELSE g[s]]
             f == [s \in SUBSET (1 .. (n + 1)) |->
                     IF s = {} THEN base ELSE SetLimits(h[s \ {Greatest(s)}], chain[Greatest(s)])]
  <1>1. \A s \in SUBSET (1 .. n) : h[s] = g[s]
    <2> SUFFICES ASSUME NEW s \in SUBSET (1 .. n)  PROVE h[s] = g[s]
      OBVIOUS
    <2>1. s \in SUBSET (1 .. (n + 1)) /\ n + 1 \notin s
      OBVIOUS
    <2> QED  BY <2>1, Zenon
  <1>2. \A s \in SUBSET (1 .. (n + 1)) :
           h[s] = IF s = {} THEN base ELSE SetLimits(h[s \ {Greatest(s)}], chain[Greatest(s)])
    <2> SUFFICES ASSUME NEW s \in SUBSET (1 .. (n + 1))
                 PROVE  h[s] = IF s = {} THEN base
                               ELSE SetLimits(h[s \ {Greatest(s)}], chain[Greatest(s)])
      OBVIOUS
    <2>1. CASE n + 1 \in s
      <3>1. h[s] = SetLimits(g[s \ {n + 1}], chain[n + 1])
        BY <2>1, Zenon
      <3>2. Greatest(s) = n + 1
        BY <2>1, GreatestIs, n + 1 \in Nat
      <3>3. s \ {n + 1} \in SUBSET (1 .. n)
        OBVIOUS
      <3> HIDE DEF h, base
      <3>4. h[s \ {n + 1}] = g[s \ {n + 1}]
        BY <1>1, <3>3, Zenon
      <3>5. s # {}
        BY <2>1
      <3> QED  BY <3>1, <3>2, <3>4, <3>5, Zenon
    <2>2. CASE n + 1 \notin s
      <3>1. s \in SUBSET (1 .. n)
        BY <2>2
      <3>2. s \ {Greatest(s)} \in SUBSET (1 .. n)
        BY <3>1
      <3>3. g[s] = IF s = {} THEN base ELSE SetLimits(g[s \ {Greatest(s)}], chain[Greatest(s)])
        <4>1. \A t \in SUBSET (1 .. n) :
                g[t] = IF t = {} THEN [j |-> 1, q |-> NoLimits(chain)]
                       ELSE SetLimits(g[t \ {Greatest(t)}], chain[Greatest(t)])
          BY Zenon DEF Folds
        <4> HIDE DEF h, f
        <4> QED  BY <3>1, <4>1
      <3> HIDE DEF h, base
      <3>4. h[s] = g[s] /\ h[s \ {Greatest(s)}] = g[s \ {Greatest(s)}]
        BY <1>1, <3>1, <3>2, Zenon
      <3> QED  BY <3>3, <3>4, Zenon
    <2> QED  BY <2>1, <2>2
  <1>3. h = f
    <2> HIDE DEF base
    <2>1. h = [s \in SUBSET (1 .. (n + 1)) |-> h[s]]
      BY Zenon
    <2> HIDE DEF h
    <2> QED  BY <2>1, <1>2
  <1>4. Folds(chain, 1 .. (n + 1), h)
    <2> HIDE DEF h
    <2> QED BY <1>3, Zenon DEF Folds
  <1> QED  BY <1>4, Zenon

(* ... so that any number of segments is folded.                           *)
LEMMA FoldsExist ==
    ASSUME NEW chain, NEW n \in Nat
    PROVE  \E g : Folds(chain, 1 .. n, g)
  <1> DEFINE D == {k \in Nat : ~ \E g : Folds(chain, 1 .. k, g)}
  <1> SUFFICES ASSUME D # {} PROVE FALSE
    OBVIOUS
  <1>1. PICK k \in D : \A m \in D : k <= m
    <2>1. D \subseteq Nat
      OBVIOUS
    <2> HIDE DEF D
    <2> QED  BY <2>1, LeastNatural
  <1>2. CASE k = 0
    <2> DEFINE g == [s \in SUBSET (1 .. 0) |-> [j |-> 1, q |-> NoLimits(chain)]]
    <2>1. \A s \in SUBSET (1 .. 0) : s = {}
      OBVIOUS
    <2>2. g = [s \in SUBSET (1 .. 0) |->
                 IF s = {} THEN [j |-> 1, q |-> NoLimits(chain)]
                 ELSE SetLimits(g[s \ {Greatest(s)}], chain[Greatest(s)])]
      BY <2>1, Zenon
    <2>3. Folds(chain, 1 .. 0, g)
      <3> HIDE DEF g
      <3> QED  BY <2>2, Zenon DEF Folds
    <2> QED  BY <1>2, <2>3, Zenon
  <1>3. CASE k # 0
    <2>1. k - 1 \in Nat /\ k - 1 \notin D /\ (k - 1) + 1 = k
      BY <1>1, <1>3
    <2>2. PICK g : Folds(chain, 1 .. (k - 1), g)
      BY <2>1, Zenon
    <2>3. \E h : Folds(chain, 1 .. ((k - 1) + 1), h)
      BY <2>1, <2>2, FoldsGrow, Zenon
    <2> QED  BY <2>1, <2>3
  <1> QED  BY <1>2, <1>3

(* A segment adds its joint to those before it ...                         *)
LEMMA JointsStep ==
    ASSUME NEW chain, NEW n \in Nat \ {0}
    PROVE  /\ Joints(chain, n) \in Nat /\ Joints(chain, n - 1) \in Nat
           /\ Joints(chain, n) = Joints(chain, n - 1) + (IF chain[n] = Fixed THEN 0 ELSE 1)
  <1> DEFINE J(m) == {i \in 1 .. m : chain[i] # Fixed}
  <1>1. \A m \in Nat : IsFiniteSet(J(m)) /\ Cardinality(J(m)) \in Nat
    <2> SUFFICES ASSUME NEW m \in Nat  PROVE IsFiniteSet(J(m)) /\ Cardinality(J(m)) \in Nat
      OBVIOUS
    <2>1. IsFiniteSet(1 .. m)
      BY FS_Interval
    <2>2. J(m) \subseteq 1 .. m
      OBVIOUS
    <2> HIDE DEF J
    <2> QED  BY <2>1, <2>2, FS_Subset, FS_CardinalityType
  <1>2. n - 1 \in Nat /\ n \in Nat
    OBVIOUS
  <1>3. CASE chain[n] = Fixed
    <2>1. J(n) = J(n - 1)
      BY <1>3
    <2> QED  BY <1>1, <1>2, <1>3, <2>1 DEF Joints
  <1>4. CASE chain[n] # Fixed
    <2>1. J(n) = J(n - 1) \cup {n} /\ n \notin J(n - 1)
      BY <1>4
    <2>2. Cardinality(J(n)) = Cardinality(J(n - 1)) + 1
      <3> HIDE DEF J
      <3> QED  BY <1>1, <1>2, <2>1, FS_AddElement
    <2> QED  BY <1>1, <1>2, <1>4, <2>2 DEF Joints
  <1> QED  BY <1>3, <1>4

(* ... beginning with none ...                                             *)
LEMMA NoJoints ==
    ASSUME NEW chain
    PROVE  Joints(chain, 0) = 0
  <1>1. {i \in 1 .. 0 : chain[i] # Fixed} = {}
    OBVIOUS
  <1> QED  BY <1>1, FS_EmptySet DEF Joints

(* ... and takes none away.                                                *)
LEMMA JointsGrow ==
    ASSUME NEW chain, NEW m \in Nat, NEW n \in Nat, m <= n
    PROVE  Joints(chain, m) \in Nat /\ Joints(chain, n) \in Nat
           /\ Joints(chain, m) <= Joints(chain, n)
  <1> DEFINE J(k) == {i \in 1 .. k : chain[i] # Fixed}
  <1>1. IsFiniteSet(1 .. n)
    BY FS_Interval
  <1>2. J(m) \subseteq J(n) /\ J(n) \subseteq 1 .. n
    OBVIOUS
  <1>3. IsFiniteSet(J(n)) /\ Cardinality(J(n)) \in Nat
    <2> HIDE DEF J
    <2> QED  BY <1>1, <1>2, FS_Subset, FS_CardinalityType
  <1>4. Cardinality(J(m)) \in Nat /\ Cardinality(J(m)) <= Cardinality(J(n))
    <2> HIDE DEF J
    <2> QED  BY <1>2, <1>3, FS_Subset, FS_CardinalityType
  <1> QED  BY <1>3, <1>4 DEF Joints

(* What the fold has put down after n segments.                            *)
LimitsOfFirst(chain, n, acc) ==
    /\ acc = [j |-> Joints(chain, n) + 1, q |-> acc.q]
    /\ DOMAIN acc.q = 1 .. Joints(chain, Len(chain))
    /\ \A i \in 1 .. n : chain[i] # Fixed => acc.q[Joints(chain, i)] = chain[i]

(* One more segment: its limits are put down behind those of the joints    *)
(* before it, and theirs stay.                                             *)
LEMMA SegmentSetsItsLimits ==
    ASSUME NEW chain, Len(chain) \in Nat, NEW n \in 1 .. Len(chain), NEW acc,
           LimitsOfFirst(chain, n - 1, acc)
    PROVE  LimitsOfFirst(chain, n, SetLimits(acc, chain[n]))
  <1>1. n \in Nat \ {0} /\ n - 1 \in Nat /\ n <= Len(chain)
    OBVIOUS
  <1>2. /\ Joints(chain, n) \in Nat /\ Joints(chain, n - 1) \in Nat
        /\ Joints(chain, n) = Joints(chain, n - 1) + (IF chain[n] = Fixed THEN 0 ELSE 1)
    BY <1>1, JointsStep
  <1>3. acc = [j |-> Joints(chain, n - 1) + 1, q |-> acc.q]
        /\ DOMAIN acc.q = 1 .. Joints(chain, Len(chain))
        /\ \A i \in 1 .. (n - 1) : chain[i] # Fixed => acc.q[Joints(chain, i)] = chain[i]
    BY DEF LimitsOfFirst
  <1>4. CASE chain[n] = Fixed
    <2>1. SetLimits(acc, chain[n]) = acc /\ Joints(chain, n) = Joints(chain, n - 1)
      BY <1>2, <1>4 DEF SetLimits
    <2>2. \A i \in 1 .. n : chain[i] # Fixed => acc.q[Joints(chain, i)] = chain[i]
      BY <1>1, <1>3, <1>4
    <2> QED  BY <1>3, <2>1, <2>2 DEF LimitsOfFirst
  <1>5. CASE chain[n] # Fixed
    <2> DEFINE k == Joints(chain, n)
               r == [acc.q EXCEPT ![k] = chain[n]]
    <2>1. k = Joints(chain, n - 1) + 1 /\ acc.j = k
      BY <1>2, <1>3, <1>5
    <2>2. SetLimits(acc, chain[n]) = [j |-> k + 1, q |-> r]
      BY <1>5, <2>1 DEF SetLimits
    <2>3. k \in DOMAIN acc.q
      <3>1. Joints(chain, Len(chain)) \in Nat /\ k <= Joints(chain, Len(chain))
        BY <1>1, JointsGrow
      <3> QED  BY <1>2, <1>3, <2>1, <3>1
    <2>4. DOMAIN r = 1 .. Joints(chain, Len(chain)) /\ r[k] = chain[n]
      BY <1>3, <2>3
    <2>5. ASSUME NEW i \in 1 .. n, chain[i] # Fixed
          PROVE  r[Joints(chain, i)] = chain[i]
      <3>1. CASE i = n
        BY <2>4, <3>1
      <3>2. CASE i # n
        <4>1. i \in Nat \ {0} /\ i \in 1 .. (n - 1) /\ i <= n - 1 /\ i - 1 \in Nat
          BY <1>1, <3>2
        <4>2. Joints(chain, i) \in Nat /\ Joints(chain, i) <= Joints(chain, n - 1)
          BY <1>1, <4>1, JointsGrow
        <4>3. Joints(chain, i) = Joints(chain, i - 1) + 1 /\ Joints(chain, i - 1) \in Nat
          BY <2>5, <4>1, JointsStep
        <4>4. Joints(chain, i) # k /\ Joints(chain, i) <= k /\ 1 <= Joints(chain, i)
          BY <1>2, <2>1, <4>2, <4>3
        <4>5. Joints(chain, i) \in DOMAIN acc.q
          <5>1. Joints(chain, Len(chain)) \in Nat /\ k <= Joints(chain, Len(chain))
            BY <1>1, JointsGrow
          <5> QED  BY <1>2, <1>3, <4>2, <4>4, <5>1
        <4>6. r[Joints(chain, i)] = acc.q[Joints(chain, i)]
          BY <4>4, <4>5
        <4> QED  BY <1>3, <2>5, <4>1, <4>6
      <3> QED  BY <3>1, <3>2
    <2>6. LimitsOfFirst(chain, n, [j |-> k + 1, q |-> r])
      <3> HIDE DEF r
      <3> QED BY <2>4, <2>5 DEF LimitsOfFirst
    <2> QED  BY <2>2, <2>6
  <1> QED  BY <1>4, <1>5

(* Segment by segment.                                                     *)
LEMMA LimitsOfAll ==
    ASSUME NEW chain, Len(chain) \in Nat, NEW g, Folds(chain, 1 .. Len(chain), g)
    PROVE  \A n \in 0 .. Len(chain) : LimitsOfFirst(chain, n, g[1 .. n])
  <1> DEFINE D == {n \in 0 .. Len(chain) : ~ LimitsOfFirst(chain, n, g[1 .. n])}
  <1> SUFFICES ASSUME D # {} PROVE FALSE
    OBVIOUS
  <1>1. PICK n \in D : \A m \in D : n <= m
    <2>1. D \subseteq Nat
      OBVIOUS
    <2> HIDE DEF D
    <2> QED  BY <2>1, LeastNatural
  <1>2. \A s \in SUBSET (1 .. Len(chain)) :
          g[s] = IF s = {} THEN [j |-> 1, q |-> NoLimits(chain)]
                 ELSE SetLimits(g[s \ {Greatest(s)}], chain[Greatest(s)])
    BY Zenon DEF Folds
  <1>3. CASE n = 0
    <2>1. 1 .. n = {}
      BY <1>3
    <2>2. g[1 .. n] = [j |-> 1, q |-> NoLimits(chain)]
      BY <1>2, <2>1
    <2>3. DOMAIN NoLimits(chain) = 1 .. Joints(chain, Len(chain))
      BY DEF NoLimits
    <2>4. Joints(chain, n) = 0
      BY <1>3, NoJoints
    <2> HIDE DEF D
    <2>5. LimitsOfFirst(chain, n, g[1 .. n])
      BY <2>1, <2>2, <2>3, <2>4 DEF LimitsOfFirst
    <2> QED  BY <1>1, <2>5 DEF D
  <1>4. CASE n # 0
    <2>1. n \in 1 .. Len(chain) /\ n \in Nat /\ n - 1 \in 0 .. Len(chain) /\ n - 1 \notin D
      BY <1>1, <1>4
    <2>2. LimitsOfFirst(chain, n - 1, g[1 .. (n - 1)])
      BY <2>1
    <2>3. Greatest(1 .. n) = n
      BY <2>1, GreatestIs
    <2>4. (1 .. n) \ {n} = 1 .. (n - 1) /\ 1 .. n # {} /\ 1 .. n \in SUBSET (1 .. Len(chain))
      BY <2>1
    <2>5. g[1 .. n] = SetLimits(g[1 .. (n - 1)], chain[n])
      <3>1. g[1 .. n] = SetLimits(g[(1 .. n) \ {Greatest(1 .. n)}], chain[Greatest(1 .. n)])
        BY <1>2, <2>4, Zenon
      <3> QED  BY <2>3, <2>4, <3>1
    <2> HIDE DEF D
    <2>6. LimitsOfFirst(chain, n, SetLimits(g[1 .. (n - 1)], chain[n]))
      BY <2>1, <2>2, SegmentSetsItsLimits
    <2> QED  BY <1>1, <2>5, <2>6 DEF D
  <1> QED  BY <1>3, <1>4

(* Wherever the fixed segments are, the loop puts each joint's limits down *)
(* at the joint's own number, and leaves no joint without.                 *)
LEMMA LimitsInOrder ==
    ASSUME NEW chain \in Chains
    PROVE  /\ DOMAIN LimitsOf(chain) = 1 .. Joints(chain, Len(chain))
           /\ \A i \in DOMAIN chain :
                chain[i] # Fixed => LimitsOf(chain)[Joints(chain, i)] = chain[i]
  <1> DEFINE n == Len(chain)
             g == CHOOSE f : Folds(chain, DOMAIN chain, f)
  <1>1. n \in Nat /\ DOMAIN chain = 1 .. n
    BY NodeAssumption
  <1>2. \E f : Folds(chain, 1 .. n, f)
    BY <1>1, FoldsExist
  <1>3. Folds(chain, 1 .. n, g)
    BY <1>1, <1>2, Zenon
  <1>4. LimitsOf(chain) = g[1 .. n].q
    BY <1>1, LimitsAreFolded
  <1> HIDE DEF g
  <1>5. LimitsOfFirst(chain, n, g[1 .. n])
    BY <1>1, <1>3, LimitsOfAll
  <1> QED  BY <1>1, <1>4, <1>5 DEF LimitsOfFirst

(* Only Load constructs the solvers, and gives them their limits.          *)
LEMMA LimitsStay == NodeInv /\ LimitsAreTheJoints /\ [Next]_vars => LimitsAreTheJoints'
  <1> SUFFICES ASSUME NodeInv, LimitsAreTheJoints, [Next]_vars
               PROVE  LimitsAreTheJoints'
    OBVIOUS
  <1>1. CASE Load
    <2>1. description \in Chains /\ solver' = TRUE /\ ~solver /\ limits = <<>>
          /\ role' = role /\ description' = description
      BY <1>1 DEF Load, NodeInv, TypeOK, SeedInv, LimitsAreTheJoints
    <2>2. CASE role \in {"cartesian_to_joint", "publisher"}
      <3>1. limits' = LimitsOf(description)
        BY <1>1, <2>2 DEF Load
      <3> QED  BY <2>1, <2>2, <3>1, LimitsInOrder DEF LimitsAreTheJoints
    <2>3. CASE ~ (role \in {"cartesian_to_joint", "publisher"})
      <3>1. limits' = limits
        BY <1>1, <2>3 DEF Load
      <3> QED  BY <2>1, <2>3, <3>1 DEF LimitsAreTheJoints
    <2> QED  BY <2>2, <2>3
  <1>2. CASE ~Load
    <2>1. UNCHANGED <<role, description, solver, limits>>
      BY <1>2 DEF Next, Thread, Handle, Found, GivesUp, LoadFails, HandlePose, HandleJoints,
         HandleCoriolis, PoseCallback, Dies, Toggle, Receive, vars, nodeVars
    <2> QED  BY <2>1 DEF LimitsAreTheJoints
  <1> QED  BY <1>1, <1>2

(* The j-th limits a solver is constructed with are those of the chain's   *)
(* j-th joint, for every chain of joints and fixed segments, and no joint  *)
(* is left without limits.                                                 *)
THEOREM SolversHaveTheLimits == Spec => []LimitsAreTheJoints
  <1>1. Init => LimitsAreTheJoints
    BY DEF Init, LimitsAreTheJoints
  <1>2. NodeInv /\ [Next]_vars => NodeInv'
    BY NextNodeInv
  <1> QED  BY InitNodeInv, LimitsStay, <1>1, <1>2, PTL DEF Spec
=============================================================================
