----------------------- MODULE CommandInterfacesProofs -----------------------
(***************************************************************************)
(* What the checks of prepare_command_mode_switch promise of the lists     *)
(* they accept, for controllers of any kinds and sizes and any number of   *)
(* arms.                                                                   *)
(***************************************************************************)
EXTENDS CommandInterfaces, FiniteSetTheorems, TLAPS

(* Sums over finite sets, of which Size is one.  A fact about all subsets  *)
(* of a finite set is proved from a smallest subset that refutes it.       *)

(* A nonempty collection of subsets of a finite set has a smallest member. *)
LEMMA SmallestSet ==
  ASSUME NEW S, IsFiniteSet(S), NEW D, D \subseteq SUBSET S, D # {}
  PROVE  \E s \in D : \A c \in s : s \ {c} \notin D
<1> DEFINE R == StrictSubsetOrdering(S)
<1>1. IsWellFoundedOn(R, SUBSET S)
  BY FS_StrictSubsetOrderingWellFounded, FS_FiniteSubsetsOfFinite
<1>2. \A s \in SUBSET S : \A c \in s : <<s \ {c}, s>> \in R
  BY DEF StrictSubsetOrdering
<1> HIDE DEF R
<1>3. PICK s \in D : \A t \in D : <<t, s>> \notin R
  BY <1>1, WFMin, Zenon
<1>. QED BY <1>2, <1>3

Pick(s)  == CHOOSE x \in s : TRUE

(* The values MapThenFoldSet computes on its way through the subsets of S. *)
Terms(f, S, g) ==
  g = [s \in SUBSET S |-> IF s = {} THEN 0 ELSE f[Pick(s)] + g[s \ {Pick(s)}]]

(* The definition of the fold, in these terms.                             *)
LEMMA SumIsFold ==
  ASSUME NEW f, NEW S
  PROVE  SumFunctionOnSet(f, S) = (CHOOSE g : Terms(f, S, g))[S]
BY Zenon DEF SumFunctionOnSet, FoldFunctionOnSet, MapThenFoldSet, Terms, Pick

(* One step of it.                                                         *)
LEMMA TermsUnfold ==
  ASSUME NEW f, NEW S, NEW g, Terms(f, S, g)
  PROVE  /\ g[{}] = 0
         /\ \A s \in SUBSET S : s # {} => /\ Pick(s) \in s
                                          /\ g[s] = f[Pick(s)] + g[s \ {Pick(s)}]
<1>1. \A s \in SUBSET S : g[s] = IF s = {} THEN 0 ELSE f[Pick(s)] + g[s \ {Pick(s)}]
  BY Zenon DEF Terms
<1>2. \A s \in SUBSET S : s # {} => Pick(s) \in s
  BY Zenon DEF Pick
<1>. QED BY <1>1, <1>2

(* The terms do not depend on the set the sum is taken over.               *)
LEMMA TermsAgree ==
  ASSUME NEW f, NEW S, NEW T \in SUBSET S, IsFiniteSet(S),
         NEW g, NEW h, Terms(f, S, g), Terms(f, T, h)
  PROVE  \A s \in SUBSET T : g[s] = h[s]
<1> DEFINE D == {s \in SUBSET T : g[s] # h[s]}
<1> SUFFICES ASSUME D # {} PROVE FALSE
  OBVIOUS
<1>1. PICK s \in D : \A c \in s : s \ {c} \notin D
  BY FS_Subset, SmallestSet
<1>2. /\ g[{}] = 0
      /\ \A t \in SUBSET S : t # {} => Pick(t) \in t /\ g[t] = f[Pick(t)] + g[t \ {Pick(t)}]
  BY TermsUnfold
<1>3. /\ h[{}] = 0
      /\ \A t \in SUBSET T : t # {} => Pick(t) \in t /\ h[t] = f[Pick(t)] + h[t \ {Pick(t)}]
  BY TermsUnfold
<1>4. s # {}
  BY <1>2, <1>3
<1>5. Pick(s) \in s /\ s \ {Pick(s)} \in SUBSET T
  BY <1>3, <1>4
<1>6. g[s \ {Pick(s)}] = h[s \ {Pick(s)}]
  BY <1>1, <1>5
<1>7. g[s] = f[Pick(s)] + g[s \ {Pick(s)}] /\ h[s] = f[Pick(s)] + h[s \ {Pick(s)}]
  BY <1>2, <1>3, <1>4
<1>. QED BY <1>6, <1>7

(* The sums over the subsets of a set are its terms.                       *)
LEMMA SumTerms ==
  ASSUME NEW f, NEW S, IsFiniteSet(S), NEW g, Terms(f, S, g)
  PROVE  \A T \in SUBSET S : SumFunctionOnSet(f, T) = g[T]
<1> TAKE T \in SUBSET S
<1> DEFINE r == [s \in SUBSET T |-> g[s]]
<1>1. Terms(f, T, r)
  <2>1. \A s \in SUBSET T :
          r[s] = IF s = {} THEN 0 ELSE f[Pick(s)] + r[s \ {Pick(s)}]
    BY TermsUnfold
  <2>. QED BY <2>1 DEF Terms
<1> DEFINE h == CHOOSE h : Terms(f, T, h)
<1>2. Terms(f, T, h)
  BY <1>1, Zenon
<1> HIDE DEF h, r
<1>3. \A t \in SUBSET T : g[t] = h[t]
  BY <1>2, TermsAgree
<1>. QED BY <1>3, SumIsFold DEF h

(* The recursion of the fold defines a function on the subsets of any      *)
(* finite set: on the largest one from its values on the others.           *)
LEMMA TermsExist ==
  ASSUME NEW f, NEW S, IsFiniteSet(S)
  PROVE  \E g : Terms(f, S, g)
<1> DEFINE D == {T \in SUBSET S : ~\E g : Terms(f, T, g)}
<1> SUFFICES ASSUME D # {} PROVE FALSE
  OBVIOUS
<1>1. PICK T \in D : \A c \in T : T \ {c} \notin D
  BY SmallestSet
<1>2. IsFiniteSet(T)
  BY FS_Subset
<1> DEFINE h == [s \in SUBSET T |-> IF s = T /\ T # {}
                                    THEN f[Pick(T)] + SumFunctionOnSet(f, T \ {Pick(T)})
                                    ELSE SumFunctionOnSet(f, s)]
<1>3. ASSUME NEW s \in SUBSET T, s # T
      PROVE  /\ SumFunctionOnSet(f, {}) = 0
             /\ s # {} =>
                  /\ Pick(s) \in s
                  /\ SumFunctionOnSet(f, s) = f[Pick(s)] + SumFunctionOnSet(f, s \ {Pick(s)})
  <2>1. PICK c \in T : c \notin s
    BY <1>3
  <2>2. PICK g : Terms(f, T \ {c}, g)
    BY <1>1, <2>1
  <2>3. \A u \in SUBSET (T \ {c}) : SumFunctionOnSet(f, u) = g[u]
    BY <1>2, <2>2, FS_RemoveElement, SumTerms
  <2>4. /\ g[{}] = 0
        /\ s # {} => Pick(s) \in s /\ g[s] = f[Pick(s)] + g[s \ {Pick(s)}]
    BY <2>1, <2>2, TermsUnfold
  <2>. QED BY <2>1, <2>3, <2>4
<1>4. SumFunctionOnSet(f, {}) = 0
  <2>1. Terms(f, {}, [s \in SUBSET {} |-> 0])
    BY DEF Terms
  <2>. QED BY <2>1, FS_EmptySet, SumTerms, TermsUnfold
<1>5. \A s \in SUBSET T : h[s] = IF s = {} THEN 0 ELSE f[Pick(s)] + h[s \ {Pick(s)}]
  <2> TAKE s \in SUBSET T
  <2>1. s # {} => Pick(s) \in s
    BY Zenon DEF Pick
  <2>. QED BY <1>3, <1>4, <2>1
<1>6. Terms(f, T, h)
  <2> HIDE DEF h
  <2>1. h = [s \in SUBSET T |-> h[s]]
    BY DEF h
  <2>. QED BY <1>5, <2>1 DEF Terms
<1>. QED BY <1>6

(* A sum over nothing.                                                     *)
LEMMA SumEmpty == ASSUME NEW f PROVE SumFunctionOnSet(f, {}) = 0
<1>1. PICK g : Terms(f, {}, g)
  BY FS_EmptySet, TermsExist
<1>. QED BY <1>1, SumTerms, TermsUnfold, FS_EmptySet

(* A sum starts with some element, and goes on with the others.            *)
LEMMA SumOfOne ==
  ASSUME NEW f, NEW S, IsFiniteSet(S), S # {}
  PROVE  \E c \in S : SumFunctionOnSet(f, S) = f[c] + SumFunctionOnSet(f, S \ {c})
<1>1. PICK g : Terms(f, S, g)
  BY TermsExist
<1>2. \A T \in SUBSET S : SumFunctionOnSet(f, T) = g[T]
  BY <1>1, SumTerms
<1>3. Pick(S) \in S /\ g[S] = f[Pick(S)] + g[S \ {Pick(S)}]
  BY <1>1, TermsUnfold
<1>. QED BY <1>2, <1>3

(* A sum of natural numbers is one.                                        *)
LEMMA SumNat ==
  ASSUME NEW f, NEW S, IsFiniteSet(S), \A c \in S : f[c] \in Nat
  PROVE  SumFunctionOnSet(f, S) \in Nat
<1> DEFINE D == {s \in SUBSET S : ~(SumFunctionOnSet(f, s) \in Nat)}
<1> SUFFICES ASSUME D # {} PROVE FALSE
  OBVIOUS
<1>1. PICK s \in D : \A c \in s : s \ {c} \notin D
  <2>1. D \subseteq SUBSET S
    OBVIOUS
  <2> HIDE DEF D
  <2>. QED BY <2>1, SmallestSet
<1>2. s \in SUBSET S /\ IsFiniteSet(s) /\ ~(SumFunctionOnSet(f, s) \in Nat)
  BY FS_Subset
<1>3. s # {}
  BY <1>2, SumEmpty
<1>4. PICK c \in s : SumFunctionOnSet(f, s) = f[c] + SumFunctionOnSet(f, s \ {c})
  <2> HIDE DEF D
  <2>. QED BY <1>2, <1>3, SumOfOne
<1>5. SumFunctionOnSet(f, s \ {c}) \in Nat
  BY <1>1, <1>2
<1>. QED BY <1>2, <1>4, <1>5

(* Any element may be added up first.                                      *)
LEMMA SumRemove ==
  ASSUME NEW f, NEW S, IsFiniteSet(S), \A c \in S : f[c] \in Nat, NEW c \in S
  PROVE  SumFunctionOnSet(f, S) = f[c] + SumFunctionOnSet(f, S \ {c})
<1> DEFINE D == {s \in SUBSET S :
                   ~\A d \in s : SumFunctionOnSet(f, s) = f[d] + SumFunctionOnSet(f, s \ {d})}
<1> SUFFICES ASSUME D # {} PROVE FALSE
  OBVIOUS
<1>1. PICK s \in D : \A d \in s : s \ {d} \notin D
  <2>1. D \subseteq SUBSET S
    OBVIOUS
  <2> HIDE DEF D
  <2>. QED BY <2>1, SmallestSet
<1>2. s \in SUBSET S /\ \E d \in s : SumFunctionOnSet(f, s) # f[d] + SumFunctionOnSet(f, s \ {d})
  OBVIOUS
<1>3. \A d, e \in s : d # e =>
        SumFunctionOnSet(f, s \ {e}) = f[d] + SumFunctionOnSet(f, (s \ {e}) \ {d})
  BY <1>1, <1>2
<1> HIDE DEF D
<1>4. PICK d \in s : SumFunctionOnSet(f, s) # f[d] + SumFunctionOnSet(f, s \ {d})
  BY <1>2
<1>5. PICK e \in s : SumFunctionOnSet(f, s) = f[e] + SumFunctionOnSet(f, s \ {e})
  BY <1>2, FS_Subset, SumOfOne
<1>6. d # e
  BY <1>4, <1>5
<1>7. (s \ {e}) \ {d} = (s \ {d}) \ {e}
  OBVIOUS
<1>8. SumFunctionOnSet(f, (s \ {d}) \ {e}) \in Nat
  <2>1. IsFiniteSet((s \ {d}) \ {e}) /\ \A b \in (s \ {d}) \ {e} : f[b] \in Nat
    BY <1>2, FS_Subset
  <2>. QED BY <2>1, SumNat
<1>9. f[d] \in Nat /\ f[e] \in Nat
  BY <1>2
<1>10. SumFunctionOnSet(f, s \ {e}) = f[d] + SumFunctionOnSet(f, (s \ {d}) \ {e})
  BY <1>3, <1>6, <1>7
<1>11. SumFunctionOnSet(f, s \ {d}) = f[e] + SumFunctionOnSet(f, (s \ {d}) \ {e})
  BY <1>3, <1>6
<1>. QED BY <1>4, <1>5, <1>8, <1>9, <1>10, <1>11

(* A part is not more than the whole.                                      *)
LEMMA SumMonotone ==
  ASSUME NEW f, NEW S, IsFiniteSet(S), \A c \in S : f[c] \in Nat, NEW T \in SUBSET S
  PROVE  SumFunctionOnSet(f, T) <= SumFunctionOnSet(f, S)
<1> DEFINE D == {s \in SUBSET S :
                   T \subseteq s /\ ~(SumFunctionOnSet(f, T) <= SumFunctionOnSet(f, s))}
<1> SUFFICES ASSUME D # {} PROVE FALSE
  OBVIOUS
<1>1. PICK s \in D : \A d \in s : s \ {d} \notin D
  <2>1. D \subseteq SUBSET S
    OBVIOUS
  <2> HIDE DEF D
  <2>. QED BY <2>1, SmallestSet
<1>2. s \in SUBSET S /\ T \subseteq s /\ ~(SumFunctionOnSet(f, T) <= SumFunctionOnSet(f, s))
  OBVIOUS
<1>3. \A d \in s \ T : SumFunctionOnSet(f, T) <= SumFunctionOnSet(f, s \ {d})
  BY <1>1, <1>2
<1> HIDE DEF D
<1>4. /\ IsFiniteSet(s) /\ \A c \in s : f[c] \in Nat
      /\ IsFiniteSet(T) /\ \A c \in T : f[c] \in Nat
  BY <1>2, FS_Subset
<1>5. SumFunctionOnSet(f, T) \in Nat
  BY <1>4, SumNat
<1>6. PICK d \in s : d \notin T
  BY <1>2, <1>5
<1>7. SumFunctionOnSet(f, s) = f[d] + SumFunctionOnSet(f, s \ {d})
  BY <1>4, SumRemove
<1>8. SumFunctionOnSet(f, s \ {d}) \in Nat
  BY <1>4, FS_RemoveElement, SumNat
<1>. QED BY <1>2, <1>3, <1>4, <1>5, <1>6, <1>7, <1>8
(* The sum of the sums is the sum.                                         *)
LEMMA SumAdd ==
  ASSUME NEW f, NEW g, NEW h, NEW S, IsFiniteSet(S),
         \A c \in S : f[c] \in Nat /\ g[c] \in Nat /\ h[c] = f[c] + g[c]
  PROVE  SumFunctionOnSet(h, S) = SumFunctionOnSet(f, S) + SumFunctionOnSet(g, S)
<1> DEFINE Adds(s) == SumFunctionOnSet(h, s) = SumFunctionOnSet(f, s) + SumFunctionOnSet(g, s)
<1> DEFINE D == {s \in SUBSET S : ~Adds(s)}
<1> SUFFICES ASSUME D # {} PROVE FALSE
  OBVIOUS
<1>1. PICK s \in D : \A c \in s : s \ {c} \notin D
  <2>1. D \subseteq SUBSET S
    OBVIOUS
  <2> HIDE DEF D
  <2>. QED BY <2>1, SmallestSet
<1>2. s \in SUBSET S /\ ~Adds(s)
  OBVIOUS
<1>3. \A c \in s : Adds(s \ {c})
  BY <1>1, <1>2
<1> HIDE DEF D
<1>4. IsFiniteSet(s) /\ \A c \in s : f[c] \in Nat /\ g[c] \in Nat /\ h[c] \in Nat
  BY <1>2, FS_Subset
<1>5. PICK c \in s : TRUE
  BY <1>2, SumEmpty
<1>6. /\ SumFunctionOnSet(f, s) = f[c] + SumFunctionOnSet(f, s \ {c})
      /\ SumFunctionOnSet(g, s) = g[c] + SumFunctionOnSet(g, s \ {c})
      /\ SumFunctionOnSet(h, s) = h[c] + SumFunctionOnSet(h, s \ {c})
  BY <1>4, SumRemove
<1>7. IsFiniteSet(s \ {c}) /\ \A d \in s \ {c} : f[d] \in Nat /\ g[d] \in Nat
  BY <1>4, FS_RemoveElement
<1>8. SumFunctionOnSet(f, s \ {c}) \in Nat /\ SumFunctionOnSet(g, s \ {c}) \in Nat
  BY <1>7, SumNat
<1>9. f[c] \in Nat /\ g[c] \in Nat /\ h[c] = f[c] + g[c]
  BY <1>2
<1>10. Adds(s \ {c})
  BY <1>3
<1>. QED BY <1>2, <1>6, <1>8, <1>9, <1>10

(* Terms of at most m add up to no more than m for each element.           *)
LEMMA SumBounded ==
  ASSUME NEW f, NEW S, IsFiniteSet(S), NEW m \in Nat, \A c \in S : f[c] \in 0 .. m
  PROVE  SumFunctionOnSet(f, S) <= m * Cardinality(S)
<1> DEFINE Small(s) == SumFunctionOnSet(f, s) <= m * Cardinality(s)
<1> DEFINE D == {s \in SUBSET S : ~Small(s)}
<1> SUFFICES ASSUME D # {} PROVE FALSE
  OBVIOUS
<1>1. PICK s \in D : \A c \in s : s \ {c} \notin D
  <2>1. D \subseteq SUBSET S
    OBVIOUS
  <2> HIDE DEF D
  <2>. QED BY <2>1, SmallestSet
<1>2. s \in SUBSET S /\ ~Small(s)
  OBVIOUS
<1>3. \A c \in s : Small(s \ {c})
  BY <1>1, <1>2
<1> HIDE DEF D
<1>4. IsFiniteSet(s) /\ Cardinality(s) \in Nat /\ \A c \in s : f[c] \in Nat
  BY <1>2, FS_Subset, FS_CardinalityType
<1>5. PICK c \in s : TRUE
  <2>1. SumFunctionOnSet(f, {}) = 0 /\ Cardinality({}) = 0
    BY SumEmpty, FS_EmptySet
  <2>2. Small({})
    BY <2>1
  <2>. QED BY <1>2, <2>2
<1>6. SumFunctionOnSet(f, s) = f[c] + SumFunctionOnSet(f, s \ {c})
  BY <1>4, SumRemove
<1>7. IsFiniteSet(s \ {c}) /\ Cardinality(s \ {c}) = Cardinality(s) - 1
  BY <1>4, FS_RemoveElement
<1>8. SumFunctionOnSet(f, s \ {c}) \in Nat
  BY <1>4, <1>7, SumNat
<1>9. SumFunctionOnSet(f, s \ {c}) <= m * (Cardinality(s) - 1)
  BY <1>3, <1>7
<1>10. m * (Cardinality(s) - 1) = m * Cardinality(s) - m
  BY <1>4
<1>11. m * Cardinality(s) \in Int /\ f[c] \in 0 .. m
  BY <1>2, <1>4
<1>. QED BY <1>2, <1>6, <1>8, <1>9, <1>10, <1>11

-----------------------------------------------------------------------------
(* The lists of interfaces                                                 *)

USE SwitchAssumption
USE DEF JointModes, CartesianModes, ControlModes, Modes, Kinds

(* The controllers of a start list that prepare accepts are of one kind,   *)
(* and control_mode_ becomes that kind.                                    *)
LEMMA StartIsOfItsKind ==
  ASSUME NEW S \in SUBSET Controllers, StartOK(S, None), NEW c \in S
  PROVE  Kind[c] = ModeOf(S, None) /\ Kind[c] \in ControlModes
<1>1. Kind[c] \in Kinds
  OBVIOUS
<1>2. CheckType(S) \in {1, 2} /\ WellNamed(S)
  BY DEF StartOK, CheckType
<1>3. \A w \in {"effort", "position", "velocity"} : AllOf(S, w) => w \in Words[Kind[c]]
  BY DEF AllOf
<1>4. CASE CheckType(S) = 1
  <2>1. AllOf(S, "joint")
    BY <1>4 DEF CheckType
  <2>2. "joint" \in Words[Kind[c]]
    BY <2>1 DEF AllOf
  <2>3. Kind[c] \in JointModes
    BY <2>2, <1>1 DEF Words
  <2>4. AllOf(S, "velocity") <=> Kind[c] = "JointVelocity"
    BY <2>3, <1>2, <1>3 DEF WellNamed, Words
  <2>5. AllOf(S, "position") <=> Kind[c] = "JointPosition"
    BY <2>3, <1>2, <1>3 DEF WellNamed, Words
  <2>. QED BY <1>4, <2>3, <2>4, <2>5 DEF ModeOf
<1>5. CASE CheckType(S) = 2
  <2>1. AllOf(S, "ee_cartesian")
    BY <1>5 DEF CheckType
  <2>2. "ee_cartesian" \in Words[Kind[c]]
    BY <2>1 DEF AllOf
  <2>3. Kind[c] \in CartesianModes
    BY <2>2, <1>1 DEF Words
  <2>4. AllOf(S, "velocity") <=> Kind[c] = "CartesianVelocity"
    BY <2>3, <1>2, <1>3 DEF WellNamed, Words
  <2>. QED BY <1>5, <2>3, <2>4 DEF ModeOf
<1>. QED BY <1>2, <1>4, <1>5

(* What a start list that prepare accepts does to control_mode_: nothing   *)
(* if it is empty, and else it becomes the kind of one of its controllers. *)
LEMMA StartTakesItsKind ==
  ASSUME NEW S \in SUBSET Controllers, StartOK(S, None)
  PROVE  /\ ModeOf(S, None) \in Modes
         /\ S = {} => ModeOf(S, None) = None
         /\ S # {} => \E c \in S : Kind[c] = ModeOf(S, None)
<1>1. CASE S = {}
  BY <1>1 DEF ModeOf, CheckType
<1>2. CASE S # {}
  BY <1>2, StartIsOfItsKind
<1>. QED BY <1>1, <1>2

(* A list claims as many interfaces as a part of it at least, and a        *)
(* controller of it.                                                       *)
LEMMA SizeMonotone ==
  ASSUME NEW S \in SUBSET Controllers, NEW T \in SUBSET S
  PROVE  /\ Size(S) \in Nat /\ Size(T) <= Size(S)
         /\ \A c \in S : Count[c] <= Size(S)
<1>1. IsFiniteSet(S) /\ \A c \in S : Count[c] \in Nat
  BY FS_Subset
<1>2. Size(S) \in Nat /\ Size(T) <= Size(S)
  BY <1>1, SumNat, SumMonotone DEF Size
<1>3. ASSUME NEW c \in S PROVE Count[c] <= Size(S)
  <2>1. SumFunctionOnSet(Count, S) = Count[c] + SumFunctionOnSet(Count, S \ {c})
    BY <1>1, SumRemove
  <2>2. IsFiniteSet(S \ {c}) /\ \A d \in S \ {c} : Count[d] \in Nat
    BY <1>1, FS_RemoveElement
  <2>3. SumFunctionOnSet(Count, S \ {c}) \in Nat
    BY <2>2, SumNat
  <2>. QED BY <1>1, <2>1, <2>3 DEF Size
<1>. QED BY <1>2, <1>3

(* No pose controllers claim as many interfaces together as a twist has.   *)
NoPoseOfTwistSize ==
  \A S \in SUBSET Controllers :
    (\A c \in S : Kind[c] = "CartesianPose") => Size(S) # kTwistSize

(* So it is if each of them claims more than those, as one has to that can *)
(* be stopped without another: prepare stops 16 for each arm.              *)
LEMMA WholePoses ==
  ASSUME \A c \in Controllers : Kind[c] = "CartesianPose" => Count[c] > kTwistSize
  PROVE  NoPoseOfTwistSize
<1> SUFFICES ASSUME NEW S \in SUBSET Controllers, \A c \in S : Kind[c] = "CartesianPose"
             PROVE  Size(S) # kTwistSize
  BY DEF NoPoseOfTwistSize
<1>1. RobotCount \in Nat \ {0} /\ kTwistSize > 0
  BY DEF kTwistSize
<1>2. CASE S = {}
  BY <1>1, <1>2, SumEmpty DEF Size
<1>3. CASE S # {}
  <2>1. PICK c \in S : TRUE
    BY <1>3
  <2>2. Count[c] > kTwistSize /\ Count[c] <= Size(S) /\ Size(S) \in Nat /\ Count[c] \in Nat
    BY SizeMonotone
  <2>. QED BY <1>1, <2>2 DEF kTwistSize
<1>. QED BY <1>2, <1>3

(* The start takes 6 or 16 Cartesian interfaces for either kind, the stop  *)
(* 16 for the pose and 6 for the twist.  A start list is stoppable all the *)
(* same: it cannot have more interfaces of a twist than are exported, and  *)
(* not 6 of a pose.                                                        *)
LEMMA StartIsStoppable ==
  ASSUME NoPoseOfTwistSize, NEW S \in SUBSET Controllers, S # {}, StartOK(S, None),
         \A k \in ControlModes : Size(Claimants(S, k)) <= Exported[k]
  PROVE  StopOK(S)
<1>1. CheckType(S) \in {1, 2} /\ WellNamed(S)
  BY DEF StartOK, CheckType
<1>2. CASE CheckType(S) = 1
  BY <1>1, <1>2 DEF StartOK, StopOK
<1>3. CASE CheckType(S) = 2
  <2>1. Size(S) \in {kPoseSize, kTwistSize}
    BY <1>3 DEF StartOK
  <2>2. PICK c \in S : Kind[c] = ModeOf(S, None)
    BY StartTakesItsKind
  <2>3. S = Claimants(S, Kind[c])
    BY <2>2, StartIsOfItsKind DEF Claimants
  <2>4. Kind[c] \in CartesianModes
    BY <1>3, <2>2 DEF ModeOf
  <2>5. RobotCount \in Nat \ {0}
    OBVIOUS
  <2>6. ASSUME AllOf(S, "position") PROVE Size(S) = kPoseSize
    <3>1. Kind[c] = "CartesianPose"
      BY <2>4, <2>6 DEF AllOf, Words
    <3>2. Size(S) # kTwistSize
      BY <2>3, <3>1 DEF Claimants, NoPoseOfTwistSize
    <3>. QED BY <2>1, <3>2
  <2>7. ASSUME AllOf(S, "velocity") PROVE Size(S) = kTwistSize
    <3>1. Kind[c] = "CartesianVelocity"
      BY <2>4, <2>7 DEF AllOf, Words
    <3>2. Size(S) <= kTwistSize
      BY <2>3, <3>1 DEF Exported
    <3>. QED BY <2>1, <2>5, <3>2 DEF kTwistSize, kPoseSize
  <2>. QED BY <1>1, <1>3, <2>6, <2>7 DEF StopOK
<1>. QED BY <1>1, <1>2, <1>3
=============================================================================
