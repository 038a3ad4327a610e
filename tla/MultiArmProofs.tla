--------------------------- MODULE MultiArmProofs ----------------------------
(***************************************************************************)
(* Theorems about MultiArm, for any number of arms and errors, and every   *)
(* set of controllers.                                                     *)
(***************************************************************************)
EXTENDS MultiArm, CommandInterfacesProofs, FiniteSetTheorems

USE SwitchAssumption, MultiAssumption
USE DEF JointModes, CartesianModes, ControlModes, Modes, Kinds, Arms, LastArm

(* The component starts with its variables in their types.                 *)
LEMMA MultiTypedInit == Init => TypeOK
<1> SUFFICES ASSUME Init PROVE TypeOK
  OBVIOUS
<1>1. on \in BOOLEAN /\ dropped \in BOOLEAN
  BY Zenon DEF Init
<1>2. fed \in [Arms -> BOOLEAN]
  BY Zenon DEF Init
<1>3. cmd \in [Arms -> [ControlModes -> Values]]
      /\ sent \in [Arms -> [ControlModes -> Values \ {"nan"}]]
  BY DEF Init, Values
<1>4. request \in [start : SUBSET (Controllers \ active), stop : SUBSET active]
  BY DEF Init, NoRequest
<1>5. faults \in 0 .. MaxFaults
  <2> DEFINE F == {a \in Arms : err[a]}
  <2>1. IsFiniteSet(Arms)
    BY FS_Interval
  <2>2. F \in SUBSET Arms
    BY Zenon
  <2>3. Cardinality(F) \in Nat
    BY <2>1, <2>2, FS_Subset, FS_CardinalityType, Zenon
  <2>4. faults = Cardinality(F) /\ faults <= MaxFaults
    BY Zenon DEF Init
  <2>. QED BY <2>3, <2>4
<1>6. performed \in [Arms -> Modes] /\ loop \in [Arms -> Modes \cup {Down}]
  BY DEF Init
<1>7. err \in [Arms -> BOOLEAN] /\ robotMode \in [Arms -> Unwritten]
  BY Zenon DEF Init
<1>8. /\ firstMode \in Unwritten /\ controlMode \in Modes \cup Unwritten
      /\ active = {} /\ pc = "update" /\ at \in Arms
  BY DEF Init
<1>. QED BY <1>1, <1>2, <1>3, <1>4, <1>5, <1>6, <1>7, <1>8 DEF TypeOK

(* The next arm of the map is an arm.                                      *)
LEMMA NextArmIsOne ==
  ASSUME at \in Arms, NEW from, NEW to, NextArm(from, to)
  PROVE  at' \in Arms /\ pc' \in {from, to}
BY DEF NextArm

-----------------------------------------------------------------------------
(* The inductive invariant                                                 *)

(* Either control_mode_ was None from the beginning, or nothing is ever    *)
(* accepted and it stays what it was.                                      *)
WrittenInv ==
  /\ firstMode = None => controlMode \in Modes
  /\ firstMode # None => /\ controlMode = firstMode /\ active = {} /\ Idle
                         /\ \A a \in Arms : performed[a] = None
  /\ ~on => Idle

(* Where a cycle is, at which arm, and what it has found on the way.       *)
PlaceInv ==
  /\ pc = "update" => at = 1
  /\ pc = "switch" /\ at # 1 => ~Idle
  /\ pc = "write" => \A a \in Arms : a < at => Finite(a)

(* perform has told the arms before `at' the new mode, and the others have *)
(* the old one.                                                            *)
AgreeInv ==
  /\ \A a \in Arms : loop[a] \in {Down, performed[a], robotMode[a]}
  /\ pc = "switch" => \A a \in Arms : a < at => performed[a] = controlMode
  /\ pc = "switch" => \A a, b \in Arms : a >= at /\ b >= at => performed[a] = performed[b]
  /\ pc # "switch" => \A a, b \in Arms : performed[a] = performed[b]

MultiInv == TypeOK /\ WrittenInv /\ PlaceInv /\ AgreeInv

(* It holds when on_init is over.                                          *)
LEMMA MultiInvInit == Init => MultiInv
<1> SUFFICES ASSUME Init PROVE MultiInv
  OBVIOUS
<1>1. WrittenInv
  BY DEF Init, WrittenInv, Idle
<1>2. PlaceInv
  BY DEF Init, PlaceInv
<1>3. AgreeInv
  BY DEF Init, AgreeInv
<1>. QED BY <1>1, <1>2, <1>3, MultiTypedInit DEF MultiInv

(* What prepare_command_mode_switch leaves when it returns, accepted or    *)
(* refused in whichever half.                                              *)
LEMMA PrepareKeeps ==
  ASSUME MultiInv,
         NEW start \in SUBSET (Controllers \ active), NEW stop \in SUBSET active,
         \/ PrepareRefusesStop(start, stop) \/ PrepareRefusesStart(start, stop)
         \/ PrepareAccepts(start, stop)
  PROVE  MultiInv'
<1>. USE DEF MultiInv
<1>0. stop \in SUBSET Controllers /\ start \in SUBSET Controllers
  BY DEF TypeOK
<1>1. /\ CmdAfterStop(stop) \in [Arms -> [ControlModes -> Values]]
      /\ \A a \in Arms : Finite(a) => \A k \in ControlModes : CmdAfterStop(stop)[a][k] # "nan"
  BY DEF TypeOK, CmdAfterStop, Values, Finite
<1>2. CASE PrepareRefusesStop(start, stop)
  BY <1>2 DEF PrepareRefusesStop, TypeOK, WrittenInv, PlaceInv, AgreeInv, vars, Finite, Idle
<1>3. CASE PrepareRefusesStart(start, stop)
  <2>1. TypeOK'
    <3>1. controlMode' \in Modes \cup Unwritten
      BY <1>3 DEF PrepareRefusesStart, ModeAfterStop, TypeOK
    <3>. QED BY <1>1, <1>3, <3>1 DEF PrepareRefusesStart, TypeOK, armVars
  <2>2. WrittenInv'
    BY <1>3 DEF PrepareRefusesStart, ModeAfterStop, WrittenInv, Idle, armVars
  <2>3. PlaceInv'
    BY <1>1, <1>3 DEF PrepareRefusesStart, PlaceInv, Finite, Idle, armVars
  <2>4. AgreeInv'
    BY <1>3 DEF PrepareRefusesStart, Asks, PlaceInv, AgreeInv, TypeOK, armVars
  <2>. QED BY <2>1, <2>2, <2>3, <2>4
<1>4. CASE PrepareAccepts(start, stop)
  <2>0. controlMode' \in Modes /\ firstMode = None
    <3>1. ModeAfterStop(stop) = None
      BY <1>4 DEF PrepareAccepts, StartOK
    <3>2. controlMode' \in Modes
      BY <3>1, <1>0, <1>4, StartTakesItsKind DEF PrepareAccepts
    <3>. QED BY <3>1, <3>2 DEF WrittenInv, ModeAfterStop
  <2>1. TypeOK'
    <3>3. request' \in [start : SUBSET (Controllers \ active'), stop : SUBSET active']
      BY <1>4, <1>0 DEF PrepareAccepts, TypeOK
    <3>4. dropped' \in BOOLEAN
      BY <1>4, Zenon DEF PrepareAccepts, TypeOK
    <3>. QED BY <1>1, <1>4, <2>0, <3>3, <3>4 DEF PrepareAccepts, TypeOK, armVars
  <2>2. WrittenInv'
    BY <1>4, <2>0 DEF PrepareAccepts, Asks, WrittenInv
  <2>3. PlaceInv'
    BY <1>1, <1>4 DEF PrepareAccepts, Asks, PlaceInv, Finite, Idle, armVars, TypeOK
  <2>4. AgreeInv'
    BY <1>4 DEF PrepareAccepts, Asks, PlaceInv, AgreeInv, TypeOK, armVars
  <2>. QED BY <2>1, <2>2, <2>3, <2>4
<1>. QED BY <1>2, <1>3, <1>4

(* perform_command_mode_switch goes on to its next arm, or is over.        *)
LEMMA PerformKeeps ==
  ASSUME MultiInv, PerformArm
  PROVE  MultiInv'
<1>. USE DEF MultiInv
<1>1. at \in 1 .. RobotCount /\ controlMode \in Modes /\ firstMode = None
  BY DEF PerformArm, TypeOK, WrittenInv
<1>2. TypeOK'
  <2>1. performed' \in [Arms -> Modes] /\ loop' \in [Arms -> Modes \cup {Down}]
    BY <1>1 DEF PerformArm, TypeOK, LoopOf
  <2>2. fed' \in [Arms -> BOOLEAN]
    BY DEF PerformArm, TypeOK
  <2>3. active' \subseteq Controllers
        /\ request' \in [start : SUBSET (Controllers \ active'), stop : SUBSET active']
    <3>1. CASE at < LastArm
      BY <3>1 DEF PerformArm, TypeOK
    <3>2. CASE ~(at < LastArm)
      BY <3>2 DEF PerformArm, TypeOK, NoRequest
    <3>. QED BY <3>1, <3>2
  <2>4. at' \in Arms /\ pc' \in {"switch", "write"}
    BY <1>1 DEF PerformArm, NextArm
  <2>. QED BY <2>1, <2>2, <2>3, <2>4 DEF PerformArm, TypeOK
<1>3. WrittenInv'
  BY <1>1 DEF PerformArm, WrittenInv
<1>4. PlaceInv'
  BY <1>1 DEF PerformArm, PlaceInv, NextArm, Idle
<1>5. AgreeInv'
  <2>1. \A a \in Arms : loop'[a] \in {Down, performed'[a], robotMode'[a]}
    BY <1>1 DEF PerformArm, AgreeInv, LoopOf, TypeOK
  <2>2. \A a \in Arms : a # at => performed'[a] = performed[a]
    BY DEF PerformArm, TypeOK
  <2>3. performed'[at] = controlMode /\ controlMode' = controlMode /\ pc = "switch"
    BY <1>1 DEF PerformArm, TypeOK
  <2>4. CASE at < LastArm
    <3>1. at' = at + 1 /\ pc' = "switch"
      BY <2>4 DEF PerformArm, NextArm
    <3>. QED BY <1>1, <2>1, <2>2, <2>3, <3>1 DEF AgreeInv
  <2>5. CASE ~(at < LastArm)
    <3>1. pc' = "write" /\ at = RobotCount
      BY <1>1, <2>5 DEF PerformArm, NextArm
    <3>2. \A a \in Arms : performed'[a] = controlMode
      BY <1>1, <2>2, <2>3, <3>1 DEF AgreeInv
    <3>. QED BY <2>1, <3>1, <3>2 DEF AgreeInv
  <2>. QED BY <2>4, <2>5
<1>. QED BY <1>2, <1>3, <1>4, <1>5

(* So does every other step: of the control thread, of the lifecycle, of   *)
(* an arm or its recovery service.                                         *)
LEMMA OthersKeep ==
  ASSUME MultiInv,
         \/ Update \/ PerformNothing \/ WriteArm \/ WriteReturns
         \/ Activate \/ Deactivate \/ (\E a \in Arms : Fault(a) \/ Recover(a))
  PROVE  MultiInv'
<1>. USE DEF MultiInv
<1>0. at \in 1 .. RobotCount
  BY DEF TypeOK
<1>1. CASE Update
  <2>1. TypeOK'
    <3>0. PICK v \in [Arms -> [{k \in ControlModes : \E c \in active : Kind[c] = k}
                                  -> {"finite", "nan"}]] :
             cmd' = [a \in Arms |-> [k \in ControlModes |->
                        IF k \in Writes(a) THEN v[a][k] ELSE cmd[a][k]]]
      BY <1>1 DEF Update
    <3>1. cmd' \in [Arms -> [ControlModes -> Values]]
      <4> DEFINE row(a) == [k \in ControlModes |->
                              IF k \in Writes(a) THEN v[a][k] ELSE cmd[a][k]]
      <4>1. ASSUME NEW a \in Arms, NEW k \in ControlModes
            PROVE  (IF k \in Writes(a) THEN v[a][k] ELSE cmd[a][k]) \in Values
        <5>1. CASE k \in Writes(a)
          <6> DEFINE D == {j \in ControlModes : \E c \in active : Kind[c] = j}
          <6>1. k \in D
            BY <5>1 DEF Writes
          <6>2. v \in [Arms -> [D -> {"finite", "nan"}]]
            BY Zenon
          <6>3. v[a][k] \in {"finite", "nan"}
            <7>. HIDE DEF D
            <7>. QED BY <6>1, <6>2
          <6>. QED BY <5>1, <6>3 DEF Values
        <5>2. CASE k \notin Writes(a)
          BY <5>2 DEF TypeOK
        <5>. QED BY <5>1, <5>2
      <4>2. \A a \in Arms : row(a) \in [ControlModes -> Values]
        BY <4>1, Zenon
      <4>3. cmd' = [a \in Arms |-> row(a)]
        BY <3>0, Zenon
      <4>. HIDE DEF row
      <4>. QED BY <4>2, <4>3
    <3>. QED BY <1>1, <3>1 DEF Update, TypeOK, switchVars, armVars
  <2>2. WrittenInv'
    BY <1>1 DEF Update, WrittenInv, switchVars, armVars, Idle
  <2>3. PlaceInv'
    BY <1>1 DEF Update, PlaceInv, switchVars, armVars, Idle
  <2>4. AgreeInv'
    <3>1. at = 1 /\ at' = 1 /\ performed' = performed /\ loop' = loop /\ robotMode' = robotMode
          /\ pc = "update"
      BY <1>1 DEF Update, PlaceInv, switchVars, armVars
    <3>2. \A a \in Arms : ~(a < 1)
      BY DEF Arms
    <3>. QED BY <3>1, <3>2 DEF AgreeInv
  <2>. QED BY <2>1, <2>2, <2>3, <2>4
<1>2. CASE PerformNothing
  <2>1. TypeOK'
    BY <1>2 DEF PerformNothing, TypeOK, switchVars, armVars
  <2>2. WrittenInv' /\ PlaceInv'
    BY <1>2 DEF PerformNothing, WrittenInv, PlaceInv, switchVars, armVars, Idle, TypeOK
  <2>3. AgreeInv'
    BY <1>2 DEF PerformNothing, PlaceInv, AgreeInv, switchVars, armVars, TypeOK
  <2>. QED BY <2>1, <2>2, <2>3
<1>3. CASE WriteArm
  <2>1. TypeOK'
    <3>1. sent' \in [Arms -> [ControlModes -> Values \ {"nan"}]]
      BY <1>0, <1>3 DEF WriteArm, TypeOK, Finite, Values
    <3>2. fed' \in [Arms -> BOOLEAN]
      BY <1>3 DEF WriteArm, TypeOK
    <3>3. at' \in Arms /\ pc' \in {"write", "update"}
      BY <1>0, <1>3 DEF WriteArm, NextArm
    <3>. QED BY <1>3, <3>1, <3>2, <3>3 DEF WriteArm, TypeOK, switchVars
  <2>2. WrittenInv'
    BY <1>3 DEF WriteArm, WrittenInv, switchVars, Idle
  <2>3. PlaceInv'
    BY <1>0, <1>3 DEF WriteArm, PlaceInv, NextArm, switchVars, Finite
  <2>4. AgreeInv'
    BY <1>0, <1>3 DEF WriteArm, AgreeInv, NextArm, switchVars
  <2>. QED BY <2>1, <2>2, <2>3, <2>4
<1>4. CASE WriteReturns
  BY <1>0, <1>4 DEF WriteReturns, TypeOK, WrittenInv, PlaceInv, AgreeInv, switchVars, armVars, Idle
<1>5. CASE Activate
  <2>1. TypeOK'
    <3>1. fed' \in [Arms -> BOOLEAN] /\ on' \in BOOLEAN
      BY <1>5, Zenon DEF Activate
    <3>2. cmd' \in [Arms -> [ControlModes -> Values]]
      BY <1>5 DEF Activate, TypeOK, Values
    <3>3. performed' \in [Arms -> Modes] /\ loop' \in [Arms -> Modes \cup {Down}]
      BY <1>5 DEF Activate, LoopOf
    <3>. QED BY <1>5, <3>1, <3>2, <3>3 DEF Activate, TypeOK, switchVars
  <2>. QED BY <2>1, <1>5 DEF Activate, WrittenInv, PlaceInv, AgreeInv, switchVars, Idle, LoopOf
<1>6. CASE Deactivate
  <2>1. TypeOK'
    <3>1. on' \in BOOLEAN
      BY <1>6, Zenon DEF Deactivate
    <3>2. loop' \in [Arms -> Modes \cup {Down}]
      BY <1>6 DEF Deactivate
    <3>. QED BY <1>6, <3>1, <3>2 DEF Deactivate, TypeOK, switchVars
  <2>. QED BY <2>1, <1>6 DEF Deactivate, WrittenInv, PlaceInv, AgreeInv, switchVars, Idle
<1>7. ASSUME NEW a \in Arms, Fault(a) PROVE MultiInv'
  <2>1. TypeOK'
    <3>1. loop' \in [Arms -> Modes \cup {Down}] /\ err' \in [Arms -> BOOLEAN]
      BY <1>7 DEF Fault, TypeOK
    <3>2. faults' \in 0 .. MaxFaults
      BY <1>7 DEF Fault, TypeOK
    <3>. QED BY <1>7, <3>1, <3>2 DEF Fault, TypeOK, switchVars
  <2>2. WrittenInv' /\ PlaceInv'
    BY <1>7 DEF Fault, WrittenInv, PlaceInv, switchVars, Idle, Finite
  <2>3. AgreeInv'
    BY <1>7 DEF Fault, AgreeInv, switchVars, TypeOK
  <2>. QED BY <2>1, <2>2, <2>3
<1>8. ASSUME NEW a \in Arms, Recover(a) PROVE MultiInv'
  <2>1. TypeOK'
    <3>1. loop' \in [Arms -> Modes \cup {Down}]
      BY <1>8 DEF Recover, TypeOK
    <3>2. err' \in [Arms -> BOOLEAN] /\ fed' \in [Arms -> BOOLEAN]
      BY <1>8 DEF Recover, TypeOK
    <3>. QED BY <1>8, <3>1, <3>2 DEF Recover, TypeOK, switchVars
  <2>2. WrittenInv' /\ PlaceInv'
    BY <1>8 DEF Recover, WrittenInv, PlaceInv, switchVars, Idle, Finite
  <2>3. AgreeInv'
    BY <1>8 DEF Recover, AgreeInv, switchVars, TypeOK
  <2>. QED BY <2>1, <2>2, <2>3
<1>. QED BY <1>1, <1>2, <1>3, <1>4, <1>5, <1>6, <1>7, <1>8

(* The invariant is inductive.                                             *)
LEMMA MultiInvStep == MultiInv /\ [Next]_vars => MultiInv'
<1> SUFFICES ASSUME MultiInv, [Next]_vars PROVE MultiInv'
  OBVIOUS
<1>1. CASE UNCHANGED vars
  BY <1>1 DEF MultiInv, TypeOK, WrittenInv, PlaceInv, AgreeInv, vars, Idle, Finite
<1>2. CASE Next
  BY <1>2, PrepareKeeps, PerformKeeps, OthersKeep DEF Next, ControlThread, Prepare
<1>. QED BY <1>1, <1>2

(* In every reachable state.                                               *)
LEMMA MultiInvHolds == Spec => []MultiInv
BY MultiInvInit, MultiInvStep, PTL DEF Spec

-----------------------------------------------------------------------------
(* Every variable stays in its type: in particular what                    *)
(* FrankaMultiHardwareInterface::write hands to a Robot is finite.         *)
THEOREM MultiTypeCorrect == Spec => []TypeOK
<1>1. MultiInv => TypeOK
  BY DEF MultiInv
<1>. QED BY <1>1, MultiInvHolds, PTL

(* perform_command_mode_switch tells every arm the same mode, whichever    *)
(* fail or recover while it goes from one to the next.                     *)
THEOREM ArmsAreToldAlike == Spec => []ArmsAgree
<1>1. MultiInv => ArmsAgree
  BY DEF MultiInv, TypeOK, AgreeInv, ArmsAgree, Settled
<1>. QED BY <1>1, MultiInvHolds, PTL

-----------------------------------------------------------------------------
(* The owners of the arms' loops                                           *)

(* The interfaces a list claims are those it claims of each arm.           *)
LEMMA SizeByArms ==
  ASSUME NEW S \in SUBSET Controllers
  PROVE  /\ \A a \in Arms : ClaimsOn(S, a) \in Nat
         /\ Size(S) = SumFunctionOnSet([a \in Arms |-> ClaimsOn(S, a)], Arms)
<1>. USE ClaimAssumption
<1> DEFINE Share(T) == [a \in Arms |-> ClaimsOn(T, a)]
<1> DEFINE Of(a) == [c \in Controllers |-> Claim[c][a]]
<1>0. IsFiniteSet(Arms) /\ IsFiniteSet(S)
  BY FS_Interval, FS_Subset
<1>1. \A T \in SUBSET S : \A a \in Arms : ClaimsOn(T, a) \in Nat
  <2> TAKE T \in SUBSET S
  <2> TAKE a \in Arms
  <2>1. IsFiniteSet(T) /\ \A c \in T : Of(a)[c] \in Nat
    BY <1>0, FS_Subset
  <2> HIDE DEF Of
  <2>2. SumFunctionOnSet(Of(a), T) \in Nat
    BY <2>1, SumNat
  <2>. QED BY <2>2 DEF ClaimsOn, Of
<1> DEFINE D == {T \in SUBSET S : ~(Size(T) = SumFunctionOnSet(Share(T), Arms))}
<1> SUFFICES ASSUME D # {} PROVE FALSE
  BY <1>1
<1>2. PICK T \in D : \A c \in T : T \ {c} \notin D
  <2>1. D \subseteq SUBSET S
    OBVIOUS
  <2> HIDE DEF D
  <2>. QED BY <1>0, <2>1, SmallestSet
<1>3. T \in SUBSET S /\ ~(Size(T) = SumFunctionOnSet(Share(T), Arms))
  OBVIOUS
<1>4. \A c \in T : Size(T \ {c}) = SumFunctionOnSet(Share(T \ {c}), Arms)
  BY <1>2, <1>3
<1> HIDE DEF D
<1>5. IsFiniteSet(T) /\ T \in SUBSET Controllers
  BY <1>0, <1>3, FS_Subset
<1>6. CASE T = {}
  <2>1. \A a \in Arms : Share({})[a] = 0
    BY SumEmpty DEF ClaimsOn
  <2> HIDE DEF Share
  <2>2. SumFunctionOnSet(Share({}), Arms) <= 0 * Cardinality(Arms)
    BY <1>0, <2>1, SumBounded
  <2>3. SumFunctionOnSet(Share({}), Arms) \in Nat
    <3>1. \A a \in Arms : Share({})[a] \in Nat
      BY <2>1
    <3> HIDE DEF Arms
    <3>. QED BY <1>0, <3>1, SumNat
  <2>4. Cardinality(Arms) \in Nat /\ 0 * Cardinality(Arms) = 0
    BY <1>0, FS_CardinalityType
  <2>. QED BY <1>3, <1>6, <2>2, <2>3, <2>4, SumEmpty DEF Size
<1>7. CASE T # {}
  <2>1. PICK c \in T : TRUE
    BY <1>7
  <2>2. T \ {c} \in SUBSET S /\ c \in Controllers
    BY <1>3
  <2>3. Size(T) = Count[c] + Size(T \ {c})
    BY <1>5, SumRemove DEF Size
  <2>4. ASSUME NEW a \in Arms PROVE Share(T)[a] = Claim[c][a] + Share(T \ {c})[a]
    <3>1. \A d \in T : Of(a)[d] \in Nat
      BY <1>5
    <3>2. Of(a)[c] = Claim[c][a]
      BY <2>2
    <3> HIDE DEF Of
    <3>3. SumFunctionOnSet(Of(a), T) = Of(a)[c] + SumFunctionOnSet(Of(a), T \ {c})
      BY <1>5, <3>1, SumRemove
    <3>. QED BY <3>2, <3>3 DEF ClaimsOn, Of
  <2>5. \A a \in Arms : Claim[c][a] \in Nat /\ Share(T \ {c})[a] \in Nat
    BY <1>1, <2>2
  <2> DEFINE f == Claim[c]
  <2> DEFINE g == Share(T \ {c})
  <2> DEFINE h == Share(T)
  <2>6. \A a \in Arms : f[a] \in Nat /\ g[a] \in Nat /\ h[a] = f[a] + g[a]
    BY <2>4, <2>5
  <2>7. Count[c] = SumFunctionOnSet(f, Arms) /\ Size(T \ {c}) = SumFunctionOnSet(g, Arms)
    BY <1>4, <2>2
  <2> HIDE DEF f, g, h
  <2>8. SumFunctionOnSet(h, Arms) = SumFunctionOnSet(f, Arms) + SumFunctionOnSet(g, Arms)
    BY <1>0, <2>6, SumAdd
  <2>9. SumFunctionOnSet(h, Arms) = SumFunctionOnSet(Share(T), Arms)
    BY DEF h
  <2>. QED BY <1>3, <2>3, <2>7, <2>8, <2>9
<1>. QED BY <1>6, <1>7

(* A list of as many interfaces as all the arms have, no more than an      *)
(* arm's of any arm, claims some of every arm.                             *)
LEMMA FullSharesAll ==
  ASSUME NEW S \in SUBSET Controllers, NEW u \in Nat, u > 0, Size(S) = u * RobotCount,
         \A a \in Arms : ClaimsOn(S, a) <= u,
         NEW b \in Arms
  PROVE  \E c \in S : Claim[c][b] > 0
<1>. USE ClaimAssumption
<1> DEFINE share == [a \in Arms |-> ClaimsOn(S, a)]
<1> DEFINE ofB == [c \in Controllers |-> Claim[c][b]]
<1>0. IsFiniteSet(Arms) /\ Cardinality(Arms) = RobotCount /\ IsFiniteSet(S)
  <2>1. IsFiniteSet(1 .. RobotCount)
        /\ Cardinality(1 .. RobotCount) = IF 1 > RobotCount THEN 0 ELSE RobotCount - 1 + 1
    BY FS_Interval
  <2>. QED BY <2>1, FS_Subset
<1> HIDE DEF Arms
<1>1. /\ \A a \in Arms : share[a] \in 0 .. u
      /\ share[b] = ClaimsOn(S, b)
      /\ SumFunctionOnSet(share, Arms) = u * RobotCount
  <2>1. \A a \in Arms : ClaimsOn(S, a) \in Nat
    BY SizeByArms
  <2>2. Size(S) = SumFunctionOnSet(share, Arms)
    BY SizeByArms
  <2>. QED BY <2>1, <2>2
<1>2. share[b] > 0
  <2> HIDE DEF share
  <2>1. SumFunctionOnSet(share, Arms) = share[b] + SumFunctionOnSet(share, Arms \ {b})
    <3>1. \A a \in Arms : share[a] \in Nat
      BY <1>1
    <3>. QED BY <1>0, <3>1, SumRemove
  <2>2. IsFiniteSet(Arms \ {b}) /\ Cardinality(Arms \ {b}) = RobotCount - 1
    BY <1>0, FS_RemoveElement
  <2>3. SumFunctionOnSet(share, Arms \ {b}) <= u * (RobotCount - 1)
    BY <1>1, <2>2, SumBounded
  <2>4. SumFunctionOnSet(share, Arms \ {b}) \in Nat
    <3>1. \A a \in Arms \ {b} : share[a] \in Nat
      BY <1>1
    <3>. QED BY <2>2, <3>1, SumNat
  <2>5. u * (RobotCount - 1) = u * RobotCount - u /\ u * RobotCount \in Int
    OBVIOUS
  <2>. QED BY <1>1, <2>1, <2>3, <2>4, <2>5
<1>3. ASSUME \A c \in S : ~(Claim[c][b] > 0) PROVE FALSE
  <2>1. \A c \in S : ofB[c] \in 0 .. 0
    BY <1>3
  <2>2. ClaimsOn(S, b) = SumFunctionOnSet(ofB, S)
    BY DEF ClaimsOn
  <2> HIDE DEF ofB, share
  <2>3. SumFunctionOnSet(ofB, S) <= 0 * Cardinality(S)
    BY <1>0, <2>1, SumBounded
  <2>4. Cardinality(S) \in Nat /\ 0 * Cardinality(S) = 0
    BY <1>0, FS_CardinalityType
  <2>5. SumFunctionOnSet(ofB, S) \in Nat
    <3>1. \A c \in S : ofB[c] \in Nat
      BY <2>1
    <3>. QED BY <1>0, <3>1, SumNat
  <2>. QED BY <1>1, <1>2, <2>2, <2>3, <2>4, <2>5
<1>. QED BY <1>3

(* What prepare accepts to start claims interfaces of every arm, or 6 of   *)
(* the pose for each arm, whichever arms they are of.                      *)
LEMMA StartOwnsArms ==
  ASSUME NEW S \in SUBSET Controllers, S # {}, StartOK(S, None),
         \A k \in ControlModes :
           /\ Size(Claimants(S, k)) <= Exported[k]
           /\ \A a \in Arms : ClaimedOf(S, k, a) <= Exported[k] \div RobotCount,
         NEW b \in Arms
  PROVE  OwnedBy(S, ModeOf(S, None), b)
<1> DEFINE m == ModeOf(S, None)
<1>1. \A c \in S : Kind[c] = m /\ m \in ControlModes
  BY StartIsOfItsKind
<1>2. m \in ControlModes /\ S = Claimants(S, m)
  BY <1>1 DEF Claimants
<1>3. RobotCount \in Nat \ {0}
  OBVIOUS
<1>4. /\ Size(S) <= Exported[m]
      /\ \A a \in Arms : ClaimsOn(S, a) <= Exported[m] \div RobotCount
  BY <1>2, Zenon DEF ClaimedOf
<1>5. ASSUME NEW u \in {6, 7, 16}, Exported[m] = u * RobotCount, Size(S) = u * RobotCount
      PROVE  OwnedBy(S, m, b)
  <2>1. (u * RobotCount) \div RobotCount = u
    BY <1>3
  <2>2. \A a \in Arms : ClaimsOn(S, a) <= u
    BY <1>4, <1>5, <2>1
  <2>3. \E c \in S : Claim[c][b] > 0
    <3> HIDE DEF Arms
    <3>. QED BY <1>5, <2>2, FullSharesAll
  <2>. QED BY <1>1, <2>3 DEF OwnedBy
<1>6. CheckType(S) \in {1, 2}
  BY DEF StartOK, CheckType
<1>7. CASE CheckType(S) = 1
  <2>1. Size(S) = kNumberOfJoints
    BY <1>7 DEF StartOK
  <2>2. m \in JointModes
    BY <1>7 DEF ModeOf
  <2>. QED BY <1>5, <2>1, <2>2 DEF Exported, kNumberOfJoints
<1>8. CASE CheckType(S) = 2
  <2>1. Size(S) \in {kPoseSize, kTwistSize}
    BY <1>8 DEF StartOK
  <2>2. CASE m = "CartesianVelocity"
    <3>1. Exported[m] = kTwistSize /\ Size(S) = kTwistSize
      BY <1>3, <1>4, <2>1, <2>2 DEF Exported, kPoseSize, kTwistSize
    <3>. QED BY <1>5, <3>1 DEF kTwistSize
  <2>3. CASE m = "CartesianPose" /\ Size(S) = kPoseSize
    <3>1. Exported[m] = kPoseSize
      BY <2>3 DEF Exported
    <3>. QED BY <1>5, <2>3, <3>1 DEF kPoseSize
  <2>4. CASE m = "CartesianPose" /\ Size(S) = kTwistSize
    BY <1>1, <2>4 DEF OwnedBy
  <2>5. m \in CartesianModes
    BY <1>8 DEF ModeOf
  <2>. QED BY <2>1, <2>2, <2>3, <2>4, <2>5
<1>. QED BY <1>6, <1>7, <1>8

(* Between prepare and perform control_mode_ is ahead of the arms: it is   *)
(* the mode the controllers own that will be active when perform is over.  *)
OwnerInv ==
  /\ MultiInv
  /\ ArmsAreOwned
  /\ ~Idle /\ controlMode # None =>
       \A a \in Arms : OwnedBy(request.start, controlMode, a)

(* An accepted switch comes with the owners of its mode.                   *)
LEMMA AcceptsOwners ==
  ASSUME MultiInv,
         NEW start \in SUBSET (Controllers \ active), NEW stop \in SUBSET active,
         PrepareAccepts(start, stop), controlMode' # None
  PROVE  \A a \in Arms : OwnedBy(start, controlMode', a)
<1>1. start \in SUBSET Controllers /\ stop \in SUBSET Controllers /\ active \in SUBSET Controllers
  BY DEF MultiInv, TypeOK
<1>2. StartOK(start, None) /\ controlMode' = ModeOf(start, None)
  BY DEF PrepareAccepts, StartOK
<1>3. start # {}
  BY <1>1, <1>2, StartTakesItsKind
<1>4. ASSUME NEW k \in ControlModes
      PROVE  /\ Size(Claimants(start, k)) <= Exported[k]
             /\ \A a \in Arms : ClaimedOf(start, k, a) <= Exported[k] \div RobotCount
  <2> DEFINE after == Claimants((active \ stop) \cup start, k)
  <2> DEFINE part  == Claimants(start, k)
  <2>1. after \in SUBSET Controllers /\ part \in SUBSET after
    BY <1>1 DEF Claimants
  <2>2. Size(after) <= Exported[k]
        /\ \A a \in Arms : ClaimsOn(after, a) <= Exported[k] \div RobotCount
    BY DEF PrepareAccepts, Asks, ClaimedOf
  <2>3. Exported[k] \in Nat /\ Exported[k] \div RobotCount \in Int
    BY DEF Exported, kNumberOfJoints, kPoseSize, kTwistSize
  <2> HIDE DEF after, part
  <2>4. Size(part) <= Size(after) /\ Size(after) \in Nat /\ Size(part) \in Nat
    BY <2>1, SizeMonotone
  <2>5. ASSUME NEW a \in Arms
        PROVE  /\ ClaimsOn(part, a) <= ClaimsOn(after, a)
               /\ ClaimsOn(part, a) \in Nat /\ ClaimsOn(after, a) \in Nat
    <3> DEFINE f == [c \in Controllers |-> Claim[c][a]]
    <3>1. IsFiniteSet(after) /\ \A c \in after : f[c] \in Nat
      BY <2>1, FS_Subset, ClaimAssumption
    <3>2. ClaimsOn(part, a) = SumFunctionOnSet(f, part)
          /\ ClaimsOn(after, a) = SumFunctionOnSet(f, after)
      BY DEF ClaimsOn
    <3>3. IsFiniteSet(part) /\ \A c \in part : f[c] \in Nat
      BY <2>1, <3>1, FS_Subset
    <3> HIDE DEF f
    <3>4. SumFunctionOnSet(f, part) \in Nat /\ SumFunctionOnSet(f, after) \in Nat
      BY <3>1, <3>3, SumNat
    <3>5. SumFunctionOnSet(f, part) <= SumFunctionOnSet(f, after)
      BY <2>1, <3>1, SumMonotone
    <3>. QED BY <3>2, <3>4, <3>5
  <2>6. \A a \in Arms : ClaimsOn(part, a) <= Exported[k] \div RobotCount
    <3> HIDE DEF Arms
    <3>. QED BY <2>2, <2>3, <2>5
  <2>7. Size(part) <= Exported[k]
    BY <2>2, <2>3, <2>4
  <2>. QED BY <2>6, <2>7 DEF part, ClaimedOf
<1>5. ModeOf(start, None) = controlMode'
  BY <1>2
<1> HIDE DEF Arms
<1>. QED BY <1>1, <1>2, <1>3, <1>4, <1>5, StartOwnsArms

(* A mode performed on an arm belongs to active controllers that claim     *)
(* interfaces of that arm, or 6 of the pose for each arm, for any number   *)
(* of arms (prepare_command_mode_switch and perform_command_mode_switch of *)
(* FrankaMultiHardwareInterface).                                          *)
THEOREM ArmsHaveOwners == Spec => []ArmsAreOwned
<1>1. Init => OwnerInv
  <2>1. Init => ArmsAreOwned /\ Idle
    BY DEF Init, ArmsAreOwned, Idle
  <2>. QED BY <2>1, MultiInvInit DEF OwnerInv
<1>2. MultiInv' /\ OwnerInv /\ [Next]_vars => OwnerInv'
  <2> SUFFICES ASSUME MultiInv', OwnerInv, [Next]_vars
               PROVE  /\ ArmsAreOwned'
                      /\ ~Idle' /\ controlMode' # None =>
                           \A a \in Arms : OwnedBy(request'.start, controlMode', a)
    BY DEF OwnerInv, OwnedBy
  <2> USE DEF OwnerInv
  <2>1. ASSUME NEW start \in SUBSET (Controllers \ active), NEW stop \in SUBSET active,
               PrepareAccepts(start, stop)
        PROVE  /\ ArmsAreOwned'
               /\ ~Idle' /\ controlMode' # None =>
                    \A a \in Arms : OwnedBy(request'.start, controlMode', a)
    <3>1. ArmsAreOwned'
      BY <2>1 DEF PrepareAccepts, ArmsAreOwned, Settled, OwnedBy, armVars
    <3>2. ~Idle' => request'.start = start
      BY <2>1 DEF PrepareAccepts, Asks, Idle
    <3>3. controlMode' # None => \A a \in Arms : OwnedBy(start, controlMode', a)
      BY <2>1, AcceptsOwners
    <3>. QED BY <3>1, <3>2, <3>3
  <2>2. ASSUME NEW start \in SUBSET (Controllers \ active), NEW stop \in SUBSET active,
               PrepareRefusesStop(start, stop) \/ PrepareRefusesStart(start, stop)
        PROVE  ArmsAreOwned' /\ Idle'
    BY <2>2 DEF PrepareRefusesStop, PrepareRefusesStart, Asks, Idle, NoRequest,
                ArmsAreOwned, Settled, OwnedBy, armVars, vars
  <2>3. CASE PerformArm
    <3>1. at \in Arms /\ ~Idle /\ pc = "switch"
      BY <2>3 DEF PerformArm, MultiInv, TypeOK
    <3>2. CASE at < LastArm
      <4>1. pc' = "switch" /\ at' # 1
        BY <2>3, <3>1, <3>2 DEF PerformArm, NextArm
      <4>2. UNCHANGED <<request, controlMode>>
        BY <2>3, <3>2 DEF PerformArm
      <4>. QED BY <4>1, <4>2, <3>1 DEF ArmsAreOwned, Settled, OwnedBy
    <3>3. CASE ~(at < LastArm)
      <4>1. /\ Idle' /\ controlMode' = controlMode
            /\ request.start \in SUBSET active'
        BY <2>3, <3>3 DEF PerformArm, Idle, NoRequest, MultiInv, TypeOK
      <4>2. \A a \in Arms : performed'[a] = controlMode
        BY <2>3, <3>1, <3>3 DEF PerformArm, MultiInv, TypeOK, AgreeInv
      <4>3. controlMode # None => \A a \in Arms : OwnedBy(request.start, controlMode, a)
        BY <3>1
      <4>4. controlMode # None => \A a \in Arms : OwnedBy(active', controlMode, a)
        BY <4>1, <4>3 DEF OwnedBy
      <4>5. ArmsAreOwned'
        BY <4>2, <4>4 DEF ArmsAreOwned, OwnedBy
      <4>. QED BY <4>1, <4>5
    <3>. QED BY <3>2, <3>3
  <2>4. CASE Activate
    <3>1. UNCHANGED <<request, controlMode>> /\ \A a \in Arms : performed'[a] = None
      BY <2>4 DEF Activate, switchVars
    <3>. QED BY <3>1 DEF ArmsAreOwned, Idle, NoRequest, OwnedBy
  <2>5. CASE \/ Update \/ PerformNothing \/ WriteArm \/ WriteReturns \/ Deactivate
             \/ \E a \in Arms : Fault(a) \/ Recover(a)
    <3>1. UNCHANGED <<request, controlMode, active, performed>>
      BY <2>5 DEF Update, PerformNothing, WriteArm, WriteReturns, Deactivate, Fault,
                  Recover, switchVars, armVars
    <3>2. Settled' => Settled
      BY <2>5 DEF Update, PerformNothing, WriteArm, WriteReturns, Deactivate, Settled,
                  MultiInv, PlaceInv, Fault, Recover
    <3>. QED BY <3>1, <3>2 DEF ArmsAreOwned, Idle, NoRequest, OwnedBy
  <2>6. CASE UNCHANGED vars
    BY <2>6 DEF vars, ArmsAreOwned, Settled, Idle, NoRequest, OwnedBy
  <2>. QED BY <2>1, <2>2, <2>3, <2>4, <2>5, <2>6 DEF Next, ControlThread, Prepare
<1>3. OwnerInv => ArmsAreOwned
  BY DEF OwnerInv
<1>4. Spec => []MultiInv
  BY MultiInvHolds
<1>. QED BY <1>1, <1>2, <1>3, <1>4, PTL DEF Spec

-----------------------------------------------------------------------------
(* Several arms as one                                                     *)

(* The checks of the two components are the same.                          *)
LEMMA SameChecks ==
  ASSUME NEW S, NEW mode
  PROVE  /\ OneArm!StopOK(S) <=> StopOK(S)
         /\ OneArm!StartOK(S, mode) <=> StartOK(S, mode)
         /\ OneArm!ModeOf(S, mode) = ModeOf(S, mode)
         /\ OneArm!Zeroed(S) = Zeroed(S)
<1>1. OneArm!CheckType(S) = CheckType(S)
  BY DEF OneArm!CheckType, CheckType, OneArm!AllOf, AllOf, OneArm!Words, Words
<1>2. OneArm!WellNamed(S) <=> WellNamed(S)
  BY DEF OneArm!WellNamed, WellNamed, OneArm!AllOf, AllOf, OneArm!Words, Words
<1>3. OneArm!Size(S) = Size(S)
  BY Zenon DEF OneArm!Size, Size, OneArm!SumFunctionOnSet, SumFunctionOnSet,
               OneArm!FoldFunctionOnSet, FoldFunctionOnSet,
               OneArm!MapThenFoldSet, MapThenFoldSet
<1>4. OneArm!StopOK(S) <=> StopOK(S)
  BY <1>1, <1>2, <1>3
  DEF OneArm!StopOK, StopOK, OneArm!AllOf, AllOf, OneArm!Words, Words,
      OneArm!kNumberOfJoints, kNumberOfJoints, OneArm!kPoseSize, kPoseSize,
      OneArm!kTwistSize, kTwistSize
<1>5. OneArm!StartOK(S, mode) <=> StartOK(S, mode)
  BY <1>1, <1>2, <1>3
  DEF OneArm!StartOK, StartOK, OneArm!kNumberOfJoints, kNumberOfJoints,
      OneArm!kPoseSize, kPoseSize, OneArm!kTwistSize, kTwistSize
<1>6. OneArm!ModeOf(S, mode) = ModeOf(S, mode)
  BY <1>1 DEF OneArm!ModeOf, ModeOf, OneArm!AllOf, AllOf, OneArm!Words, Words
<1>7. OneArm!Zeroed(S) = Zeroed(S)
  BY DEF OneArm!Zeroed, Zeroed
<1>. QED BY <1>4, <1>5, <1>6, <1>7

(* So is what the controller manager may ask for.                          *)
LEMMA SameAsks ==
  ASSUME NEW start, NEW stop, Asks(start, stop)
  PROVE  OneArm!Asks(start, stop)
<1>1. \A S : OneArm!Size(S) = Size(S)
  BY Zenon DEF OneArm!Size, Size, OneArm!SumFunctionOnSet, SumFunctionOnSet,
               OneArm!FoldFunctionOnSet, FoldFunctionOnSet,
               OneArm!MapThenFoldSet, MapThenFoldSet
<1>2. \A S, k : OneArm!Claimants(S, k) = Claimants(S, k)
  BY DEF OneArm!Claimants, Claimants
<1>3. OneArm!Exported = Exported
  BY DEF OneArm!Exported, Exported, OneArm!ControlModes, OneArm!JointModes,
         OneArm!CartesianModes, OneArm!kNumberOfJoints, kNumberOfJoints,
         OneArm!kPoseSize, kPoseSize, OneArm!kTwistSize, kTwistSize
<1>4. OneArm!ControlModes = ControlModes
  BY DEF OneArm!ControlModes, OneArm!JointModes, OneArm!CartesianModes
<1>5. OneArm!Idle
  BY DEF Asks, OneArm!Idle, Idle, OneArm!NoRequest, NoRequest
<1>. QED BY <1>1, <1>2, <1>3, <1>4, <1>5, Zenon DEF Asks, OneArm!Asks

(* The component of one arm that several arms look like.                   *)
AbsMode == IF firstMode = None THEN controlMode ELSE None
AbsCmd  == [k \in ControlModes |-> IF AnyNaN(k) THEN "nan" ELSE cmd[LastArm][k]]

USE DEF OneArm!ControlModes, OneArm!JointModes, OneArm!CartesianModes

(* prepare_command_mode_switch of the one is that of the other, or does    *)
(* nothing: that of an arm whose control_mode_ never was None.             *)
LEMMA PrepareSimulates ==
  ASSUME MultiInv,
         NEW start \in SUBSET (Controllers \ active), NEW stop \in SUBSET active,
         \/ PrepareRefusesStop(start, stop) \/ PrepareRefusesStart(start, stop)
         \/ PrepareAccepts(start, stop)
  PROVE  OneArm!Prepare \/ UNCHANGED OneArm!vars
<1>. USE DEF MultiInv
<1>0. /\ OneArm!StopOK(stop) <=> StopOK(stop)
      /\ OneArm!Zeroed(stop) = Zeroed(stop)
      /\ \A m : OneArm!StartOK(start, m) <=> StartOK(start, m)
      /\ \A m : OneArm!ModeOf(start, m) = ModeOf(start, m)
      /\ Asks(start, stop) => OneArm!Asks(start, stop)
  BY SameChecks, SameAsks
<1>1. CASE PrepareRefusesStop(start, stop)
  BY <1>1 DEF PrepareRefusesStop, vars, OneArm!vars, AnyNaN
<1>2. ASSUME cmd' = CmdAfterStop(stop), firstMode' = firstMode
      PROVE  AbsCmd' = OneArm!CmdAfterStop(stop)
  <2>1. ASSUME NEW k \in ControlModes
        PROVE  AbsCmd'[k] = IF k \in Zeroed(stop) THEN "zero" ELSE AbsCmd[k]
    <3>1. \A a \in Arms : cmd'[a][k] = IF k \in Zeroed(stop) THEN "zero" ELSE cmd[a][k]
      BY <1>2 DEF CmdAfterStop
    <3>2. LastArm \in Arms
      OBVIOUS
    <3>3. /\ AbsCmd[k] = IF AnyNaN(k) THEN "nan" ELSE cmd[LastArm][k]
          /\ AbsCmd'[k] = IF AnyNaN(k)' THEN "nan" ELSE cmd'[LastArm][k]
      BY DEF AbsCmd
    <3>4. CASE k \in Zeroed(stop)
      BY <3>1, <3>2, <3>3, <3>4 DEF AnyNaN
    <3>5. CASE k \notin Zeroed(stop)
      BY <3>1, <3>2, <3>3, <3>5 DEF AnyNaN
    <3>. QED BY <3>4, <3>5
  <2>2. OneArm!CmdAfterStop(stop) =
          [k \in ControlModes |-> IF k \in Zeroed(stop) THEN "zero" ELSE AbsCmd[k]]
    BY <1>0 DEF OneArm!CmdAfterStop, AbsCmd
  <2>3. AbsCmd' = [k \in ControlModes |-> AbsCmd'[k]]
    BY DEF AbsCmd
  <2>. QED BY <2>1, <2>2, <2>3
<1>3. CASE PrepareRefusesStart(start, stop)
  <2>1. CASE firstMode = None
    <3>1. OneArm!ModeAfterStop(stop) = ModeAfterStop(stop)
      BY <2>1 DEF OneArm!ModeAfterStop, ModeAfterStop
    <3>2. AbsMode' = ModeAfterStop(stop) /\ AbsCmd' = OneArm!CmdAfterStop(stop)
      BY <2>1, <1>2, <1>3 DEF PrepareRefusesStart, AbsMode
    <3>3. OneArm!PrepareRefusesStart(start, stop)
      BY <1>0, <1>3, <3>1, <3>2
      DEF PrepareRefusesStart, OneArm!PrepareRefusesStart, AbsMode, AbsCmd, armVars
    <3>. QED BY <3>3 DEF OneArm!Prepare
  <2>2. CASE firstMode # None
    <3>1. stop = {} /\ CmdAfterStop(stop) = cmd
      BY <2>2 DEF WrittenInv, CmdAfterStop, Zeroed, TypeOK
    <3>. QED BY <1>3, <2>2, <3>1 DEF PrepareRefusesStart, OneArm!vars, AnyNaN, armVars
  <2>. QED BY <2>1, <2>2
<1>4. CASE PrepareAccepts(start, stop)
  <2>0. ModeAfterStop(stop) = None
    BY <1>4 DEF PrepareAccepts, StartOK
  <2>1. firstMode = None
    BY <2>0 DEF WrittenInv, ModeAfterStop
  <2>2. OneArm!ModeAfterStop(stop) = ModeAfterStop(stop)
    BY <2>1 DEF OneArm!ModeAfterStop, ModeAfterStop
  <2>3. AbsMode' = ModeOf(start, ModeAfterStop(stop)) /\ AbsCmd' = OneArm!CmdAfterStop(stop)
    BY <2>1, <1>2, <1>4 DEF PrepareAccepts, AbsMode
  <2>4. OneArm!PrepareAccepts(start, stop) \/ OneArm!PeerRefuses(start, stop)
    BY <1>0, <1>4, <2>2, <2>3
    DEF PrepareAccepts, OneArm!PrepareAccepts, OneArm!PeerRefuses, AbsMode, AbsCmd, armVars
  <2>. QED BY <2>4 DEF OneArm!Prepare
<1>. QED BY <1>1, <1>3, <1>4

(* A step of the control thread at an arm that is not the last is seen by  *)
(* that arm only; the one at the last is the whole call.                   *)
LEMMA ControlThreadSimulates ==
  ASSUME MultiInv, ControlThread
  PROVE  OneArm!Next \/ UNCHANGED OneArm!vars
<1>. USE DEF MultiInv
<1>0. at \in 1 .. RobotCount
  BY DEF TypeOK
<1>1. CASE Update
  <2> DEFINE D == {k \in ControlModes : \E c \in active : Kind[c] = k}
  <2> DEFINE v == [k \in D |-> AbsCmd'[k]]
  <2>1. cmd' \in [Arms -> [ControlModes -> Values]]
    BY <1>1, OthersKeep DEF TypeOK
  <2>2. v \in [D -> OneArm!Values]
    BY <2>1 DEF AbsCmd, OneArm!Values, Values
  <2>3. ASSUME NEW k \in ControlModes, k \notin D PROVE AbsCmd'[k] = AbsCmd[k]
    <3>1. \A a \in Arms : cmd'[a][k] = cmd[a][k]
      BY <1>1, <2>3 DEF Update, Writes
    <3>. QED BY <3>1 DEF AbsCmd, AnyNaN
  <2>4. AbsCmd' = [k \in ControlModes |-> IF k \in DOMAIN v THEN v[k] ELSE AbsCmd[k]]
    <3>1. AbsCmd' = [k \in ControlModes |-> AbsCmd'[k]]
      BY DEF AbsCmd
    <3>. QED BY <3>1, <2>3
  <2>5. OneArm!Update
    <3>. HIDE DEF v
    <3>. QED BY <1>1, <2>2, <2>4 DEF Update, OneArm!Update, AbsMode, AbsCmd, switchVars, armVars
  <2>. QED BY <2>5 DEF OneArm!Next
<1>2. CASE PerformNothing
  BY <1>2 DEF PerformNothing, OneArm!PerformNothing, OneArm!Next, OneArm!Idle, Idle,
              OneArm!NoRequest, NoRequest, AnyNaN, switchVars, armVars
<1>3. CASE PerformArm
  <2>1. CASE at < LastArm
    BY <1>0, <1>3, <2>1 DEF PerformArm, NextArm, OneArm!vars, AnyNaN, TypeOK
  <2>2. CASE ~(at < LastArm)
    <3>1. firstMode = None /\ at = LastArm
      BY <1>0, <1>3, <2>2 DEF PerformArm, WrittenInv
    <3>2. OneArm!Perform
      BY <1>3, <2>2, <3>1 DEF PerformArm, NextArm, OneArm!Perform, OneArm!Idle, Idle,
         OneArm!NoRequest, NoRequest, AnyNaN, TypeOK
    <3>. QED BY <3>2 DEF OneArm!Next
  <2>. QED BY <2>1, <2>2
<1>4. CASE WriteArm
  <2>1. CASE at < LastArm
    BY <1>0, <1>4, <2>1 DEF WriteArm, NextArm, OneArm!vars, AnyNaN, TypeOK, switchVars
  <2>2. CASE ~(at < LastArm)
    <3>1. at = LastArm /\ \A k \in ControlModes : ~AnyNaN(k)
      BY <1>0, <1>4, <2>2 DEF WriteArm, PlaceInv, Finite, AnyNaN
    <3>2. AbsCmd = cmd[LastArm]
      BY <3>1 DEF AbsCmd, TypeOK
    <3>3. \A k \in ControlModes : AbsCmd[k] # "nan"
      BY <3>1, <3>2, <1>4 DEF WriteArm, Finite
    <3>4. sent'[LastArm] = AbsCmd
      BY <1>4, <3>1, <3>2 DEF WriteArm, TypeOK
    <3>5. OneArm!Write
      BY <1>4, <2>2, <3>3, <3>4 DEF WriteArm, NextArm, OneArm!Write, AbsCmd, AnyNaN, switchVars
    <3>. QED BY <3>5 DEF OneArm!Next
  <2>. QED BY <2>1, <2>2
<1>5. CASE WriteReturns
  <2>1. CASE \E k \in ControlModes : AbsCmd[k] = "nan"
    <3>1. OneArm!Write
      BY <1>5, <2>1 DEF WriteReturns, OneArm!Write, AbsCmd, AnyNaN, switchVars, armVars
    <3>. QED BY <3>1 DEF OneArm!Next
  <2>2. CASE ~(\E k \in ControlModes : AbsCmd[k] = "nan")
    <3>1. OneArm!WriteSkips
      BY <1>5, <2>2 DEF WriteReturns, OneArm!WriteSkips, AbsCmd, AnyNaN, switchVars, armVars
    <3>. QED BY <3>1 DEF OneArm!Next
  <2>. QED BY <2>1, <2>2
<1>. QED BY <1>1, <1>2, <1>3, <1>4, <1>5 DEF ControlThread

(* The lifecycle is the Reactivate of the one arm, and the loops of arms   *)
(* that fail and recover are not seen.                                     *)
LEMMA LifecycleSimulates ==
  ASSUME MultiInv,
         Activate \/ Deactivate \/ (\E a \in Arms : Fault(a) \/ Recover(a))
  PROVE  OneArm!Next \/ UNCHANGED OneArm!vars
<1>. USE DEF MultiInv
<1>1. CASE Activate
  <2>1. AbsCmd' = [AbsCmd EXCEPT !["JointTorque"] = "zero"]
    <3>1. \A a \in Arms, k \in ControlModes :
            cmd'[a][k] = IF k = "JointTorque" THEN "zero" ELSE cmd[a][k]
      BY <1>1 DEF Activate, TypeOK
    <3>2. \A k \in ControlModes :
            AbsCmd'[k] = IF k = "JointTorque" THEN "zero" ELSE AbsCmd[k]
      BY <3>1 DEF AbsCmd, AnyNaN
    <3>3. AbsCmd' = [k \in ControlModes |-> AbsCmd'[k]]
      BY DEF AbsCmd
    <3>4. AbsCmd = [k \in ControlModes |-> AbsCmd[k]]
      BY DEF AbsCmd
    <3>. QED BY <3>2, <3>3, <3>4
  <2>2. OneArm!Reactivate
    BY <1>1, <2>1 DEF Activate, OneArm!Reactivate, AbsCmd, OneArm!Idle, Idle, WrittenInv,
       OneArm!NoRequest, NoRequest, switchVars
  <2>. QED BY <2>2 DEF OneArm!Next
<1>2. CASE Deactivate
  BY <1>2 DEF Deactivate, OneArm!vars, AnyNaN, switchVars
<1>3. CASE \E a \in Arms : Fault(a) \/ Recover(a)
  BY <1>3 DEF Fault, Recover, OneArm!vars, AnyNaN, switchVars
<1>. QED BY <1>1, <1>2, <1>3

(* With respect to switches and commands, FrankaMultiHardwareInterface is  *)
(* a FrankaHardwareInterface of one large arm, whatever its arms do, as    *)
(* seen from the last arm of the map arms_.                                *)
THEOREM SeveralArmsAreOne == Spec => ImplementsOneArm
<1>1. Init => OneArm!Init
  <2> SUFFICES ASSUME Init PROVE OneArm!Init
    OBVIOUS
  <2>1. AbsCmd = [k \in ControlModes |-> "zero"]
    BY DEF Init, AbsCmd, AnyNaN
  <2>2. AbsCmd = [k \in OneArm!ControlModes |-> "zero"] /\ sent[LastArm] = AbsCmd
    BY <2>1 DEF Init
  <2>3. AbsMode = None /\ performed[LastArm] = None /\ active = {} /\ pc = "update"
    BY DEF Init, AbsMode
  <2>4. request = OneArm!NoRequest
    BY DEF Init, OneArm!NoRequest, NoRequest
  <2>5. dropped = FALSE
    BY Zenon DEF Init
  <2>. QED BY <2>2, <2>3, <2>4, <2>5, Zenon DEF OneArm!Init, AbsCmd, AbsMode
<1>2. MultiInv /\ [Next]_vars => [OneArm!Next]_(OneArm!vars)
  <2> SUFFICES ASSUME MultiInv, [Next]_vars PROVE OneArm!Next \/ UNCHANGED OneArm!vars
    OBVIOUS
  <2>1. CASE UNCHANGED vars
    BY <2>1 DEF vars, OneArm!vars, AnyNaN
  <2>2. CASE Next
    BY <2>2, PrepareSimulates, ControlThreadSimulates, LifecycleSimulates
    DEF Next, Prepare, OneArm!Next
  <2>. QED BY <2>1, <2>2
<1>. QED BY <1>1, <1>2, MultiInvHolds, PTL DEF Spec, ImplementsOneArm, OneArm!Spec

-----------------------------------------------------------------------------
(* What one arm has proved, several have                                   *)

(* The theorems about CommandModeSwitch, of the component several arms     *)
(* implement.                                                              *)
OneProofs == INSTANCE CommandModeSwitchProofs WITH
    controlMode <- IF firstMode = None THEN controlMode ELSE None,
    loop <- performed[LastArm],
    cmd  <- [k \in ControlModes |-> IF AnyNaN(k) THEN "nan" ELSE cmd[LastArm][k]],
    sent <- sent[LastArm]

(* It satisfies what CommandInterfaces assumes.                            *)
LEMMA SameAssumption ==
  /\ OneProofs!IsFiniteSet(Controllers)
  /\ Kind \in [Controllers -> OneProofs!Kinds]
  /\ Count \in [Controllers -> Nat \ {0}]
  /\ RobotCount \in Nat \ {0}
  /\ None \notin OneProofs!Kinds
<1>1. OneProofs!Kinds = Kinds
  BY Zenon DEF OneProofs!Kinds, OneProofs!ControlModes, OneProofs!JointModes,
               OneProofs!CartesianModes
<1>. QED BY <1>1, Zenon DEF OneProofs!IsFiniteSet, IsFiniteSet

(* Its switch is the one ImplementsOneArm is about.                        *)
LEMMA SameSwitch == (OneProofs!Prepare <=> OneArm!Prepare) /\ (OneProofs!Init <=> OneArm!Init)
BY Zenon
  DEF OneProofs!Prepare, OneArm!Prepare, OneProofs!PrepareRefusesStop,
       OneArm!PrepareRefusesStop, OneProofs!PrepareRefusesStart,
       OneArm!PrepareRefusesStart, OneProofs!PrepareAccepts,
       OneArm!PrepareAccepts, OneProofs!PeerRefuses, OneArm!PeerRefuses,
       OneProofs!Asks, OneArm!Asks, OneProofs!StopOK, OneArm!StopOK,
       OneProofs!StartOK, OneArm!StartOK, OneProofs!ModeOf, OneArm!ModeOf,
       OneProofs!Zeroed, OneArm!Zeroed, OneProofs!ModeAfterStop,
       OneArm!ModeAfterStop, OneProofs!CmdAfterStop, OneArm!CmdAfterStop,
       OneProofs!Init, OneArm!Init, OneProofs!vars, OneArm!vars, OneProofs!Idle,
       OneArm!Idle, OneProofs!NoRequest, OneArm!NoRequest, OneProofs!Claimants,
       OneArm!Claimants, OneProofs!Exported, OneArm!Exported,
       OneProofs!ControlModes, OneArm!ControlModes, OneProofs!JointModes,
       OneArm!JointModes, OneProofs!CartesianModes, OneArm!CartesianModes,
       OneProofs!Size, OneArm!Size, OneProofs!SumFunctionOnSet,
       OneArm!SumFunctionOnSet, OneProofs!FoldFunctionOnSet,
       OneArm!FoldFunctionOnSet, OneProofs!MapThenFoldSet, OneArm!MapThenFoldSet,
       OneProofs!kNumberOfJoints, OneArm!kNumberOfJoints, OneProofs!kPoseSize,
       OneArm!kPoseSize, OneProofs!kTwistSize, OneArm!kTwistSize, OneProofs!AllOf,
       OneArm!AllOf, OneProofs!CheckType, OneArm!CheckType, OneProofs!WellNamed,
       OneArm!WellNamed, OneProofs!Words, OneArm!Words

(* So are its control thread and its lifecycle.                            *)
LEMMA SameThread ==
  /\ OneProofs!Update <=> OneArm!Update
  /\ OneProofs!PerformNothing <=> OneArm!PerformNothing
  /\ OneProofs!Perform <=> OneArm!Perform
  /\ OneProofs!Write <=> OneArm!Write
  /\ OneProofs!WriteSkips <=> OneArm!WriteSkips
  /\ OneProofs!Reactivate <=> OneArm!Reactivate
BY Zenon
  DEF OneProofs!Update, OneArm!Update, OneProofs!PerformNothing,
       OneArm!PerformNothing, OneProofs!Perform, OneArm!Perform, OneProofs!Write,
       OneArm!Write, OneProofs!WriteSkips, OneArm!WriteSkips,
       OneProofs!Reactivate, OneArm!Reactivate, OneProofs!Values, OneArm!Values,
       OneProofs!Idle, OneArm!Idle, OneProofs!NoRequest, OneArm!NoRequest,
       OneProofs!ControlModes, OneArm!ControlModes, OneProofs!JointModes,
       OneArm!JointModes, OneProofs!CartesianModes, OneArm!CartesianModes

(* Several arms behave as the component the theorems are about.            *)
LEMMA ArmsAreOneProved == Spec => OneProofs!Spec
<1>1. OneArm!Init => OneProofs!Init
  BY SameSwitch
<1>2. [OneArm!Next]_(OneArm!vars) => [OneProofs!Next]_(OneProofs!vars)
  <2>1. OneArm!Next => OneProofs!Next
    BY SameSwitch, SameThread, Zenon DEF OneArm!Next, OneProofs!Next
  <2>2. UNCHANGED OneArm!vars => UNCHANGED OneProofs!vars
    BY Zenon DEF OneArm!vars, OneProofs!vars
  <2>. QED BY <2>1, <2>2
<1>. QED BY <1>1, <1>2, SeveralArmsAreOne, PTL DEF ImplementsOneArm, OneArm!Spec, OneProofs!Spec

(* Its checks are those of several arms.                                   *)
LEMMA ProvedChecks ==
  ASSUME NEW S, NEW mode
  PROVE  (OneProofs!StopOK(S) <=> StopOK(S)) /\ (OneProofs!StartOK(S, mode) <=> StartOK(S, mode))
<1>1. (OneProofs!StopOK(S) <=> OneArm!StopOK(S))
      /\ (OneProofs!StartOK(S, mode) <=> OneArm!StartOK(S, mode))
  BY Zenon
    DEF OneProofs!StopOK, OneArm!StopOK, OneProofs!StartOK, OneArm!StartOK,
         OneProofs!AllOf, OneArm!AllOf, OneProofs!CheckType, OneArm!CheckType,
         OneProofs!WellNamed, OneArm!WellNamed, OneProofs!Words, OneArm!Words,
         OneProofs!Size, OneArm!Size, OneProofs!SumFunctionOnSet,
         OneArm!SumFunctionOnSet, OneProofs!FoldFunctionOnSet,
         OneArm!FoldFunctionOnSet, OneProofs!MapThenFoldSet, OneArm!MapThenFoldSet,
         OneProofs!kNumberOfJoints, OneArm!kNumberOfJoints, OneProofs!kPoseSize,
         OneArm!kPoseSize, OneProofs!kTwistSize, OneArm!kTwistSize
<1>. QED BY <1>1, SameChecks

(* Whatever mode the arms were told, there is a list of active controllers *)
(* prepare accepts to stop, so that the refusal of a second mode can be    *)
(* followed (franka_multi_hardware_interface.cpp:451).                     *)
ArmsCanBeStopped ==
  Idle => \A a \in Arms : performed[a] # None =>
    \E S \in SUBSET active : S # {} /\ StopOK(S) /\ \A c \in S : Kind[c] = performed[a]

(* With no controller active, what prepare would accept from a fresh       *)
(* component it accepts, unless an accepted switch was dropped or the      *)
(* memory of control_mode_ was not None to begin with.                     *)
IdleArmsAcceptStart ==
  Idle /\ active = {} /\ ~dropped /\ firstMode = None =>
    \A S \in SUBSET Controllers : StartOK(S, None) => StartOK(S, controlMode)

(* The modes of several arms can be stopped as that of one can, when no    *)
(* pose controllers claim as many interfaces as a twist has: arms that     *)
(* failed or were recovered between two of perform's steps do not matter.  *)
THEOREM RunningArmsCanBeStopped ==
  ASSUME NoPoseOfTwistSize PROVE Spec => []ArmsCanBeStopped
<1>1. OneProofs!NoPoseOfTwistSize
  BY NoPoseOfTwistSize, Zenon
  DEF NoPoseOfTwistSize, OneProofs!NoPoseOfTwistSize, OneProofs!Size, Size,
      OneProofs!SumFunctionOnSet, SumFunctionOnSet, OneProofs!FoldFunctionOnSet,
      FoldFunctionOnSet, OneProofs!MapThenFoldSet, MapThenFoldSet,
      OneProofs!kTwistSize, kTwistSize
<1>2. OneProofs!Spec => []OneProofs!LoopCanBeStopped
  BY <1>1, SameAssumption, OneProofs!RunningLoopCanBeStopped
<1>3. MultiInv /\ OneProofs!LoopCanBeStopped => ArmsCanBeStopped
  <2> SUFFICES ASSUME MultiInv, OneProofs!LoopCanBeStopped, Idle,
                      NEW a \in Arms, performed[a] # None
               PROVE  \E S \in SUBSET active :
                        S # {} /\ StopOK(S) /\ \A c \in S : Kind[c] = performed[a]
    BY DEF ArmsCanBeStopped
  <2>1. performed[a] = performed[LastArm]
    BY DEF MultiInv, PlaceInv, AgreeInv
  <2>2. OneProofs!Idle
    BY Zenon DEF OneProofs!Idle, OneProofs!NoRequest, Idle, NoRequest
  <2>3. PICK S \in SUBSET active : /\ S # {} /\ OneProofs!StopOK(S)
                                   /\ \A c \in S : Kind[c] = performed[LastArm]
    BY <2>1, <2>2, Zenon DEF OneProofs!LoopCanBeStopped
  <2>. QED BY <2>1, <2>3, ProvedChecks
<1>. QED BY <1>2, <1>3, ArmsAreOneProved, MultiInvHolds, PTL

(* No refusal of prepare wedges the component of several arms.             *)
THEOREM IdleArmsAreUsable == Spec => []IdleArmsAcceptStart
<1>1. OneProofs!Spec => []OneProofs!IdleAcceptsStart
  BY SameAssumption, OneProofs!NeverWedged
<1>2. OneProofs!IdleAcceptsStart => IdleArmsAcceptStart
  <2> SUFFICES ASSUME OneProofs!IdleAcceptsStart, Idle, active = {}, ~dropped,
                      firstMode = None,
                      NEW S \in SUBSET Controllers, StartOK(S, None)
               PROVE  StartOK(S, controlMode)
    BY DEF IdleArmsAcceptStart
  <2>1. OneProofs!Idle
    BY Zenon DEF OneProofs!Idle, OneProofs!NoRequest, Idle, NoRequest
  <2>2. OneProofs!StartOK(S, None)
    BY ProvedChecks
  <2>3. OneProofs!StartOK(S, controlMode)
    BY <2>1, <2>2 DEF OneProofs!IdleAcceptsStart
  <2>. QED BY <2>3, ProvedChecks
<1>. QED BY <1>1, <1>2, ArmsAreOneProved, PTL
=============================================================================
