--------------------------- MODULE RobotDataProofs ---------------------------
(***************************************************************************)
(* Theorems about RobotData, for any joints, any services offered, and any *)
(* number of calls and faults.                                             *)
(***************************************************************************)
EXTENDS RobotData, TLAPS

USE DataAssumption
USE DEF Fields, Threads, Mutexes, Free, Lock, Unlock, Goto

(* The numbers of packets and cycles stay below where they begin again.    *)
LEMMA AfterIsBelow ==
  ASSUME NEW count \in Nat \ {0}, NEW n \in 0..(count - 1)
  PROVE  After(n, count) \in 0..(count - 1)
BY DEF After

(* The parameters of setDefaultParams are ones the services set, too.      *)
LEMMA DefaultsAreParams == DefaultParams \in Seq(Params)
<1>1. Param["set_joint_stiffness"] \in Params /\ Param["set_cartesian_stiffness"] \in Params
      /\ Param["set_full_collision_behavior"] \in Params
  BY DEF Params, Services, Param
<1>. QED BY <1>1 DEF DefaultParams, Param

-----------------------------------------------------------------------------
(* The types                                                               *)

(* The Robot starts with its variables in their types.                     *)
LEMMA TypesInit == Init => TypeOK
<1> SUFFICES ASSUME Init PROVE TypeOK
  OBVIOUS
<1>1. /\ looping \in BOOLEAN /\ err \in BOOLEAN /\ initSet \in BOOLEAN /\ dead \in BOOLEAN
      /\ broadcasting \in BOOLEAN
  BY Zenon DEF Init
<1>2. /\ faults \in 0..MaxFaults /\ calls \in 0..MaxCalls
  BY DEF Init
<1>3. queue \in Seq([from : {"srv", "rec"}, param : Params, n : Nat]) /\ defaults \in Seq(Params)
  BY DEF Init
<1>4. {source, command, out} \subseteq [Joints -> Commands] /\ cycle \in 0..(Cycles - 1)
  BY DEF Init, Commands
<1>5. switching \in BOOLEAN
  BY Zenon DEF Init
<1>. QED BY <1>1, <1>2, <1>3, <1>4, <1>5 DEF Init, TypeOK

(* So does the queue when a setting is sent.                               *)
LEMMA SendKeepsTypes ==
  ASSUME TypeOK, NEW t \in {"srv", "rec"}, NEW p \in Params, Send(t, p)
  PROVE  /\ queue' \in Seq([from : {"srv", "rec"}, param : Params, n : Nat]) /\ sent' \in Nat
         /\ waiting' \in [{"srv", "rec"} -> Nat]
         /\ reply' \in [{"srv", "rec"} -> {"none", "done", "refused"}]
<1> DEFINE S == [from : {"srv", "rec"}, param : Params, n : Nat]
<1>1. queue \in Seq(S) /\ sent + 1 \in Nat
  BY DEF TypeOK
<1>2. [from |-> t, param |-> p, n |-> sent + 1] \in S
  BY <1>1
<1> HIDE DEF S
<1>3. queue' \in Seq(S)
  BY <1>1, <1>2 DEF Send
<1>. QED BY <1>1, <1>3 DEF Send, TypeOK, S

(* Every step keeps the types.                                             *)
LEMMA TypesKept == TypeOK /\ [Next]_vars => TypeOK'
<1> SUFFICES ASSUME TypeOK, [Next]_vars PROVE TypeOK'
  OBVIOUS
<1>. USE DEF TypeOK, threadVars, stateVars, cmdVars, msgVars, runVars, armVars, setVars
<1>0. CASE UNCHANGED vars
  BY <1>0 DEF vars
<1>1. CASE FillBegins
  BY <1>1 DEF FillBegins
<1>2. CASE FillSkipped
  BY <1>2 DEF FillSkipped
<1>3. CASE FillMotion
  BY <1>3 DEF FillMotion
<1>4. CASE FillErrors
  BY <1>4 DEF FillErrors
<1>5. CASE UnlockAndPublish
  BY <1>5 DEF UnlockAndPublish
<1>6. CASE Write
  BY <1>6 DEF Write
<1>7. CASE WriteSkipped
  BY <1>7 DEF WriteSkipped
<1>8. CASE WriteBegins
  BY <1>8 DEF WriteBegins
<1>9. CASE StoreBegins
  BY <1>9 DEF StoreBegins
<1>10. CASE Return
  BY <1>10 DEF Return
<1>11. CASE Set
  <2>1. asked \in Params
    BY <1>11 DEF Set
  <2>. QED BY <1>11, <2>1, SendKeepsTypes DEF Set
<1>12. CASE Answered
  BY <1>12 DEF Answered, Forget
<1>13. CASE Refused
  BY <1>13 DEF Refused, Forget
<1>14. CASE TimesOut
  BY <1>14 DEF TimesOut, Forget
<1>15. CASE SendDefault
  <2>1. Head(defaults) \in Params /\ Tail(defaults) \in Seq(Params)
    BY <1>15 DEF SendDefault
  <2>. QED BY <1>15, <2>1, SendKeepsTypes DEF SendDefault
<1>16. CASE DefaultSet
  BY <1>16 DEF DefaultSet, Forget
<1>17. CASE DefaultTimesOut
  <2>1. defaults' \in Seq(Params)
    BY <1>17 DEF DefaultTimesOut
  <2>2. waiting' \in [{"srv", "rec"} -> Nat]
        /\ reply' \in [{"srv", "rec"} -> {"none", "done", "refused"}]
    BY <1>17 DEF DefaultTimesOut, Forget
  <2>. QED BY <1>17, <2>1, <2>2 DEF DefaultTimesOut
<1>18. CASE DefaultRefused
  BY <1>18 DEF DefaultRefused
<1>19. CASE Restart
  BY <1>19 DEF Restart
<1>20. CASE Abort
  <2>1. faults' \in 0..MaxFaults
    BY <1>20 DEF Abort
  <2>2. looping' \in BOOLEAN /\ err' \in BOOLEAN
    BY <1>20, Zenon DEF Abort
  <2>. QED BY <1>20, <2>1, <2>2 DEF Abort
<1>21. CASE Publish
  BY <1>21 DEF Publish
<1>22. CASE Recover
  <2>1. defaults' \in Seq(Params)
    BY <1>22, DefaultsAreParams DEF Recover
  <2>2. err' \in BOOLEAN
    BY <1>22, Zenon DEF Recover
  <2>3. pc' \in [Threads -> {"read", "broadcast", "fillMotion", "fillErrors", "publish",
                             "update", "write", "writeLock", "assign", "idle", "stateLock", "store",
                             "command", "setting", "wait", "default", "restart"}]
    BY <1>22 DEF Recover
  <2>. QED BY <1>22, <2>1, <2>2, <2>3 DEF Recover
<1>23. CASE Read
  BY <1>23, AfterIsBelow DEF Read
<1>24. CASE Packet
  BY <1>24, AfterIsBelow DEF Packet
<1>25. CASE \E j \in Joints : Assign(j)
  <2>1. PICK j \in Joints : Assign(j)
    BY <1>25
  <2>3. /\ left' \in [{"ctl", "loop", "prep"} -> SUBSET (Joints \union Fields)]
        /\ command' \in [Joints -> Commands]
    BY <2>1 DEF Assign
  <2>4. CASE left'["ctl"] = {}
    <3>1. /\ mutex' = [mutex EXCEPT !["write"] = Nobody] /\ pc' = [pc EXCEPT !["ctl"] = "read"]
      BY <2>1, <2>4, Zenon DEF Assign
    <3>2. mutex' \in [Mutexes -> Threads \union {Nobody}]
      BY <3>1
    <3>. QED BY <2>1, <2>3, <3>1, <3>2 DEF Assign
  <2>5. CASE left'["ctl"] # {}
    BY <2>1, <2>3, <2>5 DEF Assign
  <2>. QED BY <2>4, <2>5
<1>26. CASE \E f \in Fields : Store(f)
  <2>1. PICK f \in Fields : Store(f)
    BY <1>26
  <2>2. /\ left' \in [{"ctl", "loop", "prep"} -> SUBSET (Joints \union Fields)]
        /\ state' \in [Fields -> 0..(Packets - 1)]
    BY <2>1 DEF Store
  <2>3. CASE left'["loop"] = {}
    <3>1. mutex' = [mutex EXCEPT !["read"] = Nobody] /\ pc' = [pc EXCEPT !["loop"] = "command"]
      BY <2>1, <2>3, Zenon DEF Store
    <3>. QED BY <2>1, <2>2, <3>1 DEF Store
  <2>4. CASE left'["loop"] # {}
    BY <2>1, <2>2, <2>4 DEF Store
  <2>. QED BY <2>3, <2>4
<1>27. CASE \E s \in Offered : Call(s)
  BY <1>27 DEF Call, Params, Services
<1>28. CASE Arm
  <2>1. PICK done \in BOOLEAN : Handle(done)
    BY <1>28 DEF Arm
  <2> DEFINE S == [from : {"srv", "rec"}, param : Params, n : Nat]
  <2>2. Head(queue) \in S /\ Tail(queue) \in Seq(S)
    <3>1. queue \in Seq(S) /\ queue # <<>>
      BY <2>1 DEF Handle
    <3> HIDE DEF S
    <3>. QED BY <3>1
  <2>3. inForce' \in [Params -> Nat]
    BY <2>1, <2>2 DEF Handle
  <2>4. reply' \in [{"srv", "rec"} -> {"none", "done", "refused"}]
    BY <2>1, <2>2 DEF Handle
  <2>5. queue' \in Seq([from : {"srv", "rec"}, param : Params, n : Nat])
    BY <2>1, <2>2 DEF Handle
  <2>. QED BY <2>1, <2>3, <2>4, <2>5 DEF Handle
<1>29. CASE Update
  <2>1. cycle' \in 0..(Cycles - 1)
    BY <1>29, AfterIsBelow DEF Update
  <2>2. source' \in [Joints -> Commands]
    BY <1>29, <2>1 DEF Update, Commands
  <2>. QED BY <1>29, <2>1, <2>2 DEF Update
<1>30. CASE PrepareStops \/ (\E j \in Joints : ZeroJoint(j))
  <2>1. CASE PrepareStops
    BY <2>1 DEF PrepareStops
  <2>2. CASE \E j \in Joints : ZeroJoint(j)
    BY <2>2 DEF ZeroJoint, Commands
  <2>. QED BY <1>30, <2>1, <2>2
<1>. QED BY <1>0, <1>1, <1>2, <1>3, <1>4, <1>5, <1>6, <1>7, <1>8, <1>9, <1>10, <1>11, <1>12, <1>13, <1>14, <1>15, <1>16, <1>17, <1>18, <1>19, <1>20, <1>21, <1>22, <1>23, <1>24, <1>25, <1>26, <1>27, <1>28, <1>29, <1>30
  DEF Next, ControlThread, PrepareThread, LoopThread, ServiceThread, RecoveryThread, Terminated

(* TypeOK holds always: nobody steps outside the labels, the numbers and   *)
(* the parameters above.                                                   *)
THEOREM DataTypeCorrect == Spec => []TypeOK
<1>. QED BY TypesInit, TypesKept, PTL DEF Spec

-----------------------------------------------------------------------------
(* The mutexes                                                             *)

(* Who holds a mutex is in the critical section that it is for, and the    *)
(* other way round.                                                        *)
MutexInv ==
  /\ mutex["read"] \in {Nobody, "loop"} /\ (mutex["read"] = "loop" <=> pc["loop"] = "store")
  /\ mutex["write"] \in {Nobody, "ctl", "srv"}
  /\ mutex["write"] = "ctl" <=> pc["ctl"] = "assign"
  /\ mutex["write"] = "srv" <=> pc["srv"] = "wait"
  /\ mutex["msg"] \in {Nobody, "ctl"}
  /\ mutex["msg"] = "ctl" <=> pc["ctl"] \in {"fillMotion", "fillErrors", "publish"}

(* Nobody is in one at the beginning.                                      *)
LEMMA MutexInit == Init => MutexInv
BY DEF Init, MutexInv

(* Every step locks as it enters and unlocks as it leaves.                 *)
LEMMA MutexKept == TypeOK /\ MutexInv /\ [Next]_vars => MutexInv'
<1> SUFFICES ASSUME TypeOK, MutexInv, [Next]_vars PROVE MutexInv'
  OBVIOUS
<1>a. /\ pc \in [Threads -> {"read", "broadcast", "fillMotion", "fillErrors", "publish",
                             "update", "write", "writeLock", "assign", "idle", "stateLock", "store",
                             "command", "setting", "wait", "default", "restart"}]
       /\ mutex \in [Mutexes -> Threads \union {Nobody}]
  BY DEF TypeOK
<1>. USE <1>a DEF MutexInv, threadVars, stateVars, cmdVars, msgVars, runVars, armVars, setVars
<1>0. CASE UNCHANGED vars
  BY <1>0 DEF vars
<1>1. CASE Read
  BY <1>1 DEF Read
<1>2. CASE FillBegins
  BY <1>2 DEF FillBegins
<1>3. CASE FillSkipped
  BY <1>3 DEF FillSkipped
<1>4. CASE FillMotion
  BY <1>4 DEF FillMotion
<1>5. CASE FillErrors
  BY <1>5 DEF FillErrors
<1>6. CASE UnlockAndPublish
  BY <1>6 DEF UnlockAndPublish
<1>7. CASE Write
  BY <1>7 DEF Write
<1>8. CASE WriteSkipped
  BY <1>8 DEF WriteSkipped
<1>9. CASE WriteBegins
  BY <1>9 DEF WriteBegins
<1>10. CASE Packet
  BY <1>10 DEF Packet
<1>11. CASE StoreBegins
  BY <1>11 DEF StoreBegins
<1>12. CASE Return
  BY <1>12 DEF Return
<1>13. CASE Set
  BY <1>13 DEF Set
<1>14. CASE Answered
  BY <1>14 DEF Answered
<1>15. CASE Refused
  BY <1>15 DEF Refused
<1>16. CASE TimesOut
  BY <1>16 DEF TimesOut
<1>17. CASE SendDefault
  BY <1>17 DEF SendDefault
<1>18. CASE DefaultSet
  BY <1>18 DEF DefaultSet
<1>19. CASE DefaultTimesOut
  BY <1>19 DEF DefaultTimesOut
<1>20. CASE DefaultRefused
  BY <1>20 DEF DefaultRefused
<1>21. CASE Restart
  BY <1>21 DEF Restart
<1>22. CASE Abort
  BY <1>22 DEF Abort
<1>23. CASE Publish
  BY <1>23 DEF Publish
<1>24. CASE Recover
  BY <1>24 DEF Recover
<1>25. CASE \E j \in Joints : Assign(j)
  <2>1. PICK j \in Joints : Assign(j)
    BY <1>25
  <2>2. CASE left'["ctl"] = {}
    <3>1. mutex' = [mutex EXCEPT !["write"] = Nobody] /\ pc' = [pc EXCEPT !["ctl"] = "read"]
      BY <2>1, <2>2, Zenon DEF Assign
    <3>. QED BY <2>1, <3>1 DEF Assign
  <2>3. CASE left'["ctl"] # {}
    BY <2>1, <2>3 DEF Assign
  <2>. QED BY <2>2, <2>3
<1>26. CASE \E f \in Fields : Store(f)
  <2>1. PICK f \in Fields : Store(f)
    BY <1>26
  <2>2. CASE left'["loop"] = {}
    <3>1. mutex' = [mutex EXCEPT !["read"] = Nobody] /\ pc' = [pc EXCEPT !["loop"] = "command"]
      BY <2>1, <2>2, Zenon DEF Store
    <3>. QED BY <2>1, <3>1 DEF Store
  <2>3. CASE left'["loop"] # {}
    BY <2>1, <2>3 DEF Store
  <2>. QED BY <2>2, <2>3
<1>27. CASE \E s \in Offered : Call(s)
  BY <1>27 DEF Call
<1>28. CASE Arm
  BY <1>28 DEF Arm, Handle
<1>29. CASE Update
  BY <1>29 DEF Update
<1>30. CASE PrepareStops \/ (\E j \in Joints : ZeroJoint(j))
  BY <1>30 DEF PrepareStops, ZeroJoint
<1>. QED BY <1>0, <1>1, <1>2, <1>3, <1>4, <1>5, <1>6, <1>7, <1>8, <1>9, <1>10, <1>11, <1>12, <1>13, <1>14, <1>15, <1>16, <1>17, <1>18, <1>19, <1>20, <1>21, <1>22, <1>23, <1>24, <1>25, <1>26, <1>27, <1>28, <1>29, <1>30
  DEF Next, ControlThread, PrepareThread, LoopThread, ServiceThread, RecoveryThread, Terminated

-----------------------------------------------------------------------------
(* What is copied is whole                                                 *)

(* A joint that write() has copied is what the controller has set in this  *)
(* cycle, or prepare came before.                                          *)
Copied(j) == IF switching THEN command[j] \in {cycle, Zero} ELSE command[j] = source[j]

(* The thread that copies part by part has copied the parts that are not   *)
(* left, and what nobody is copying is whole.                              *)
WholeInv ==
  /\ pc["loop"] = "store" => \A f \in Fields \ left["loop"] : state[f] = packet
  /\ pc["loop"] # "store" => \A f, g \in Fields : state[f] = state[g]
  /\ left["prep"] # {} => switching
  /\ OneCycle(source) /\ \A j \in Joints : source[j] \in {cycle, Zero}
  /\ pc["ctl"] = "assign" => \A j \in Joints \ left["ctl"] : Copied(j)
  /\ pc["ctl"] # "assign" => OneCycle(command)
  /\ pc["ctl"] \in {"fillErrors", "publish"} => msg["motion"] = got["motion"]
  /\ pc["ctl"] = "publish" => msg["errors"] = got["errors"]
  /\ pc["ctl"] \in {"fillMotion", "fillErrors", "publish"} => turn = "realtime"
  /\ turn = "other" => \A f, g \in Fields : msg[f] = msg[g]
  /\ CommandsAreOfOneCycle /\ StatesAreWhole /\ MessagesAreWhole

DataInv == TypeOK /\ MutexInv /\ WholeInv

(* Everything is of cycle and packet 0 at the beginning.                   *)
LEMMA WholeInit == Init => WholeInv
BY DEF Init, WholeInv, OneCycle, CommandsAreOfOneCycle, StatesAreWhole, MessagesAreWhole

(* Every step keeps it: who copies holds the mutex, so nobody else does.   *)
LEMMA WholeKept == DataInv /\ [Next]_vars => WholeInv'
<1> SUFFICES ASSUME TypeOK, MutexInv, WholeInv, [Next]_vars PROVE WholeInv'
  BY DEF DataInv
<1>a. /\ pc \in [Threads -> {"read", "broadcast", "fillMotion", "fillErrors", "publish",
                             "update", "write", "writeLock", "assign", "idle", "stateLock", "store",
                             "command", "setting", "wait", "default", "restart"}]
      /\ left \in [{"ctl", "loop", "prep"} -> SUBSET (Joints \union Fields)]
      /\ state \in [Fields -> 0..(Packets - 1)] /\ got \in [Fields -> 0..(Packets - 1)]
      /\ msg \in [Fields -> 0..(Packets - 1)] /\ command \in [Joints -> Commands]
      /\ source \in [Joints -> Commands]
      /\ turn \in {"realtime", "other"}
  BY DEF TypeOK
<1>. USE <1>a DEF MutexInv, WholeInv, OneCycle, Copied, CommandsAreOfOneCycle, StatesAreWhole, MessagesAreWhole,
                  threadVars, stateVars, cmdVars, msgVars, runVars, armVars, setVars
<1>0. CASE UNCHANGED vars
  BY <1>0 DEF vars
<1>1. CASE Read
  BY <1>1 DEF Read
<1>2. CASE FillBegins
  BY <1>2 DEF FillBegins
<1>3. CASE FillSkipped
  BY <1>3 DEF FillSkipped
<1>4. CASE FillMotion
  BY <1>4 DEF FillMotion
<1>5. CASE FillErrors
  BY <1>5 DEF FillErrors
<1>6. CASE UnlockAndPublish
  BY <1>6 DEF UnlockAndPublish
<1>7. CASE Write
  BY <1>7 DEF Write
<1>8. CASE WriteSkipped
  BY <1>8 DEF WriteSkipped
<1>9. CASE WriteBegins
  BY <1>9 DEF WriteBegins
<1>10. CASE Packet
  BY <1>10 DEF Packet
<1>11. CASE StoreBegins
  BY <1>11 DEF StoreBegins
<1>12. CASE Return
  BY <1>12 DEF Return
<1>13. CASE Set
  BY <1>13 DEF Set, Send
<1>14. CASE Answered
  BY <1>14 DEF Answered, Forget
<1>15. CASE Refused
  BY <1>15 DEF Refused, Forget
<1>16. CASE TimesOut
  BY <1>16 DEF TimesOut, Forget
<1>17. CASE SendDefault
  BY <1>17 DEF SendDefault, Send
<1>18. CASE DefaultSet
  BY <1>18 DEF DefaultSet, Forget
<1>19. CASE DefaultTimesOut
  BY <1>19 DEF DefaultTimesOut, Forget
<1>20. CASE DefaultRefused
  BY <1>20 DEF DefaultRefused
<1>21. CASE Restart
  BY <1>21 DEF Restart
<1>22. CASE Abort
  BY <1>22 DEF Abort
<1>23. CASE Publish
  BY <1>23 DEF Publish
<1>24. CASE Recover
  BY <1>24 DEF Recover
<1>25. CASE \E j \in Joints : Assign(j)
  <2>1. PICK j \in Joints : Assign(j)
    BY <1>25
  <2>2. \A i \in Joints \ left'["ctl"] : Copied(i)'
    BY <2>1 DEF Assign
  <2>3. CASE left'["ctl"] = {}
    <3>1. pc' = [pc EXCEPT !["ctl"] = "read"]
      BY <2>1, <2>3, Zenon DEF Assign
    <3>. QED BY <2>1, <2>2, <2>3, <3>1 DEF Assign
  <2>4. CASE left'["ctl"] # {}
    BY <2>1, <2>2, <2>4 DEF Assign
  <2>. QED BY <2>3, <2>4
<1>26. CASE \E f \in Fields : Store(f)
  <2>1. PICK f \in Fields : Store(f)
    BY <1>26
  <2>2. \A g \in Fields \ left'["loop"] : state'[g] = packet
    BY <2>1 DEF Store
  <2>3. CASE left'["loop"] = {}
    <3>1. pc' = [pc EXCEPT !["loop"] = "command"]
      BY <2>1, <2>3, Zenon DEF Store
    <3>. QED BY <2>1, <2>2, <2>3, <3>1 DEF Store
  <2>4. CASE left'["loop"] # {}
    BY <2>1, <2>2, <2>4 DEF Store
  <2>. QED BY <2>3, <2>4
<1>27. CASE \E s \in Offered : Call(s)
  BY <1>27 DEF Call
<1>28. CASE Arm
  BY <1>28 DEF Arm, Handle
<1>29. CASE Update
  BY <1>29 DEF Update
<1>30. CASE PrepareStops \/ (\E j \in Joints : ZeroJoint(j))
  <2>1. CASE PrepareStops
    BY <2>1 DEF PrepareStops
  <2>2. ASSUME NEW j \in Joints, ZeroJoint(j) PROVE WholeInv'
    BY <2>2 DEF ZeroJoint
  <2>. QED BY <1>30, <2>1, <2>2
<1>. QED BY <1>0, <1>1, <1>2, <1>3, <1>4, <1>5, <1>6, <1>7, <1>8, <1>9, <1>10, <1>11, <1>12, <1>13, <1>14, <1>15, <1>16, <1>17, <1>18, <1>19, <1>20, <1>21, <1>22, <1>23, <1>24, <1>25, <1>26, <1>27, <1>28, <1>29, <1>30
  DEF Next, ControlThread, PrepareThread, LoopThread, ServiceThread, RecoveryThread, Terminated

(* DataInv is inductive.                                                   *)
LEMMA DataInvariant == Spec => []DataInv
<1>1. Init => DataInv
  BY TypesInit, MutexInit, WholeInit DEF DataInv
<1>2. DataInv /\ [Next]_vars => DataInv'
  BY TypesKept, MutexKept, WholeKept DEF DataInv
<1>. QED BY <1>1, <1>2, PTL DEF Spec

(* CommandsAreOfOneCycle: the callback never returns half of a write(),    *)
(* and what write() copies is of one cycle but for the joints that prepare *)
(* has zeroed.                                                             *)
THEOREM ArmGetsCommandsOfOneCycle == Spec => []CommandsAreOfOneCycle
<1>1. DataInv => CommandsAreOfOneCycle
  BY DEF DataInv, WholeInv
<1>. QED BY <1>1, DataInvariant, PTL

(* StatesAreWhole: read() never returns half of a packet.                  *)
THEOREM ReadReturnsWholeStates == Spec => []StatesAreWhole
<1>1. DataInv => StatesAreWhole
  BY DEF DataInv, WholeInv
<1>. QED BY <1>1, DataInvariant, PTL

(* MessagesAreWhole: the broadcaster never publishes parts of two states.  *)
THEOREM BroadcastsWholeStates == Spec => []MessagesAreWhole
<1>1. DataInv => MessagesAreWhole
  BY DEF DataInv, WholeInv
<1>. QED BY <1>1, DataInvariant, PTL

(* MessageNotOverwritten: only the control thread fills the message, and   *)
(* it does not begin before the publisher has taken the last one.          *)
THEOREM HandedOverIsUntouched == Spec => MessageNotOverwritten
<1>1. DataInv /\ [Next]_vars => [turn = "other" => msg' = msg]_vars
  <2> SUFFICES ASSUME DataInv, Next, turn = "other" PROVE msg' = msg
    BY DEF vars, msgVars
  <2>. USE DEF DataInv, WholeInv, threadVars, stateVars, cmdVars, msgVars, runVars, armVars, setVars
  <2>1. CASE FillMotion \/ FillErrors
    BY <2>1 DEF FillMotion, FillErrors
  <2>2. CASE ControlThread /\ ~(FillMotion \/ FillErrors)
    BY <2>2 DEF ControlThread, Read, FillBegins, FillSkipped, UnlockAndPublish, Update, Write,
                WriteSkipped, WriteBegins, Assign
  <2>3. CASE LoopThread \/ Abort \/ Publish
    BY <2>3 DEF LoopThread, Packet, StoreBegins, Store, Return, Abort, Publish
  <2>4. CASE ServiceThread \/ (\E s \in Offered : Call(s)) \/ Arm
    BY <2>4 DEF ServiceThread, Set, Answered, Refused, TimesOut, Call, Arm, Handle
  <2>5. CASE Recover \/ RecoveryThread
    BY <2>5 DEF Recover, RecoveryThread, SendDefault, DefaultSet, DefaultTimesOut, DefaultRefused,
                Restart
  <2>6. CASE Terminated
    BY <2>6 DEF Terminated, vars
  <2>7. CASE PrepareThread
    BY <2>7 DEF PrepareThread, PrepareStops, ZeroJoint
  <2>. QED BY <2>1, <2>2, <2>3, <2>4, <2>5, <2>6, <2>7 DEF Next
<1>. QED BY <1>1, DataInvariant, PTL DEF Spec, MessageNotOverwritten

-----------------------------------------------------------------------------
(* The settings                                                            *)

(* The settings in the queue are younger than the ones in force, the one   *)
(* behind is the younger, and the one the service waits for is of the      *)
(* parameter it was asked for.                                             *)
SettingInv ==
  /\ \A t \in {"srv", "rec"} : waiting[t] <= sent
  /\ \A p \in Params : inForce[p] <= sent
  /\ \A i \in 1..Len(queue) : queue[i].n <= sent /\ inForce[queue[i].param] < queue[i].n
  /\ \A i, j \in 1..Len(queue) : i < j => queue[i].n < queue[j].n
  /\ \A i \in 1..Len(queue) :
         queue[i].n = waiting["srv"] => queue[i].param = asked
  /\ pc["srv"] # "wait" => waiting["srv"] = 0 /\ reply["srv"] = "none"
  /\ reply["srv"] = "done" => waiting["srv"] <= inForce[asked]
  /\ SettingsHold

(* Nothing is set at the beginning.                                        *)
LEMMA SettingInit == Init => SettingInv
BY DEF Init, SettingInv, SettingsHold

(* A setting that is sent is younger than all before it.                   *)
LEMMA SendKeepsOrder ==
  ASSUME TypeOK, SettingInv, NEW t \in {"srv", "rec"}, NEW p \in Params, Send(t, p),
         UNCHANGED inForce
  PROVE  /\ \A i \in 1..Len(queue') : queue'[i].n <= sent' /\ inForce'[queue'[i].param] < queue'[i].n
         /\ \A i, j \in 1..Len(queue') : i < j => queue'[i].n < queue'[j].n
         /\ \A i \in 1..Len(queue') : queue'[i] = IF i <= Len(queue) THEN queue[i]
                                                 ELSE [from |-> t, param |-> p, n |-> sent + 1]
<1> DEFINE S == [from : {"srv", "rec"}, param : Params, n : Nat]
           new == [from |-> t, param |-> p, n |-> sent + 1]
<1>1. queue \in Seq(S) /\ sent \in Nat /\ inForce \in [Params -> Nat]
  BY DEF TypeOK
<1>2. new \in S /\ new.n = sent + 1 /\ new.param = p
  BY <1>1
<1>3. /\ \A i \in 1..Len(queue) : queue[i].n <= sent /\ inForce[queue[i].param] < queue[i].n
      /\ \A i, j \in 1..Len(queue) : i < j => queue[i].n < queue[j].n
      /\ inForce[p] <= sent
  BY DEF SettingInv
<1>4. queue' = Append(queue, new) /\ sent' = sent + 1
  BY DEF Send
<1>5. \A x \in S : x.n \in Nat /\ x.param \in Params
  OBVIOUS
<1> HIDE DEF S, new
<1>6. \A i \in 1..Len(queue) : queue[i] \in S
  BY <1>1
<1>7. Len(queue') = Len(queue) + 1 /\ Len(queue) \in Nat
      /\ \A i \in 1..Len(queue') : queue'[i] = IF i <= Len(queue) THEN queue[i] ELSE new
  BY <1>1, <1>2, <1>4
<1>8. \A i \in 1..Len(queue') : queue'[i].n <= sent' /\ inForce'[queue'[i].param] < queue'[i].n
  <2> TAKE i \in 1..Len(queue')
  <2>1. CASE i <= Len(queue)
    <3>1. queue'[i] = queue[i] /\ i \in 1..Len(queue)
      BY <1>7, <2>1
    <3>2. queue[i].n <= sent /\ inForce[queue[i].param] < queue[i].n /\ queue[i].n \in Nat
      BY <1>3, <1>5, <1>6, <3>1
    <3>. QED BY <1>1, <1>4, <3>1, <3>2
  <2>2. CASE ~(i <= Len(queue))
    <3>1. queue'[i] = new
      BY <1>7, <2>2
    <3>2. inForce[p] \in Nat /\ inForce[p] <= sent
      BY <1>1, <1>3
    <3>. QED BY <1>1, <1>2, <1>4, <3>1, <3>2
  <2>. QED BY <2>1, <2>2
<1>9. \A i, j \in 1..Len(queue') : i < j => queue'[i].n < queue'[j].n
  <2> SUFFICES ASSUME NEW i \in 1..Len(queue'), NEW j \in 1..Len(queue'), i < j
               PROVE  queue'[i].n < queue'[j].n
    OBVIOUS
  <2>1. queue'[i] = queue[i] /\ i \in 1..Len(queue)
    BY <1>7
  <2>2. queue[i].n <= sent /\ queue[i].n \in Nat
    BY <1>3, <1>5, <1>6, <2>1
  <2>3. CASE j <= Len(queue)
    <3>1. queue'[j] = queue[j] /\ j \in 1..Len(queue)
      BY <1>7, <2>3
    <3>. QED BY <1>3, <2>1, <3>1
  <2>4. CASE ~(j <= Len(queue))
    <3>1. queue'[j] = new
      BY <1>7, <2>4
    <3>. QED BY <1>1, <1>2, <2>1, <2>2, <3>1
  <2>. QED BY <2>3, <2>4
<1>. QED BY <1>7, <1>8, <1>9 DEF new

(* No setting has the number that stands for none.                         *)
LEMMA QueueIsNumbered ==
  ASSUME TypeOK, SettingInv
  PROVE  \A i \in 1..Len(queue) : queue[i].param \in Params /\ queue[i].n \in Nat \ {0}
<1> DEFINE S == [from : {"srv", "rec"}, param : Params, n : Nat]
<1>1. queue \in Seq(S)
  BY DEF TypeOK
<1>2. \A x \in S : x.n \in Nat /\ x.param \in Params
  OBVIOUS
<1> HIDE DEF S
<1> TAKE i \in 1..Len(queue)
<1>3. queue[i] \in S
  BY <1>1
<1>4. queue[i].n \in Nat /\ queue[i].param \in Params
  BY <1>2, <1>3
<1>5. inForce[queue[i].param] \in Nat /\ inForce[queue[i].param] < queue[i].n
  BY <1>4 DEF TypeOK, SettingInv
<1>. QED BY <1>4, <1>5

(* Every step keeps it.                                                    *)
LEMMA SettingKept == TypeOK /\ SettingInv /\ [Next]_vars => SettingInv'
<1> SUFFICES ASSUME TypeOK, SettingInv, [Next]_vars PROVE SettingInv'
  OBVIOUS
<1>a. /\ pc \in [Threads -> {"read", "broadcast", "fillMotion", "fillErrors", "publish",
                             "update", "write", "writeLock", "assign", "idle", "stateLock", "store",
                             "command", "setting", "wait", "default", "restart"}]
      /\ sent \in Nat /\ inForce \in [Params -> Nat] /\ answered \in [Params -> Nat]
      /\ waiting \in [{"srv", "rec"} -> Nat]
      /\ reply \in [{"srv", "rec"} -> {"none", "done", "refused"}]
      /\ pc["srv"] # "idle" => asked \in Params
  BY DEF TypeOK
<1>b. \A i \in 1..Len(queue) : queue[i].n # 0
  BY QueueIsNumbered
<1>. USE <1>a DEF SettingInv, SettingsHold, threadVars, stateVars, cmdVars, msgVars, runVars, armVars, setVars
<1>0. CASE UNCHANGED vars
  BY <1>0 DEF vars
<1>1. CASE Read
  BY <1>1 DEF Read
<1>2. CASE FillBegins
  BY <1>2 DEF FillBegins
<1>3. CASE FillSkipped
  BY <1>3 DEF FillSkipped
<1>4. CASE FillMotion
  BY <1>4 DEF FillMotion
<1>5. CASE FillErrors
  BY <1>5 DEF FillErrors
<1>6. CASE UnlockAndPublish
  BY <1>6 DEF UnlockAndPublish
<1>7. CASE Write
  BY <1>7 DEF Write
<1>8. CASE WriteSkipped
  BY <1>8 DEF WriteSkipped
<1>9. CASE WriteBegins
  BY <1>9 DEF WriteBegins
<1>10. CASE Packet
  BY <1>10 DEF Packet
<1>11. CASE StoreBegins
  BY <1>11 DEF StoreBegins
<1>12. CASE Return
  BY <1>12 DEF Return
<1>13. CASE Set
  <2>1. asked \in Params /\ Send("srv", asked) /\ UNCHANGED <<inForce, answered, asked>>
        /\ pc' = [pc EXCEPT !["srv"] = "wait"]
    BY <1>13 DEF Set
  <2>2. /\ \A i \in 1..Len(queue') : queue'[i].n <= sent' /\ inForce'[queue'[i].param] < queue'[i].n
        /\ \A i, j \in 1..Len(queue') : i < j => queue'[i].n < queue'[j].n
        /\ \A i \in 1..Len(queue') : queue'[i] = IF i <= Len(queue) THEN queue[i]
                                                ELSE [from |-> "srv", param |-> asked, n |-> sent + 1]
    BY <2>1, SendKeepsOrder
  <2>3. waiting' = [waiting EXCEPT !["srv"] = sent + 1] /\ sent' = sent + 1
        /\ reply' = [reply EXCEPT !["srv"] = "none"]
    BY <2>1 DEF Send
  <2>4. Len(queue) \in Nat /\ Len(queue') = Len(queue) + 1
    BY <2>1 DEF Send, TypeOK
  <2>5. \A i \in 1..Len(queue') : queue'[i].n = waiting'["srv"] => queue'[i].param = asked'
    <3> SUFFICES ASSUME NEW i \in 1..Len(queue'), queue'[i].n = sent + 1
                 PROVE  queue'[i].param = asked
      BY <2>1, <2>3
    <3>1. CASE i <= Len(queue)
      <4>1. queue'[i] = queue[i] /\ i \in 1..Len(queue)
        BY <2>2, <2>4, <3>1
      <4>2. queue[i].n <= sent
        BY <4>1
      <4>. QED BY <4>1, <4>2
    <3>2. CASE ~(i <= Len(queue))
      BY <2>2, <3>2
    <3>. QED BY <3>1, <3>2
  <2>6. \A t \in {"srv", "rec"} : waiting'[t] <= sent'
    BY <2>3
  <2>7. \A p \in Params : inForce'[p] <= sent'
    BY <2>1, <2>3
  <2>. QED BY <2>1, <2>2, <2>3, <2>5, <2>6, <2>7
<1>14. CASE Answered
  BY <1>14, <1>b DEF Answered, Forget
<1>15. CASE Refused
  BY <1>15, <1>b DEF Refused, Forget
<1>16. CASE TimesOut
  BY <1>16, <1>b DEF TimesOut, Forget
<1>17. CASE SendDefault
  <2>1. Head(defaults) \in Params /\ Send("rec", Head(defaults))
        /\ UNCHANGED <<inForce, answered, asked>> /\ pc' = [pc EXCEPT !["rec"] = "wait"]
    BY <1>17 DEF SendDefault, TypeOK
  <2>2. /\ \A i \in 1..Len(queue') : queue'[i].n <= sent' /\ inForce'[queue'[i].param] < queue'[i].n
        /\ \A i, j \in 1..Len(queue') : i < j => queue'[i].n < queue'[j].n
        /\ \A i \in 1..Len(queue') :
               queue'[i] = IF i <= Len(queue) THEN queue[i]
                           ELSE [from |-> "rec", param |-> Head(defaults), n |-> sent + 1]
    BY <2>1, SendKeepsOrder
  <2>3. waiting' = [waiting EXCEPT !["rec"] = sent + 1] /\ sent' = sent + 1
        /\ reply' = [reply EXCEPT !["rec"] = "none"]
    BY <2>1 DEF Send
  <2>4. Len(queue) \in Nat
    BY DEF TypeOK
  <2>5. \A i \in 1..Len(queue') : queue'[i].n = waiting'["srv"] => queue'[i].param = asked'
    <3> SUFFICES ASSUME NEW i \in 1..Len(queue'), queue'[i].n = waiting["srv"]
                 PROVE  queue'[i].param = asked
      BY <2>1, <2>3
    <3>1. CASE i <= Len(queue)
      <4>1. queue'[i] = queue[i] /\ i \in 1..Len(queue)
        BY <2>2, <2>4, <3>1
      <4>. QED BY <4>1
    <3>2. CASE ~(i <= Len(queue))
      <4>1. queue'[i].n = sent + 1
        BY <2>2, <3>2
      <4>2. waiting["srv"] <= sent /\ waiting["srv"] \in Nat
        OBVIOUS
      <4>. QED BY <4>1, <4>2
    <3>. QED BY <3>1, <3>2
  <2>6. \A t \in {"srv", "rec"} : waiting'[t] <= sent'
    BY <2>3
  <2>7. \A p \in Params : inForce'[p] <= sent'
    BY <2>1, <2>3
  <2>. QED BY <2>1, <2>2, <2>3, <2>5, <2>6, <2>7
<1>18. CASE DefaultSet
  BY <1>18 DEF DefaultSet, Forget
<1>19. CASE DefaultTimesOut
  BY <1>19 DEF DefaultTimesOut, Forget
<1>20. CASE DefaultRefused
  BY <1>20 DEF DefaultRefused
<1>21. CASE Restart
  BY <1>21 DEF Restart
<1>22. CASE Abort
  BY <1>22 DEF Abort
<1>23. CASE Publish
  BY <1>23 DEF Publish
<1>24. CASE Recover
  BY <1>24 DEF Recover
<1>25. CASE \E j \in Joints : Assign(j)
  BY <1>25 DEF Assign
<1>26. CASE \E f \in Fields : Store(f)
  BY <1>26 DEF Store
<1>27. CASE \E s \in Offered : Call(s)
  BY <1>27, <1>b DEF Call
<1>28. CASE Arm
  <2>1. PICK done \in BOOLEAN : Handle(done)
    BY <1>28 DEF Arm
  <2> DEFINE S == [from : {"srv", "rec"}, param : Params, n : Nat]
             q == Head(queue)
  <2>2. queue \in Seq(S) /\ queue # <<>> /\ queue' = Tail(queue)
    BY <2>1 DEF Handle, TypeOK
  <2>3. \A x \in S : x.from \in {"srv", "rec"} /\ x.param \in Params /\ x.n \in Nat
    OBVIOUS
  <2>4. /\ inForce' = IF done THEN [inForce EXCEPT ![q.param] = q.n] ELSE inForce
        /\ reply' = IF waiting[q.from] = q.n
                    THEN [reply EXCEPT ![q.from] = IF done THEN "done" ELSE "refused"]
                    ELSE reply
        /\ UNCHANGED <<pc, sent, waiting, asked, answered>>
    BY <2>1 DEF Handle
  <2> HIDE DEF S
  <2>5. /\ q = queue[1] /\ q \in S /\ Len(queue) \in Nat /\ 1 \in 1..Len(queue)
        /\ Len(queue') = Len(queue) - 1
        /\ \A i \in 1..Len(queue') : queue'[i] = queue[i + 1] /\ i + 1 \in 1..Len(queue)
    BY <2>2
  <2>6. /\ \A i \in 1..Len(queue) : queue[i] \in S
    BY <2>2
  <2> HIDE DEF q
  <2>7. \A p \in Params : inForce[p] <= inForce'[p] /\ inForce'[p] <= sent /\ inForce'[p] \in Nat
    BY <2>3, <2>4, <2>5
  <2>8. \A i \in 1..Len(queue') : queue'[i].n <= sent /\ inForce'[queue'[i].param] < queue'[i].n
    <3> TAKE i \in 1..Len(queue')
    <3>1. queue'[i] = queue[i + 1] /\ i + 1 \in 1..Len(queue) /\ i + 1 > 1
      BY <2>5
    <3>2. q.n < queue[i + 1].n /\ queue[i + 1].n <= sent
          /\ inForce[queue[i + 1].param] < queue[i + 1].n
      BY <2>5, <3>1
    <3>3. queue[i + 1].param \in Params
      BY <2>3, <2>6, <3>1
    <3>. QED BY <2>3, <2>4, <2>5, <3>1, <3>2, <3>3
  <2>9. \A i, j \in 1..Len(queue') : i < j => queue'[i].n < queue'[j].n
    <3> SUFFICES ASSUME NEW i \in 1..Len(queue'), NEW j \in 1..Len(queue'), i < j
                 PROVE  queue'[i].n < queue'[j].n
      OBVIOUS
    <3>1. i + 1 < j + 1
      BY <2>5
    <3>. QED BY <2>5, <3>1
  <2>10. \A i \in 1..Len(queue') : queue'[i].n = waiting["srv"] => queue'[i].param = asked
    BY <2>5
  <2>11. q.n > 0 /\ (q.n = waiting["srv"] => q.param = asked)
    BY <2>3, <2>5
  <2>12. pc["srv"] # "wait" => reply'["srv"] = "none"
    BY <2>3, <2>4, <2>5, <2>11
  <2>13. reply'["srv"] = "done" => waiting["srv"] <= inForce'[asked]
    <3> SUFFICES ASSUME reply'["srv"] = "done" PROVE waiting["srv"] <= inForce'[asked]
      OBVIOUS
    <3>1. asked \in Params
      BY <2>12
    <3>2. CASE reply["srv"] = "done"
      <4>1. waiting["srv"] <= inForce[asked]
        BY <3>2
      <4>2. inForce[asked] <= inForce'[asked] /\ inForce'[asked] \in Nat /\ inForce[asked] \in Nat
        BY <2>7, <3>1
      <4>. QED BY <4>1, <4>2
    <3>3. CASE reply["srv"] # "done"
      BY <2>3, <2>4, <2>5, <2>11, <3>1, <3>3
    <3>. QED BY <3>2, <3>3
  <2>14. SettingsHold'
    <3> SUFFICES ASSUME NEW p \in Params PROVE answered[p] <= inForce'[p]
      BY <2>4
    <3>1. answered[p] <= inForce[p] /\ answered[p] \in Nat /\ inForce[p] \in Nat
      OBVIOUS
    <3>. QED BY <2>7, <3>1
  <2>. QED BY <2>4, <2>7, <2>8, <2>9, <2>10, <2>12, <2>13, <2>14
<1>29. CASE Update
  BY <1>29 DEF Update
<1>30. CASE PrepareStops \/ (\E j \in Joints : ZeroJoint(j))
  BY <1>30 DEF PrepareStops, ZeroJoint
<1>. QED BY <1>0, <1>1, <1>2, <1>3, <1>4, <1>5, <1>6, <1>7, <1>8, <1>9, <1>10, <1>11, <1>12, <1>13, <1>14, <1>15, <1>16, <1>17, <1>18, <1>19, <1>20, <1>21, <1>22, <1>23, <1>24, <1>25, <1>26, <1>27, <1>28, <1>29, <1>30
  DEF Next, ControlThread, PrepareThread, LoopThread, ServiceThread, RecoveryThread, Terminated

(* SettingsHold: what a client was told has succeeded is in force, or a    *)
(* newer setting is.                                                       *)
THEOREM SuccessIsInForce == Spec => []SettingsHold
<1>1. Init => TypeOK /\ SettingInv
  BY TypesInit, SettingInit
<1>2. TypeOK /\ SettingInv /\ [Next]_vars => (TypeOK /\ SettingInv)'
  BY TypesKept, SettingKept
<1>3. SettingInv => SettingsHold
  BY DEF SettingInv
<1>. QED BY <1>1, <1>2, <1>3, PTL DEF Spec

-----------------------------------------------------------------------------
(* Why CallbackReturns and BroadcastGoesOn need no more than threads that  *)
(* are scheduled                                                           *)

(* The mutex a thread needs for its next step.                             *)
WaitsFor(t, m) ==
  \/ m = "read"  /\ \/ t = "ctl" /\ pc[t] = "read"
                    \/ t = "loop" /\ pc[t] = "stateLock"
                    \/ t = "rec" /\ pc[t] = "restart"
  \/ m = "write" /\ \/ t = "ctl" /\ pc[t] = "writeLock"
                    \/ t = "loop" /\ pc[t] = "command"
                    \/ t = "srv" /\ pc[t] = "setting"

(* Who holds a mutex holds no other, waits for none, and has a step to     *)
(* take: a part that is left to copy, or an answer of the arm that is      *)
(* there, or may be given up.  So no ring of threads waits for each other, *)
(* and the callback cannot find write_mutex_ taken for ever                *)
(* (robot.hpp:93 has the mutexes "to protect concurrent reads and writes"). *)
HoldersGoOn ==
  /\ \A t \in Threads, m, n \in Mutexes :
       mutex[m] = t => ~WaitsFor(t, n) /\ (mutex[n] = t => n = m)
  /\ mutex["read"] = "loop" => pc["loop"] = "store" /\ left["loop"] \cap Fields # {}
  /\ mutex["write"] = "ctl" => pc["ctl"] = "assign" /\ left["ctl"] \cap Joints # {}
  /\ mutex["write"] = "srv" => pc["srv"] = "wait" /\ reply["srv"] \in {"done", "refused", "none"}
  /\ mutex["msg"] = "ctl" => pc["ctl"] \in {"fillMotion", "fillErrors", "publish"}

(* The last part ends the critical section.                                *)
LeftInv ==
  /\ pc["ctl"] = "assign" => left["ctl"] # {} /\ left["ctl"] \subseteq Joints
  /\ pc["loop"] = "store" => left["loop"] # {} /\ left["loop"] \subseteq Fields

(* Every step leaves a part to copy, or leaves the section.                *)
LEMMA LeftKept == TypeOK /\ LeftInv /\ [Next]_vars => LeftInv'
<1> SUFFICES ASSUME TypeOK, LeftInv, [Next]_vars PROVE LeftInv'
  OBVIOUS
<1>a. /\ pc \in [Threads -> {"read", "broadcast", "fillMotion", "fillErrors", "publish",
                             "update", "write", "writeLock", "assign", "idle", "stateLock", "store",
                             "command", "setting", "wait", "default", "restart"}]
      /\ left \in [{"ctl", "loop", "prep"} -> SUBSET (Joints \union Fields)]
  BY DEF TypeOK
<1>. USE <1>a DEF LeftInv, threadVars, stateVars, cmdVars, msgVars, runVars, armVars, setVars
<1>1. CASE WriteBegins
  BY <1>1 DEF WriteBegins
<1>2. CASE StoreBegins
  BY <1>2 DEF StoreBegins
<1>3. ASSUME NEW j \in Joints, Assign(j)  PROVE LeftInv'
  <2>1. pc["ctl"] = "assign" /\ left' = [left EXCEPT !["ctl"] = @ \ {j}]
    BY <1>3 DEF Assign
  <2>2. CASE left'["ctl"] = {}
    <3>1. pc' = [pc EXCEPT !["ctl"] = "read"]
      BY <1>3, <2>2, Zenon DEF Assign
    <3>. QED BY <2>1, <3>1
  <2>3. CASE left'["ctl"] # {}
    <3>1. pc' = pc
      BY <1>3, <2>3, Zenon DEF Assign
    <3>. QED BY <2>1, <2>3, <3>1
  <2>. QED BY <2>2, <2>3
<1>4. ASSUME NEW f \in Fields, Store(f)  PROVE LeftInv'
  <2>1. pc["loop"] = "store" /\ left' = [left EXCEPT !["loop"] = @ \ {f}]
    BY <1>4 DEF Store
  <2>2. CASE left'["loop"] = {}
    <3>1. pc' = [pc EXCEPT !["loop"] = "command"]
      BY <1>4, <2>2, Zenon DEF Store
    <3>. QED BY <2>1, <3>1
  <2>3. CASE left'["loop"] # {}
    <3>1. pc' = pc
      BY <1>4, <2>3, Zenon DEF Store
    <3>. QED BY <2>1, <2>3, <3>1
  <2>. QED BY <2>2, <2>3
<1>5. CASE Read \/ FillBegins \/ FillSkipped \/ FillMotion \/ FillErrors \/ UnlockAndPublish
           \/ Update \/ Write \/ WriteSkipped
  BY <1>5 DEF Read, FillBegins, FillSkipped, FillMotion, FillErrors, UnlockAndPublish, Update,
              Write, WriteSkipped
<1>6. CASE Packet \/ Return \/ Abort \/ Publish
  BY <1>6 DEF Packet, Return, Abort, Publish
<1>7. CASE ServiceThread \/ (\E s \in Offered : Call(s)) \/ Arm
  BY <1>7 DEF ServiceThread, Set, Answered, Refused, TimesOut, Call, Arm, Handle
<1>8. CASE Recover \/ RecoveryThread
  BY <1>8 DEF Recover, RecoveryThread, SendDefault, DefaultSet, DefaultTimesOut, DefaultRefused,
              Restart
<1>9. CASE Terminated \/ UNCHANGED vars
  BY <1>9 DEF Terminated, vars
<1>10. CASE PrepareThread
  BY <1>10 DEF PrepareThread, PrepareStops, ZeroJoint
<1>. QED BY <1>1, <1>2, <1>3, <1>4, <1>5, <1>6, <1>7, <1>8, <1>9, <1>10
  DEF Next, ControlThread, LoopThread

(* HoldersGoOn: nobody waits for a mutex with another one in hand, and who *)
(* has one comes to the end of its critical section.                       *)
THEOREM MutexesAreReleased == Spec => []HoldersGoOn
<1>1. Init => LeftInv
  BY DEF Init, LeftInv
<1>2. DataInv /\ LeftInv => HoldersGoOn
  <2> SUFFICES ASSUME TypeOK, MutexInv, LeftInv PROVE HoldersGoOn
    BY DEF DataInv
  <2>1. mutex \in [Mutexes -> Threads \union {Nobody}]
    BY DEF TypeOK
  <2>2. \A t \in Threads, m, n \in Mutexes :
          mutex[m] = t => ~WaitsFor(t, n) /\ (mutex[n] = t => n = m)
    BY <2>1 DEF MutexInv, WaitsFor
  <2>3. reply["srv"] \in {"done", "refused", "none"}
    BY DEF TypeOK
  <2>. QED BY <2>2, <2>3 DEF HoldersGoOn, MutexInv, LeftInv
<1>3. DataInv => TypeOK
  BY DEF DataInv
<1>. QED BY <1>1, <1>2, <1>3, LeftKept, DataInvariant, PTL DEF Spec
==============================================================================
