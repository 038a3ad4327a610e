------------------------------ MODULE RobotData ------------------------------
(***************************************************************************)
(* What goes through a Robot object while its loop runs: the states the    *)
(* callback of the loop stores and the control thread reads and            *)
(* broadcasts, the commands the control thread writes and the callback     *)
(* returns to the arm, and the parameters the services set.                *)
(*                                                                         *)
(* Six threads: the control thread, libfranka's with the callback, the     *)
(* parameter service, the recovery service, the one of the broadcaster's   *)
(* RealtimePublisher, and the one of the controller manager's services,    *)
(* which runs prepare_command_mode_switch.  A state and a command are the  *)
(* number of the packet or cycle they are of, in every part of them.  A    *)
(* writer goes part by part, in any order; a critical section that only    *)
(* reads is one step.                                                      *)
(* Which loop runs, how it is stopped and joined, is FrankaRobot's.        *)
(***************************************************************************)
EXTENDS Integers, Sequences, FiniteSets

CONSTANTS
    Joints,                  \* the parts of a command
    Offered,                 \* the parameter services the clients call
    Nobody,
    Cycles, Packets,         \* the numbers begin again there
    MaxCalls,                \* calls of the parameter services
    MaxFaults                \* how many times the loop is aborted

(* What the services of FrankaParamServiceServer set.                      *)
Param == [set_joint_stiffness                 |-> "jointImpedance",
          set_cartesian_stiffness             |-> "cartesianImpedance",
          set_load                            |-> "load",
          set_tcp_frame                       |-> "EE",
          set_stiffness_frame                 |-> "K",
          set_force_torque_collision_behavior |-> "collision",
          set_full_collision_behavior         |-> "collision"]
Services == DOMAIN Param
Params   == {Param[s] : s \in Services}

Zero     == -1              \* no command: what arrays begin with and prepare sets
Commands == 0..(Cycles - 1) \union {Zero}

DefaultParams == <<"jointImpedance", "cartesianImpedance", "collision">>

Fields  == {"motion", "errors"}      \* the parts of a franka::RobotState
Threads == {"ctl", "loop", "srv", "rec"}
Mutexes == {"read", "write", "msg"}

ASSUME DataAssumption ==
    /\ IsFiniteSet(Joints) /\ Joints # {}
    /\ Offered \subseteq Services
    /\ Nobody \notin Threads
    /\ Cycles \in Nat \ {0} /\ Packets \in Nat \ {0}
    /\ MaxCalls \in Nat /\ MaxFaults \in Nat

VARIABLES
    pc,            \* where each thread is
    left,          \* the parts it has still to copy
    mutex,         \* who holds read_mutex_, write_mutex_, the publisher's msg_mutex_
    state,         \* current_state_
    got,           \* hw_franka_robot_state_, what read() returned
    source,        \* hw_commands_*, of the kind that the loop returns
    command,       \* the Robot's *_command_
    out,           \* what the callback returned to the arm
    packet, cycle, \* the newest packet, and the cycle of the control thread
    msg, turn,     \* the RealtimePublisher: msg_ and turn_
    published,     \* what it published last
    broadcasting,  \* the broadcaster is active
    switching,     \* the controller has claimed what prepare zeroes to stop it
    looping,       \* a loop of robot.cpp runs
    err, initSet,  \* has_error_, init_params_set
    faults, calls, dead,
    asked,         \* the parameter the service is setting
    queue,         \* the settings sent to the arm
    sent,          \* how many there were: a setting is known by its number
    inForce,       \* the one the arm uses, for each parameter
    answered,      \* the last one a client was told has succeeded
    waiting,       \* the one a thread waits for
    reply,         \* the arm's answer to it
    defaults       \* what setDefaultParams has still to set

threadVars == <<pc, left, mutex>>
stateVars  == <<state, got, packet>>
cmdVars    == <<source, command, out, cycle>>
msgVars    == <<msg, turn, published>>
runVars    == <<broadcasting, switching, looping, err, initSet, faults, dead>>
armVars    == <<queue, sent, inForce, waiting, reply>>
setVars    == <<armVars, calls, asked, answered, defaults>>
vars == <<threadVars, stateVars, cmdVars, msgVars, runVars, setVars>>

Goto(t, l)   == pc' = [pc EXCEPT ![t] = l]
Free(m)      == mutex[m] = Nobody
Lock(m, t)   == Free(m) /\ mutex' = [mutex EXCEPT ![m] = t]
Unlock(m)    == mutex' = [mutex EXCEPT ![m] = Nobody]
After(n, count) == (n + 1) % count

-----------------------------------------------------------------------------
(* The control thread: read() and the copy of FrankaHardwareInterface, the *)
(* update of the broadcaster, write()                                      *)

(* With no loop, or one that ended in an error, read() asks the arm.       *)
Read ==
    /\ pc["ctl"] = "read" /\ Free("read")
    /\ packet' = IF looping THEN packet ELSE After(packet, Packets)
    /\ state' = IF looping THEN state ELSE [f \in Fields |-> packet']
    /\ got' = state'
    /\ Goto("ctl", IF broadcasting THEN "broadcast" ELSE "update")
    /\ UNCHANGED <<left, mutex, cmdVars, msgVars, runVars, setVars>>

FillUnlocked ==                     \* faulty: update does not try the lock
    /\ pc["ctl"] = "broadcast"
    /\ Goto("ctl", "fillMotion")
    /\ UNCHANGED <<left, mutex, msgVars, stateVars, cmdVars, runVars, setVars>>

(* trylock(): the mutex is free and the last message has been taken.       *)
FillBegins ==
    /\ pc["ctl"] = "broadcast" /\ turn = "realtime" /\ Lock("msg", "ctl")
    /\ Goto("ctl", "fillMotion")
    /\ UNCHANGED <<left, msgVars, stateVars, cmdVars, runVars, setVars>>

(* The publisher's thread polls turn_ under the mutex, so a trylock() may  *)
(* fail at any time.                                                       *)
FillSkipped ==
    /\ pc["ctl"] = "broadcast"
    /\ Goto("ctl", "update")
    /\ UNCHANGED <<left, mutex, msgVars, stateVars, cmdVars, runVars, setVars>>

(* get_values_as_message copies what the hardware component's pointer      *)
(* shows; the message is one object, filled again and again.               *)
FillMotion ==
    /\ pc["ctl"] = "fillMotion" /\ Goto("ctl", "fillErrors")
    /\ msg' = [msg EXCEPT !["motion"] = got["motion"]]
    /\ UNCHANGED <<left, mutex, turn, published, stateVars, cmdVars, runVars, setVars>>

FillErrors ==                       \* the errors and the robot's mode
    /\ pc["ctl"] = "fillErrors" /\ Goto("ctl", "publish")
    /\ msg' = [msg EXCEPT !["errors"] = got["errors"]]
    /\ UNCHANGED <<left, mutex, turn, published, stateVars, cmdVars, runVars, setVars>>

PublishKeepsLock ==                 \* faulty: the message is handed over still locked
    /\ pc["ctl"] = "publish" /\ Goto("ctl", "update")
    /\ turn' = "other"
    /\ UNCHANGED <<left, mutex, msg, published, stateVars, cmdVars, runVars, setVars>>

UnlockAndPublish ==
    /\ pc["ctl"] = "publish" /\ Goto("ctl", "update")
    /\ turn' = "other" /\ Unlock("msg")
    /\ UNCHANGED <<left, msg, published, stateVars, cmdVars, runVars, setVars>>

(* The active controller sets its command interfaces.                      *)
Update ==
    /\ pc["ctl"] = "update" /\ Goto("ctl", "write")
    /\ cycle' = After(cycle, Cycles) /\ source' = [j \in Joints |-> cycle']
    /\ UNCHANGED <<left, mutex, stateVars, command, out, msgVars, runVars, setVars>>

Write ==                            \* without an error, the commands go to the Robot
    /\ pc["ctl"] = "write" /\ ~err /\ Goto("ctl", "writeLock")
    /\ UNCHANGED <<left, mutex, stateVars, cmdVars, msgVars, runVars, setVars>>

WriteSkipped ==
    /\ pc["ctl"] = "write" /\ err /\ Goto("ctl", "read")
    /\ UNCHANGED <<left, mutex, stateVars, cmdVars, msgVars, runVars, setVars>>

WriteUnlocked ==                    \* faulty: the arrays are assigned without write_mutex_
    /\ pc["ctl"] = "writeLock"
    /\ left' = [left EXCEPT !["ctl"] = Joints]
    /\ Goto("ctl", "assign")
    /\ UNCHANGED <<mutex, stateVars, cmdVars, msgVars, runVars, setVars>>

WriteBegins ==
    /\ pc["ctl"] = "writeLock" /\ Lock("write", "ctl")
    /\ left' = [left EXCEPT !["ctl"] = Joints]
    /\ Goto("ctl", "assign")
    /\ UNCHANGED <<stateVars, cmdVars, msgVars, runVars, setVars>>

Assign(j) ==                        \* the last one ends the critical section
    /\ pc["ctl"] = "assign" /\ j \in left["ctl"]
    /\ command' = [command EXCEPT ![j] = source[j]]
    /\ left' = [left EXCEPT !["ctl"] = @ \ {j}]
    /\ IF left'["ctl"] = {}
         THEN Unlock("write") /\ Goto("ctl", "read")
         ELSE UNCHANGED <<mutex, pc>>
    /\ UNCHANGED <<stateVars, source, out, cycle, msgVars, runVars, setVars>>

(* prepare is asked to stop the controller and sets its commands to zero,  *)
(* without a mutex, while the control thread goes on.  Whether the switch  *)
(* is then refused or performed is CommandModeSwitch's.                    *)
PrepareStops ==
    /\ switching /\ left["prep"] = {}
    /\ left' = [left EXCEPT !["prep"] = Joints]
    /\ UNCHANGED <<pc, mutex, stateVars, cmdVars, msgVars, runVars, setVars>>

ZeroJoint(j) ==
    /\ j \in left["prep"]
    /\ source' = [source EXCEPT ![j] = Zero]
    /\ left' = [left EXCEPT !["prep"] = @ \ {j}]
    /\ UNCHANGED <<pc, mutex, stateVars, command, out, cycle, msgVars, runVars, setVars>>

(* The thread of the RealtimePublisher.                                    *)
Publish ==
    /\ turn = "other" /\ Free("msg")
    /\ published' = msg /\ turn' = "realtime"
    /\ UNCHANGED <<threadVars, stateVars, cmdVars, msg, runVars, setVars>>

-----------------------------------------------------------------------------
(* The callback of a control loop, the same in the five of them            *)

Packet ==
    /\ pc["loop"] = "idle" /\ looping /\ Goto("loop", "stateLock")
    /\ packet' = After(packet, Packets)
    /\ UNCHANGED <<left, mutex, state, got, cmdVars, msgVars, runVars, setVars>>

StoreUnlocked ==                    \* faulty: current_state_ without read_mutex_
    /\ pc["loop"] = "stateLock" /\ Goto("loop", "store")
    /\ left' = [left EXCEPT !["loop"] = Fields]
    /\ UNCHANGED <<mutex, stateVars, cmdVars, msgVars, runVars, setVars>>

StoreBegins ==
    /\ pc["loop"] = "stateLock" /\ Lock("read", "loop") /\ Goto("loop", "store")
    /\ left' = [left EXCEPT !["loop"] = Fields]
    /\ UNCHANGED <<stateVars, cmdVars, msgVars, runVars, setVars>>

Store(f) ==
    /\ pc["loop"] = "store" /\ f \in left["loop"]
    /\ state' = [state EXCEPT ![f] = packet]
    /\ left' = [left EXCEPT !["loop"] = @ \ {f}]
    /\ IF left'["loop"] = {}
         THEN Unlock("read") /\ Goto("loop", "command")
         ELSE UNCHANGED <<mutex, pc>>
    /\ UNCHANGED <<got, packet, cmdVars, msgVars, runVars, setVars>>

Return ==
    /\ pc["loop"] = "command" /\ Free("write") /\ Goto("loop", "idle")
    /\ out' = command
    /\ UNCHANGED <<left, mutex, stateVars, source, command, cycle, msgVars, runVars, setVars>>

(* The arm stops the motion, for a reflex or commands that came too late.  *)
Abort ==
    /\ pc["loop"] = "idle" /\ looping /\ faults < MaxFaults
    /\ looping' = FALSE /\ err' = TRUE /\ faults' = faults + 1
    /\ UNCHANGED <<threadVars, stateVars, cmdVars, msgVars, broadcasting, switching, initSet, dead, setVars>>

-----------------------------------------------------------------------------
(* The services of the parameters: setGenericRobotParam and the setters of *)
(* Robot.  A setter holds write_mutex_ until the arm has answered.         *)

Send(t, p) ==
    /\ sent' = sent + 1
    /\ queue' = Append(queue, [from |-> t, param |-> p, n |-> sent + 1])
    /\ waiting' = [waiting EXCEPT ![t] = sent + 1]
    /\ reply' = [reply EXCEPT ![t] = "none"]

Forget(t) == waiting' = [waiting EXCEPT ![t] = 0] /\ reply' = [reply EXCEPT ![t] = "none"]

Call(s) ==
    /\ pc["srv"] = "idle" /\ calls < MaxCalls /\ Goto("srv", "setting")
    /\ calls' = calls + 1 /\ asked' = Param[s]
    /\ UNCHANGED <<left, mutex, stateVars, cmdVars, msgVars, runVars, armVars, answered, defaults>>

Set ==
    /\ pc["srv"] = "setting" /\ Lock("write", "srv") /\ Goto("srv", "wait")
    /\ Send("srv", asked)
    /\ UNCHANGED <<left, stateVars, cmdVars, msgVars, runVars, inForce, calls, asked, answered,
                   defaults>>

Answered ==                         \* the client is told success
    /\ pc["srv"] = "wait" /\ reply["srv"] = "done" /\ Goto("srv", "idle") /\ Unlock("write")
    /\ answered' = [answered EXCEPT ![asked] = waiting["srv"]]
    /\ Forget("srv") /\ asked' = Nobody
    /\ UNCHANGED <<left, stateVars, cmdVars, msgVars, runVars, queue, sent, inForce, calls,
                   defaults>>

Refused ==                          \* CommandException
    /\ pc["srv"] = "wait" /\ reply["srv"] = "refused" /\ Goto("srv", "idle") /\ Unlock("write")
    /\ Forget("srv") /\ asked' = Nobody
    /\ UNCHANGED <<left, stateVars, cmdVars, msgVars, runVars, queue, sent, inForce, calls,
                   answered, defaults>>

TimesOutAsSuccess ==                \* faulty: the client is told success
    /\ pc["srv"] = "wait" /\ reply["srv"] = "none" /\ Goto("srv", "idle") /\ Unlock("write")
    /\ answered' = [answered EXCEPT ![asked] = waiting["srv"]]
    /\ waiting' = [waiting EXCEPT !["srv"] = 0]
    /\ UNCHANGED <<left, stateVars, cmdVars, msgVars, runVars, queue, sent, inForce, reply, calls,
                   asked, defaults>>

TimesOutUnlessQueued ==             \* faulty: waits for an arm that has not taken the setting
    /\ pc["srv"] = "wait" /\ reply["srv"] = "none" /\ Goto("srv", "idle") /\ Unlock("write")
    /\ queue = <<>>
    /\ Forget("srv") /\ asked' = Nobody
    /\ UNCHANGED <<left, stateVars, cmdVars, msgVars, runVars, queue, sent, inForce, calls,
                   answered, defaults>>

(* NetworkException: the client is told failure; the arm may yet do it.    *)
(* That libfranka gives up on a request the arm has is assumed.            *)
TimesOut ==
    /\ pc["srv"] = "wait" /\ reply["srv"] = "none" /\ Goto("srv", "idle") /\ Unlock("write")
    /\ Forget("srv") /\ asked' = Nobody
    /\ UNCHANGED <<left, stateVars, cmdVars, msgVars, runVars, queue, sent, inForce, calls,
                   answered, defaults>>

(* The arm takes the settings in the order they were sent; an answer that  *)
(* nobody waits for any more is dropped.                                   *)
Handle(done) ==
    /\ queue # <<>> /\ queue' = Tail(queue)
    /\ LET q == Head(queue) IN
         /\ inForce' = IF done THEN [inForce EXCEPT ![q.param] = q.n] ELSE inForce
         /\ reply' = IF waiting[q.from] = q.n
                     THEN [reply EXCEPT ![q.from] = IF done THEN "done" ELSE "refused"]
                     ELSE reply
    /\ UNCHANGED <<threadVars, stateVars, cmdVars, msgVars, runVars, sent, waiting, calls, asked,
                   answered, defaults>>

-----------------------------------------------------------------------------
(* The recovery service: doAutomaticErrorRecovery has succeeded; the first *)
(* recovery of a Robot constructed with an error sets the default          *)
(* parameters, without write_mutex_.                                       *)

Recover ==
    /\ pc["rec"] = "idle" /\ err
    /\ err' = FALSE
    /\ Goto("rec", IF initSet THEN "restart" ELSE "default")
    /\ defaults' = IF initSet THEN <<>> ELSE DefaultParams
    /\ UNCHANGED <<left, mutex, stateVars, cmdVars, msgVars, broadcasting, switching, looping, initSet, faults,
                   dead, armVars, calls, asked, answered>>

SendDefault ==
    /\ pc["rec"] = "default" /\ defaults # <<>> /\ Goto("rec", "wait")
    /\ Send("rec", Head(defaults)) /\ defaults' = Tail(defaults)
    /\ UNCHANGED <<left, mutex, stateVars, cmdVars, msgVars, runVars, inForce, calls, asked, answered>>

DefaultSet ==
    /\ pc["rec"] = "wait" /\ reply["rec"] = "done"
    /\ Goto("rec", IF defaults = <<>> THEN "restart" ELSE "default")
    /\ initSet' = (defaults = <<>>) /\ Forget("rec")
    /\ UNCHANGED <<left, mutex, stateVars, cmdVars, msgVars, broadcasting, switching, looping, err, faults, dead,
                   queue, sent, inForce, calls, asked, answered, defaults>>

(* NetworkException: the service answers that the recovery failed, with no *)
(* error left and no loop.                                                 *)
DefaultTimesOut ==
    /\ pc["rec"] = "wait" /\ reply["rec"] = "none" /\ Goto("rec", "idle")
    /\ Forget("rec") /\ defaults' = <<>>
    /\ UNCHANGED <<left, mutex, stateVars, cmdVars, msgVars, runVars, queue, sent, inForce,
                   calls, asked, answered>>

(* The service catches ControlException and NetworkException only.         *)
DefaultRefused ==
    /\ pc["rec"] = "wait" /\ reply["rec"] = "refused"
    /\ dead' = TRUE
    /\ UNCHANGED <<threadVars, stateVars, cmdVars, msgVars, broadcasting, switching, looping, err, initSet,
                   faults, setVars>>

Restart ==
    /\ pc["rec"] = "restart" /\ Free("read") /\ Goto("rec", "idle")
    /\ looping' = TRUE
    /\ UNCHANGED <<left, mutex, stateVars, cmdVars, msgVars, broadcasting, switching, err, initSet, faults,
                   dead, setVars>>

-----------------------------------------------------------------------------
(* A Robot is constructed with its default parameters set and is then made *)
(* to loop, or, when the arm refused them, with an error and no loop.      *)
Init ==
    /\ pc = [t \in Threads |-> IF t = "ctl" THEN "read" ELSE "idle"]
    /\ left = [t \in {"ctl", "loop", "prep"} |-> {}]
    /\ mutex = [m \in Mutexes |-> Nobody]
    /\ state = [f \in Fields |-> 0] /\ got = state /\ packet = 0
    /\ source = [j \in Joints |-> Zero] /\ command = source /\ out = source /\ cycle = 0
    /\ msg = [f \in Fields |-> 0] /\ published = msg /\ turn = "realtime"
    /\ initSet \in BOOLEAN /\ looping = initSet /\ err = ~initSet
    /\ faults = (IF initSet THEN 0 ELSE 1) /\ faults <= MaxFaults /\ calls \in 0..MaxCalls /\ dead = FALSE
    /\ broadcasting \in BOOLEAN /\ switching \in BOOLEAN
    /\ queue = <<>> /\ sent = 0 /\ inForce = [p \in Params |-> 0] /\ answered = inForce
    /\ asked = Nobody
    /\ waiting = [t \in {"srv", "rec"} |-> 0] /\ reply = [t \in {"srv", "rec"} |-> "none"]
    /\ defaults = <<>>

ControlThread ==
    \/ Read
    \/ FillBegins \/ FillSkipped \/ FillMotion \/ FillErrors \/ UnlockAndPublish
    \/ Update \/ Write \/ WriteSkipped \/ WriteBegins \/ (\E j \in Joints : Assign(j))

PrepareThread == PrepareStops \/ (\E j \in Joints : ZeroJoint(j))
LoopThread == Packet \/ StoreBegins \/ (\E f \in Fields : Store(f)) \/ Return
ServiceThread == Set \/ Answered \/ Refused \/ TimesOut
RecoveryThread ==
    \/ SendDefault \/ DefaultSet \/ DefaultTimesOut \/ DefaultRefused \/ Restart
Arm == \E done \in BOOLEAN : Handle(done)

Terminated == dead /\ UNCHANGED vars

Next ==
    \/ /\ ~dead
       /\ \/ ControlThread \/ PrepareThread \/ LoopThread \/ Abort \/ Publish
          \/ ServiceThread \/ (\E s \in Offered : Call(s))
          \/ Arm \/ Recover \/ RecoveryThread
    \/ Terminated

Spec == Init /\ [][Next]_vars

(* Every thread of a living process goes on, and gets a mutex at last that *)
(* is free again and again; so does a trylock() that could succeed again   *)
(* and again.  Nothing makes the arm answer, the clients call, or a user   *)
(* recover.                                                                *)
Fairness ==
    /\ SF_vars(~dead /\ ControlThread) /\ SF_vars(~dead /\ FillBegins)
    /\ SF_vars(~dead /\ LoopThread)
    /\ SF_vars(~dead /\ ServiceThread) /\ SF_vars(~dead /\ RecoveryThread)
    /\ WF_vars(~dead /\ Publish)

FairSpec == Spec /\ Fairness

-----------------------------------------------------------------------------
(* The variables keep their types.                                         *)
TypeOK ==
    /\ pc \in [Threads -> {"read", "broadcast", "fillMotion", "fillErrors", "publish",
                           "update", "write", "writeLock", "assign", "idle", "stateLock", "store",
                           "command", "setting", "wait", "default", "restart"}]
    /\ left \in [{"ctl", "loop", "prep"} -> SUBSET (Joints \union Fields)]
    /\ mutex \in [Mutexes -> Threads \union {Nobody}]
    /\ packet \in 0..(Packets - 1) /\ cycle \in 0..(Cycles - 1)
    /\ state \in [Fields -> 0..(Packets - 1)] /\ got \in [Fields -> 0..(Packets - 1)]
    /\ {source, command, out} \subseteq [Joints -> Commands]
    /\ msg \in [Fields -> 0..(Packets - 1)] /\ published \in [Fields -> 0..(Packets - 1)]
    /\ turn \in {"realtime", "other"}
    /\ broadcasting \in BOOLEAN /\ switching \in BOOLEAN /\ looping \in BOOLEAN /\ err \in BOOLEAN
    /\ initSet \in BOOLEAN /\ dead \in BOOLEAN
    /\ faults \in 0..MaxFaults /\ calls \in 0..MaxCalls
    /\ queue \in Seq([from : {"srv", "rec"}, param : Params, n : Nat]) /\ sent \in Nat
    /\ inForce \in [Params -> Nat] /\ answered \in [Params -> Nat]
    /\ asked \in Params \union {Nobody} /\ (pc["srv"] # "idle" => asked \in Params)
    /\ waiting \in [{"srv", "rec"} -> Nat]
    /\ reply \in [{"srv", "rec"} -> {"none", "done", "refused"}]
    /\ defaults \in Seq(Params)

(* What the callback returns is of one cycle: write() assigns the arrays   *)
(* under write_mutex_, and the callback reads them under it, so the arm is *)
(* never given the joints of two commands at once.  But prepare zeroes     *)
(* hw_commands_* with no mutex, joint by joint, while write() copies them: *)
(* of a controller that is being stopped some joints may be zero already,  *)
(* and some still of the cycle.                                            *)
OneCycle(c) == \A i, j \in Joints : c[i] = c[j] \/ (switching /\ Zero \in {c[i], c[j]})

CommandsAreOfOneCycle == OneCycle(out)

(* What read() returns is one state of the arm, never parts of two ("in a  *)
(* thread-safe way", robot.hpp:93): the callback stores it under           *)
(* read_mutex_.                                                            *)
StatesAreWhole == \A f, g \in Fields : got[f] = got[g]

(* A published FrankaState message is of one state of the arm, though      *)
(* update() fills the one message part by part while the publisher's       *)
(* thread copies it.                                                       *)
MessagesAreWhole == \A f, g \in Fields : published[f] = published[g]

(* A message that was handed over is not touched again until the           *)
(* publisher has taken it.                                                 *)
MessageNotOverwritten == [][turn = "other" => msg' = msg]_vars

(* A setting a client was told has succeeded is in force, or a newer one   *)
(* of the same parameter is: an answer that came too late, a refusal, or   *)
(* the defaults of a recovery never bring an older one back.               *)
SettingsHold == \A p \in Params : answered[p] <= inForce[p]

(* The callback of the loop, which waits for write_mutex_ while a setter   *)
(* waits for the arm, returns its command in the end.                      *)
CallbackReturns == pc["loop"] = "command" ~> pc["loop"] = "idle" \/ dead

(* The broadcaster goes on publishing.                                     *)
BroadcastGoesOn ==
    broadcasting => <>dead \/ ([]<>(turn = "other") /\ []<>(turn = "realtime"))
=============================================================================
