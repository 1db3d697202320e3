--------------------------- MODULE TendingCellProofs ---------------------------
(* Theorems about the two nodes together. Every step of the cell is a step of   *)
(* the bridge or nothing to it, and a step of the manager or nothing to it, so  *)
(* what is proved of each node alone holds of it in the cell; and what the two  *)
(* agree on, which command is whose and under way, is an invariant of both.     *)
EXTENDS TendingCell, TLAPS

BridgeP  == INSTANCE TendingBridgeProofs
ManagerP == INSTANCE InspectionManagerProofs WITH Callers <- {Caller}, Goals <- Jobs

-------------------------------------------------------------------------------
(* The modules with the theorems about the nodes define again what TendingCell  *)
(* takes from the nodes' own modules: the same formulas under two names.        *)

(* What is assumed of the nodes' constants.                                     *)
LEMMA SameAssumptions ==
  /\ BridgeP!BoundsAssumption
  /\ ManagerP!PosesAssumption /\ ManagerP!BoundsAssumption
  /\ ManagerP!IgnoreAssumption /\ ManagerP!ThreadsAssumption
<1>1. Manager!IsFiniteSet({Caller}) <=> ManagerP!IsFiniteSet({Caller})
  BY DEF Manager!IsFiniteSet, ManagerP!IsFiniteSet
<1>2. BridgeP!BoundsAssumption
  BY BridgeAssumption DEF Bridge!BoundsAssumption, BridgeP!BoundsAssumption
<1>3. ManagerP!PosesAssumption /\ ManagerP!BoundsAssumption /\ ManagerP!IgnoreAssumption
  BY ManagerAssumption DEF Manager!PosesAssumption, ManagerP!PosesAssumption, Manager!PoseNames,
     ManagerP!PoseNames, Manager!BoundsAssumption, ManagerP!BoundsAssumption,
     Manager!IgnoreAssumption, ManagerP!IgnoreAssumption
<1>4. ManagerP!ThreadsAssumption
  BY <1>1, ManagerAssumption DEF Manager!ThreadsAssumption, ManagerP!ThreadsAssumption
<1>5. QED
  BY <1>2, <1>3, <1>4

(* The manager's steps.                                                         *)
LEMMA SameManager ==
  /\ Manager!Init <=> ManagerP!Init
  /\ Manager!Environment <=> ManagerP!Environment
  /\ Manager!Requests <=> ManagerP!Requests
  /\ Manager!ServerStep <=> ManagerP!ServerStep
  /\ \A c \in {Caller} : Manager!CallerStep(c) <=> ManagerP!CallerStep(c)
  /\ \A g \in Jobs : Manager!GoalStep(g) <=> ManagerP!GoalStep(g)
  /\ UNCHANGED Manager!vars <=> UNCHANGED ManagerP!vars
<1>1. \A S : Manager!Cardinality(S) = ManagerP!Cardinality(S)
  BY DEF Manager!Cardinality, ManagerP!Cardinality
<1>2. Manager!FreeThread <=> ManagerP!FreeThread
  BY <1>1 DEF Manager!FreeThread, ManagerP!FreeThread, Manager!Blocked, ManagerP!Blocked
<1> USE DEF Manager!PoseNames, ManagerP!PoseNames, Manager!Movers, ManagerP!Movers, Manager!Threads,
     ManagerP!Threads, Manager!Pose, ManagerP!Pose, Manager!Waypoint, ManagerP!Waypoint,
     Manager!Jogged, ManagerP!Jogged, Manager!EnRoute, ManagerP!EnRoute, Manager!Targets,
     ManagerP!Targets, Manager!Places, ManagerP!Places, Manager!Commands, ManagerP!Commands,
     Manager!goalVars, ManagerP!goalVars, Manager!moveVars, ManagerP!moveVars, Manager!robotVars,
     ManagerP!robotVars, Manager!vars, ManagerP!vars, Manager!Terminal, ManagerP!Terminal,
     Manager!Stages, ManagerP!Stages, Manager!Goto, ManagerP!Goto, Manager!Become, ManagerP!Become,
     Manager!Missed, ManagerP!Missed, Manager!SafetyOk, ManagerP!SafetyOk, Manager!AtRest,
     ManagerP!AtRest, Manager!SendMove, ManagerP!SendMove, Manager!SendStop, ManagerP!SendStop,
     Manager!Leave, ManagerP!Leave, Manager!ToCapture, ManagerP!ToCapture, Manager!Proceed,
     ManagerP!Proceed, Manager!Fail, ManagerP!Fail, Manager!Conclude, ManagerP!Conclude,
     Manager!After, ManagerP!After, Manager!EndStage, ManagerP!EndStage, Manager!Enqueue,
     ManagerP!Enqueue, Manager!Standing, ManagerP!Standing
<1>3. Manager!Init <=> ManagerP!Init
  BY DEF Manager!Init, ManagerP!Init
<1>4. Manager!Environment <=> ManagerP!Environment
  BY <1>2 DEF Manager!Environment, ManagerP!Environment, Manager!OnFeedback, ManagerP!OnFeedback,
     Manager!BridgeStop, ManagerP!BridgeStop, Manager!RobotLeaves, ManagerP!RobotLeaves,
     Manager!RobotArrives, ManagerP!RobotArrives, Manager!SafetyChanges, ManagerP!SafetyChanges,
     Manager!DriverAnswersMove, ManagerP!DriverAnswersMove, Manager!DriverAnswersStop,
     ManagerP!DriverAnswersStop, Manager!DriverServesLateMove, ManagerP!DriverServesLateMove,
     Manager!CameraAnswers, ManagerP!CameraAnswers
<1>5. Manager!Requests <=> ManagerP!Requests
  BY <1>2 DEF Manager!Requests, ManagerP!Requests, Manager!HandleGoto, ManagerP!HandleGoto,
     Manager!HandleJog, ManagerP!HandleJog, Manager!HandleCancel, ManagerP!HandleCancel,
     Manager!HandleGoal, ManagerP!HandleGoal
<1>6. Manager!ServerStep <=> ManagerP!ServerStep
  BY <1>2 DEF Manager!ServerStep, ManagerP!ServerStep, Manager!CancelAccepted, ManagerP!CancelAccepted,
     Manager!StopReturns, ManagerP!StopReturns
<1>7. \A t : Manager!IoStep(t) <=> ManagerP!IoStep(t)
  BY <1>1, <1>2 DEF Manager!IoStep, ManagerP!IoStep, Manager!MoveAnswered, ManagerP!MoveAnswered,
     Manager!MoveUnanswered, ManagerP!MoveUnanswered, Manager!Poll, ManagerP!Poll,
     Manager!StopReturns, ManagerP!StopReturns
<1>8. \A c : Manager!CallerStep(c) <=> ManagerP!CallerStep(c)
  BY <1>7 DEF Manager!CallerStep, ManagerP!CallerStep, Manager!CheckSafety, ManagerP!CheckSafety,
     Manager!CallerMoves, ManagerP!CallerMoves, Manager!CallerReturns, ManagerP!CallerReturns
<1>9. \A g : Manager!GoalStep(g) <=> ManagerP!GoalStep(g)
  BY <1>2, <1>7 DEF Manager!GoalStep, ManagerP!GoalStep, Manager!Start, ManagerP!Start, Manager!Stage,
     ManagerP!Stage, Manager!View, ManagerP!View, Manager!ViewMoved, ManagerP!ViewMoved,
     Manager!CaptureRequest, ManagerP!CaptureRequest, Manager!Captured, ManagerP!Captured,
     Manager!CaptureFailed, ManagerP!CaptureFailed, Manager!Abort, ManagerP!Abort, Manager!Cancel,
     ManagerP!Cancel, Manager!Unwind, ManagerP!Unwind
<1>10. UNCHANGED Manager!vars <=> UNCHANGED ManagerP!vars
  OBVIOUS
<1>11. QED
  BY <1>3, <1>4, <1>5, <1>6, <1>8, <1>9, <1>10

(* So both have the same next-state relation.                                   *)
LEMMA SameManagerNext == Manager!Next <=> ManagerP!Next
BY SameManager DEF Manager!Next, ManagerP!Next

(* The bridge's steps.                                                          *)
LEMMA SameBridgeSteps ==
  /\ Bridge!Init <=> BridgeP!Init
  /\ \A i, kind : Bridge!Claim(i, kind) <=> BridgeP!Claim(i, kind)
  /\ \A i : Bridge!Callback(i) <=> BridgeP!Callback(i)
  /\ \A i : Bridge!ManagerAnswers(i) <=> BridgeP!ManagerAnswers(i)
  /\ \A i : Bridge!ManagerEnds(i) <=> BridgeP!ManagerEnds(i)
  /\ Bridge!HandleCancel <=> BridgeP!HandleCancel
  /\ Bridge!HandleStop <=> BridgeP!HandleStop
  /\ Bridge!HandlePing <=> BridgeP!HandlePing
  /\ Bridge!Connect <=> BridgeP!Connect
  /\ Bridge!Disconnect <=> BridgeP!Disconnect
  /\ Bridge!IoStep <=> BridgeP!IoStep
  /\ Bridge!WatchdogStep <=> BridgeP!WatchdogStep
  /\ Bridge!SafetyEdge <=> BridgeP!SafetyEdge
  /\ Bridge!SafetyStep <=> BridgeP!SafetyStep
  /\ Bridge!ClientSilent <=> BridgeP!ClientSilent
  /\ Bridge!DriverChanges <=> BridgeP!DriverChanges
  /\ UNCHANGED Bridge!vars <=> UNCHANGED BridgeP!vars
<1> USE DEF Bridge!Jobs, BridgeP!Jobs, Bridge!Conns, BridgeP!Conns, Bridge!Kinds, BridgeP!Kinds,
     Bridge!None, BridgeP!None, Bridge!Threads, BridgeP!Threads, Bridge!NoJob, BridgeP!NoJob,
     Bridge!Idle, BridgeP!Idle, Bridge!nodeVars, BridgeP!nodeVars, Bridge!linkVars,
     BridgeP!linkVars, Bridge!clientVars, BridgeP!clientVars, Bridge!mgrVars, BridgeP!mgrVars,
     Bridge!histVars, BridgeP!histVars, Bridge!vars, BridgeP!vars, Bridge!At, BridgeP!At, Bridge!Go,
     BridgeP!Go, Bridge!Goto, BridgeP!Goto, Bridge!Return, BridgeP!Return, Bridge!Rest,
     BridgeP!Rest, Bridge!StopThen, BridgeP!StopThen, Bridge!Receive, BridgeP!Receive,
     Bridge!Report, BridgeP!Report, Bridge!Fire, BridgeP!Fire, Bridge!Alarm, BridgeP!Alarm
<1>1. Bridge!Init <=> BridgeP!Init
  BY DEF Bridge!Init, BridgeP!Init
<1>2. \A t : (Bridge!Stopping(t) <=> BridgeP!Stopping(t)) /\ (Bridge!AbortJob(t) <=> BridgeP!AbortJob(t))
  BY DEF Bridge!Stopping, BridgeP!Stopping, Bridge!StopRobot, BridgeP!StopRobot, Bridge!StopGoal,
     BridgeP!StopGoal, Bridge!CancelGoal, BridgeP!CancelGoal, Bridge!AbortJob, BridgeP!AbortJob
<1>3. Bridge!IoStep <=> BridgeP!IoStep
  BY <1>2 DEF Bridge!IoStep, BridgeP!IoStep, Bridge!Send, BridgeP!Send, Bridge!OwnerGone, BridgeP!OwnerGone,
     Bridge!GoneFires, BridgeP!GoneFires
<1>4. Bridge!WatchdogStep <=> BridgeP!WatchdogStep
  BY <1>2 DEF Bridge!WatchdogStep, BridgeP!WatchdogStep, Bridge!CheckDriver, BridgeP!CheckDriver,
     Bridge!ReadOwner, BridgeP!ReadOwner, Bridge!Decide, BridgeP!Decide, Bridge!Rearm, BridgeP!Rearm
<1>5. (Bridge!SafetyStep <=> BridgeP!SafetyStep) /\ (Bridge!SafetyEdge <=> BridgeP!SafetyEdge)
  BY <1>2 DEF Bridge!SafetyStep, BridgeP!SafetyStep, Bridge!SafetyEdge, BridgeP!SafetyEdge
<1>6. \A i : Bridge!Callback(i) <=> BridgeP!Callback(i)
  BY DEF Bridge!Callback, BridgeP!Callback, Bridge!GoalResponse, BridgeP!GoalResponse,
     Bridge!ResultArrives, BridgeP!ResultArrives, Bridge!ReleaseJob, BridgeP!ReleaseJob
<1>7. \A i, kind : Bridge!Claim(i, kind) <=> BridgeP!Claim(i, kind)
  BY DEF Bridge!Claim, BridgeP!Claim
<1>8. /\ \A i : Bridge!ManagerAnswers(i) <=> BridgeP!ManagerAnswers(i)
      /\ \A i : Bridge!ManagerEnds(i) <=> BridgeP!ManagerEnds(i)
  BY DEF Bridge!ManagerAnswers, BridgeP!ManagerAnswers, Bridge!ManagerEnds, BridgeP!ManagerEnds
<1>9. /\ Bridge!HandleCancel <=> BridgeP!HandleCancel
      /\ Bridge!HandleStop <=> BridgeP!HandleStop
      /\ Bridge!HandlePing <=> BridgeP!HandlePing
  BY DEF Bridge!HandleCancel, BridgeP!HandleCancel, Bridge!HandleStop, BridgeP!HandleStop,
     Bridge!HandlePing, BridgeP!HandlePing
<1>10. /\ Bridge!Connect <=> BridgeP!Connect
       /\ Bridge!Disconnect <=> BridgeP!Disconnect
       /\ Bridge!ClientSilent <=> BridgeP!ClientSilent
       /\ Bridge!DriverChanges <=> BridgeP!DriverChanges
  BY DEF Bridge!Connect, BridgeP!Connect, Bridge!Disconnect, BridgeP!Disconnect, Bridge!ClientSilent,
     BridgeP!ClientSilent, Bridge!DriverChanges, BridgeP!DriverChanges
<1>11. UNCHANGED Bridge!vars <=> UNCHANGED BridgeP!vars
  OBVIOUS
<1>12. QED
  BY <1>1, <1>3, <1>4, <1>5, <1>6, <1>7, <1>8, <1>9, <1>10, <1>11

(* So both have the same next-state relation.                                   *)
LEMMA SameBridge == Bridge!Next <=> BridgeP!Next
<1>1. Bridge!Jobs = Jobs /\ BridgeP!Jobs = Jobs /\ BridgeP!Kinds = Bridge!Kinds
  BY DEF Jobs, Bridge!Jobs, BridgeP!Jobs, Bridge!Kinds, BridgeP!Kinds
<1>2. ASSUME Bridge!Next PROVE BridgeP!Next
  BY <1>1, <1>2, SameBridgeSteps DEF Bridge!Next, BridgeP!Next
<1>3. ASSUME BridgeP!Next PROVE Bridge!Next
  <2>1. ASSUME NEW i \in Jobs, NEW kind \in Bridge!Kinds, BridgeP!Claim(i, kind)
        PROVE  Bridge!Next
    BY <1>1, <2>1, SameBridgeSteps DEF Bridge!Next
  <2>2. ASSUME NEW i \in Jobs,
               BridgeP!Callback(i) \/ BridgeP!ManagerAnswers(i) \/ BridgeP!ManagerEnds(i)
        PROVE  Bridge!Next
    BY <1>1, <2>2, SameBridgeSteps DEF Bridge!Next
  <2>3. QED
    BY <1>1, <1>3, <2>1, <2>2, SameBridgeSteps DEF Bridge!Next, BridgeP!Next
<1>4. QED
  BY <1>2, <1>3

-------------------------------------------------------------------------------
(* The cell is made of the two nodes: every step of it is a step of the bridge  *)
(* or leaves the bridge alone, and a step of the manager or leaves it alone.    *)

(* The steps that the manager takes on no request.                              *)
ManagerAlone ==
  \/ Manager!Environment \/ Manager!ServerStep \/ UNCHANGED managerVars
  \/ Manager!CallerStep(Caller) \/ \E g \in Jobs : Manager!GoalStep(g)

LEMMA ManagerPart ==
  ASSUME [Next]_vars
  PROVE  \/ ManagerAlone
         \/ \E i \in Jobs : \/ RequestArrives(i) /\ Manager!Requests
                            \/ GoalArrives(i) /\ Manager!Requests
                            \/ CancelArrives(i) /\ Manager!Requests
<1>1. CASE BridgeSteps \/ StopSent \/ UNCHANGED vars
  BY <1>1 DEF BridgeSteps, StopSent, vars, managerVars, ManagerAlone
<1>2. CASE StopArrives
  BY <1>2 DEF StopArrives, ManagerAlone, Manager!Environment
<1>3. CASE ManagerSteps
  BY <1>3 DEF ManagerSteps, ManagerAlone, Manager!Environment
<1>4. ASSUME NEW i \in Jobs, GoalArrives(i) PROVE Manager!Requests
  BY <1>4 DEF GoalArrives, Manager!Requests
<1>5. ASSUME NEW i \in Jobs, RequestArrives(i), ~UNCHANGED managerVars PROVE Manager!Requests
  <2>1. Poses \subseteq Manager!PoseNames
    BY ManagerAssumption DEF Manager!PosesAssumption
  <2>2. CASE \E p \in Poses : Manager!HandleGoto(Caller, p)
    BY <2>1, <2>2 DEF Manager!Requests
  <2>3. CASE \E k \in 1..Jogs, valid \in BOOLEAN : Manager!HandleJog(Caller, k, valid)
    BY <2>3 DEF Manager!Requests
  <2>4. QED
    BY <1>5, <2>2, <2>3 DEF RequestArrives
<1>6. ASSUME NEW i \in Jobs, CancelArrives(i) PROVE Manager!Requests
  BY <1>6 DEF CancelArrives, Manager!Requests
<1>7. ASSUME NEW i \in Jobs, ResultSent(i) PROVE UNCHANGED managerVars
  BY <1>7 DEF ResultSent
<1>8. QED
  BY <1>1, <1>2, <1>3, <1>4, <1>5, <1>6, <1>7 DEF Next, Message, ManagerAlone

LEMMA ManagerStep == [Next]_vars => [Manager!Next]_(Manager!vars)
<1> SUFFICES ASSUME [Next]_vars PROVE [Manager!Next]_(Manager!vars)
  OBVIOUS
<1>1. CASE UNCHANGED managerVars
  BY <1>1 DEF managerVars, Manager!vars, Manager!goalVars, Manager!moveVars, Manager!robotVars
<1>2. CASE ManagerAlone /\ ~UNCHANGED managerVars
  BY <1>2 DEF ManagerAlone, Manager!Next
<1>3. CASE Manager!Requests
  BY <1>3 DEF Manager!Next
<1>4. QED
  BY <1>1, <1>2, <1>3, ManagerPart

LEMMA BridgeStep == [Next]_vars => [Bridge!Next]_(Bridge!vars)
<1> SUFFICES ASSUME [Next]_vars PROVE [Bridge!Next]_(Bridge!vars)
  OBVIOUS
<1>1. Bridge!Jobs = Jobs
  BY DEF Jobs, Bridge!Jobs
<1>2. CASE UNCHANGED bridgeVars
  BY <1>2 DEF bridgeVars, Bridge!vars, Bridge!nodeVars, Bridge!linkVars, Bridge!clientVars,
     Bridge!mgrVars, Bridge!histVars
<1>3. CASE Bridge!IoStep
  BY <1>3 DEF Bridge!Next
<1>4. CASE BridgeSteps
  <2>1. ASSUME Bridge!Send \/ Bridge!StopGoal("io") \/ Bridge!CancelGoal("io") PROVE Bridge!IoStep
    BY <2>1 DEF Bridge!IoStep, Bridge!Stopping
  <2>2. ASSUME NEW i \in Jobs, Bridge!Callback(i) \/ \E kind \in Bridge!Kinds : Bridge!Claim(i, kind)
        PROVE  Bridge!Next
    BY <1>1, <2>2 DEF Bridge!Next
  <2>3. CASE Bridge!HandleCancel \/ Bridge!HandleStop \/ Bridge!Connect
    BY <2>3 DEF Bridge!Next
  <2>4. QED
    BY <1>3, <1>4, <2>1, <2>2, <2>3 DEF BridgeSteps
<1>5. CASE StopSent
  BY <1>3, <1>5 DEF StopSent, Bridge!IoStep, Bridge!Stopping
<1>6. CASE StopArrives \/ ManagerSteps \/ UNCHANGED vars
  BY <1>2, <1>6 DEF StopArrives, ManagerSteps, vars, bridgeVars
<1>7. ASSUME NEW i \in Jobs, Message(i) PROVE [Bridge!Next]_(Bridge!vars)
  <2>1. CASE Bridge!ManagerAnswers(i) \/ Bridge!ManagerEnds(i)
    BY <1>1, <2>1 DEF Bridge!Next
  <2>2. QED
    BY <1>2, <1>7, <2>1 DEF Message, GoalArrives, RequestArrives, CancelArrives, ResultSent
<1>8. QED
  BY <1>4, <1>5, <1>6, <1>7 DEF Next

(* What the bridge does in the cell is a behaviour of TendingBridge: the whole  *)
(* manager is no more than the manager that TendingBridge assumes.              *)
THEOREM ImplementsBridge == Spec => Bridge!Spec
<1>1. Init => Bridge!Init
  BY DEF Init
<1>2. QED
  BY <1>1, BridgeStep, PTL DEF Spec, Bridge!Spec

(* What the manager does in the cell is a behaviour of InspectionManager with   *)
(* the bridge's requests, goals, cancels and STOPs for its environment.         *)
THEOREM ImplementsManager == Spec => Manager!Spec
<1>1. Init => Manager!Init
  BY DEF Init
<1>2. QED
  BY <1>1, ManagerStep, PTL DEF Spec, Manager!Spec

(* So the invariants of the two nodes hold in the cell.                         *)
NodesInv ==
  /\ BridgeP!IInv
  /\ ManagerP!IInv /\ ManagerP!MotionExclusive
  /\ ManagerP!LiveInv /\ ManagerP!CancelAlone /\ ManagerP!ServerRests

LEMMA NodesHold == Spec => []NodesInv
<1>1. BridgeP!Spec => []BridgeP!IInv
  BY BridgeP!Invariance, SameAssumptions
<1>2. ManagerP!Spec => []ManagerP!IInv
  BY ManagerP!Invariance, SameAssumptions
<1>3. ManagerP!Spec => []ManagerP!MotionExclusive
  BY ManagerP!SlotExclusive, SameAssumptions
<1>4. ManagerP!Spec => [](ManagerP!LiveInv /\ ManagerP!CancelAlone) /\ []ManagerP!ServerRests
  BY ManagerP!CancelSparesOthers, ManagerP!ServerStopsInCancel, SameAssumptions
<1>5. Init => BridgeP!Init /\ ManagerP!Init
  BY SameBridgeSteps, SameManager DEF Init
<1>6. [Next]_vars => [BridgeP!Next]_(BridgeP!vars)
  BY BridgeStep, SameBridge, SameBridgeSteps
<1>7. [Next]_vars => [ManagerP!Next]_(ManagerP!vars)
  BY ManagerStep, SameManagerNext, SameManager
<1>8. QED
  BY <1>1, <1>2, <1>3, <1>4, <1>5, <1>6, <1>7, PTL DEF Spec, BridgeP!Spec, ManagerP!Spec, NodesInv

-------------------------------------------------------------------------------
(* AwaitedStopSparesInspections: the sender of a STOP that is served in time is  *)
(* the inspection that runs, or the handle_cancel of it: whoever else moves the *)
(* robot does not hold the slot, and handle_cancel keeps other goals out.       *)
THEOREM AwaitedStopsSpareOthers == Spec => AwaitedStopSparesInspections
<1>1. ASSUME NodesInv, NEW t \in Manager!Threads, io[t] = "stopSent",
             NEW j \in Jobs, status[j] \in {"executing", "canceling"}
      PROVE  t = j \/ (t = Server /\ canceller = j)
  <2>1. ManagerP!Holds(j)
    BY <1>1, ManagerAssumption DEF NodesInv, ManagerP!LiveInv, ManagerP!Live, ManagerP!Over,
       ManagerP!Holds, Manager!ThreadsAssumption
  <2>2. ASSUME t \in {Caller} \cup Jobs PROVE ManagerP!Holds(t)
    BY <1>1, <2>2 DEF NodesInv, ManagerP!IInv, ManagerP!CallInv, ManagerP!Holds
  <2>3. ASSUME t = Server PROVE canceller = j
    <3>1. canceller \in Jobs
      BY <1>1, <2>3 DEF NodesInv, ManagerP!ServerRests, ManagerP!IInv, ManagerP!TypeOK,
         ManagerP!GoalTypes
    <3>2. QED
      BY <1>1, <3>1 DEF NodesInv, ManagerP!CancelAlone, ManagerP!Live
  <2>4. QED
    BY <1>1, <2>1, <2>2, <2>3 DEF NodesInv, ManagerP!MotionExclusive, ManagerP!Movers,
       Manager!Threads, Manager!Movers
<1>2. NodesInv =>
        [\A t \in Manager!Threads, j \in Jobs :
           /\ io[t] = "stopSent" /\ io'[t] = "stopDone"
           /\ status[j] \in {"executing", "canceling"}
           => t = j \/ (t = Server /\ canceller = j)]_vars
  BY <1>1
<1>3. QED
  BY <1>2, NodesHold, PTL DEF AwaitedStopSparesInspections

(* What the two nodes know of a command agrees: the goal of a run_inspection    *)
(* that has not ended, and the handler of a goto_pose or jog that has not       *)
(* returned, belong to a command the bridge counts as running.                  *)
GoalInv == \A g \in Jobs : status[g] \in {"executing", "canceling"} =>
             cmd[g].kind = "inspect" /\ mgr[g] = "running"
RequestInv == pc[Caller] # "idle" => \E i \in Jobs : cmd[i].kind = "move" /\ mgr[i] = "running"

CellInv == GoalInv /\ RequestInv

(* The commands the bridge counts as running stay so in its own steps.          *)
LEMMA BridgeKeepsRunning ==
  ASSUME NodesInv, BridgeSteps \/ StopSent
  PROVE  \A i \in Jobs : mgr[i] = "running" => mgr'[i] = "running" /\ cmd'[i] = cmd[i]
<1>1. BridgeP!IInv /\ BridgeP!Jobs = Jobs
  BY DEF NodesInv, BridgeP!Jobs, Jobs
<1>2. /\ cmd \in [Jobs -> [kind : Bridge!Kinds \cup {"none"}, from : Bridge!Conns \cup {Bridge!None}]]
      /\ mgr \in [Jobs -> {"none", "sent", "rejected", "running", "ended"}]
      /\ \A i \in Jobs : cmd[i].kind = "none" => mgr[i] = "none"
      /\ th["io"].at = "send" => mgr[th["io"].arg] = "none"
  BY <1>1 DEF BridgeP!IInv, BridgeP!TypeOK, BridgeP!CommandTypes, BridgeP!LifeInv, BridgeP!ThreadInv,
     BridgeP!NewCommand, BridgeP!At, BridgeP!Kinds, Bridge!Kinds, BridgeP!Conns, Bridge!Conns, BridgeP!None,
     Bridge!None
<1>3. ASSUME NEW i \in Jobs, NEW kind, Bridge!Claim(i, kind)
      PROVE  /\ cmd[i].kind = "none" /\ UNCHANGED mgr
             /\ \E c : cmd' = [cmd EXCEPT ![i] = c]
  BY <1>3 DEF Bridge!Claim, Bridge!mgrVars
<1>4. ASSUME Bridge!Send
      PROVE  /\ th["io"].at = "send" /\ UNCHANGED cmd
             /\ mgr' = [mgr EXCEPT ![th["io"].arg] = "sent"]
  BY <1>4 DEF Bridge!Send, Bridge!At
<1>5. ASSUME NEW i \in Jobs, Bridge!Callback(i)
      PROVE  UNCHANGED <<mgr, cmd>>
  BY <1>5 DEF Bridge!Callback, Bridge!GoalResponse, Bridge!ResultArrives, Bridge!ReleaseJob,
     Bridge!mgrVars, Bridge!clientVars
<1>6. ASSUME \/ Bridge!HandleCancel \/ Bridge!HandleStop \/ Bridge!Connect
             \/ Bridge!StopGoal("io") \/ Bridge!CancelGoal("io") \/ Bridge!StopRobot("io", TRUE)
      PROVE  UNCHANGED <<mgr, cmd>>
  BY <1>6 DEF Bridge!HandleCancel, Bridge!HandleStop, Bridge!Connect, Bridge!StopGoal, Bridge!CancelGoal,
     Bridge!StopRobot, Bridge!mgrVars, Bridge!clientVars
<1>7. ASSUME NEW j \in Jobs, NEW kind, Bridge!Claim(j, kind), NEW i \in Jobs, mgr[i] = "running"
      PROVE  mgr'[i] = "running" /\ cmd'[i] = cmd[i]
  BY <1>2, <1>3, <1>7
<1>8. ASSUME Bridge!Send, NEW i \in Jobs, mgr[i] = "running"
      PROVE  mgr'[i] = "running" /\ cmd'[i] = cmd[i]
  BY <1>2, <1>4, <1>8
<1>9. QED
  BY <1>5, <1>6, <1>7, <1>8 DEF BridgeSteps, StopSent

(* In the steps of the manager that no message causes, no goal and no handler   *)
(* begins.                                                                      *)
LEMMA ManagerBeginsNone ==
  ASSUME NodesInv, ManagerAlone
  PROVE  /\ \A g \in Jobs : status'[g] \in {"executing", "canceling"}
                               => status[g] \in {"executing", "canceling"}
         /\ pc'[Caller] # "idle" => pc[Caller] # "idle"
<1>1. ManagerP!Unasked
  BY SameManager DEF ManagerAlone, ManagerP!Unasked, managerVars, ManagerP!vars, ManagerP!goalVars,
     ManagerP!moveVars, ManagerP!robotVars
<1>2. QED
  BY <1>1, ManagerP!UnaskedBegins, SameAssumptions DEF NodesInv, ManagerP!Live

(* The manager's answer to a command, and the result it sends, change how that  *)
(* command stands and no other.                                                 *)
LEMMA MessageShape ==
  ASSUME NodesInv, NEW i \in Jobs
  PROVE  /\ Bridge!ManagerAnswers(i) =>
              /\ mgr[i] = "sent" /\ UNCHANGED cmd
              /\ \A j \in Jobs : mgr'[j] = IF j = i THEN mgr'[i] ELSE mgr[j]
              /\ mgr'[i] = "running" \/ (mgr'[i] = "rejected" /\ cmd[i].kind = "inspect")
         /\ Bridge!ManagerEnds(i) =>
              /\ mgr[i] = "running" /\ UNCHANGED cmd
              /\ \A j \in Jobs : j # i => mgr'[j] = mgr[j]
         /\ mgr[i] = "running" => cmd[i].kind \in {"inspect", "move"}
<1>1. BridgeP!IInv /\ BridgeP!Jobs = Jobs
  BY DEF NodesInv, BridgeP!Jobs, Jobs
<1>2. /\ mgr \in [Jobs -> {"none", "sent", "rejected", "running", "ended"}]
      /\ mgr[i] = "running" => cmd[i].kind \in {"inspect", "move"}
  BY <1>1 DEF BridgeP!IInv, BridgeP!TypeOK, BridgeP!CommandTypes, BridgeP!LifeInv, BridgeP!Kinds
<1>3. ASSUME Bridge!ManagerAnswers(i)
      PROVE  /\ mgr[i] = "sent" /\ UNCHANGED cmd
             /\ mgr' = [mgr EXCEPT ![i] = "running"]
                  \/ (mgr' = [mgr EXCEPT ![i] = "rejected"] /\ cmd[i].kind = "inspect")
  BY <1>3 DEF Bridge!ManagerAnswers, Bridge!clientVars
<1>4. ASSUME Bridge!ManagerEnds(i)
      PROVE  mgr[i] = "running" /\ UNCHANGED cmd /\ mgr' = [mgr EXCEPT ![i] = "ended"]
  BY <1>4 DEF Bridge!ManagerEnds, Bridge!clientVars
<1>5. QED
  BY <1>2, <1>3, <1>4

LEMMA CellInvStep == NodesInv /\ CellInv /\ [Next]_vars => CellInv'
<1> SUFFICES ASSUME NodesInv, CellInv, [Next]_vars PROVE CellInv'
  OBVIOUS
<1> USE DEF CellInv, GoalInv, RequestInv
<1>1. /\ status \in [Jobs -> {"none", "executing", "canceling", "rejected", "succeeded",
                             "aborted", "canceled"}]
      /\ pc \in [{Caller} \cup Jobs -> ManagerP!Stages \cup {"idle", "check", "go", "release", "none",
                   "start", "fail", "cancel", "unwind", "end"}]
      /\ Caller \notin Jobs
  BY ManagerAssumption DEF NodesInv, ManagerP!IInv, ManagerP!TypeOK, ManagerP!GoalTypes, ManagerP!ThreadTypes,
     ManagerP!Terminal, ManagerP!Movers, Manager!ThreadsAssumption
<1>2. CASE BridgeSteps \/ StopSent
  <2>1. UNCHANGED <<status, pc>>
    BY <1>2 DEF BridgeSteps, StopSent, managerVars
  <2>2. QED
    BY <1>2, <2>1, BridgeKeepsRunning
<1>3. ASSUME ManagerAlone, UNCHANGED <<mgr, cmd>> PROVE CellInv'
  BY <1>3, ManagerBeginsNone
<1>4. CASE StopArrives \/ ManagerSteps \/ UNCHANGED vars
  <2>1. ManagerAlone
    BY <1>4 DEF StopArrives, ManagerSteps, ManagerAlone, Manager!Environment, vars, managerVars
  <2>2. UNCHANGED <<mgr, cmd>>
    BY <1>4 DEF StopArrives, ManagerSteps, vars, bridgeVars
  <2>3. QED
    BY <1>3, <2>1, <2>2
<1>5. ASSUME NEW i \in Jobs, GoalArrives(i) PROVE CellInv'
  <2>1. /\ Bridge!ManagerAnswers(i) /\ cmd[i].kind = "inspect"
        /\ mgr'[i] = IF status'[i] = "rejected" THEN "rejected" ELSE "running"
    BY <1>5 DEF GoalArrives
  <2>2. /\ \A j \in Jobs : j # i => status'[j] = status[j]
        /\ pc'[Caller] = pc[Caller]
        /\ status'[i] \in {"rejected", "executing"}
    BY <1>1, <1>5 DEF GoalArrives, Manager!HandleGoal, Manager!Goto
  <2>3. QED
    BY <2>1, <2>2, MessageShape
<1>6. ASSUME NEW i \in Jobs, RequestArrives(i) PROVE CellInv'
  <2>1. Bridge!ManagerAnswers(i) /\ cmd[i].kind = "move"
    BY <1>6 DEF RequestArrives
  <2>2. UNCHANGED status
    BY <1>6 DEF RequestArrives, Manager!HandleGoto, Manager!HandleJog, Manager!goalVars, managerVars
  <2>3. QED
    BY <2>1, <2>2, MessageShape
<1>7. ASSUME NEW i \in Jobs, CancelArrives(i) PROVE CellInv'
  BY <1>7 DEF CancelArrives, Manager!HandleCancel, bridgeVars
<1>8. ASSUME NEW i \in Jobs, ResultSent(i) PROVE CellInv'
  <2>1. Bridge!ManagerEnds(i) /\ Concluded(i) /\ UNCHANGED <<status, pc>>
    BY <1>8 DEF ResultSent, managerVars
  <2>2. CASE cmd[i].kind = "inspect"
    BY <2>1, <2>2, MessageShape DEF Concluded
  <2>3. CASE cmd[i].kind = "move"
    BY <2>1, <2>3, MessageShape DEF Concluded
  <2>4. QED
    BY <2>1, <2>2, <2>3, MessageShape
<1>9. QED
  BY <1>2, <1>4, <1>5, <1>6, <1>7, <1>8 DEF Next, Message

(* The agreement holds in every reachable state of the cell.                    *)
THEOREM NodesAgree == Spec => []CellInv
<1>1. Init => CellInv
  <2>1. Manager!Init => \A g \in Jobs : status[g] = "none"
    BY DEF Manager!Init
  <2>2. Manager!Init => pc[Caller] = "idle"
    BY DEF Manager!Init, Manager!Movers
  <2>3. QED
    BY <2>1, <2>2 DEF Init, CellInv, GoalInv, RequestInv
<1>2. QED
  BY <1>1, CellInvStep, NodesHold, PTL DEF Spec

(* While a command is on its way the manager's slot is taken by none but an      *)
(* inspection about to leave execute.                                           *)
LEMMA SentFindsSlot ==
  ASSUME NodesInv, CellInv, NEW i \in Jobs, mgr[i] = "sent", busy
  PROVE  \E g \in Jobs : pc[g] = "unwind"
<1>1. BridgeP!IInv /\ BridgeP!Jobs = Jobs
  BY DEF NodesInv, BridgeP!Jobs, Jobs
<1>2. \A j \in Jobs : mgr[j] \in {"sent", "running"} => j = job.id
  BY <1>1 DEF BridgeP!IInv, BridgeP!LifeInv, BridgeP!JobCoherent, BridgeP!InFlight
<1>3. \A j \in Jobs : mgr[j] # "running"
  BY <1>2
<1>4. PICK t \in {Caller} \cup Jobs : ManagerP!Holds(t)
  BY DEF NodesInv, ManagerP!MotionExclusive, ManagerP!Movers
<1>5. CASE t = Caller
  BY <1>3, <1>4, <1>5 DEF ManagerP!Holds, CellInv, RequestInv
<1>6. CASE t \in Jobs /\ t # Caller
  <2>1. pc[t] \notin {"none", "end"} /\ status[t] \notin {"executing", "canceling"}
    BY <1>3, <1>4, <1>6 DEF ManagerP!Holds, CellInv, GoalInv
  <2>2. /\ status[t] \in {"none", "executing", "canceling", "rejected", "succeeded", "aborted", "canceled"}
        /\ status[t] = "none" => pc[t] = "none"
        /\ status[t] \in {"rejected", "succeeded", "aborted", "canceled"}
             => pc[t] \in {"none", "unwind", "end"}
    BY <1>6 DEF NodesInv, ManagerP!IInv, ManagerP!TypeOK, ManagerP!GoalTypes, ManagerP!LoopInv,
       ManagerP!Terminal
  <2>3. QED
    BY <1>6, <2>1, <2>2
<1>7. QED
  BY <1>4, <1>5, <1>6

(* RefusedOnlyByUnwinding: the manager never refuses a command of the bridge    *)
(* because another one is still under way.                                      *)
THEOREM RefusedOnlyWhileUnwinding == Spec => RefusedOnlyByUnwinding
<1>1. NodesInv /\ CellInv =>
        [\A i \in Jobs :
           mgr[i] = "sent" /\ mgr'[i] # "sent" /\ busy => \E g \in Jobs : pc[g] = "unwind"]_vars
  BY SentFindsSlot
<1>2. QED
  BY <1>1, NodesHold, NodesAgree, PTL DEF RefusedOnlyByUnwinding

(* Whatever the manager still works on for the bridge, the job slot of the      *)
(* bridge says so: a running inspection is the job, and a goto_pose or jog that *)
(* moves the robot is the job.  The states that tending_bridge sends, and its   *)
(* answer BUSY, rely on it: job_active_ is all it knows of the robot's motion.  *)
SlotTellsMotion ==
  /\ \A g \in Jobs : status[g] \in {"executing", "canceling"}
                       => job.active /\ job.id = g /\ job.kind = "inspect"
  /\ pc[Caller] # "idle" => job.active /\ job.kind = "move"

THEOREM MotionIsTold == Spec => []SlotTellsMotion
<1>1. ASSUME NodesInv, CellInv PROVE SlotTellsMotion
  <2>1. BridgeP!IInv /\ BridgeP!Jobs = Jobs
    BY <1>1 DEF NodesInv, BridgeP!Jobs, Jobs
  <2>2. \A j \in Jobs : mgr[j] = "running" => job.active /\ job.id = j /\ job.kind = cmd[j].kind
    BY <2>1 DEF BridgeP!IInv, BridgeP!LifeInv, BridgeP!JobCoherent, BridgeP!InFlight
  <2>3. QED
    BY <1>1, <2>2 DEF CellInv, GoalInv, RequestInv, SlotTellsMotion
<1>2. QED
  BY <1>1, NodesHold, NodesAgree, PTL
===============================================================================
