------------------------------ MODULE TendingCell ------------------------------
(* tending_bridge and inspection_manager together: the goals and requests of    *)
(* the bridge are the manager's, its cancels reach the manager's action server, *)
(* its STOP goes to the driver behind the manager's back, and what the manager  *)
(* concludes comes back as the result.  Every step is a step of one node, or of *)
(* both where a message is handed over.                                         *)
EXTENDS Integers, Sequences, FiniteSets

CONSTANTS
  Caller,    \* the manager's handler of the bridge's goto_pose and jog requests
  MaxStops,  \* bound: STOP requests on their way to the driver that nobody waits for
  MaxJobs, MaxConns, MaxAlarms,                 \* of TendingBridge
  Server, NoGoal, Poses, MaxViews, Jogs,        \* of InspectionManager
  MaxQueue, MaxLate, ExecThreads, IgnoreSafety

ASSUME StopsAssumption == MaxStops \in Nat

VARIABLES
  job, fired, prevAlive, th, conn, nextConn, silent, driverUp, alarms,
  cmd, ack, result, cb, mgr, cancelled, stopped, armed,       \* of TendingBridge
  busy, pc, io, tgt, status, views, idx, count, published, canceller,
  fb, pos, queue, safe, late, shot, fromRest, missed, cancelAt, \* of InspectionManager
  stops      \* STOP requests the driver has not seen yet: of the bridge, which does
             \* not wait, and those the manager has given up waiting for

Jobs == 1..MaxJobs

Bridge  == INSTANCE TendingBridge
Manager == INSTANCE InspectionManager WITH Callers <- {Caller}, Goals <- Jobs

bridgeVars  == <<job, fired, prevAlive, th, conn, nextConn, silent, driverUp, alarms,
                 cmd, ack, result, cb, mgr, cancelled, stopped, armed>>
managerVars == <<busy, pc, io, tgt, status, views, idx, count, published, canceller,
                 fb, pos, queue, safe, late, shot, fromRest, missed, cancelAt>>
vars == <<bridgeVars, managerVars, stops>>

ASSUME BridgeAssumption == Bridge!BoundsAssumption
ASSUME ManagerAssumption ==
  /\ Manager!PosesAssumption /\ Manager!BoundsAssumption
  /\ Manager!IgnoreAssumption /\ Manager!ThreadsAssumption

Init == Bridge!Init /\ Manager!Init /\ stops = 0

-------------------------------------------------------------------------------
(* Steps of the bridge that the manager takes no part in.  The client stays     *)
(* connected: the deadman, the watchdog and the safety callback, which call the *)
(* same do_stop as the stop command, are left to TendingBridge.                 *)
BridgeSteps ==
  /\ \/ \E i \in Jobs : Bridge!Callback(i) \/ \E kind \in Bridge!Kinds : Bridge!Claim(i, kind)
     \/ Bridge!HandleCancel \/ Bridge!HandleStop \/ Bridge!Connect \/ Bridge!Send
     \/ Bridge!StopGoal("io") \/ Bridge!CancelGoal("io")
  /\ UNCHANGED <<managerVars, stops>>

(* do_stop's STOP is on its way, or gets lost, as when set_event is not ready.  *)
StopSent ==
  /\ Bridge!StopRobot("io", TRUE)
  /\ stops' \in {stops, stops + 1} /\ stops' <= MaxStops
  /\ UNCHANGED managerVars

(* The driver gets it whenever it does, and empties the queue or refuses.       *)
StopArrives ==
  /\ stops > 0 /\ stops' = stops - 1
  /\ Manager!BridgeStop \/ UNCHANGED managerVars
  /\ UNCHANGED bridgeVars

-------------------------------------------------------------------------------
(* Steps of the manager and of the robot, the camera and the driver.  The       *)
(* robot's safety flags stay good.  A STOP that is not answered within 5 s is   *)
(* not recalled: stop() returns, and the request stays under way or is lost.    *)
StopGivenUp == \E t \in Manager!Threads : io[t] = "stopSent" /\ io'[t] \in {"stopped", "gaveUp"}
StopsStay == stops' \in {stops} \cup IF StopGivenUp /\ stops < MaxStops THEN {stops + 1} ELSE {}

ManagerSteps ==
  /\ \/ Manager!ServerStep \/ Manager!CallerStep(Caller)
     \/ \E g \in Jobs : Manager!GoalStep(g) \/ Manager!CameraAnswers(g)
     \/ Manager!OnFeedback \/ Manager!RobotLeaves \/ Manager!RobotArrives
     \/ \E t \in Manager!Movers : Manager!DriverAnswersMove(t)
     \/ \E t \in Manager!Threads : Manager!DriverAnswersStop(t)
     \/ \E c \in late : Manager!DriverServesLateMove(c)
  /\ StopsStay
  /\ UNCHANGED bridgeVars

-------------------------------------------------------------------------------
(* Messages between the two.                                                    *)

(* The goal of a run_inspection arrives and is answered.                        *)
GoalArrives(i) ==
  /\ cmd[i].kind = "inspect" /\ Bridge!ManagerAnswers(i)
  /\ \E n \in 0..MaxViews : Manager!HandleGoal(i, n)
  /\ mgr'[i] = IF status'[i] = "rejected" THEN "rejected" ELSE "running"
  /\ UNCHANGED stops

(* The request of a goto_pose or jog arrives: accepted, or refused (the slot is *)
(* taken, no such pose), which the response says at once.                       *)
RequestArrives(i) ==
  /\ cmd[i].kind = "move" /\ Bridge!ManagerAnswers(i)
  /\ \/ \E p \in Poses : Manager!HandleGoto(Caller, p)
     \/ \E k \in 1..Jogs, valid \in BOOLEAN : Manager!HandleJog(Caller, k, valid)
     \/ Manager!FreeThread /\ UNCHANGED managerVars
  /\ UNCHANGED stops

(* The cancel of a goal arrives, once, after the goal did.                      *)
CancelArrives(i) ==
  /\ i \in cancelled /\ Manager!HandleCancel(i)
  /\ UNCHANGED <<bridgeVars, stops>>

Concluded(i) ==
  IF cmd[i].kind = "inspect" THEN status[i] \in {"succeeded", "aborted", "canceled"}
                             ELSE pc[Caller] = "idle"

(* The result, or the response, goes back.                                      *)
ResultSent(i) ==
  /\ Concluded(i) /\ Bridge!ManagerEnds(i)
  /\ UNCHANGED <<managerVars, stops>>

Message(i) == GoalArrives(i) \/ RequestArrives(i) \/ CancelArrives(i) \/ ResultSent(i)

Next == \/ BridgeSteps \/ StopSent \/ StopArrives \/ ManagerSteps
        \/ \E i \in Jobs : Message(i)

Spec == Init /\ [][Next]_vars

(* The bridge's IO thread keeps running; so do its callbacks, the manager's     *)
(* threads and the goals, requests and results under way, of which each command *)
(* has finitely many.  A cancel or a STOP may never arrive, and the driver, the *)
(* robot and the camera owe nothing.                                            *)
BridgeIo ==
  /\ \/ Bridge!Send \/ Bridge!StopRobot("io", TRUE)
     \/ Bridge!StopGoal("io") \/ Bridge!CancelGoal("io")
  /\ UNCHANGED <<managerVars, stops>>
CommandStep ==
  \/ /\ \E i \in Jobs : Bridge!Callback(i)
     /\ UNCHANGED <<managerVars, stops>>
  \/ /\ Manager!ServerStep \/ Manager!CallerStep(Caller) \/ \E g \in Jobs : Manager!GoalStep(g)
     /\ StopsStay /\ UNCHANGED bridgeVars
  \/ \E i \in Jobs : GoalArrives(i) \/ RequestArrives(i) \/ ResultSent(i)

Fairness == WF_vars(BridgeIo) /\ WF_vars(CommandStep)

FairSpec == Spec /\ Fairness

-------------------------------------------------------------------------------
(* Properties.                                                                  *)

(* Every command the bridge acknowledges gets its result and gives the bridge's *)
(* slot back, whatever the robot, the camera and the driver do: the bridge has  *)
(* no timeout of its own and relies on those of the manager.                    *)
CommandConcludes == \A i \in Jobs : ack[i] = "ok" ~> cb[i] = "done"

(* The bridge lets one command through at a time, so the manager finds its own  *)
(* slot taken only by an inspection that has reported its result and is about   *)
(* to leave execute.                                                            *)
RefusedOnlyByUnwinding ==
  [][\A i \in Jobs :
       mgr[i] = "sent" /\ mgr'[i] # "sent" /\ busy => \E g \in Jobs : pc[g] = "unwind"]_vars

(* handle_cancel may still wait for its STOP when its goal has failed, the      *)
(* client has the result and the next command runs.  Served then, that STOP may *)
(* hit a goto_pose or jog, but no other inspection, since the action server     *)
(* takes its callbacks one at a time; and the STOPs that the inspections and    *)
(* the handlers send hit none but the sender's.  This is about the manager's    *)
(* STOPs that are served while their sender waits.  One that is served after    *)
(* its 5 s hits whatever runs by then, an inspection too.                       *)
AwaitedStopSparesInspections ==
  [][\A t \in Manager!Threads, j \in Jobs :
       /\ io[t] = "stopSent" /\ io'[t] = "stopDone"
       /\ status[j] \in {"executing", "canceling"}
       => t = j \/ (t = Server /\ canceller = j)]_vars
===============================================================================
