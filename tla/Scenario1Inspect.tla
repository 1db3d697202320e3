--------------------------- MODULE Scenario1Inspect ---------------------------
(* scenario1_inspect: one run over the views of an orbit round the tool, with   *)
(* the Cartesian moves of RobotIoBridge.  The main thread runs; feedback_states *)
(* and tool_pose arrive in callbacks meanwhile.  The driver and the robot are   *)
(* external.  Angles are integers: Full units make a turn, and the angles of a  *)
(* plan are multiples of 1 / Divisor of a unit.                                 *)
EXTENDS Integers, Sequences

CONSTANTS
  Full,     \* 2 pi
  Tol,      \* ranges closer than this to a full turn count as one (1e-3)
  MaxViews, \* bound on num_views of a real run
  Sweeps,   \* |angle_end - angle_start| of real runs
  MaxOrbit  \* bound on num_views of a dry run

ASSUME TurnAssumption   == Full \in Nat \ {0} /\ Tol \in 1..Full - 1
ASSUME BoundsAssumption == /\ MaxViews \in Nat /\ MaxOrbit \in Nat
                           /\ Sweeps \subseteq 0..Full + Tol - 1

VARIABLES
  plan,    \* the parameters: dry_run, control_mode, num_views, the range, and
           \* the views whose position is outside safe_region
  at,      \* where run() is
  i,       \* the loop variable of run()
  how,     \* how it ended
  ros,     \* rclcpp::ok()
  have, ok,          \* have_state_, and the flags of the last feedback_states
  tcp,               \* tcp_pose_
  up,                \* the driver's services are ready
  pos, queue, safe,  \* the robot: where it is, the views it was sent to, its flags
  late,              \* views of set_positions requests nobody waits for
  alarmed,           \* history: moves sent in a row while the stored flags were bad
  excused            \* history: a move was unanswered or not over in time, STOP was not
                     \* heeded, or the program was interrupted

nodeVars  == <<plan, at, i, how>>
stateVars == <<ros, have, ok, tcp, up>>
robotVars == <<pos, queue, safe, late>>
vars == <<nodeVars, stateVars, robotVars, alarmed, excused>>

-------------------------------------------------------------------------------
(* orbitAngles.                                                                 *)

Abs(n) == IF n < 0 THEN -n ELSE n

FullTurn == Abs(Abs(plan.range) - Full) < Tol

\* Bug: the end of a full turn is a view again.
Divisor_Open == IF plan.views > 1 THEN plan.views - 1 ELSE 1

Divisor == IF plan.views > 1 THEN IF FullTurn THEN plan.views ELSE plan.views - 1 ELSE 1

(* The angle of view v from angle_start.  make_waypoints turns joint 6 by it.   *)
Angle(v) == IF plan.views > 1 THEN plan.range * v ELSE 0

(* scenario1ViewPose: the pose of view v depends on the angle up to full turns. *)
Target(v) == Angle(v) % (Full * Divisor)

Away   == -1   \* not on the orbit's views
Origin == -2   \* a tool_pose that never came
Views  == 0..plan.views - 1

DryPlans  == [dry : {TRUE}, hybrid : {FALSE}, views : 0..MaxOrbit,
              range : -(Full + Tol - 1)..Full + Tol - 1, outside : {{}}]
RealPlans == {p \in [dry : {FALSE}, hybrid : BOOLEAN, views : 0..MaxViews,
                     range : Sweeps \cup {-s : s \in Sweeps}, outside : SUBSET (0..MaxViews-1)] :
                p.outside \subseteq IF p.hybrid THEN 0..p.views-1 ELSE {}}

\* Every variable stays within its type.
TypeOK ==
  /\ plan \in DryPlans \cup RealPlans
  /\ at \in {"start", "services", "state", "check", "view", "sent", "moving", "refused",
             "safety", "pose", "stop", "stopped", "done"}
  /\ i \in 0..plan.views /\ how \in {"none", "dry", "completed", "failed"}
  /\ {ros, have, ok, up, safe, excused} \subseteq BOOLEAN
  /\ tcp \in {Away, Origin} \cup 0..Full * Divisor
  /\ pos \in {Away} \cup 0..Full * Divisor
  /\ queue \in Seq(Views) /\ late \subseteq Views
  /\ alarmed \in 0..plan.views

Init ==
  /\ plan \in DryPlans \cup RealPlans
  /\ at = "start" /\ i = 0 /\ how = "none"
  /\ ros = TRUE /\ have = FALSE /\ ok = FALSE /\ tcp = Origin /\ up = FALSE
  /\ pos \in {Away} \cup IF plan.dry THEN {} ELSE {Target(v) : v \in Views}
  /\ queue = <<>> /\ safe = TRUE /\ late = {}
  /\ alarmed = 0 /\ excused = FALSE

Goto(where) == at' = where /\ UNCHANGED <<plan, i, how>>
End(outcome) == at' = "done" /\ how' = outcome /\ UNCHANGED <<plan, i>>
Excuse(cond) == excused' = (excused \/ cond)

-------------------------------------------------------------------------------
(* run, on the main thread.                                                     *)

Start ==
  /\ at = "start"
  /\ IF plan.dry THEN End("dry") ELSE Goto("services")
  /\ UNCHANGED <<stateVars, robotVars, alarmed, excused>>

(* wait_for_services: they are there, or not within 10 s, or before the end.    *)
Services ==
  /\ at = "services"
  /\ IF up THEN Goto("state") ELSE End("failed")
  /\ UNCHANGED <<stateVars, robotVars, alarmed, excused>>

\* Bug: the wait for the first state has no deadline.
FirstState_NoDeadline ==
  /\ at = "state" /\ (have \/ ~ros)
  /\ Goto("check")
  /\ UNCHANGED <<stateVars, robotVars, alarmed, excused>>

(* The first feedback_states, for 5 s.                                          *)
FirstState ==
  /\ at = "state"
  /\ IF have \/ ~ros THEN Goto("check") ELSE End("failed")
  /\ UNCHANGED <<stateVars, robotVars, alarmed, excused>>

SafetyOk == have /\ ok

Precheck ==
  /\ at = "check"
  /\ IF SafetyOk THEN Goto("view") ELSE End("failed")
  /\ UNCHANGED <<stateVars, robotVars, alarmed, excused>>

\* Bug: one view too many.
View_PastEnd ==
  /\ at = "view"
  /\ IF i > plan.views THEN End("completed") /\ UNCHANGED alarmed
     ELSE Goto("sent") /\ alarmed' = IF SafetyOk THEN 0 ELSE alarmed + 1
  /\ UNCHANGED <<stateVars, robotVars, excused>>

(* The top of the loop: the run is over or interrupted, the view is outside     *)
(* safe_region (hybrid), or move_ptp_tool / move_line_tool sends its request,   *)
(* whatever the flags say by now.                                               *)
View ==
  /\ at = "view"
  /\ IF i = plan.views THEN End("completed") /\ UNCHANGED alarmed
     ELSE IF ~ros THEN End("failed") /\ UNCHANGED alarmed
     ELSE IF i \in plan.outside THEN Goto("stop") /\ UNCHANGED alarmed
     ELSE Goto("sent") /\ alarmed' = IF SafetyOk THEN 0 ELSE alarmed + 1
  /\ UNCHANGED <<stateVars, robotVars, excused>>

Answered ==
  /\ ros
  /\ \/ at = "moving" /\ Goto("safety")
     \/ at = "refused" /\ End("failed")
  /\ UNCHANGED <<stateVars, robotVars, alarmed, excused>>

(* No answer within 5 s; the request is not recalled.                           *)
Unanswered ==
  /\ at \in {"sent", "moving", "refused"}
  /\ End("failed") /\ Excuse(TRUE)
  /\ late' = IF at = "sent" THEN {i} ELSE late
  /\ UNCHANGED <<stateVars, pos, queue, safe, alarmed>>

\* Bug: the pose is looked at before the safety flags.
Safety_AfterPose ==
  /\ at = "safety"
  /\ IF ~ros THEN End("failed")
     ELSE IF tcp = Target(i) \/ SafetyOk THEN Goto("pose") ELSE Goto("stop")
  /\ UNCHANGED <<stateVars, robotVars, alarmed, excused>>

(* wait_until_pose, the iteration that leaves the loop; the others only sleep.  *)
(* Its first half ...                                                           *)
Safety ==
  /\ at = "safety"
  /\ IF ~ros THEN End("failed") ELSE Goto(IF SafetyOk THEN "pose" ELSE "stop")
  /\ UNCHANGED <<stateVars, robotVars, alarmed, excused>>

\* Bug: the move is taken for done when the wait is over.
Arrived_Always ==
  /\ at = "pose"
  /\ at' = "view" /\ i' = i + 1
  /\ UNCHANGED <<plan, how, stateVars, robotVars, alarmed, excused>>

(* ... and its second: arrived (and settled), or the deadline is over: the run  *)
(* ends, the command stays with the robot.                                      *)
Arrived ==
  /\ at = "pose"
  /\ IF tcp = Target(i)
       THEN at' = "view" /\ i' = i + 1 /\ UNCHANGED <<plan, how, excused>>
       ELSE End("failed") /\ Excuse(TRUE)
  /\ UNCHANGED <<stateVars, robotVars, alarmed>>

(* stop() returns: answered, or after 5 s.                                      *)
StopReturns ==
  /\ \/ at = "stop" /\ Excuse(TRUE)
     \/ at = "stopped" /\ UNCHANGED excused
  /\ End("failed")
  /\ UNCHANGED <<stateVars, robotVars, alarmed>>

Run == \/ Start \/ Services \/ FirstState \/ Precheck \/ View \/ Answered \/ Unanswered
       \/ Safety \/ Arrived \/ StopReturns

-------------------------------------------------------------------------------
(* The callbacks, and external: the driver, the robot, the operator.            *)

OnFeedback ==
  /\ ros /\ at # "done" /\ have' = TRUE /\ ok' = safe
  /\ alarmed' = IF safe THEN 0 ELSE alarmed
  /\ UNCHANGED <<nodeVars, ros, tcp, up, robotVars, excused>>

OnToolPose ==
  /\ ros /\ at # "done" /\ tcp' = pos
  /\ UNCHANGED <<nodeVars, ros, have, ok, up, robotVars, alarmed, excused>>

ServicesUp ==
  /\ at = "services" /\ up' = TRUE
  /\ UNCHANGED <<nodeVars, ros, have, ok, tcp, robotVars, alarmed, excused>>

Interrupt ==
  /\ ros /\ at # "done" /\ ros' = FALSE /\ excused' = TRUE
  /\ UNCHANGED <<nodeVars, have, ok, tcp, up, robotVars, alarmed>>

DriverAnswersMove ==
  /\ at = "sent"
  /\ \/ Goto("moving") /\ queue' = Append(queue, i)
     \/ Goto("refused") /\ UNCHANGED queue
  /\ UNCHANGED <<stateVars, pos, safe, late, alarmed, excused>>

DriverServesLateMove ==
  /\ late # {} /\ late' = {}
  /\ \E v \in late : queue' = Append(queue, v)
  /\ UNCHANGED <<nodeVars, stateVars, pos, safe, alarmed, excused>>

(* The robot drops its commands, or the driver refuses.                         *)
DriverAnswersStop ==
  /\ at = "stop" /\ Goto("stopped")
  /\ \/ queue' = <<>> /\ UNCHANGED excused
     \/ Excuse(TRUE) /\ UNCHANGED queue
  /\ UNCHANGED <<stateVars, pos, safe, late, alarmed>>

RobotMoves ==
  /\ queue # <<>> /\ safe
  /\ LET goal == Target(Head(queue)) IN
       IF pos \in {Away, goal} THEN pos' = goal /\ queue' = Tail(queue)
                               ELSE pos' = Away /\ UNCHANGED queue
  /\ UNCHANGED <<nodeVars, stateVars, safe, late, alarmed, excused>>

SafetyChanges ==
  /\ safe' = ~safe
  /\ UNCHANGED queue \/ (safe /\ queue' = <<>>)
  /\ UNCHANGED <<nodeVars, stateVars, pos, late, alarmed, excused>>

Next == \/ Run \/ OnFeedback \/ OnToolPose \/ ServicesUp \/ Interrupt \/ DriverAnswersMove
        \/ DriverServesLateMove \/ DriverAnswersStop \/ RobotMoves \/ SafetyChanges

Spec == Init /\ [][Next]_vars

(* The main thread keeps running; nobody else owes it anything.                 *)
FairSpec == Spec /\ WF_vars(Run)

-------------------------------------------------------------------------------
(* Properties.                                                                  *)

(* The views of a sweep are all different, up to a turn and a little more, and  *)
(* evenly spaced: round the whole circle if it is a full turn within Tol, with  *)
(* the end of the range as last view otherwise.                                 *)
OrbitEven ==
  plan.views > 1 /\ plan.range # 0 =>
    /\ \A v, w \in Views : v # w => Target(v) # Target(w)
    /\ LET last == Angle(plan.views - 1) IN
         IF FullTurn THEN Abs(Full * Divisor - Abs(last) - Abs(plan.range)) < Tol * Divisor
                     ELSE last = plan.range * Divisor

(* The robot is sent to one view at a time: what it still holds is the current  *)
(* view, or one it stands at.  A hybrid run sends it to no view outside         *)
(* safe_region, though it looks at each only when its turn comes.  And the run  *)
(* that ends leaves nothing to do, unless it gave up waiting for the driver or  *)
(* the robot, or was interrupted: those ends send no STOP.                      *)
OneViewAtATime ==
  \A k \in 1..Len(queue) : /\ queue[k] <= i
                           /\ queue[k] < i => Target(queue[k]) = pos
                           /\ queue[k] \notin plan.outside
EndLeavesStill ==
  at = "done" /\ ~excused => \A k \in 1..Len(queue) : Target(queue[k]) = pos
QueueFollowsRun == OneViewAtATime /\ EndLeavesStill

(* research_report.md 13: every polling loop checks the safety flags and stops. *)
(* No move looks at them before it is sent, so once they are bad one more goes  *)
(* out, never two.                                                              *)
AlarmEndsRun == alarmed <= 1

(* The run ends, whatever the driver, the robot and the topics do or do not.    *)
RunEnds == <>(at = "done")
===============================================================================
