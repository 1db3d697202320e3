--------------------------- MODULE InspectionManager ---------------------------
(* The inspection_manager node of tending_control with the RobotIoBridge it   *)
(* drives the robot through: the go_to_named_pose and jog_joint services, the *)
(* run_inspection action (goal, cancel, execute) and move_ptp_joint / stop,   *)
(* interleaved with the driver, the robot, the camera and the feedback topic, *)
(* which are external.  A step of a thread ends where the code blocks or      *)
(* where another thread could see what it has done.                           *)
EXTENDS Integers, Sequences, FiniteSets

CONSTANTS
  Callers,      \* outstanding go_to_named_pose / jog_joint requests, at most
  Goals,        \* goals sent to run_inspection in the behaviour
  Server,       \* the action server's callback thread (handle_cancel)
  NoGoal,       \* "handle_cancel is not running"
  Poses,        \* the named poses that are configured (poses_)
  MaxViews,     \* bound on num_views
  Jogs,         \* bound: number of distinct jogged places
  MaxQueue,     \* bound: motion commands the robot queues
  MaxLate,      \* bound: requests in flight that nobody waits for
  ExecThreads,  \* threads of the MultiThreadedExecutor
  IgnoreSafety  \* the parameter ignore_safety_flags

PoseNames == {"home", "init", "approach", "inspect", "retreat"}

ASSUME PosesAssumption   == Poses \subseteq PoseNames
ASSUME BoundsAssumption  == /\ MaxViews \in Nat \ {0} /\ Jogs \in Nat \ {0}
                            /\ MaxQueue \in Nat \ {0} /\ MaxLate \in Nat
                            /\ ExecThreads \in Nat \ {0}
ASSUME IgnoreAssumption  == IgnoreSafety \in BOOLEAN
ASSUME ThreadsAssumption == /\ Callers \cap Goals = {}
                            /\ Server \notin Callers \cup Goals
                            /\ NoGoal \notin Callers \cup Goals
                            /\ IsFiniteSet(Callers)

Movers  == Callers \cup Goals          \* the threads that may move the robot
Threads == Movers \cup {Server}

\* Joint configurations: a named pose, the inspect pose swept by i steps, a
\* jogged place, or anywhere else.
Pose(p)     == <<p, 0>>
Waypoint(i) == <<"inspect", i>>
Jogged(k)   == <<"jog", k>>
EnRoute     == <<"enroute", 0>>
Targets     == {Pose(p) : p \in PoseNames} \cup {Waypoint(i) : i \in 0..MaxViews-1}
                 \cup {Jogged(k) : k \in 1..Jogs}
Places      == Targets \cup {EnRoute}
Commands    == [by : Movers, to : Targets]

VARIABLES
  busy,       \* motion_busy_
  pc,         \* where the handler of a caller, or the thread of a goal, is
  io,         \* the RobotIoBridge (or camera) call a thread is in
  tgt,        \* the target of a mover's motion
  status,     \* the state of a goal in the action server
  views,      \* its num_views
  idx,        \* i, the loop variable of execute
  count,      \* result->image_count
  published,  \* how many samples execute has published on inspection_sample
  canceller,  \* the goal whose handle_cancel is running
  fb,         \* what on_feedback stored: have_state_, the flags, joint_pos_
  pos, queue, safe,  \* the robot: where it is, commands it holds, its flags
  late,       \* set_positions requests whose caller no longer waits
  shot,       \* where the robot stood when the camera took the image
  fromRest,   \* history: the move began with the robot at rest, as reported
  missed,     \* history: goals with an unanswered move or an unheeded STOP
  cancelAt    \* history: samples a goal had published when it became canceling

goalVars   == <<status, views, idx, count, published, canceller, cancelAt>>
moveVars   == <<io, tgt, fromRest, missed>>
robotVars  == <<pos, queue, safe, late>>
vars == <<busy, goalVars, moveVars, robotVars, pc, fb, shot>>

Terminal == {"rejected", "succeeded", "aborted", "canceled"}
Stages   == {"init", "approach", "inspect", "view", "capture", "retreat", "home"}

ThreadTypes ==
  /\ busy \in BOOLEAN
  /\ pc \in [Movers -> {"idle", "check", "go", "release", "none", "start", "fail",
                        "cancel", "unwind", "end"} \cup Stages]
  /\ \A c \in Callers : pc[c] \in {"idle", "check", "go", "release"}
  /\ \A g \in Goals : pc[g] \in {"none", "start", "fail", "cancel", "unwind", "end"} \cup Stages
  /\ io \in [Threads -> {"none", "moveSent", "moveOk", "moveNo", "poll", "reached", "gaveUp",
                         "stopSent", "stopDone", "stopped", "capSent", "capOk", "capNo"}]
  /\ tgt \in [Movers -> Places]
  /\ fromRest \in [Movers -> BOOLEAN]
  /\ missed \in SUBSET Goals

GoalTypes ==
  /\ status \in [Goals -> {"none", "executing", "canceling"} \cup Terminal]
  /\ views \in [Goals -> 0..MaxViews]
  /\ idx \in [Goals -> 0..MaxViews]
  /\ count \in [Goals -> 0..MaxViews]
  /\ published \in [Goals -> 0..MaxViews]
  /\ cancelAt \in [Goals -> 0..MaxViews]
  /\ canceller \in Goals \cup {NoGoal}
  /\ shot \in [Goals -> Places]

RobotTypes ==
  /\ fb \in [have : BOOLEAN, safe : BOOLEAN, pos : Places]
  /\ pos \in Places
  /\ queue \in Seq(Commands)
  /\ safe \in BOOLEAN
  /\ late \in SUBSET Commands

\* Every variable stays within its type; no target and no view index is used that
\* the inspection does not have.
TypeOK == ThreadTypes /\ GoalTypes /\ RobotTypes

Init ==
  /\ busy = FALSE
  /\ pc = [t \in Movers |-> IF t \in Callers THEN "idle" ELSE "none"]
  /\ io = [t \in Threads |-> "none"]
  /\ tgt = [t \in Movers |-> EnRoute]
  /\ status = [g \in Goals |-> "none"]
  /\ views = [g \in Goals |-> 0]
  /\ idx = [g \in Goals |-> 0]
  /\ count = [g \in Goals |-> 0]
  /\ published = [g \in Goals |-> 0]
  /\ canceller = NoGoal
  /\ fb = [have |-> FALSE, safe |-> FALSE, pos |-> EnRoute]
  /\ pos = EnRoute
  /\ queue = <<>>
  /\ safe = TRUE
  /\ late = {}
  /\ shot = [g \in Goals |-> EnRoute]
  /\ fromRest = [t \in Movers |-> FALSE]
  /\ missed = {}
  /\ cancelAt = [g \in Goals |-> MaxViews]

-------------------------------------------------------------------------------
(* The executor.  A service handler or handle_cancel occupies its thread until *)
(* it returns; answers, feedback and new requests need a free one.  The thread *)
(* of execute is detached and occupies none.                                   *)
Blocked == {c \in Callers : pc[c] # "idle"} \cup {s \in {Server} : canceller # NoGoal}

FreeThread == Cardinality(Blocked) < ExecThreads

Goto(t, where) == pc' = [pc EXCEPT ![t] = where]
Become(t, what) == io' = [io EXCEPT ![t] = what]
Missed(t) == missed' = missed \cup ({t} \cap Goals)

(* RobotIoBridge::safety_ok on what the last feedback said. *)
SafetyOk == fb.have /\ (IgnoreSafety \/ fb.safe)

(* on_feedback: whatever the driver publishes replaces the stored state. *)
OnFeedback ==
  /\ FreeThread
  /\ fb' = [have |-> TRUE, safe |-> safe, pos |-> pos]
  /\ UNCHANGED <<busy, goalVars, moveVars, robotVars, pc, shot>>

-------------------------------------------------------------------------------
(* RobotIoBridge::move_ptp_joint and stop, called by any thread.               *)

AtRest == queue = <<>> /\ late = {} /\ fb.pos = pos

(* set_positions is sent and the future is waited for. *)
SendMove(t, to) ==
  /\ Become(t, "moveSent")
  /\ tgt' = [tgt EXCEPT ![t] = to]
  /\ fromRest' = [fromRest EXCEPT ![t] = AtRest]
  /\ UNCHANGED missed

(* set_event STOP is sent and the future is waited for. *)
SendStop(t) == Become(t, "stopSent") /\ UNCHANGED <<tgt, fromRest, missed>>

MoveAnswered(t) ==
  /\ FreeThread
  /\ \/ io[t] = "moveOk" /\ Become(t, "poll")
     \/ io[t] = "moveNo" /\ Become(t, "gaveUp")
  /\ UNCHANGED <<busy, goalVars, tgt, fromRest, missed, robotVars, pc, fb, shot>>

(* No answer within 5 s: the call returns false, the request is not recalled. *)
MoveUnanswered(t) ==
  /\ io[t] \in {"moveSent", "moveOk", "moveNo"}
  /\ Become(t, "gaveUp")
  /\ late' = IF io[t] = "moveSent" /\ Cardinality(late) < MaxLate
               THEN late \cup {[by |-> t, to |-> tgt[t]]} ELSE late
  /\ Missed(t)
  /\ UNCHANGED <<busy, goalVars, tgt, fromRest, pos, queue, safe, pc, fb, shot>>

\* Bug: the loop ends at the first good safety check, without the tolerance test.
Poll_NoTolerance(t) ==
  /\ io[t] = "poll"
  /\ Become(t, IF ~SafetyOk THEN "stopSent" ELSE "reached")
  /\ UNCHANGED <<busy, goalVars, tgt, fromRest, missed, robotVars, pc, fb, shot>>

\* Bug: the loop has no deadline.
Poll_NoDeadline(t) ==
  /\ io[t] = "poll" /\ (~SafetyOk \/ fb.pos = tgt[t])
  /\ Become(t, IF ~SafetyOk THEN "stopSent" ELSE "reached")
  /\ UNCHANGED <<busy, goalVars, tgt, fromRest, missed, robotVars, pc, fb, shot>>

(* One iteration of the poll that leaves the loop; the others only sleep. *)
Poll(t) ==
  /\ io[t] = "poll"
  /\ Become(t, IF ~SafetyOk THEN "stopSent"
               ELSE IF fb.pos = tgt[t] THEN "reached" ELSE "gaveUp")
  /\ UNCHANGED <<busy, goalVars, tgt, fromRest, missed, robotVars, pc, fb, shot>>

\* Bug: stop() waits for its answer without a limit.
StopReturns_NoTimeout(t) ==
  /\ io[t] = "stopDone" /\ FreeThread
  /\ Become(t, IF t # Server /\ pc[t] \notin {"fail", "cancel"} THEN "gaveUp" ELSE "stopped")
  /\ UNCHANGED <<busy, goalVars, tgt, fromRest, missed, robotVars, pc, fb, shot>>

(* stop() returns: answered, or after 5 s.  Within move_ptp_joint the move     *)
(* then returns false.                                                         *)
StopReturns(t) ==
  /\ \/ io[t] = "stopDone" /\ FreeThread /\ UNCHANGED missed
     \/ io[t] \in {"stopSent", "stopDone"} /\ Missed(t)
  /\ Become(t, IF t # Server /\ pc[t] \notin {"fail", "cancel"} THEN "gaveUp" ELSE "stopped")
  /\ UNCHANGED <<busy, goalVars, tgt, fromRest, robotVars, pc, fb, shot>>

IoStep(t) == MoveAnswered(t) \/ MoveUnanswered(t) \/ Poll(t) \/ StopReturns(t)

-------------------------------------------------------------------------------
(* handle_goto and handle_jog.                                                 *)

\* Bug: the slot is stored to without the compare_exchange.
HandleGoto_NoExchange(c, p) ==
  /\ FreeThread /\ pc[c] = "idle"
  /\ p \in Poses
  /\ busy' = TRUE
  /\ Goto(c, "check")
  /\ tgt' = [tgt EXCEPT ![c] = Pose(p)]
  /\ UNCHANGED <<goalVars, io, fromRest, missed, robotVars, fb, shot>>

(* A request for an unknown pose, or one that finds the slot taken, is         *)
(* answered ok = false and changes nothing.                                    *)
HandleGoto(c, p) ==
  /\ FreeThread /\ pc[c] = "idle"
  /\ p \in Poses /\ ~busy
  /\ busy' = TRUE
  /\ Goto(c, "check")
  /\ tgt' = [tgt EXCEPT ![c] = Pose(p)]
  /\ UNCHANGED <<goalVars, io, fromRest, missed, robotVars, fb, shot>>

\* Bug: a jog does not look whether the slot is taken.
HandleJog_NoExchange(c, k, valid) ==
  /\ FreeThread /\ pc[c] = "idle"
  /\ busy' = TRUE
  /\ Goto(c, IF valid THEN "check" ELSE "release")
  /\ tgt' = [tgt EXCEPT ![c] = Jogged(k)]
  /\ UNCHANGED <<goalVars, io, fromRest, missed, robotVars, fb, shot>>

(* valid: the joint number is 1..6 and the stored joint vector has 6 entries.  *)
(* An invalid request takes the slot and gives it back.                        *)
HandleJog(c, k, valid) ==
  /\ FreeThread /\ pc[c] = "idle"
  /\ ~busy
  /\ busy' = TRUE
  /\ Goto(c, IF valid THEN "check" ELSE "release")
  /\ tgt' = [tgt EXCEPT ![c] = Jogged(k)]
  /\ UNCHANGED <<goalVars, io, fromRest, missed, robotVars, fb, shot>>

CheckSafety(c) ==
  /\ pc[c] = "check"
  /\ Goto(c, IF SafetyOk THEN "go" ELSE "release")
  /\ UNCHANGED <<busy, goalVars, moveVars, robotVars, fb, shot>>

CallerMoves(c) ==
  /\ pc[c] = "go" /\ io[c] = "none"
  /\ SendMove(c, tgt[c])
  /\ UNCHANGED <<busy, goalVars, robotVars, pc, fb, shot>>

(* Thread t leaves its call; target and premise of the move are dead now.      *)
Leave(t) ==
  /\ Become(t, "none")
  /\ tgt' = [tgt EXCEPT ![t] = EnRoute]
  /\ fromRest' = [fromRest EXCEPT ![t] = FALSE]
  /\ UNCHANGED missed

(* The move returned, or was not tried: ~MotionGuard, and the response (ok iff *)
(* the move was "reached") goes out.                                           *)
CallerReturns(c) ==
  /\ pc[c] = "release" \/ (pc[c] = "go" /\ io[c] \in {"reached", "gaveUp"})
  /\ busy' = FALSE
  /\ Goto(c, "idle")
  /\ Leave(c)
  /\ UNCHANGED <<goalVars, robotVars, fb, shot>>

CallerStep(c) == CheckSafety(c) \/ CallerMoves(c) \/ CallerReturns(c) \/ IoStep(c)

-------------------------------------------------------------------------------
(* The action server: handle_goal (with handle_accepted) and handle_cancel     *)
(* run in one mutually exclusive callback group.                               *)

\* Bug: handle_goal tests motion_busy_ but execute sets it later, in its thread.
HandleGoal_NotTaken(g, n) ==
  /\ FreeThread /\ canceller = NoGoal /\ status[g] = "none"
  /\ views' = [views EXCEPT ![g] = n]
  /\ IF n = 0 \/ "inspect" \notin Poses \/ busy
       THEN status' = [status EXCEPT ![g] = "rejected"] /\ UNCHANGED pc
       ELSE status' = [status EXCEPT ![g] = "executing"] /\ Goto(g, "start")
  /\ UNCHANGED <<busy, idx, count, published, canceller, cancelAt, moveVars, robotVars, fb, shot>>

\* Bug: the action server's callbacks are in the Reentrant group.
HandleGoal_Reentrant(g, n) ==
  /\ FreeThread /\ status[g] = "none"
  /\ views' = [views EXCEPT ![g] = n]
  /\ IF n = 0 \/ "inspect" \notin Poses \/ busy
       THEN status' = [status EXCEPT ![g] = "rejected"] /\ UNCHANGED <<busy, pc>>
       ELSE /\ busy' = TRUE
            /\ status' = [status EXCEPT ![g] = "executing"]
            /\ Goto(g, "start")
  /\ UNCHANGED <<idx, count, published, canceller, cancelAt, moveVars, robotVars, fb, shot>>

HandleGoal(g, n) ==
  /\ FreeThread /\ canceller = NoGoal /\ status[g] = "none"
  /\ views' = [views EXCEPT ![g] = n]
  /\ IF n = 0 \/ "inspect" \notin Poses \/ busy
       THEN status' = [status EXCEPT ![g] = "rejected"] /\ UNCHANGED <<busy, pc>>
       ELSE /\ busy' = TRUE
            /\ status' = [status EXCEPT ![g] = "executing"]
            /\ Goto(g, "start")
  /\ UNCHANGED <<idx, count, published, canceller, cancelAt, moveVars, robotVars, fb, shot>>

(* A client's cancel reaches an executing goal; handle_cancel first stops.     *)
HandleCancel(g) ==
  /\ FreeThread /\ canceller = NoGoal /\ status[g] = "executing"
  /\ canceller' = g
  /\ SendStop(Server)
  /\ UNCHANGED <<busy, status, views, idx, count, published, cancelAt, robotVars, pc, fb, shot>>

(* ... and only its return makes the goal canceling, if it has not ended.      *)
CancelAccepted ==
  /\ canceller # NoGoal /\ io[Server] = "stopped"
  /\ IF status[canceller] = "executing"
       THEN /\ status' = [status EXCEPT ![canceller] = "canceling"]
            /\ cancelAt' = [cancelAt EXCEPT ![canceller] = published[canceller]]
       ELSE UNCHANGED <<status, cancelAt>>
  /\ canceller' = NoGoal
  /\ Become(Server, "none")
  /\ UNCHANGED <<busy, views, idx, count, published, tgt, fromRest, missed, robotVars, pc, fb, shot>>

ServerStep == CancelAccepted \/ StopReturns(Server)

-------------------------------------------------------------------------------
(* execute, in the detached thread of goal g.                                  *)

(* Keeps the premise of the move for the capture that follows it.              *)
ToCapture(g) == Goto(g, "capture") /\ Become(g, "none") /\ UNCHANGED <<tgt, fromRest, missed>>

Proceed(g, where) == Goto(g, where) /\ Leave(g)

\* Bug: fail() aborts without stopping the robot.
Fail_NoStop(g) == Goto(g, "fail") /\ Become(g, "stopped") /\ UNCHANGED <<tgt, fromRest, missed>>

(* fail(): STOP first, abort when it returns. *)
Fail(g) == Goto(g, "fail") /\ SendStop(g)

(* gh->succeed / abort / canceled with the image count n; the guard still      *)
(* holds the slot.                                                             *)
Conclude(g, outcome, n) ==
  /\ status' = [status EXCEPT ![g] = outcome]
  /\ count' = [count EXCEPT ![g] = n]
  /\ Proceed(g, "unwind")
  /\ UNCHANGED <<views, idx, published, canceller, cancelAt>>

After(stage) == CASE stage = "init" -> "approach" [] stage = "approach" -> "inspect"
                  [] stage = "inspect" -> "view" [] stage = "retreat" -> "home"

EndStage(g) ==
  IF pc[g] = "home" THEN Conclude(g, "succeeded", count[g])
                    ELSE Proceed(g, After(pc[g])) /\ UNCHANGED goalVars

Start(g) ==
  /\ pc[g] = "start"
  /\ IF SafetyOk THEN Proceed(g, "init") ELSE Fail(g)
  /\ UNCHANGED <<busy, goalVars, robotVars, fb, shot>>

(* INIT, APPROACH, the inspect pose, RETREAT, HOME: a pose that is not         *)
(* configured is skipped.                                                      *)
Stage(g) ==
  /\ pc[g] \in {"init", "approach", "inspect", "retreat", "home"}
  /\ \/ io[g] = "none" /\ pc[g] \in Poses /\ SendMove(g, Pose(pc[g])) /\ UNCHANGED <<goalVars, pc>>
     \/ io[g] = "none" /\ pc[g] \notin Poses /\ EndStage(g)
     \/ io[g] = "reached" /\ EndStage(g)
     \/ io[g] = "gaveUp" /\ Fail(g) /\ UNCHANGED goalVars
  /\ UNCHANGED <<busy, robotVars, fb, shot>>

\* Bug: one view too many.
View_PastEnd(g) ==
  /\ pc[g] = "view" /\ io[g] = "none"
  /\ IF idx[g] > views[g] THEN Proceed(g, "retreat")
     ELSE IF status[g] = "canceling" THEN Goto(g, "cancel") /\ SendStop(g)
     ELSE SendMove(g, Waypoint(idx[g])) /\ UNCHANGED pc
  /\ UNCHANGED <<busy, goalVars, robotVars, fb, shot>>

\* Bug: the loop does not look at is_canceling.
View_NoCancel(g) ==
  /\ pc[g] = "view" /\ io[g] = "none"
  /\ IF idx[g] = views[g] THEN Proceed(g, "retreat")
     ELSE SendMove(g, Waypoint(idx[g])) /\ UNCHANGED pc
  /\ UNCHANGED <<busy, goalVars, robotVars, fb, shot>>

(* The top of the view loop, the only place that looks at is_canceling.        *)
View(g) ==
  /\ pc[g] = "view" /\ io[g] = "none"
  /\ IF idx[g] = views[g] THEN Proceed(g, "retreat")
     ELSE IF status[g] = "canceling" THEN Goto(g, "cancel") /\ SendStop(g)
     ELSE SendMove(g, Waypoint(idx[g])) /\ UNCHANGED pc
  /\ UNCHANGED <<busy, goalVars, robotVars, fb, shot>>

\* Bug: the result of the move to the view is not looked at.
ViewMoved_Unchecked(g) ==
  /\ pc[g] = "view" /\ io[g] \in {"reached", "gaveUp"}
  /\ ToCapture(g)
  /\ UNCHANGED <<busy, goalVars, robotVars, fb, shot>>

ViewMoved(g) ==
  /\ pc[g] = "view"
  /\ \/ io[g] = "reached" /\ ToCapture(g)
     \/ io[g] = "gaveUp" /\ Fail(g)
  /\ UNCHANGED <<busy, goalVars, robotVars, fb, shot>>

(* capture: the service may not be ready. *)
CaptureRequest(g) ==
  /\ pc[g] = "capture" /\ io[g] = "none"
  /\ \/ Become(g, "capSent") /\ UNCHANGED <<tgt, fromRest, missed, pc>>
     \/ Fail(g)
  /\ UNCHANGED <<busy, goalVars, robotVars, fb, shot>>

(* publish_sample: the image was taken at shot, joint_pos is the stored one.   *)
SampleOf(g) == [view |-> idx[g], shot |-> shot[g], joints |-> fb.pos]

\* Bug: image_count is the index of the view, not the number of views.
Captured_OffByOne(g) ==
  /\ pc[g] = "capture" /\ io[g] = "capOk" /\ FreeThread
  /\ published' = [published EXCEPT ![g] = @ + 1]
  /\ idx' = [idx EXCEPT ![g] = @ + 1]
  /\ count' = [count EXCEPT ![g] = idx[g]]
  /\ shot' = [shot EXCEPT ![g] = EnRoute]
  /\ Proceed(g, "view")
  /\ UNCHANGED <<busy, status, views, canceller, cancelAt, robotVars, fb>>

(* capture returned true: the sample goes out.                                 *)
Captured(g) ==
  /\ pc[g] = "capture" /\ io[g] = "capOk" /\ FreeThread
  /\ published' = [published EXCEPT ![g] = @ + 1]
  /\ idx' = [idx EXCEPT ![g] = @ + 1]
  /\ count' = [count EXCEPT ![g] = idx[g] + 1]
  /\ shot' = [shot EXCEPT ![g] = EnRoute]
  /\ Proceed(g, "view")
  /\ UNCHANGED <<busy, status, views, canceller, cancelAt, robotVars, fb>>

(* ok = false, or no answer within 10 s. *)
CaptureFailed(g) ==
  /\ pc[g] = "capture" /\ io[g] \in {"capSent", "capOk", "capNo"}
  /\ Fail(g)
  /\ shot' = [shot EXCEPT ![g] = EnRoute]
  /\ UNCHANGED <<busy, goalVars, robotVars, fb>>

Abort(g) ==
  /\ pc[g] = "fail" /\ io[g] = "stopped"
  /\ Conclude(g, "aborted", count[g])
  /\ UNCHANGED <<busy, robotVars, fb, shot>>

Cancel(g) ==
  /\ pc[g] = "cancel" /\ io[g] = "stopped"
  /\ Conclude(g, "canceled", idx[g])
  /\ UNCHANGED <<busy, robotVars, fb, shot>>

(* ~Guard, after the result is out. *)
Unwind(g) ==
  /\ pc[g] = "unwind"
  /\ busy' = FALSE
  /\ Goto(g, "end")
  /\ UNCHANGED <<goalVars, moveVars, robotVars, fb, shot>>

GoalStep(g) ==
  \/ Start(g) \/ Stage(g) \/ View(g) \/ ViewMoved(g)
  \/ CaptureRequest(g) \/ Captured(g) \/ CaptureFailed(g)
  \/ Abort(g) \/ Cancel(g) \/ Unwind(g) \/ IoStep(g)

-------------------------------------------------------------------------------
(* External: the driver and the robot, the camera, the other node's STOP.      *)

Enqueue(cmd) == Len(queue) < MaxQueue /\ queue' = Append(queue, cmd)

DriverAnswersMove(t) ==
  /\ io[t] = "moveSent"
  /\ \/ Become(t, "moveOk") /\ Enqueue([by |-> t, to |-> tgt[t]])
     \/ Become(t, "moveNo") /\ UNCHANGED queue
  /\ UNCHANGED <<busy, goalVars, tgt, fromRest, missed, pos, safe, late, pc, fb, shot>>

(* A request nobody waits for any more is still served, or lost. *)
DriverServesLateMove(cmd) ==
  /\ late' = late \ {cmd}
  /\ Enqueue(cmd) \/ UNCHANGED queue
  /\ UNCHANGED <<busy, goalVars, moveVars, pos, safe, pc, fb, shot>>

(* STOP empties the robot's queue, unless the driver refuses it (ok = false,   *)
(* which no caller looks at).                                                  *)
DriverAnswersStop(t) ==
  /\ io[t] = "stopSent"
  /\ Become(t, "stopDone")
  /\ \/ queue' = <<>> /\ UNCHANGED missed
     \/ Missed(t) /\ UNCHANGED queue
  /\ UNCHANGED <<busy, goalVars, tgt, fromRest, pos, safe, late, pc, fb, shot>>

(* The set_event STOP that tending_bridge sends on its own, or one of this node *)
(* that stop() gave up waiting for: it is not recalled.                        *)
BridgeStop ==
  /\ queue # <<>> /\ queue' = <<>>
  /\ UNCHANGED <<busy, goalVars, moveVars, pos, safe, late, pc, fb, shot>>

RobotLeaves ==
  /\ queue # <<>> /\ safe /\ pos \notin {EnRoute, Head(queue).to}
  /\ pos' = EnRoute
  /\ UNCHANGED <<busy, goalVars, moveVars, queue, safe, late, pc, fb, shot>>

RobotArrives ==
  /\ queue # <<>> /\ safe /\ pos \in {EnRoute, Head(queue).to}
  /\ pos' = Head(queue).to
  /\ queue' = Tail(queue)
  /\ UNCHANGED <<busy, goalVars, moveVars, safe, late, pc, fb, shot>>

(* e-stop, safeguard, error or lost link, and its end; the robot may drop its  *)
(* commands or only pause.                                                     *)
SafetyChanges ==
  /\ safe' = ~safe
  /\ UNCHANGED queue \/ (safe /\ queue # <<>> /\ queue' = <<>>)
  /\ UNCHANGED <<busy, goalVars, moveVars, pos, late, pc, fb, shot>>

Standing(p) == pos = p /\ \A i \in 1..Len(queue) : queue[i].to = p

CameraAnswers(g) ==
  /\ io[g] = "capSent"
  /\ \/ Become(g, "capOk") /\ shot' = [shot EXCEPT ![g] = IF Standing(pos) THEN pos ELSE EnRoute]
     \/ Become(g, "capNo") /\ UNCHANGED shot
  /\ UNCHANGED <<busy, goalVars, tgt, fromRest, missed, robotVars, pc, fb>>

Environment ==
  \/ OnFeedback \/ BridgeStop \/ RobotLeaves \/ RobotArrives \/ SafetyChanges
  \/ \E t \in Movers : DriverAnswersMove(t)
  \/ \E t \in Threads : DriverAnswersStop(t)
  \/ \E cmd \in late : DriverServesLateMove(cmd)
  \/ \E g \in Goals : CameraAnswers(g)

Requests ==
  \/ \E c \in Callers : \/ \E p \in PoseNames : HandleGoto(c, p)
                        \/ \E k \in 1..Jogs, valid \in BOOLEAN : HandleJog(c, k, valid)
  \/ \E g \in Goals : HandleCancel(g) \/ \E n \in 0..MaxViews : HandleGoal(g, n)

Next ==
  \/ Environment \/ Requests \/ ServerStep
  \/ \E c \in Callers : CallerStep(c)
  \/ \E g \in Goals : GoalStep(g)

Spec == Init /\ [][Next]_vars

(* Every wait of the node's own threads has a timeout, so they keep going.     *)
(* Nothing is assumed of the driver, the robot, the camera or the clients.     *)
Fairness ==
  /\ WF_vars(ServerStep)
  /\ \A c \in Callers : WF_vars(CallerStep(c))
  /\ \A g \in Goals : WF_vars(GoalStep(g))

FairSpec == Spec /\ Fairness
-------------------------------------------------------------------------------
(* Properties.                                                                 *)

\* The thread is between taking the slot and giving it back.
Holds(t) == IF t \in Callers THEN pc[t] # "idle" ELSE pc[t] \notin {"none", "end"}

\* The thread has a motion command out and waits for its end.
Moving(t) == io[t] \in {"moveSent", "moveOk", "moveNo", "poll"}

\* motion_busy_ is set exactly while a handler or a goal's thread is between its
\* compare_exchange and its guard's destructor, and there is never more than one
\* such thread, whichever of the three entry points they came through.
MotionExclusive ==
  /\ \A s, t \in Movers : Holds(s) /\ Holds(t) => s = t
  /\ busy <=> \E t \in Movers : Holds(t)

\* The blocking handlers (a service handler waiting for its motion, handle_cancel
\* waiting for STOP) never occupy every executor thread, so the answers and the
\* feedback they wait for can still be processed.
ExecutorServes == FreeThread

\* If move_ptp_joint sent its command while the robot stood still where the last
\* feedback said, with nothing queued or on its way, then when it returns true
\* the robot stands at the target.
ReachedMeansThere ==
  \A t \in Movers : io[t] = "reached" /\ fromRest[t] => Standing(tgt[t])

\* The k-th sample of an inspection is view k-1, and (under the same premise on
\* its move) both its image and its joint_pos were taken at that view's waypoint,
\* although capture_image and publish_sample read the robot at different times.
SampleAsLabelled ==
  [][\A g \in Goals : published'[g] # published[g] =>
       LET n == published[g] IN
       /\ SampleOf(g).view = n
       /\ fromRest[g] => SampleOf(g).shot = Waypoint(n) /\ SampleOf(g).joints = Waypoint(n)]_vars

\* However an inspection ends, image_count in its result is the number of samples
\* it published, and a successful one has published every view.
ResultCountsSamples ==
  \A g \in Goals : status[g] \in {"succeeded", "aborted", "canceled"} =>
    /\ count[g] = published[g]
    /\ status[g] = "succeeded" => count[g] = views[g]

\* Once the goal is canceling, at most the view already under way is published.
CancelBoundsSamples ==
  \A g \in Goals : published[g] <= cancelAt[g] + 1

\* When an inspection has aborted or was canceled, no motion command of it is left
\* in the robot, provided the driver answered its moves and heeded its STOPs.
AbortLeavesRobotStill ==
  \A g \in Goals : status[g] \in {"aborted", "canceled"} /\ g \notin missed =>
    \A i \in 1..Len(queue) : queue[i].by # g

\* Every motion gives the slot back, whatever the driver, the robot, the camera
\* and the feedback do or fail to do: each wait has a timeout.
SlotComesFree == \A t \in Movers : Holds(t) ~> ~Holds(t)

\* handle_cancel always returns, and leaves the goal canceling or ended.
CancelAnswered ==
  \A g \in Goals : canceller = g ~> canceller # g /\ status[g] \in {"canceling"} \cup Terminal

\* The node implements the abstract slot: commands are issued by the holder only,
\* one at a time, and the slot is given back only between them.
Slot == INSTANCE MotionSlot WITH
  Threads    <- Movers,
  Nobody     <- NoGoal,
  holder     <- IF \E t \in Movers : Holds(t) THEN CHOOSE t \in Movers : Holds(t) ELSE NoGoal,
  commanding <- \E t \in Movers : Moving(t)

SlotImplemented == Slot!Spec
===============================================================================
