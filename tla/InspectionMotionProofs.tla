------------------------ MODULE InspectionMotionProofs ------------------------
(* What a cancel of an inspection bounds, where a move that was reached has left *)
(* the robot and what an aborted inspection has left in it, for every value of   *)
(* the constants of InspectionManager.                                           *)
EXTENDS InspectionManagerProofs

USE BoundsAssumption, ThreadsAssumption
USE DEF Movers, Threads

(* Behind the look at is_canceling, on the way to the next sample.              *)
Inside(g) == pc[g] = "capture" \/ (pc[g] = "view" /\ io[g] # "none")

(* A goal enters a view only while it executes, so the view that is under way   *)
(* when the cancel comes is the last one.                                       *)
CancelInv ==
  \A g \in Goals :
    /\ status[g] \in {"none", "executing"} => cancelAt[g] = MaxViews
    /\ published[g] <= cancelAt[g] + 1
    /\ Inside(g) => published[g] <= cancelAt[g]

(* Most steps publish nothing and start no view of a goal that is canceling.    *)
Calm ==
  /\ UNCHANGED <<published, cancelAt>>
  /\ \A g \in Goals :
       /\ status'[g] \in {"none", "executing"} => status[g] \in {"none", "executing"}
       /\ Inside(g)' => Inside(g) \/ status[g] = "executing"

LEMMA CountersTyped ==
  ASSUME IInv, NEW g \in Goals
  PROVE  published[g] \in 0..MaxViews /\ cancelAt[g] \in 0..MaxViews
BY DEF IInv, TypeOK, GoalTypes

LEMMA CalmCancelInv == ASSUME IInv, CancelInv, Calm PROVE CancelInv'
<1> SUFFICES ASSUME NEW g \in Goals
             PROVE  /\ status'[g] \in {"none", "executing"} => cancelAt[g] = MaxViews
                    /\ published[g] <= cancelAt[g] + 1
                    /\ Inside(g)' => published[g] <= cancelAt[g]
  BY DEF Calm, CancelInv
<1>1. published[g] \in 0..MaxViews /\ cancelAt[g] \in 0..MaxViews
  BY CountersTyped
<1>2. /\ status'[g] \in {"none", "executing"} => status[g] \in {"none", "executing"}
      /\ Inside(g)' => Inside(g) \/ status[g] = "executing"
  BY DEF Calm
<1>3. /\ status[g] \in {"none", "executing"} => cancelAt[g] = MaxViews
      /\ published[g] <= cancelAt[g] + 1
      /\ Inside(g) => published[g] <= cancelAt[g]
  BY DEF CancelInv
<1>4. QED
  BY <1>1, <1>2, <1>3

(* A sample ends its view.                                                      *)
LEMMA CapturedCancelInv ==
  ASSUME IInv, CancelInv, NEW g \in Goals, Captured(g) PROVE CancelInv'
<1>1. /\ published' = [published EXCEPT ![g] = @ + 1] /\ UNCHANGED <<status, cancelAt>>
      /\ Inside(g) /\ ~Inside(g)' /\ \A d \in Goals : d # g => (Inside(d)' <=> Inside(d))
  BY DEF Captured, Proceed, Leave, Goto, Become, Inside, IInv, TypeOK, ThreadTypes
<1>2. published'[g] = published[g] + 1 /\ \A d \in Goals : d # g => published'[d] = published[d]
  BY <1>1 DEF IInv, TypeOK, GoalTypes
<1>3. \A d \in Goals : published[d] \in 0..MaxViews /\ cancelAt[d] \in 0..MaxViews
  BY CountersTyped
<1>4. QED
  BY <1>1, <1>2, <1>3 DEF CancelInv

(* Becoming canceling fixes the bound.                                          *)
LEMMA CancelAcceptedCancelInv == ASSUME IInv, CancelInv, CancelAccepted PROVE CancelInv'
<1>1. UNCHANGED <<published, pc>> /\ \A g \in Goals : io'[g] = io[g]
  BY DEF CancelAccepted, Become, IInv, TypeOK, ThreadTypes
<1>2. \A g \in Goals : Inside(g)' <=> Inside(g)
  BY <1>1 DEF Inside
<1>3. \A g \in Goals : published[g] \in 0..MaxViews /\ cancelAt[g] \in 0..MaxViews
  BY CountersTyped
<1>4. \A g \in Goals : \/ cancelAt'[g] = cancelAt[g] /\ status'[g] = status[g]
                       \/ cancelAt'[g] = published[g] /\ status'[g] = "canceling"
  BY DEF CancelAccepted, IInv, TypeOK, GoalTypes
<1>5. QED
  BY <1>1, <1>2, <1>3, <1>4 DEF CancelInv

(* The calls of RobotIoBridge are not entered here, only left or gone on with.  *)
LEMMA CallsCalm ==
  ASSUME IInv, UNCHANGED <<published, cancelAt, status>>,
         \A g \in Goals : pc'[g] \in {"view", "capture"} => pc'[g] = pc[g],
         \A g \in Goals : io'[g] = io[g] \/ io[g] # "none" \/ pc[g] # "view"
  PROVE  Calm
BY DEF Calm, Inside

LEMMA IoStepCalm == ASSUME IInv, NEW t \in Movers, IoStep(t) PROVE Calm
<1>1. /\ UNCHANGED <<goalVars, pc>>
      /\ \A u \in Movers : io'[u] = io[u] \/ io[u] # "none"
  BY DEF IoStep, MoveAnswered, MoveUnanswered, Poll, StopReturns, Become, IInv, TypeOK, ThreadTypes
<1>2. QED
  BY <1>1, CallsCalm DEF goalVars

LEMMA CallerCalm ==
  ASSUME IInv, NEW c \in Callers,
         \/ \E p \in PoseNames : HandleGoto(c, p)
         \/ \E k \in 1..Jogs, valid \in BOOLEAN : HandleJog(c, k, valid)
         \/ CallerStep(c)
  PROVE  Calm
<1>1. CASE IoStep(c)
  BY <1>1, IoStepCalm
<1>2. CASE ~IoStep(c)
  <2>1. /\ UNCHANGED goalVars
        /\ \A g \in Goals : pc'[g] = pc[g] /\ io'[g] = io[g]
    BY <1>2 DEF HandleGoto, HandleJog, CallerStep, CheckSafety, CallerMoves, CallerReturns,
       SendMove, Leave, Goto, Become, moveVars, IInv, TypeOK, ThreadTypes
  <2>2. QED
    BY <2>1, CallsCalm DEF goalVars
<1>3. QED
  BY <1>1, <1>2

LEMMA ServerCalm ==
  ASSUME IInv,
         \/ \E g \in Goals, n \in 0..MaxViews : HandleGoal(g, n)
         \/ \E g \in Goals : HandleCancel(g)
         \/ StopReturns(Server)
  PROVE  Calm
<1>1. ASSUME NEW g \in Goals, NEW n \in 0..MaxViews, HandleGoal(g, n) PROVE Calm
  <2>1. UNCHANGED <<published, cancelAt, io>> /\ status[g] = "none"
    BY <1>1 DEF HandleGoal, moveVars
  <2>2. \A d \in Goals : /\ d # g => status'[d] = status[d] /\ pc'[d] = pc[d]
                         /\ pc'[d] = pc[d] \/ pc'[d] = "start"
    BY <1>1 DEF HandleGoal, Goto, IInv, TypeOK, ThreadTypes, GoalTypes
  <2>3. QED
    BY <2>1, <2>2 DEF Calm, Inside
<1>2. CASE (\E g \in Goals : HandleCancel(g)) \/ StopReturns(Server)
  <2>1. /\ UNCHANGED <<published, cancelAt, status, pc>>
        /\ \A g \in Goals : io'[g] = io[g]
    BY <1>2 DEF HandleCancel, SendStop, StopReturns, Become, goalVars, IInv, TypeOK, ThreadTypes
  <2>2. QED
    BY <2>1, CallsCalm
<1>3. QED
  BY <1>1, <1>2

(* A step of execute that leaves the other threads alone, for g itself.         *)
LEMMA GoalCalmOnly ==
  ASSUME IInv, NEW g \in Goals, UNCHANGED <<published, cancelAt>>,
         \A d \in Goals : d # g => status'[d] = status[d] /\ pc'[d] = pc[d] /\ io'[d] = io[d],
         status'[g] = status[g] \/ status'[g] \in Terminal,
         Inside(g)' => Inside(g) \/ status[g] = "executing"
  PROVE  Calm
BY DEF Calm, Inside, Terminal

LEMMA GoalCalm == ASSUME IInv, NEW g \in Goals, GoalStep(g), ~Captured(g) PROVE Calm
<1> USE DEF Goto, Become, Leave, Proceed
<1>0. ThreadTypes /\ GoalTypes /\ LoopInv
  BY DEF IInv, TypeOK
<1>1. CASE Start(g)
  BY <1>0, <1>1, GoalCalmOnly DEF Start, Fail, SendStop, goalVars, Inside, ThreadTypes
<1>2. CASE Stage(g)
  <2>1. CASE SendMove(g, Pose(pc[g])) /\ UNCHANGED <<goalVars, pc>>
    BY <1>0, <1>2, <2>1, GoalCalmOnly DEF Stage, SendMove, goalVars, Inside, ThreadTypes
  <2>2. CASE EndStage(g)
    BY <1>0, <1>2, <2>2, GoalCalmOnly
    DEF Stage, EndStage, Conclude, After, goalVars, Inside, ThreadTypes, GoalTypes, Terminal
  <2>3. CASE Fail(g) /\ UNCHANGED goalVars
    BY <1>0, <1>2, <2>3, GoalCalmOnly DEF Fail, SendStop, goalVars, Inside, ThreadTypes
  <2>4. QED
    BY <1>2, <2>1, <2>2, <2>3 DEF Stage
<1>3. CASE View(g)
  <2>1. UNCHANGED goalVars /\ pc[g] = "view"
    BY <1>3 DEF View
  <2>2. CASE status[g] = "executing"
    BY <1>0, <1>3, <2>1, <2>2, GoalCalmOnly DEF View, SendStop, SendMove, goalVars, ThreadTypes
  <2>3. CASE status[g] # "executing"
    <3>1. status[g] = "canceling"
      BY <1>0, <2>1, <2>3 DEF LoopInv, GoalTypes
    <3>2. QED
      BY <1>0, <1>3, <2>1, <3>1, GoalCalmOnly
      DEF View, SendStop, goalVars, Inside, ThreadTypes
  <2>4. QED
    BY <2>2, <2>3
<1>4. CASE ViewMoved(g)
  BY <1>0, <1>4, GoalCalmOnly DEF ViewMoved, ToCapture, Fail, SendStop, goalVars, Inside, ThreadTypes
<1>5. CASE CaptureRequest(g) \/ CaptureFailed(g)
  BY <1>0, <1>5, GoalCalmOnly
  DEF CaptureRequest, CaptureFailed, Fail, SendStop, goalVars, Inside, ThreadTypes
<1>6. CASE Abort(g) \/ Cancel(g)
  BY <1>0, <1>6, GoalCalmOnly
  DEF Abort, Cancel, Conclude, Inside, ThreadTypes, GoalTypes, Terminal
<1>7. CASE Unwind(g)
  BY <1>0, <1>7, GoalCalmOnly DEF Unwind, goalVars, moveVars, Inside, ThreadTypes
<1>8. CASE IoStep(g)
  BY <1>8, IoStepCalm
<1>9. QED
  BY <1>1, <1>2, <1>3, <1>4, <1>5, <1>6, <1>7, <1>8 DEF GoalStep

LEMMA EnvironmentCalm == ASSUME IInv, Environment PROVE Calm
<1>1. /\ UNCHANGED <<goalVars, pc>>
      /\ \A g \in Goals : io'[g] = io[g] \/ io[g] # "none"
  BY DEF Environment, OnFeedback, BridgeStop, RobotLeaves, RobotArrives, SafetyChanges,
     DriverAnswersMove, DriverAnswersStop, DriverServesLateMove, CameraAnswers, Become, moveVars,
     IInv, TypeOK, ThreadTypes
<1>2. QED
  BY <1>1, CallsCalm DEF goalVars

LEMMA NextCancelInv == IInv /\ CancelInv /\ [Next]_vars => CancelInv'
<1> SUFFICES ASSUME IInv, CancelInv, [Next]_vars PROVE CancelInv'
  OBVIOUS
<1>1. CASE Environment
  BY <1>1, EnvironmentCalm, CalmCancelInv
<1>2. CASE Requests
  BY <1>2, CallerCalm, ServerCalm, CalmCancelInv DEF Requests
<1>3. CASE ServerStep
  BY <1>3, ServerCalm, CalmCancelInv, CancelAcceptedCancelInv DEF ServerStep
<1>4. ASSUME NEW c \in Callers, CallerStep(c) PROVE CancelInv'
  BY <1>4, CallerCalm, CalmCancelInv
<1>5. ASSUME NEW g \in Goals, GoalStep(g) PROVE CancelInv'
  BY <1>5, GoalCalm, CalmCancelInv, CapturedCancelInv
<1>6. CASE UNCHANGED vars
  <2>1. UNCHANGED <<published, cancelAt, status, pc, io>>
    BY <1>6 DEF vars, goalVars, moveVars
  <2>2. QED
    BY <2>1, CallsCalm, CalmCancelInv
<1>7. QED
  BY <1>1, <1>2, <1>3, <1>4, <1>5, <1>6 DEF Next

LEMMA InitCancelInv == Init => CancelInv
<1>1. ASSUME Init PROVE CancelInv
  BY <1>1 DEF Init, CancelInv, Inside
<1>2. QED
  BY <1>1

(* execute looks at is_canceling once per view, so whenever the goal becomes    *)
(* canceling, at most the view under way is still published, for any number of  *)
(* views, goals and callers.                                                    *)
THEOREM CancelBound == Spec => []CancelBoundsSamples
<1>1. CancelInv => CancelBoundsSamples
  BY DEF CancelInv, CancelBoundsSamples
<1>2. IInv /\ CancelInv /\ [Next]_vars => CancelInv'
  BY NextCancelInv
<1>3. QED
  BY <1>1, <1>2, InitCancelInv, Invariance, PTL DEF Spec

-------------------------------------------------------------------------------
(* The commands in the robot, as a set.                                         *)
Queued == {queue[k] : k \in 1..Len(queue)}

(* What the changes of the robot's queue do to that set.                        *)
LEMMA QueuedEmpty == queue = <<>> => Queued = {}
  BY DEF Queued

LEMMA QueuedEmptied == queue' = <<>> => Queued' = {}
  BY DEF Queued

LEMMA QueuedAppended ==
  ASSUME queue \in Seq(Commands), NEW cmd \in Commands, queue' = Append(queue, cmd)
  PROVE  Queued' = Queued \cup {cmd}
<1>1. /\ Len(queue') = Len(queue) + 1 /\ Len(queue) \in Nat
      /\ \A k \in 1..Len(queue) : queue'[k] = queue[k]
      /\ queue'[Len(queue) + 1] = cmd
  OBVIOUS
<1>2. \A k : k \in 1..Len(queue) + 1 <=> k \in 1..Len(queue) \/ k = Len(queue) + 1
  BY <1>1
<1>3. QED
  BY <1>1, <1>2 DEF Queued

LEMMA QueuedServed ==
  ASSUME queue \in Seq(Commands), queue # <<>>, queue' = Tail(queue)
  PROVE  Queued' \subseteq Queued
<1>1. /\ Len(queue') = Len(queue) - 1 /\ Len(queue) \in Nat \ {0}
      /\ \A k \in 1..Len(queue') : queue'[k] = queue[k+1]
  OBVIOUS
<1>2. \A k \in 1..Len(queue') : k + 1 \in 1..Len(queue)
  BY <1>1
<1>3. QED
  BY <1>1, <1>2 DEF Queued

LEMMA QueuedHead ==
  ASSUME queue \in Seq(Commands), queue # <<>>
  PROVE  Head(queue) \in Queued
<1>1. Head(queue) = queue[1] /\ 1 \in 1..Len(queue)
  OBVIOUS
<1>2. QED
  BY <1>1 DEF Queued

(* Standing, as a condition on it.                                              *)
LEMMA StandingQueued ==
  ASSUME NEW p
  PROVE  Standing(p) <=> pos = p /\ \A cmd \in Queued : cmd.to = p
BY DEF Standing, Queued

-------------------------------------------------------------------------------
(* What a step of a thread does to what a motion depends on.                    *)

(* It leaves the other threads alone.                                           *)
OthersRest(t) ==
  \A u \in Movers \ {t} : /\ pc'[u] = pc[u] /\ io'[u] = io[u]
                          /\ tgt'[u] = tgt[u] /\ fromRest'[u] = fromRest[u]

(* Goes on to another part of its handler, or ends: no move and no capture.     *)
Leaves(t) ==
  io'[t] = "none" /\ pc'[t] \notin {"capture", "fail", "cancel"} /\ UNCHANGED missed

(* Sends a move.                                                                *)
Sends(t) ==
  /\ io[t] = "none" /\ io'[t] = "moveSent" /\ pc'[t] = pc[t] /\ pc[t] \in ({"go"} \cup Stages) \ {"capture"}
  /\ fromRest'[t] = AtRest /\ UNCHANGED <<missed, goalVars>>

(* Stops the robot before it ends.                                              *)
Stops(t) ==
  io'[t] = "stopSent" /\ pc'[t] \in {"fail", "cancel"} /\ UNCHANGED <<missed, goalVars>>

(* Has arrived at the view, and asks the camera.                                *)
Looks(t) ==
  /\ \/ pc[t] = "view" /\ io[t] = "reached" /\ io'[t] = "none"
     \/ pc[t] = "capture" /\ io'[t] = "capSent"
  /\ pc'[t] = "capture" /\ tgt'[t] = tgt[t] /\ fromRest'[t] = fromRest[t]
  /\ UNCHANGED <<missed, goalVars>>

(* What the outcome of execute says, and what it has been through.              *)
Concludes(g) ==
  \A d \in Goals : /\ d # g \/ status'[d] \notin {"aborted", "canceled"} => status'[d] \in {status[d], "succeeded"}
                   /\ status'[d] # status[d] /\ status'[d] \in {"aborted", "canceled"} =>
                        pc[d] \in {"fail", "cancel"} /\ io[d] = "stopped"

(* A step of execute outside of its calls does one of these.                    *)
LEMMA GoalShape ==
  ASSUME IInv, NEW g \in Goals, GoalStep(g), ~IoStep(g)
  PROVE  /\ OthersRest(g) /\ UNCHANGED <<queue, pos, late, fb>>
         /\ \/ Leaves(g) /\ Concludes(g)
            \/ Sends(g) /\ (pc[g] = "view" => tgt'[g] = Waypoint(idx[g]))
            \/ Stops(g) \/ Looks(g)
<1> DEFINE Shape == \/ Leaves(g) /\ Concludes(g)
                    \/ Sends(g) /\ (pc[g] = "view" => tgt'[g] = Waypoint(idx[g]))
                    \/ Stops(g) \/ Looks(g)
<1> USE DEF Goto, Become, Leave, Proceed
<1>0. ThreadTypes /\ GoalTypes /\ CallInv /\ LoopInv
  BY DEF IInv, TypeOK
<1>1. CASE Start(g)
  BY <1>0, <1>1 DEF Start, Fail, SendStop, robotVars, goalVars, ThreadTypes, OthersRest, Leaves, Stops, Concludes
<1>2. CASE Stage(g)
  <2>1. CASE io[g] = "none" /\ SendMove(g, Pose(pc[g])) /\ UNCHANGED <<goalVars, pc>>
    BY <1>0, <1>2, <2>1 DEF Stage, SendMove, robotVars, goalVars, ThreadTypes, OthersRest, Sends, Stages
  <2>2. CASE EndStage(g)
    BY <1>0, <1>2, <2>2
    DEF Stage, EndStage, Conclude, After, robotVars, goalVars, ThreadTypes, GoalTypes, OthersRest, Leaves, Concludes
  <2>3. CASE Fail(g) /\ UNCHANGED goalVars
    BY <1>0, <1>2, <2>3 DEF Stage, Fail, SendStop, robotVars, ThreadTypes, OthersRest, Stops
  <2>4. QED
    BY <1>2, <2>1, <2>2, <2>3 DEF Stage
<1>3. CASE View(g)
  BY <1>0, <1>3 DEF View, SendMove, SendStop, robotVars, goalVars, ThreadTypes, OthersRest, Leaves, Concludes, Sends, Stops, Stages
<1>4. CASE ViewMoved(g)
  BY <1>0, <1>4 DEF ViewMoved, ToCapture, Fail, SendStop, robotVars, ThreadTypes, OthersRest, Looks, Stops
<1>5. CASE CaptureRequest(g) \/ CaptureFailed(g)
  BY <1>0, <1>5 DEF CaptureRequest, CaptureFailed, Fail, SendStop, robotVars, ThreadTypes, OthersRest, Looks, Stops
<1>6. CASE Captured(g)
  BY <1>0, <1>6 DEF Captured, robotVars, ThreadTypes, OthersRest, Leaves, Concludes
<1>7. CASE Abort(g) \/ Cancel(g)
  BY <1>0, <1>7 DEF Abort, Cancel, Conclude, robotVars, ThreadTypes, GoalTypes, OthersRest, Leaves, Concludes
<1>8. CASE Unwind(g)
  BY <1>0, <1>8 DEF Unwind, robotVars, goalVars, moveVars, ThreadTypes, OthersRest, Leaves, Concludes, CallInv
<1>9. QED
  BY <1>1, <1>2, <1>3, <1>4, <1>5, <1>6, <1>7, <1>8 DEF GoalStep

(* A service handler only sends or leaves.                                      *)
LEMMA CallerShape ==
  ASSUME IInv, NEW c \in Callers,
         \/ \E p \in PoseNames : HandleGoto(c, p)
         \/ \E k \in 1..Jogs, valid \in BOOLEAN : HandleJog(c, k, valid)
         \/ CallerStep(c) /\ ~IoStep(c)
  PROVE  /\ OthersRest(c) /\ UNCHANGED <<queue, pos, late, fb, goalVars>>
         /\ Leaves(c) \/ Sends(c)
<1> USE DEF Goto, Become, Leave
<1>0. ThreadTypes /\ CallInv
  BY DEF IInv, TypeOK
<1>1. CASE (\E p \in PoseNames : HandleGoto(c, p))
           \/ \E k \in 1..Jogs, valid \in BOOLEAN : HandleJog(c, k, valid)
  BY <1>0, <1>1 DEF HandleGoto, HandleJog, robotVars, goalVars, ThreadTypes, CallInv, OthersRest, Leaves
<1>2. CASE CheckSafety(c) \/ CallerReturns(c)
  BY <1>0, <1>2 DEF CheckSafety, CallerReturns, robotVars, goalVars, moveVars, ThreadTypes, CallInv, OthersRest, Leaves
<1>3. CASE CallerMoves(c)
  BY <1>0, <1>3 DEF CallerMoves, SendMove, robotVars, goalVars, ThreadTypes, OthersRest, Sends
<1>4. QED
  BY <1>1, <1>2, <1>3 DEF CallerStep

(* What a call of RobotIoBridge that waits does, but for a move nobody answers. *)
Calls(t) ==
  /\ UNCHANGED <<goalVars, pc, tgt, fromRest, queue, pos, late, fb>> /\ missed \subseteq missed'
  /\ \A u \in Threads \ {t} : io'[u] = io[u]
  /\ \/ io'[t] \in {"gaveUp", "stopSent"}
     \/ io[t] = "moveOk" /\ io'[t] = "poll"
     \/ io[t] = "poll" /\ io'[t] = "reached" /\ fb.pos = tgt[t]
     \/ io'[t] = "stopped" /\ (io[t] = "stopDone" \/ t \in missed' \/ t \notin Goals)

LEMMA IoShape ==
  ASSUME IInv, NEW t \in Threads, IoStep(t), t \in Movers \/ StopReturns(t)
  PROVE  Calls(t) \/ (t \in Movers /\ MoveUnanswered(t))
<1>1. ThreadTypes
  BY DEF IInv, TypeOK
<1>2. CASE MoveAnswered(t)
  BY <1>1, <1>2 DEF MoveAnswered, Become, robotVars, Calls, ThreadTypes
<1>3. CASE Poll(t)
  BY <1>1, <1>3 DEF Poll, Become, robotVars, Calls, ThreadTypes
<1>4. CASE StopReturns(t)
  BY <1>1, <1>4 DEF StopReturns, Become, Missed, robotVars, Calls, ThreadTypes
<1>5. QED
  BY <1>2, <1>3, <1>4 DEF IoStep, MoveUnanswered, StopReturns

-------------------------------------------------------------------------------
(* The premise of ReachedMeansThere, carried from the sending of the move to the *)
(* end of the capture that follows it.                                           *)
AtStart(t)  == io[t] = "moveSent"
UnderWay(t) == io[t] \in {"moveOk", "poll"}
There(t)    == io[t] = "reached" \/ pc[t] = "capture"
OnlyTo(p)   == \A cmd \in Queued : cmd.to = p

(* A move sent at rest is the only one in the robot, and what the feedback last  *)
(* said is true of the target as soon as it says that the target is reached.     *)
RestInv ==
  \A t \in Movers : fromRest[t] =>
    /\ AtStart(t) => AtRest
    /\ UnderWay(t) \/ There(t) => late = {} /\ OnlyTo(tgt[t])
    /\ UnderWay(t) => (fb.pos = tgt[t] => pos = tgt[t])
    /\ There(t) => pos = tgt[t] /\ fb.pos = tgt[t]

(* The step takes t no further than it was, or from under way to there.          *)
Keeps(t) ==
  fromRest'[t] =>
    /\ AtStart(t)' => (AtStart(t) /\ fromRest[t]) \/ AtRest
    /\ UnderWay(t)' => UnderWay(t) /\ fromRest[t] /\ tgt'[t] = tgt[t]
    /\ There(t)' => /\ fromRest[t] /\ tgt'[t] = tgt[t]
                    /\ There(t) \/ (UnderWay(t) /\ fb.pos = tgt[t])

LEMMA KeepsRest ==
  ASSUME RestInv, queue' = queue \/ queue' = <<>>, UNCHANGED <<pos, late, fb>>,
         \A t \in Movers : Keeps(t)
  PROVE  RestInv'
<1> SUFFICES ASSUME NEW t \in Movers, fromRest'[t]
             PROVE  /\ AtStart(t)' => AtRest'
                    /\ UnderWay(t)' \/ There(t)' => late' = {} /\ OnlyTo(tgt[t])'
                    /\ UnderWay(t)' => (fb'.pos = tgt'[t] => pos' = tgt'[t])
                    /\ There(t)' => pos' = tgt'[t] /\ fb'.pos = tgt'[t]
  BY DEF RestInv
<1>1. Queued' \subseteq Queued
  BY QueuedEmptied DEF Queued
<1>2. AtRest => AtRest'
  BY DEF AtRest
<1>3. ASSUME NEW p, OnlyTo(p) PROVE OnlyTo(p)'
  BY <1>1, <1>3 DEF OnlyTo
<1>4. Keeps(t)
  OBVIOUS
<1>5. fromRest[t] =>
        /\ AtStart(t) => AtRest
        /\ UnderWay(t) \/ There(t) => late = {} /\ OnlyTo(tgt[t])
        /\ UnderWay(t) => (fb.pos = tgt[t] => pos = tgt[t])
        /\ There(t) => pos = tgt[t] /\ fb.pos = tgt[t]
  BY DEF RestInv
<1>6. OnlyTo(tgt[t])' <=> \A cmd \in Queued' : cmd.to = tgt'[t]
  BY DEF OnlyTo
<1>7. ASSUME tgt'[t] = tgt[t], OnlyTo(tgt[t]) PROVE OnlyTo(tgt[t])'
  BY <1>1, <1>6, <1>7 DEF OnlyTo
<1>8. QED
  BY <1>2, <1>4, <1>5, <1>7 DEF Keeps

(* Only the holder of the slot has a move out or is at a view.                  *)
LEMMA OnlyHolderAims ==
  ASSUME IInv, MotionExclusive, NEW s \in Movers, NEW t \in Movers,
         io[s] = "moveSent", AtStart(t) \/ UnderWay(t) \/ There(t)
  PROVE  s = t
<1>1. Holds(s)
  BY MovingHolds DEF Moving
<1>2. Holds(t)
  BY DEF IInv, TypeOK, ThreadTypes, CallInv, AtStart, UnderWay, There, Holds
<1>3. QED
  BY <1>1, <1>2 DEF MotionExclusive

(* The steps of the handlers keep the premise.                                  *)
LEMMA ShapeRest ==
  ASSUME IInv, RestInv, NEW t \in Movers, OthersRest(t), UNCHANGED <<queue, pos, late, fb>>,
         Leaves(t) \/ Sends(t) \/ Stops(t) \/ Looks(t)
  PROVE  RestInv'
<1>1. ASSUME NEW u \in Movers \ {t} PROVE Keeps(u)
  BY <1>1 DEF OthersRest, Keeps, AtStart, UnderWay, There
<1>2. Keeps(t)
  BY DEF Leaves, Sends, Stops, Looks, Keeps, AtStart, UnderWay, There, Stages
<1>3. QED
  BY <1>1, <1>2, KeepsRest

(* So do the calls: the poll ends at the target only if the feedback is there.  *)
LEMMA CallsRest ==
  ASSUME IInv, RestInv, NEW t \in Threads, Calls(t)
  PROVE  RestInv'
<1>1. ASSUME NEW u \in Movers PROVE Keeps(u)
  BY <1>1 DEF Calls, Keeps, AtStart, UnderWay, There
<1>2. QED
  BY <1>1, KeepsRest DEF Calls

(* A request nobody waits for is left behind by the holder only.                *)
LEMMA UnansweredRest ==
  ASSUME IInv, MotionExclusive, RestInv, NEW t \in Movers, MoveUnanswered(t)
  PROVE  RestInv'
<1>0. ThreadTypes
  BY DEF IInv, TypeOK
<1>1. /\ io' = [io EXCEPT ![t] = "gaveUp"] /\ UNCHANGED <<pc, tgt, fromRest, queue, pos, fb>>
      /\ late' = late \/ io[t] = "moveSent"
  BY DEF MoveUnanswered, Become
<1>2. \A u \in Movers : Keeps(u)
  BY <1>0, <1>1 DEF Keeps, AtStart, UnderWay, There, ThreadTypes
<1>3. CASE late' = late
  BY <1>1, <1>2, <1>3, KeepsRest
<1>4. CASE io[t] = "moveSent"
  <2>1. ASSUME NEW u \in Movers, AtStart(u)' \/ UnderWay(u)' \/ There(u)' PROVE FALSE
    <3>1. CASE u = t
      <4>1. io'[t] = "gaveUp" /\ pc'[t] # "capture"
        BY <1>0, <1>1, <1>4 DEF ThreadTypes, IInv, CallInv
      <4>2. QED
        BY <2>1, <3>1, <4>1 DEF AtStart, UnderWay, There
    <3>2. CASE u # t
      BY <1>0, <1>1, <1>4, <2>1, <3>2, OnlyHolderAims DEF AtStart, UnderWay, There, ThreadTypes
    <3>3. QED
      BY <3>1, <3>2
  <2>2. QED
    BY <2>1 DEF RestInv
<1>5. QED
  BY <1>1, <1>3, <1>4

(* The driver takes the holder's move, the only command in a robot at rest.     *)
LEMMA AnsweredRest ==
  ASSUME IInv, MotionExclusive, RestInv, NEW t \in Movers, DriverAnswersMove(t)
  PROVE  RestInv'
<1>0. ThreadTypes /\ queue \in Seq(Commands)
  BY DEF IInv, TypeOK, RobotTypes
<1>1. /\ io[t] = "moveSent" /\ UNCHANGED <<pc, tgt, fromRest, pos, late, fb>>
      /\ io' = [io EXCEPT ![t] = io'[t]] /\ io'[t] \in {"moveOk", "moveNo"}
  BY <1>0 DEF DriverAnswersMove, Become, ThreadTypes
<1>2. CASE queue' = queue /\ io'[t] = "moveNo"
  <2>1. \A u \in Movers : Keeps(u)
    BY <1>0, <1>1, <1>2 DEF Keeps, AtStart, UnderWay, There, ThreadTypes
  <2>2. QED
    BY <1>1, <1>2, <2>1, KeepsRest
<1>3. CASE queue' = Append(queue, [by |-> t, to |-> tgt[t]]) /\ io'[t] = "moveOk"
  <2>1. [by |-> t, to |-> tgt[t]] \in Commands
    BY <1>1 DEF IInv, CallInv, TypeOK, ThreadTypes, Stages, Commands
  <2>2. Queued' = Queued \cup {[by |-> t, to |-> tgt[t]]}
    BY <1>0, <1>3, <2>1, QueuedAppended
  <2>3. ASSUME NEW u \in Movers, u # t, AtStart(u)' \/ UnderWay(u)' \/ There(u)' PROVE FALSE
    BY <1>0, <1>1, <2>3, OnlyHolderAims DEF AtStart, UnderWay, There, ThreadTypes
  <2>4. ~AtStart(t)' /\ ~There(t)'
    BY <1>0, <1>1, <1>3 DEF AtStart, There, IInv, CallInv
  <2>5. ASSUME fromRest[t] PROVE late = {} /\ OnlyTo(tgt[t])' /\ pos = fb.pos
    <3>1. AtRest
      BY <1>1, <2>5 DEF RestInv, AtStart
    <3>2. Queued = {}
      BY <3>1, QueuedEmpty DEF AtRest
    <3>3. Queued' = {[by |-> t, to |-> tgt[t]]} /\ tgt'[t] = tgt[t]
      BY <1>1, <2>2, <3>2
    <3>4. QED
      BY <3>1, <3>3 DEF AtRest, OnlyTo
  <2>6. QED
    BY <1>1, <2>3, <2>4, <2>5 DEF RestInv
<1>4. QED
  BY <1>0, <1>1, <1>2, <1>3 DEF DriverAnswersMove, Enqueue, Become, ThreadTypes

(* The robot, the feedback and late requests: no thread changes.                *)
ThreadsRest == UNCHANGED <<pc, io, tgt, fromRest>>

LEMMA FeedbackRest ==
  ASSUME IInv, RestInv, OnFeedback PROVE RestInv'
<1>1. ThreadsRest /\ UNCHANGED <<queue, pos, late>> /\ fb'.pos = pos
  BY DEF OnFeedback, moveVars, robotVars, ThreadsRest
<1>2. Queued' = Queued
  BY <1>1 DEF Queued
<1>3. QED
  BY <1>1, <1>2 DEF RestInv, ThreadsRest, AtStart, UnderWay, There, OnlyTo, AtRest

LEMMA LeavesRest ==
  ASSUME IInv, RestInv, RobotLeaves PROVE RestInv'
<1>1. ThreadsRest /\ UNCHANGED <<queue, late, fb>> /\ queue # <<>> /\ pos # Head(queue).to
  BY DEF RobotLeaves, moveVars, ThreadsRest
<1>2. Queued' = Queued /\ Head(queue) \in Queued
  BY <1>1, QueuedHead DEF Queued, IInv, TypeOK, RobotTypes
<1>3. ASSUME NEW t \in Movers, OnlyTo(tgt[t]) PROVE pos # tgt[t]
  BY <1>1, <1>2, <1>3 DEF OnlyTo
<1>4. QED
  BY <1>1, <1>2, <1>3 DEF RestInv, ThreadsRest, AtStart, UnderWay, There, OnlyTo, AtRest

LEMMA ArrivesRest ==
  ASSUME IInv, RestInv, RobotArrives PROVE RestInv'
<1>1. /\ ThreadsRest /\ UNCHANGED <<late, fb>> /\ queue # <<>> /\ queue' = Tail(queue)
      /\ pos' = Head(queue).to
  BY DEF RobotArrives, moveVars, ThreadsRest
<1>2. Queued' \subseteq Queued /\ Head(queue) \in Queued
  BY <1>1, QueuedHead, QueuedServed DEF IInv, TypeOK, RobotTypes
<1>3. ASSUME NEW t \in Movers, OnlyTo(tgt[t]) PROVE pos' = tgt[t] /\ OnlyTo(tgt[t])'
  BY <1>1, <1>2, <1>3 DEF OnlyTo, ThreadsRest
<1>4. QED
  BY <1>1, <1>3 DEF RestInv, ThreadsRest, AtStart, UnderWay, There, AtRest

LEMMA LateRest ==
  ASSUME IInv, RestInv, NEW cmd \in late, DriverServesLateMove(cmd) PROVE RestInv'
<1>1. ThreadsRest /\ late # {}
  BY DEF DriverServesLateMove, moveVars, ThreadsRest
<1>2. QED
  BY <1>1 DEF RestInv, ThreadsRest, AtStart, UnderWay, There, AtRest

(* The steps of what is outside the node.                                       *)
LEMMA EnvironmentRest ==
  ASSUME IInv, MotionExclusive, RestInv, Environment PROVE RestInv'
<1>0. ThreadTypes
  BY DEF IInv, TypeOK
<1>1. CASE BridgeStop \/ SafetyChanges
  <2>1. UNCHANGED <<pc, io, tgt, fromRest, pos, late, fb>> /\ (queue' = queue \/ queue' = <<>>)
    BY <1>1 DEF BridgeStop, SafetyChanges, moveVars
  <2>2. \A t \in Movers : Keeps(t)
    BY <2>1 DEF Keeps, AtStart, UnderWay, There
  <2>3. QED
    BY <2>1, <2>2, KeepsRest
<1>2. ASSUME NEW s \in Threads, DriverAnswersStop(s) PROVE RestInv'
  <2>1. /\ UNCHANGED <<pc, tgt, fromRest, pos, late, fb>> /\ (queue' = queue \/ queue' = <<>>)
        /\ io' = [io EXCEPT ![s] = "stopDone"]
    BY <1>2 DEF DriverAnswersStop, Become
  <2>2. \A t \in Movers : Keeps(t)
    BY <1>0, <2>1 DEF Keeps, AtStart, UnderWay, There, ThreadTypes
  <2>3. QED
    BY <2>1, <2>2, KeepsRest
<1>3. ASSUME NEW g \in Goals, CameraAnswers(g) PROVE RestInv'
  <2>1. /\ UNCHANGED <<pc, tgt, fromRest, queue, pos, late, fb>>
        /\ io[g] = "capSent" /\ \E w \in {"capOk", "capNo"} : io' = [io EXCEPT ![g] = w]
    BY <1>3 DEF CameraAnswers, Become, robotVars
  <2>2. \A t \in Movers : Keeps(t)
    BY <1>0, <2>1 DEF Keeps, AtStart, UnderWay, There, ThreadTypes
  <2>3. QED
    BY <2>1, <2>2, KeepsRest
<1>4. QED
  BY <1>1, <1>2, <1>3, FeedbackRest, LeavesRest, ArrivesRest, LateRest, AnsweredRest DEF Environment

(* Every step keeps it.                                                         *)
LEMMA NextRest == IInv /\ MotionExclusive /\ RestInv /\ [Next]_vars => RestInv'
<1> SUFFICES ASSUME IInv, MotionExclusive, RestInv, [Next]_vars PROVE RestInv'
  OBVIOUS
<1>0. ASSUME NEW t \in Movers, IoStep(t) PROVE RestInv'
  BY <1>0, IoShape, CallsRest, UnansweredRest
<1>1. CASE Environment
  BY <1>1, EnvironmentRest
<1>2. ASSUME NEW c \in Callers,
             \/ \E p \in PoseNames : HandleGoto(c, p)
             \/ \E k \in 1..Jogs, valid \in BOOLEAN : HandleJog(c, k, valid)
             \/ CallerStep(c)
      PROVE  RestInv'
  <2>1. CASE IoStep(c)
    BY <1>0, <2>1
  <2>2. CASE ~IoStep(c)
    BY <1>2, <2>2, CallerShape, ShapeRest
  <2>3. QED
    BY <2>1, <2>2
<1>3. ASSUME NEW g \in Goals, GoalStep(g) PROVE RestInv'
  BY <1>0, <1>3, GoalShape, ShapeRest
<1>4. CASE StopReturns(Server)
  BY <1>4, IoShape, CallsRest DEF IoStep
<1>5. CASE (\E g \in Goals : HandleCancel(g) \/ \E n \in 0..MaxViews : HandleGoal(g, n))
           \/ CancelAccepted \/ UNCHANGED vars
  <2>1. /\ UNCHANGED <<tgt, fromRest, queue, pos, late, fb>>
        /\ \A t \in Movers : io'[t] = io[t] /\ (pc'[t] = pc[t] \/ pc'[t] = "start")
    BY <1>5 DEF HandleCancel, SendStop, HandleGoal, CancelAccepted, vars, moveVars, robotVars, Goto, Become,
       IInv, TypeOK, ThreadTypes
  <2>2. \A t \in Movers : Keeps(t)
    BY <2>1 DEF Keeps, AtStart, UnderWay, There
  <2>3. QED
    BY <2>1, <2>2, KeepsRest
<1>6. QED
  BY <1>1, <1>2, <1>3, <1>4, <1>5 DEF Next, Requests, ServerStep

LEMMA InitRest == Init => RestInv
<1>1. ASSUME Init PROVE \A t \in Movers : ~fromRest[t]
  BY <1>1 DEF Init
<1>2. QED
  BY <1>1 DEF RestInv

(* RestInv holds in every state, whatever the robot, its driver and the feedback *)
(* do between the sending of a move and its end.                                 *)
THEOREM RestInvariance == Spec => []RestInv
  BY InitRest, NextRest, Invariance, SlotExclusive, PTL DEF Spec

(* When move_ptp_joint returns true for a move that began with the robot at rest *)
(* where the last feedback said, the robot stands at the target: no stale        *)
(* feedback, late request or other thread's move can be mistaken for the arrival. *)
THEOREM ReachedIsThere == Spec => []ReachedMeansThere
<1>1. RestInv => ReachedMeansThere
  BY StandingQueued DEF RestInv, There, OnlyTo, ReachedMeansThere
<1>2. QED
  BY <1>1, RestInvariance, PTL

-------------------------------------------------------------------------------
(* The view a goal is at is the view it was sent to, and the image of it was     *)
(* taken there.                                                                  *)
AimInv ==
  \A g \in Goals :
    /\ Inside(g) => tgt[g] = Waypoint(idx[g])
    /\ io[g] = "capOk" /\ fromRest[g] => shot[g] = tgt[g]

LEMMA SameAim ==
  ASSUME IInv, AimInv, NEW g \in Goals, tgt'[g] = tgt[g], idx'[g] = idx[g],
         Inside(g)' => Inside(g),
         io'[g] = "capOk" => io[g] = "capOk" /\ shot'[g] = shot[g] /\ fromRest'[g] = fromRest[g]
  PROVE  /\ Inside(g)' => tgt'[g] = Waypoint(idx'[g])
         /\ io'[g] = "capOk" /\ fromRest'[g] => shot'[g] = tgt'[g]
BY DEF AimInv

(* Nothing of a goal that counts here is touched by the steps of others.        *)
Untouched(g) ==
  /\ pc'[g] = pc[g] \/ pc'[g] = "start"
  /\ io'[g] = io[g] /\ tgt'[g] = tgt[g] /\ idx'[g] = idx[g]
  /\ shot'[g] = shot[g] /\ fromRest'[g] = fromRest[g]

LEMMA UntouchedAim ==
  ASSUME IInv, AimInv, NEW g \in Goals, Untouched(g)
  PROVE  /\ Inside(g)' => tgt'[g] = Waypoint(idx'[g])
         /\ io'[g] = "capOk" /\ fromRest'[g] => shot'[g] = tgt'[g]
BY SameAim DEF Untouched, Inside

(* execute touches its own goal only.                                           *)
LEMMA GoalTouches ==
  ASSUME IInv, NEW g \in Goals, GoalStep(g), NEW d \in Goals \ {g}
  PROVE  Untouched(d)
<1>0. ThreadTypes /\ GoalTypes
  BY DEF IInv, TypeOK
<1>1. idx'[d] = idx[d] /\ shot'[d] = shot[d]
  BY <1>0 DEF GoalStep, Start, Stage, EndStage, Conclude, View, ViewMoved, CaptureRequest, Captured,
     CaptureFailed, Abort, Cancel, Unwind, IoStep, MoveAnswered, MoveUnanswered, Poll, StopReturns,
     goalVars, GoalTypes
<1>2. CASE IoStep(g)
  BY <1>0, <1>1, <1>2 DEF IoStep, MoveAnswered, MoveUnanswered, Poll, StopReturns, Become, ThreadTypes, Untouched
<1>3. CASE ~IoStep(g)
  BY <1>1, <1>3, GoalShape DEF OthersRest, Untouched
<1>4. QED
  BY <1>2, <1>3

LEMMA GoalAim ==
  ASSUME IInv, AimInv, NEW g \in Goals, GoalStep(g)
  PROVE  AimInv'
<1> DEFINE Aimed(d) == /\ Inside(d)' => tgt'[d] = Waypoint(idx'[d])
                       /\ io'[d] = "capOk" /\ fromRest'[d] => shot'[d] = tgt'[d]
<1>0. ThreadTypes /\ CallInv
  BY DEF IInv, TypeOK
<1>1. ASSUME NEW d \in Goals \ {g} PROVE Aimed(d)
  BY <1>1, GoalTouches, UntouchedAim
<1>2. CASE IoStep(g)
  <2>1. /\ UNCHANGED <<pc, tgt, idx>> /\ io[g] # "none" /\ io'[g] # "capOk"
    BY <1>0, <1>2 DEF IoStep, MoveAnswered, MoveUnanswered, Poll, StopReturns, Become, goalVars, ThreadTypes
  <2>2. Inside(g)' => Inside(g)
    BY <2>1 DEF Inside
  <2>3. Aimed(g)
    BY <2>1, <2>2, SameAim
  <2>4. QED
    BY <1>1, <2>3 DEF AimInv
<1>3. CASE ~IoStep(g)
  <2>1. Aimed(g)
    <3>1. CASE Leaves(g) /\ pc'[g] # "capture"
      BY <3>1 DEF Leaves, Inside
    <3>2. CASE Sends(g) /\ (pc[g] = "view" => tgt'[g] = Waypoint(idx[g]))
      BY <3>2 DEF Sends, Inside, goalVars
    <3>3. CASE Stops(g)
      BY <3>3 DEF Stops, Inside
    <3>4. CASE Looks(g)
      BY <3>4 DEF Looks, Inside, goalVars, AimInv
    <3>5. QED
      BY <1>3, <3>1, <3>2, <3>3, <3>4, GoalShape DEF Leaves
  <2>2. QED
    BY <1>1, <2>1 DEF AimInv
<1>4. QED
  BY <1>2, <1>3

(* The camera takes the image where the robot stands.                           *)
LEMMA CameraAim ==
  ASSUME IInv, RestInv, AimInv, NEW g \in Goals, CameraAnswers(g)
  PROVE  AimInv'
<1>0. ThreadTypes /\ GoalTypes /\ CallInv
  BY DEF IInv, TypeOK
<1>1. /\ UNCHANGED <<pc, tgt, idx, fromRest>> /\ io[g] = "capSent"
      /\ \A d \in Goals \ {g} : io'[d] = io[d] /\ shot'[d] = shot[d]
      /\ io'[g] \in {"capOk", "capNo"}
      /\ io'[g] = "capOk" => shot'[g] = IF Standing(pos) THEN pos ELSE EnRoute
  BY <1>0 DEF CameraAnswers, Become, goalVars, ThreadTypes, GoalTypes
<1>2. pc[g] = "capture"
  BY <1>0, <1>1 DEF ThreadTypes, CallInv, MoveCalls, StopCalls, Stages
<1>3. ASSUME fromRest[g] PROVE pos = tgt[g] /\ Standing(pos)
  BY <1>2, <1>3, StandingQueued DEF RestInv, There, OnlyTo
<1>4. Inside(g)' => Inside(g)
  BY <1>2 DEF Inside
<1>5. ASSUME NEW d \in Goals \ {g} PROVE Untouched(d)
  BY <1>1 DEF Untouched
<1>6. QED
  BY <1>1, <1>3, <1>4, <1>5, UntouchedAim DEF AimInv

(* Every step keeps it: the thread of execute is the only one that changes what  *)
(* its goal aims at.                                                             *)
LEMMA NextAim == IInv /\ RestInv /\ AimInv /\ [Next]_vars => AimInv'
<1> SUFFICES ASSUME IInv, RestInv, AimInv, [Next]_vars PROVE AimInv'
  OBVIOUS
<1>0. ThreadTypes /\ GoalTypes
  BY DEF IInv, TypeOK
<1>1. ASSUME NEW g \in Goals, GoalStep(g) \/ CameraAnswers(g) PROVE AimInv'
  BY <1>1, GoalAim, CameraAim
<1>2. CASE UNCHANGED <<idx, shot>> /\ \A g \in Goals : Untouched(g)
  BY <1>2, UntouchedAim DEF AimInv
<1>3. CASE Environment /\ ~\E g \in Goals : CameraAnswers(g)
  <2>1. ASSUME NEW t \in Movers, DriverAnswersMove(t) PROVE AimInv'
    <3>1. /\ UNCHANGED <<pc, tgt, idx, shot, fromRest>> /\ io[t] = "moveSent"
          /\ \A g \in Goals : io'[g] = io[g] \/ (g = t /\ io'[g] \in {"moveOk", "moveNo"})
      BY <1>0, <2>1 DEF DriverAnswersMove, Become, goalVars, ThreadTypes
    <3>2. ASSUME NEW g \in Goals PROVE Inside(g)' => Inside(g)
      BY <3>1 DEF Inside
    <3>3. QED
      BY <3>1, <3>2, SameAim DEF AimInv
  <2>2. ASSUME NEW t \in Threads, DriverAnswersStop(t) PROVE AimInv'
    <3>1. /\ UNCHANGED <<pc, tgt, idx, shot, fromRest>> /\ io[t] = "stopSent"
          /\ \A g \in Goals : io'[g] = io[g] \/ (g = t /\ io'[g] = "stopDone")
      BY <1>0, <2>2 DEF DriverAnswersStop, Become, goalVars, ThreadTypes
    <3>2. ASSUME NEW g \in Goals PROVE Inside(g)' => Inside(g)
      BY <3>1 DEF Inside
    <3>3. QED
      BY <3>1, <3>2, SameAim DEF AimInv
  <2>3. CASE ~(\E t \in Movers : DriverAnswersMove(t)) /\ ~(\E t \in Threads : DriverAnswersStop(t))
    <3>1. UNCHANGED <<pc, io, tgt, idx, shot, fromRest>>
      BY <1>3, <2>3 DEF Environment, OnFeedback, BridgeStop, RobotLeaves, RobotArrives, SafetyChanges,
         DriverServesLateMove, goalVars, moveVars
    <3>2. QED
      BY <1>2, <3>1 DEF Untouched
  <2>4. QED
    BY <2>1, <2>2, <2>3
<1>4. CASE Requests \/ ServerStep \/ (\E c \in Callers : CallerStep(c)) \/ UNCHANGED vars
  <2>1. ASSUME NEW c \in Callers,
               \/ \E p \in PoseNames : HandleGoto(c, p)
               \/ \E k \in 1..Jogs, valid \in BOOLEAN : HandleJog(c, k, valid)
               \/ CallerStep(c)
        PROVE  UNCHANGED <<idx, shot>> /\ \A g \in Goals : Untouched(g)
    <3>1. UNCHANGED <<idx, shot>>
      BY <2>1 DEF HandleGoto, HandleJog, CallerStep, CheckSafety, CallerMoves, CallerReturns, IoStep,
         MoveAnswered, MoveUnanswered, Poll, StopReturns, goalVars
    <3>2. CASE IoStep(c)
      BY <1>0, <3>1, <3>2 DEF IoStep, MoveAnswered, MoveUnanswered, Poll, StopReturns, Become, ThreadTypes, Untouched
    <3>3. CASE ~IoStep(c)
      BY <2>1, <3>1, <3>3, CallerShape DEF OthersRest, Untouched
    <3>4. QED
      BY <3>1, <3>2, <3>3
  <2>2. ASSUME \/ \E g \in Goals : HandleCancel(g) \/ \E n \in 0..MaxViews : HandleGoal(g, n)
               \/ ServerStep \/ UNCHANGED vars
        PROVE  UNCHANGED <<idx, shot>> /\ \A g \in Goals : Untouched(g)
    <3>1. UNCHANGED <<idx, shot, tgt, fromRest>> /\ \A g \in Goals : io'[g] = io[g]
      BY <1>0, <2>2 DEF HandleCancel, SendStop, HandleGoal, ServerStep, CancelAccepted, StopReturns, vars,
         goalVars, moveVars, Become, ThreadTypes
    <3>2. \A g \in Goals : pc'[g] = pc[g] \/ pc'[g] = "start"
      BY <1>0, <2>2 DEF HandleCancel, HandleGoal, ServerStep, CancelAccepted, StopReturns, vars, Goto, ThreadTypes
    <3>3. QED
      BY <3>1, <3>2 DEF Untouched
  <2>3. QED
    BY <1>2, <1>4, <2>1, <2>2 DEF Requests
<1>5. QED
  BY <1>1, <1>3, <1>4 DEF Next

LEMMA InitAim == Init => AimInv
  BY DEF Init, AimInv, Inside

(* The k-th sample of an inspection is view k-1, and its image and joint_pos were *)
(* both taken at that view's waypoint if the move to it began at rest, although   *)
(* capture_image and publish_sample read the robot at different times.            *)
THEOREM SamplesAsLabelled == Spec => SampleAsLabelled
<1>1. IInv /\ RestInv /\ AimInv /\ [Next]_vars =>
        [\A g \in Goals : published'[g] # published[g] =>
           LET n == published[g] IN
           /\ SampleOf(g).view = n
           /\ fromRest[g] => SampleOf(g).shot = Waypoint(n) /\ SampleOf(g).joints = Waypoint(n)]_vars
  <2> SUFFICES ASSUME IInv, RestInv, AimInv, [Next]_vars, NEW g \in Goals, published'[g] # published[g]
               PROVE  /\ SampleOf(g).view = published[g]
                      /\ fromRest[g] => /\ SampleOf(g).shot = Waypoint(published[g])
                                        /\ SampleOf(g).joints = Waypoint(published[g])
    OBVIOUS
  <2>1. Captured(g)
    <3>0. published \in [Goals -> 0..MaxViews]
      BY DEF IInv, TypeOK, GoalTypes
    <3>1. PICK d \in Goals : Captured(d)
      BY DEF Next, Environment, Requests, ServerStep, CallerStep, GoalStep, IoStep, OnFeedback, BridgeStop,
         RobotLeaves, RobotArrives, SafetyChanges, DriverAnswersMove, DriverAnswersStop, DriverServesLateMove,
         CameraAnswers, HandleGoto, HandleJog, HandleCancel, HandleGoal, CancelAccepted, StopReturns,
         CheckSafety, CallerMoves, CallerReturns, MoveAnswered, MoveUnanswered, Poll, Start, Stage, EndStage,
         Conclude, View, ViewMoved, CaptureRequest, CaptureFailed, Abort, Cancel, Unwind, goalVars, vars
    <3>2. published' = [published EXCEPT ![d] = @ + 1]
      BY <3>1 DEF Captured
    <3>3. QED
      BY <3>0, <3>1, <3>2
  <2>2. pc[g] = "capture" /\ io[g] = "capOk"
    BY <2>1 DEF Captured
  <2>3. published[g] = idx[g]
    BY DEF IInv, LoopInv
  <2>4. fromRest[g] => shot[g] = Waypoint(idx[g]) /\ fb.pos = Waypoint(idx[g])
    BY <2>2 DEF AimInv, RestInv, Inside, There
  <2>5. QED
    BY <2>3, <2>4 DEF SampleOf
<1>2. QED
  BY <1>1, InitAim, NextAim, RestInvariance, Invariance, PTL DEF Spec, SampleAsLabelled

-------------------------------------------------------------------------------
(* Whose commands are in the robot.                                             *)
NoneOf(g) == \A cmd \in Queued : cmd.by # g

(* The goal's last STOP has been answered, or it has ended with one.             *)
Stopped(g) ==
  \/ pc[g] \in {"fail", "cancel"} /\ io[g] \in {"stopDone", "stopped"}
  \/ status[g] \in {"aborted", "canceled"}

(* A goal whose moves were answered and whose STOPs were heeded has no request in *)
(* flight, and no command in the robot once it has stopped.                       *)
OwnInv ==
  /\ \A cmd \in late : cmd.by \in Goals => cmd.by \in missed
  /\ \A g \in Goals \ missed : Stopped(g) => NoneOf(g)

(* Most steps leave no request behind and add no command.                       *)
LEMMA QuietOwn ==
  ASSUME OwnInv, late' \subseteq late, Queued' \subseteq Queued, missed \subseteq missed',
         \A g \in Goals \ missed' : Stopped(g)' => Stopped(g) \/ NoneOf(g)'
  PROVE  OwnInv'
BY DEF OwnInv, NoneOf

(* A step that leaves the robot's commands, status and the calls alone but for   *)
(* what cannot count as stopped.                                                *)
LEMMA CallOwn ==
  ASSUME OwnInv, NEW t, UNCHANGED <<late, queue, status>>, missed \subseteq missed',
         \A g \in Goals \ {t} : pc'[g] = pc[g] /\ io'[g] = io[g],
         t \in Goals \ missed' /\ pc'[t] \in {"fail", "cancel"} /\ io'[t] \in {"stopDone", "stopped"} => Stopped(t)
  PROVE  OwnInv'
<1>1. Queued' = Queued
  BY DEF Queued
<1>2. QED
  BY <1>1, QuietOwn DEF Stopped

(* execute ends its goal as aborted or canceled only once its STOP has returned. *)
LEMMA GoalOwn ==
  ASSUME IInv, OwnInv, NEW g \in Goals, GoalStep(g), ~IoStep(g)
  PROVE  OwnInv'
<1>1. OthersRest(g) /\ UNCHANGED <<queue, late>>
  BY GoalShape
<1>2. CASE Leaves(g) /\ Concludes(g)
  <2>1. \A d \in Goals : Stopped(d)' => Stopped(d)
    BY <1>1, <1>2 DEF OthersRest, Leaves, Concludes, Stopped
  <2>2. Queued' = Queued /\ UNCHANGED missed
    BY <1>1, <1>2 DEF Queued, Leaves
  <2>3. QED
    BY <1>1, <2>1, <2>2, QuietOwn
<1>3. CASE Sends(g) \/ Stops(g) \/ Looks(g)
  <2>1. UNCHANGED <<missed, status>> /\ io'[g] \notin {"stopDone", "stopped"}
    BY <1>3 DEF Sends, Stops, Looks, goalVars
  <2>2. QED
    BY <1>1, <2>1, CallOwn DEF OthersRest
<1>4. QED
  BY <1>2, <1>3, GoalShape

(* So do the calls: a STOP returns when it is answered, or is noted as unheeded. *)
LEMMA CallsOwn ==
  ASSUME IInv, OwnInv, NEW t \in Threads, Calls(t)
  PROVE  OwnInv'
<1>1. UNCHANGED <<late, queue, status, pc>> /\ missed \subseteq missed'
  BY DEF Calls, goalVars
<1>2. t \in Goals \ missed' /\ pc'[t] \in {"fail", "cancel"} /\ io'[t] \in {"stopDone", "stopped"} => Stopped(t)
  BY <1>1 DEF Calls, Stopped
<1>3. QED
  BY <1>1, <1>2, CallOwn DEF Calls

(* The request that is left behind is one of a goal that is noted.               *)
LEMMA UnansweredOwn ==
  ASSUME IInv, OwnInv, NEW t \in Movers, MoveUnanswered(t)
  PROVE  OwnInv'
<1>0. ThreadTypes
  BY DEF IInv, TypeOK
<1>1. /\ UNCHANGED <<queue, status, pc>> /\ missed' = missed \cup ({t} \cap Goals)
      /\ late' \subseteq late \cup {[by |-> t, to |-> tgt[t]]}
      /\ io' = [io EXCEPT ![t] = "gaveUp"]
  BY DEF MoveUnanswered, Missed, Become, goalVars
<1>2. Queued' = Queued
  BY <1>1 DEF Queued
<1>3. \A g \in Goals : Stopped(g)' => Stopped(g)
  BY <1>0, <1>1 DEF Stopped, ThreadTypes
<1>4. QED
  BY <1>1, <1>2, <1>3 DEF OwnInv, NoneOf

(* The driver takes a move of a goal that has not been stopped.                  *)
LEMMA AnsweredOwn ==
  ASSUME IInv, OwnInv, NEW t \in Movers, DriverAnswersMove(t)
  PROVE  OwnInv'
<1>0. ThreadTypes /\ GoalTypes /\ CallInv /\ LoopInv /\ queue \in Seq(Commands)
  BY DEF IInv, TypeOK, RobotTypes
<1>1. /\ io[t] = "moveSent" /\ UNCHANGED <<pc, tgt, late, status, missed>>
      /\ \E w \in {"moveOk", "moveNo"} : io' = [io EXCEPT ![t] = w]
      /\ queue' = queue \/ queue' = Append(queue, [by |-> t, to |-> tgt[t]])
  BY DEF DriverAnswersMove, Become, Enqueue, goalVars
<1>2. [by |-> t, to |-> tgt[t]] \in Commands
  BY <1>0, <1>1 DEF CallInv, ThreadTypes, Stages, Commands
<1>3. Queued' \subseteq Queued \cup {[by |-> t, to |-> tgt[t]]}
  <2>1. CASE queue' = queue
    BY <2>1 DEF Queued
  <2>2. CASE queue' = Append(queue, [by |-> t, to |-> tgt[t]])
    BY <1>0, <1>2, <2>2, QueuedAppended
  <2>3. QED
    BY <1>1, <2>1, <2>2
<1>4. t \in Goals => ~Stopped(t)'
  BY <1>0, <1>1 DEF Stopped, ThreadTypes, GoalTypes, CallInv, LoopInv, Terminal
<1>5. \A g \in Goals \ {t} : Stopped(g)' => Stopped(g)
  BY <1>0, <1>1 DEF Stopped, ThreadTypes
<1>6. QED
  BY <1>1, <1>3, <1>4, <1>5 DEF OwnInv, NoneOf

(* ... and a late request only of a goal that is noted.                          *)
LEMMA LateOwn ==
  ASSUME IInv, OwnInv, NEW cmd \in late, DriverServesLateMove(cmd)
  PROVE  OwnInv'
<1>0. queue \in Seq(Commands) /\ cmd \in Commands
  BY DEF IInv, TypeOK, RobotTypes
<1>1. /\ UNCHANGED <<pc, io, status, missed>> /\ late' \subseteq late
      /\ queue' = queue \/ queue' = Append(queue, cmd)
  BY DEF DriverServesLateMove, Enqueue, goalVars, moveVars
<1>2. Queued' \subseteq Queued \cup {cmd}
  <2>1. CASE queue' = queue
    BY <2>1 DEF Queued
  <2>2. CASE queue' = Append(queue, cmd)
    BY <1>0, <2>2, QueuedAppended
  <2>3. QED
    BY <1>1, <2>1, <2>2
<1>3. \A g \in Goals : Stopped(g)' => Stopped(g)
  BY <1>1 DEF Stopped
<1>4. QED
  BY <1>1, <1>2, <1>3 DEF OwnInv, NoneOf

(* STOP empties the robot's queue, or is noted as unheeded.                      *)
LEMMA StopOwn ==
  ASSUME IInv, OwnInv, NEW t \in Threads, DriverAnswersStop(t)
  PROVE  OwnInv'
<1>0. ThreadTypes
  BY DEF IInv, TypeOK
<1>1. /\ UNCHANGED <<pc, status, late>> /\ io' = [io EXCEPT ![t] = "stopDone"]
      /\ \/ queue' = <<>> /\ missed' = missed
         \/ missed' = missed \cup ({t} \cap Goals) /\ queue' = queue
  BY DEF DriverAnswersStop, Become, Missed, goalVars
<1>2. CASE queue' = <<>> /\ missed' = missed
  BY <1>1, <1>2, QueuedEmptied DEF OwnInv, NoneOf
<1>3. CASE missed' = missed \cup ({t} \cap Goals) /\ queue' = queue
  BY <1>0, <1>1, <1>3, CallOwn DEF ThreadTypes
<1>4. QED
  BY <1>1, <1>2, <1>3

(* Every step keeps it.                                                         *)
LEMMA NextOwn == IInv /\ OwnInv /\ [Next]_vars => OwnInv'
<1> SUFFICES ASSUME IInv, OwnInv, [Next]_vars PROVE OwnInv'
  OBVIOUS
<1>0. ThreadTypes /\ GoalTypes /\ queue \in Seq(Commands)
  BY DEF IInv, TypeOK, RobotTypes
<1>1. ASSUME NEW t \in Movers, IoStep(t) PROVE OwnInv'
  BY <1>1, IoShape, CallsOwn, UnansweredOwn
<1>2. ASSUME NEW g \in Goals, GoalStep(g) PROVE OwnInv'
  BY <1>1, <1>2, GoalOwn
<1>3. ASSUME NEW c \in Callers,
             \/ \E p \in PoseNames : HandleGoto(c, p)
             \/ \E k \in 1..Jogs, valid \in BOOLEAN : HandleJog(c, k, valid)
             \/ CallerStep(c)
      PROVE  OwnInv'
  <2>1. CASE ~IoStep(c)
    <3>1. OthersRest(c) /\ UNCHANGED <<queue, late, status, missed>>
      BY <1>3, <2>1, CallerShape DEF Leaves, Sends, goalVars
    <3>2. QED
      BY <3>1, CallOwn DEF OthersRest
  <2>2. QED
    BY <1>1, <1>3, <2>1
<1>4. CASE StopReturns(Server)
  BY <1>4, IoShape, CallsOwn DEF IoStep
<1>5. CASE (\E g \in Goals : HandleCancel(g) \/ \E n \in 0..MaxViews : HandleGoal(g, n))
           \/ CancelAccepted \/ UNCHANGED vars
  <2>1. UNCHANGED <<queue, late, missed>> /\ \A g \in Goals : io'[g] = io[g]
    BY <1>0, <1>5 DEF HandleCancel, SendStop, HandleGoal, CancelAccepted, vars, moveVars, robotVars, Become, ThreadTypes
  <2>2. ASSUME NEW g \in Goals
        PROVE  /\ pc'[g] = pc[g] \/ pc'[g] = "start"
               /\ status'[g] = status[g] \/ status'[g] \in {"rejected", "executing", "canceling"}
    BY <1>0, <1>5 DEF HandleCancel, HandleGoal, CancelAccepted, vars, goalVars, Goto, ThreadTypes, GoalTypes
  <2>3. \A g \in Goals : Stopped(g)' => Stopped(g)
    BY <2>1, <2>2 DEF Stopped
  <2>4. Queued' = Queued
    BY <2>1 DEF Queued
  <2>5. QED
    BY <2>1, <2>3, <2>4, QuietOwn
<1>6. CASE OnFeedback \/ BridgeStop \/ RobotLeaves \/ RobotArrives \/ SafetyChanges
  <2>1. UNCHANGED <<pc, io, status, late, missed>> /\ (queue' \in {queue, <<>>} \/ (queue # <<>> /\ queue' = Tail(queue)))
    BY <1>6 DEF OnFeedback, BridgeStop, RobotLeaves, RobotArrives, SafetyChanges, goalVars, moveVars, robotVars
  <2>2. ASSUME queue' \in {queue, <<>>} PROVE Queued' \subseteq Queued
    BY <2>2, QueuedEmptied DEF Queued
  <2>3. ASSUME queue # <<>>, queue' = Tail(queue) PROVE Queued' \subseteq Queued
    BY <1>0, <2>3, QueuedServed
  <2>4. QED
    BY <2>1, <2>2, <2>3, QuietOwn DEF Stopped
<1>7. ASSUME NEW g \in Goals, CameraAnswers(g) PROVE OwnInv'
  <2>1. UNCHANGED <<pc, status, late, queue, missed>> /\ \E w \in {"capOk", "capNo"} : io' = [io EXCEPT ![g] = w]
    BY <1>7 DEF CameraAnswers, Become, goalVars, robotVars
  <2>2. QED
    BY <1>0, <2>1, CallOwn DEF ThreadTypes
<1>8. CASE Environment
  BY <1>6, <1>7, <1>8, AnsweredOwn, StopOwn, LateOwn DEF Environment
<1>9. QED
  BY <1>2, <1>3, <1>4, <1>5, <1>8 DEF Next, Requests, ServerStep

LEMMA InitOwn == Init => OwnInv
  BY DEF Init, OwnInv, Stopped

(* An inspection that has aborted or was canceled has left no motion command in  *)
(* the robot, for any number of callers and goals, unless the driver left one of  *)
(* its moves unanswered or did not heed its STOP.                                 *)
THEOREM AbortsLeaveStill == Spec => []AbortLeavesRobotStill
<1>1. OwnInv => AbortLeavesRobotStill
  BY DEF OwnInv, Stopped, NoneOf, Queued, AbortLeavesRobotStill
<1>2. QED
  BY <1>1, InitOwn, NextOwn, Invariance, PTL DEF Spec
===============================================================================
