------------------------ MODULE InspectionManagerProofs ------------------------
(* Theorems about InspectionManager for every value of its constants.           *)
EXTENDS InspectionManager, FiniteSetTheorems, TLAPS

MoveCalls == {"moveSent", "moveOk", "moveNo", "poll", "reached", "gaveUp"}
StopCalls == {"stopSent", "stopDone", "stopped"}

(* Which call of RobotIoBridge or of the camera a thread can be in, given where *)
(* its handler is, and that a move it has sent has a target.                    *)
CallInv ==
  /\ \A c \in Callers :
       /\ io[c] \in {"none"} \cup MoveCalls \cup StopCalls
       /\ pc[c] # "go" => io[c] = "none"
       /\ pc[c] \in {"check", "go"} => tgt[c] \in Targets
  /\ \A g \in Goals :
       /\ pc[g] \in {"none", "start", "unwind", "end"} => io[g] = "none"
       /\ pc[g] \in Stages \ {"capture"} => io[g] \in {"none"} \cup MoveCalls \cup StopCalls
       /\ pc[g] = "capture" => io[g] \in {"none", "capSent", "capOk", "capNo"}
       /\ pc[g] \in {"fail", "cancel"} => io[g] \in StopCalls
       /\ io[g] = "moveSent" => tgt[g] \in Targets
  /\ io[Server] \in {"none"} \cup StopCalls

(* The counters of execute agree, and where its thread is says how far the view *)
(* loop has come; a goal that has not started has counted nothing.              *)
LoopInv ==
  \A g \in Goals :
    /\ published[g] = idx[g] /\ count[g] = idx[g]
    /\ idx[g] <= views[g]
    /\ pc[g] = "capture" \/ (pc[g] = "view" /\ io[g] # "none") => idx[g] < views[g]
    /\ pc[g] \in {"retreat", "home"} \/ status[g] = "succeeded" => idx[g] = views[g]
    /\ pc[g] \in {"none", "start", "init", "approach", "inspect"} => idx[g] = 0
    /\ status[g] = "none" => pc[g] = "none"
    /\ status[g] \in Terminal => pc[g] \in {"none", "unwind", "end"}

IInv == TypeOK /\ CallInv /\ LoopInv

USE PosesAssumption, BoundsAssumption, IgnoreAssumption, ThreadsAssumption
USE DEF Movers, Threads, Commands

(* What is in Places, and that a target is one.                                 *)
LEMMA PlacesFacts ==
  /\ EnRoute \in Places
  /\ \A p \in PoseNames : Pose(p) \in Targets
  /\ \A i \in 0..MaxViews-1 : Waypoint(i) \in Targets
  /\ \A k \in 1..Jogs : Jogged(k) \in Targets
  /\ Targets \subseteq Places
BY DEF Places, Targets

(* Appending to a queue and taking its head off keep it a sequence.             *)
LEMMA SeqFacts ==
  ASSUME NEW S, NEW q \in Seq(S)
  PROVE  /\ <<>> \in Seq(S)
         /\ \A e \in S : Append(q, e) \in Seq(S)
         /\ q # <<>> => Head(q) \in S /\ Tail(q) \in Seq(S)
OBVIOUS

(* Enqueue, and the other changes of the robot's queue, keep its type.          *)
LEMMA QueueFacts ==
  ASSUME queue \in Seq(Commands)
  PROVE  /\ <<>> \in Seq(Commands)
         /\ \A cmd \in Commands : Append(queue, cmd) \in Seq(Commands)
         /\ queue # <<>> => Head(queue).to \in Targets /\ Tail(queue) \in Seq(Commands)
<1>1. queue # <<>> => Head(queue) \in Commands
  BY SeqFacts
<1>2. QED
  BY <1>1, SeqFacts

(* Going on to another part of execute keeps the types.                          *)
LEMMA ProceedTypes ==
  ASSUME ThreadTypes, NEW g \in Goals, Goals \subseteq Movers, UNCHANGED busy,
         NEW w \in {"none", "start", "fail", "cancel", "unwind", "end"} \cup Stages, Proceed(g, w)
  PROVE  ThreadTypes'
<1>1. /\ pc' = [pc EXCEPT ![g] = w] /\ io' = [io EXCEPT ![g] = "none"]
      /\ tgt' = [tgt EXCEPT ![g] = EnRoute] /\ fromRest' = [fromRest EXCEPT ![g] = FALSE]
      /\ UNCHANGED <<busy, missed>>
  BY DEF Proceed, Goto, Leave, Become
<1>2. QED
  BY <1>1, PlacesFacts DEF ThreadTypes

(* The initial state has no thread at work and no goal.                         *)
LEMMA InitIInv == Init => IInv
<1> SUFFICES ASSUME Init PROVE IInv
  OBVIOUS
<1>1. TypeOK
  <2>1. /\ pc \in [Movers -> {"idle", "none"}]
        /\ \A c \in Callers : pc[c] = "idle"
        /\ \A g \in Goals : pc[g] = "none"
    BY DEF Init
  <2>2. /\ queue \in Seq(Commands) /\ late \in SUBSET Commands /\ missed \in SUBSET Goals
        /\ fb \in [have : BOOLEAN, safe : BOOLEAN, pos : Places]
    BY PlacesFacts DEF Init
  <2>3. /\ busy \in BOOLEAN /\ pos \in Places /\ safe \in BOOLEAN
        /\ canceller \in Goals \cup {NoGoal}
    BY PlacesFacts DEF Init
  <2>4. /\ io \in [Threads -> {"none"}] /\ tgt \in [Movers -> Places]
        /\ fromRest \in [Movers -> BOOLEAN] /\ shot \in [Goals -> Places]
    BY PlacesFacts DEF Init
  <2>5. /\ status \in [Goals -> {"none"}] /\ views \in [Goals -> 0..MaxViews]
        /\ idx \in [Goals -> 0..MaxViews] /\ count \in [Goals -> 0..MaxViews]
        /\ published \in [Goals -> 0..MaxViews] /\ cancelAt \in [Goals -> 0..MaxViews]
    BY DEF Init
  <2>6. QED
    BY <2>1, <2>2, <2>3, <2>4, <2>5 DEF TypeOK, ThreadTypes, GoalTypes, RobotTypes, Stages
<1>2. CallInv
  BY DEF Init, CallInv, Stages
<1>3. LoopInv
  BY DEF Init, LoopInv, Terminal
<1>4. QED
  BY <1>1, <1>2, <1>3 DEF IInv

(* A call of the RobotIoBridge keeps the invariant, whoever made it.             *)
LEMMA IoStepIInv ==
  ASSUME IInv, NEW t \in Movers, IoStep(t)
  PROVE  IInv'
<1> USE DEF IInv, TypeOK
<1>1. CASE MoveAnswered(t)
  <2>0. PICK w \in {"poll", "gaveUp"} : io[t] \in {"moveOk", "moveNo"} /\ io' = [io EXCEPT ![t] = w]
    BY <1>1 DEF MoveAnswered, Become
  <2>1. ThreadTypes'
    BY <1>1, <2>0, PlacesFacts DEF ThreadTypes, CallInv, MoveCalls, StopCalls, goalVars, robotVars, Stages, MoveAnswered
  <2>2. GoalTypes'
    BY <1>1, <2>0, PlacesFacts DEF GoalTypes, LoopInv, Terminal, goalVars, robotVars, Stages, MoveAnswered
  <2>3. RobotTypes'
    BY <1>1, <2>0, PlacesFacts DEF RobotTypes, goalVars, robotVars, Stages, MoveAnswered
  <2>4. CallInv'
    BY <1>1, <2>0, PlacesFacts DEF CallInv, MoveCalls, StopCalls, ThreadTypes, goalVars, robotVars, Stages, MoveAnswered
  <2>5. LoopInv'
    BY <1>1, <2>0, PlacesFacts DEF LoopInv, GoalTypes, ThreadTypes, CallInv, MoveCalls, StopCalls, Terminal, goalVars, robotVars, Stages, MoveAnswered
  <2>6. QED
    BY <2>1, <2>2, <2>3, <2>4, <2>5
<1>2. CASE MoveUnanswered(t)
  <2>1. ThreadTypes'
    BY <1>2, PlacesFacts DEF ThreadTypes, CallInv, MoveCalls, StopCalls, goalVars, robotVars, moveVars, Stages, Goto, Become, MoveUnanswered, Missed
  <2>2. GoalTypes'
    BY <1>2, PlacesFacts DEF GoalTypes, LoopInv, Terminal, goalVars, robotVars, moveVars, Stages, Goto, Become, MoveUnanswered, Missed
  <2>3. RobotTypes'
    <3>1. io[t] = "moveSent" => [by |-> t, to |-> tgt[t]] \in Commands
      BY DEF CallInv, ThreadTypes, Stages
    <3>2. QED
      BY <1>2, <3>1 DEF RobotTypes, robotVars, MoveUnanswered
  <2>4. CallInv'
    BY <1>2, PlacesFacts DEF CallInv, MoveCalls, StopCalls, ThreadTypes, goalVars, robotVars, moveVars, Stages, Goto, Become, MoveUnanswered, Missed
  <2>5. LoopInv'
    BY <1>2, PlacesFacts DEF LoopInv, GoalTypes, ThreadTypes, CallInv, MoveCalls, StopCalls, Terminal, goalVars, robotVars, moveVars, Stages, Goto, Become, MoveUnanswered, Missed
  <2>6. QED
    BY <2>1, <2>2, <2>3, <2>4, <2>5
<1>3. CASE Poll(t)
  <2>1. ThreadTypes'
    BY <1>3, PlacesFacts DEF ThreadTypes, CallInv, MoveCalls, StopCalls, goalVars, robotVars, moveVars, Stages, Goto, Become, Poll
  <2>2. GoalTypes'
    BY <1>3, PlacesFacts DEF GoalTypes, LoopInv, Terminal, goalVars, robotVars, moveVars, Stages, Goto, Become, Poll
  <2>3. RobotTypes'
    BY <1>3, PlacesFacts DEF RobotTypes, goalVars, robotVars, moveVars, Stages, Goto, Become, Poll
  <2>4. CallInv'
    BY <1>3, PlacesFacts DEF CallInv, MoveCalls, StopCalls, ThreadTypes, goalVars, robotVars, moveVars, Stages, Goto, Become, Poll
  <2>5. LoopInv'
    BY <1>3, PlacesFacts DEF LoopInv, GoalTypes, ThreadTypes, CallInv, MoveCalls, StopCalls, Terminal, goalVars, robotVars, moveVars, Stages, Goto, Become, Poll
  <2>6. QED
    BY <2>1, <2>2, <2>3, <2>4, <2>5
<1>4. CASE StopReturns(t)
  <2>1. ThreadTypes'
    BY <1>4, PlacesFacts DEF ThreadTypes, CallInv, MoveCalls, StopCalls, goalVars, robotVars, moveVars, Stages, Goto, Become, StopReturns, Missed
  <2>2. GoalTypes'
    BY <1>4, PlacesFacts DEF GoalTypes, LoopInv, Terminal, goalVars, robotVars, moveVars, Stages, Goto, Become, StopReturns, Missed
  <2>3. RobotTypes'
    BY <1>4, PlacesFacts DEF RobotTypes, goalVars, robotVars, moveVars, Stages, Goto, Become, StopReturns, Missed
  <2>4. CallInv'
    BY <1>4, PlacesFacts DEF CallInv, MoveCalls, StopCalls, ThreadTypes, goalVars, robotVars, moveVars, Stages, Goto, Become, StopReturns, Missed
  <2>5. LoopInv'
    BY <1>4, PlacesFacts DEF LoopInv, GoalTypes, ThreadTypes, CallInv, MoveCalls, StopCalls, Terminal, goalVars, robotVars, moveVars, Stages, Goto, Become, StopReturns, Missed
  <2>6. QED
    BY <2>1, <2>2, <2>3, <2>4, <2>5
<1> HIDE DEF IInv
<1>5. QED
  BY <1>1, <1>2, <1>3, <1>4 DEF IoStep

(* A service handler keeps the invariant.                                        *)
LEMMA CallerIInv ==
  ASSUME IInv, NEW c \in Callers,
         \/ \E p \in PoseNames : HandleGoto(c, p)
         \/ \E k \in 1..Jogs, valid \in BOOLEAN : HandleJog(c, k, valid)
         \/ CheckSafety(c) \/ CallerMoves(c) \/ CallerReturns(c)
  PROVE  IInv'
<1> USE DEF IInv, TypeOK
<1>1. ASSUME NEW p \in PoseNames, HandleGoto(c, p) PROVE IInv'
  <2>1. ThreadTypes'
    BY <1>1, PlacesFacts DEF ThreadTypes, CallInv, MoveCalls, StopCalls, goalVars, robotVars, moveVars, Stages, Goto, Become, HandleGoto
  <2>2. GoalTypes'
    BY <1>1, PlacesFacts DEF GoalTypes, LoopInv, Terminal, goalVars, robotVars, moveVars, Stages, Goto, Become, HandleGoto
  <2>3. RobotTypes'
    BY <1>1, PlacesFacts DEF RobotTypes, goalVars, robotVars, moveVars, Stages, Goto, Become, HandleGoto
  <2>4. CallInv'
    BY <1>1, PlacesFacts DEF CallInv, MoveCalls, StopCalls, ThreadTypes, goalVars, robotVars, moveVars, Stages, Goto, Become, HandleGoto
  <2>5. LoopInv'
    BY <1>1, PlacesFacts DEF LoopInv, GoalTypes, ThreadTypes, CallInv, MoveCalls, StopCalls, Terminal, goalVars, robotVars, moveVars, Stages, Goto, Become, HandleGoto
  <2>6. QED
    BY <2>1, <2>2, <2>3, <2>4, <2>5
<1>2. ASSUME NEW k \in 1..Jogs, NEW valid \in BOOLEAN, HandleJog(c, k, valid) PROVE IInv'
  <2>1. ThreadTypes'
    BY <1>2, PlacesFacts DEF ThreadTypes, CallInv, MoveCalls, StopCalls, goalVars, robotVars, moveVars, Stages, Goto, Become, HandleJog
  <2>2. GoalTypes'
    BY <1>2, PlacesFacts DEF GoalTypes, LoopInv, Terminal, goalVars, robotVars, moveVars, Stages, Goto, Become, HandleJog
  <2>3. RobotTypes'
    BY <1>2, PlacesFacts DEF RobotTypes, goalVars, robotVars, moveVars, Stages, Goto, Become, HandleJog
  <2>4. CallInv'
    BY <1>2, PlacesFacts DEF CallInv, MoveCalls, StopCalls, ThreadTypes, goalVars, robotVars, moveVars, Stages, Goto, Become, HandleJog
  <2>5. LoopInv'
    BY <1>2, PlacesFacts DEF LoopInv, GoalTypes, ThreadTypes, CallInv, MoveCalls, StopCalls, Terminal, goalVars, robotVars, moveVars, Stages, Goto, Become, HandleJog
  <2>6. QED
    BY <2>1, <2>2, <2>3, <2>4, <2>5
<1>3. CASE CheckSafety(c)
  <2>1. ThreadTypes'
    BY <1>3, PlacesFacts DEF ThreadTypes, CallInv, MoveCalls, StopCalls, goalVars, robotVars, moveVars, Stages, Goto, Become, CheckSafety
  <2>2. GoalTypes'
    BY <1>3, PlacesFacts DEF GoalTypes, LoopInv, Terminal, goalVars, robotVars, moveVars, Stages, Goto, Become, CheckSafety
  <2>3. RobotTypes'
    BY <1>3, PlacesFacts DEF RobotTypes, goalVars, robotVars, moveVars, Stages, Goto, Become, CheckSafety
  <2>4. CallInv'
    BY <1>3, PlacesFacts DEF CallInv, MoveCalls, StopCalls, ThreadTypes, goalVars, robotVars, moveVars, Stages, Goto, Become, CheckSafety
  <2>5. LoopInv'
    BY <1>3, PlacesFacts DEF LoopInv, GoalTypes, ThreadTypes, CallInv, MoveCalls, StopCalls, Terminal, goalVars, robotVars, moveVars, Stages, Goto, Become, CheckSafety
  <2>6. QED
    BY <2>1, <2>2, <2>3, <2>4, <2>5
<1>4. CASE CallerMoves(c)
  <2>1. ThreadTypes'
    BY <1>4, PlacesFacts DEF ThreadTypes, CallInv, MoveCalls, StopCalls, goalVars, robotVars, moveVars, Stages, Goto, Become, CallerMoves, SendMove, AtRest
  <2>2. GoalTypes'
    BY <1>4, PlacesFacts DEF GoalTypes, LoopInv, Terminal, goalVars, robotVars, moveVars, Stages, Goto, Become, CallerMoves, SendMove, AtRest
  <2>3. RobotTypes'
    BY <1>4, PlacesFacts DEF RobotTypes, goalVars, robotVars, moveVars, Stages, Goto, Become, CallerMoves, SendMove, AtRest
  <2>4. CallInv'
    BY <1>4, PlacesFacts DEF CallInv, MoveCalls, StopCalls, ThreadTypes, goalVars, robotVars, moveVars, Stages, Goto, Become, CallerMoves, SendMove, AtRest
  <2>5. LoopInv'
    BY <1>4, PlacesFacts DEF LoopInv, GoalTypes, ThreadTypes, CallInv, MoveCalls, StopCalls, Terminal, goalVars, robotVars, moveVars, Stages, Goto, Become, CallerMoves, SendMove, AtRest
  <2>6. QED
    BY <2>1, <2>2, <2>3, <2>4, <2>5
<1>5. CASE CallerReturns(c)
  <2>1. ThreadTypes'
    BY <1>5, PlacesFacts DEF ThreadTypes, CallInv, MoveCalls, StopCalls, goalVars, robotVars, moveVars, Stages, Goto, Become, CallerReturns, Leave
  <2>2. GoalTypes'
    BY <1>5, PlacesFacts DEF GoalTypes, LoopInv, Terminal, goalVars, robotVars, moveVars, Stages, Goto, Become, CallerReturns, Leave
  <2>3. RobotTypes'
    BY <1>5, PlacesFacts DEF RobotTypes, goalVars, robotVars, moveVars, Stages, Goto, Become, CallerReturns, Leave
  <2>4. CallInv'
    BY <1>5, PlacesFacts DEF CallInv, MoveCalls, StopCalls, ThreadTypes, goalVars, robotVars, moveVars, Stages, Goto, Become, CallerReturns, Leave
  <2>5. LoopInv'
    BY <1>5, PlacesFacts DEF LoopInv, GoalTypes, ThreadTypes, CallInv, MoveCalls, StopCalls, Terminal, goalVars, robotVars, moveVars, Stages, Goto, Become, CallerReturns, Leave
  <2>6. QED
    BY <2>1, <2>2, <2>3, <2>4, <2>5
<1> HIDE DEF IInv
<1>6. QED
  BY <1>1, <1>2, <1>3, <1>4, <1>5

(* The action server keeps the invariant.                                        *)
LEMMA ServerIInv ==
  ASSUME IInv,
         \/ \E g \in Goals, n \in 0..MaxViews : HandleGoal(g, n)
         \/ \E g \in Goals : HandleCancel(g)
         \/ ServerStep
  PROVE  IInv'
<1> USE DEF IInv, TypeOK
<1>1. ASSUME NEW g \in Goals, NEW n \in 0..MaxViews, HandleGoal(g, n) PROVE IInv'
  <2>1. CASE n = 0 \/ "inspect" \notin Poses \/ busy
    <3>1. ThreadTypes'
      BY <1>1, <2>1, PlacesFacts DEF ThreadTypes, CallInv, MoveCalls, StopCalls, goalVars, robotVars, moveVars, Stages, Goto, Become, HandleGoal
    <3>2. GoalTypes'
      BY <1>1, <2>1, PlacesFacts DEF GoalTypes, LoopInv, Terminal, goalVars, robotVars, moveVars, Stages, Goto, Become, HandleGoal
    <3>3. RobotTypes'
      BY <1>1, <2>1, PlacesFacts DEF RobotTypes, goalVars, robotVars, moveVars, Stages, Goto, Become, HandleGoal
    <3>4. CallInv'
      BY <1>1, <2>1, PlacesFacts DEF CallInv, MoveCalls, StopCalls, ThreadTypes, goalVars, robotVars, moveVars, Stages, Goto, Become, HandleGoal
    <3>5. LoopInv'
      BY <1>1, <2>1, PlacesFacts DEF LoopInv, GoalTypes, ThreadTypes, CallInv, MoveCalls, StopCalls, Terminal, goalVars, robotVars, moveVars, Stages, Goto, Become, HandleGoal
    <3>6. QED
      BY <3>1, <3>2, <3>3, <3>4, <3>5
  <2>2. CASE ~(n = 0 \/ "inspect" \notin Poses \/ busy)
    <3>1. ThreadTypes'
      BY <1>1, <2>2, PlacesFacts DEF ThreadTypes, CallInv, MoveCalls, StopCalls, goalVars, robotVars, moveVars, Stages, Goto, Become, HandleGoal
    <3>2. GoalTypes'
      BY <1>1, <2>2, PlacesFacts DEF GoalTypes, LoopInv, Terminal, goalVars, robotVars, moveVars, Stages, Goto, Become, HandleGoal
    <3>3. RobotTypes'
      BY <1>1, <2>2, PlacesFacts DEF RobotTypes, goalVars, robotVars, moveVars, Stages, Goto, Become, HandleGoal
    <3>4. CallInv'
      <4>1. pc' = [pc EXCEPT ![g] = "start"] /\ io[g] = "none"
        BY <1>1, <2>2 DEF HandleGoal, Goto, LoopInv, CallInv
      <4>2. QED
        BY <1>1, <4>1 DEF CallInv, MoveCalls, StopCalls, ThreadTypes, moveVars, Stages, HandleGoal
    <3>5. LoopInv'
      BY <1>1, <2>2, PlacesFacts DEF LoopInv, GoalTypes, ThreadTypes, CallInv, MoveCalls, StopCalls, Terminal, goalVars, robotVars, moveVars, Stages, Goto, Become, HandleGoal
    <3>6. QED
      BY <3>1, <3>2, <3>3, <3>4, <3>5
  <2>3. QED
    BY <2>1, <2>2
<1>2. ASSUME NEW g \in Goals, HandleCancel(g) PROVE IInv'
  <2>1. ThreadTypes'
    BY <1>2, PlacesFacts DEF ThreadTypes, CallInv, MoveCalls, StopCalls, goalVars, robotVars, moveVars, Stages, Goto, Become, HandleCancel, SendStop
  <2>2. GoalTypes'
    BY <1>2, PlacesFacts DEF GoalTypes, LoopInv, Terminal, goalVars, robotVars, moveVars, Stages, Goto, Become, HandleCancel, SendStop
  <2>3. RobotTypes'
    BY <1>2, PlacesFacts DEF RobotTypes, goalVars, robotVars, moveVars, Stages, Goto, Become, HandleCancel, SendStop
  <2>4. CallInv'
    BY <1>2, PlacesFacts DEF CallInv, MoveCalls, StopCalls, ThreadTypes, goalVars, robotVars, moveVars, Stages, Goto, Become, HandleCancel, SendStop
  <2>5. LoopInv'
    BY <1>2, PlacesFacts DEF LoopInv, GoalTypes, ThreadTypes, CallInv, MoveCalls, StopCalls, Terminal, goalVars, robotVars, moveVars, Stages, Goto, Become, HandleCancel, SendStop
  <2>6. QED
    BY <2>1, <2>2, <2>3, <2>4, <2>5
<1>3. CASE CancelAccepted
  <2>1. CASE status[canceller] = "executing"
    <3>1. ThreadTypes'
      BY <1>3, <2>1, PlacesFacts DEF ThreadTypes, CallInv, MoveCalls, StopCalls, goalVars, robotVars, moveVars, Stages, Goto, Become, CancelAccepted
    <3>2. GoalTypes'
      BY <1>3, <2>1, PlacesFacts DEF GoalTypes, LoopInv, Terminal, goalVars, robotVars, moveVars, Stages, Goto, Become, CancelAccepted
    <3>3. RobotTypes'
      BY <1>3, <2>1, PlacesFacts DEF RobotTypes, goalVars, robotVars, moveVars, Stages, Goto, Become, CancelAccepted
    <3>4. CallInv'
      BY <1>3, <2>1, PlacesFacts DEF CallInv, MoveCalls, StopCalls, ThreadTypes, goalVars, robotVars, moveVars, Stages, Goto, Become, CancelAccepted
    <3>5. LoopInv'
      BY <1>3, <2>1, PlacesFacts DEF LoopInv, GoalTypes, ThreadTypes, CallInv, MoveCalls, StopCalls, Terminal, goalVars, robotVars, moveVars, Stages, Goto, Become, CancelAccepted
    <3>6. QED
      BY <3>1, <3>2, <3>3, <3>4, <3>5
  <2>2. CASE status[canceller] # "executing"
    <3>1. ThreadTypes'
      BY <1>3, <2>2, PlacesFacts DEF ThreadTypes, CallInv, MoveCalls, StopCalls, goalVars, robotVars, moveVars, Stages, Goto, Become, CancelAccepted
    <3>2. GoalTypes'
      BY <1>3, <2>2, PlacesFacts DEF GoalTypes, LoopInv, Terminal, goalVars, robotVars, moveVars, Stages, Goto, Become, CancelAccepted
    <3>3. RobotTypes'
      BY <1>3, <2>2, PlacesFacts DEF RobotTypes, goalVars, robotVars, moveVars, Stages, Goto, Become, CancelAccepted
    <3>4. CallInv'
      BY <1>3, <2>2, PlacesFacts DEF CallInv, MoveCalls, StopCalls, ThreadTypes, goalVars, robotVars, moveVars, Stages, Goto, Become, CancelAccepted
    <3>5. LoopInv'
      BY <1>3, <2>2, PlacesFacts DEF LoopInv, GoalTypes, ThreadTypes, CallInv, MoveCalls, StopCalls, Terminal, goalVars, robotVars, moveVars, Stages, Goto, Become, CancelAccepted
    <3>6. QED
      BY <3>1, <3>2, <3>3, <3>4, <3>5
  <2>3. QED
    BY <2>1, <2>2
<1>4. CASE StopReturns(Server)
  <2>1. ThreadTypes'
    BY <1>4, PlacesFacts DEF ThreadTypes, CallInv, MoveCalls, StopCalls, goalVars, robotVars, moveVars, Stages, Goto, Become, StopReturns, Missed
  <2>2. GoalTypes'
    BY <1>4, PlacesFacts DEF GoalTypes, LoopInv, Terminal, goalVars, robotVars, moveVars, Stages, Goto, Become, StopReturns, Missed
  <2>3. RobotTypes'
    BY <1>4, PlacesFacts DEF RobotTypes, goalVars, robotVars, moveVars, Stages, Goto, Become, StopReturns, Missed
  <2>4. CallInv'
    BY <1>4, PlacesFacts DEF CallInv, MoveCalls, StopCalls, ThreadTypes, goalVars, robotVars, moveVars, Stages, Goto, Become, StopReturns, Missed
  <2>5. LoopInv'
    BY <1>4, PlacesFacts DEF LoopInv, GoalTypes, ThreadTypes, CallInv, MoveCalls, StopCalls, Terminal, goalVars, robotVars, moveVars, Stages, Goto, Become, StopReturns, Missed
  <2>6. QED
    BY <2>1, <2>2, <2>3, <2>4, <2>5
<1> HIDE DEF IInv
<1>5. QED
  BY <1>1, <1>2, <1>3, <1>4 DEF ServerStep

(* Ending a stage of execute: to the next stage, or to success after HOME.       *)
LEMMA EndStageIInv ==
  ASSUME IInv, NEW g \in Goals, pc[g] \in {"init", "approach", "inspect", "retreat", "home"},
         EndStage(g), UNCHANGED <<busy, robotVars, fb, shot>>
  PROVE  IInv'
<1> USE DEF IInv, TypeOK
<1>1. CASE pc[g] = "home"
  <2>1. ThreadTypes'
    BY <1>1, ProceedTypes DEF EndStage, Conclude
  <2>2. GoalTypes'
    BY <1>1, PlacesFacts DEF GoalTypes, LoopInv, Terminal, goalVars, robotVars, moveVars, Stages, Goto, Become, EndStage, Conclude, Proceed, Leave
  <2>3. RobotTypes'
    BY <1>1, PlacesFacts DEF RobotTypes, goalVars, robotVars, moveVars, Stages, Goto, Become, EndStage, Conclude, Proceed, Leave
  <2>4. CallInv'
    BY <1>1, PlacesFacts DEF CallInv, MoveCalls, StopCalls, ThreadTypes, goalVars, robotVars, moveVars, Stages, Goto, Become, EndStage, Conclude, Proceed, Leave
  <2>5. LoopInv'
    BY <1>1, PlacesFacts DEF LoopInv, GoalTypes, ThreadTypes, CallInv, MoveCalls, StopCalls, Terminal, goalVars, robotVars, moveVars, Stages, Goto, Become, EndStage, Conclude, Proceed, Leave
  <2>6. QED
    BY <2>1, <2>2, <2>3, <2>4, <2>5
<1>2. CASE pc[g] # "home"
  <2>0. PICK w \in {"approach", "inspect", "view", "home"} :
            /\ pc' = [pc EXCEPT ![g] = w] /\ io' = [io EXCEPT ![g] = "none"]
            /\ tgt' = [tgt EXCEPT ![g] = EnRoute] /\ fromRest' = [fromRest EXCEPT ![g] = FALSE]
            /\ UNCHANGED missed /\ UNCHANGED goalVars
            /\ w = "home" <=> pc[g] = "retreat"
      BY <1>2 DEF EndStage, Proceed, Leave, Goto, Become, After
  <2>1. ThreadTypes'
    BY <1>2, <2>0, PlacesFacts DEF ThreadTypes, CallInv, MoveCalls, StopCalls, goalVars, robotVars, Stages
  <2>2. GoalTypes'
    BY <1>2, <2>0, PlacesFacts DEF GoalTypes, LoopInv, Terminal, goalVars, robotVars, Stages
  <2>3. RobotTypes'
    BY <1>2, <2>0, PlacesFacts DEF RobotTypes, goalVars, robotVars, Stages
  <2>4. CallInv'
    BY <1>2, <2>0, PlacesFacts DEF CallInv, MoveCalls, StopCalls, ThreadTypes, goalVars, robotVars, Stages
  <2>5. LoopInv'
    BY <1>2, <2>0, PlacesFacts DEF LoopInv, GoalTypes, ThreadTypes, CallInv, MoveCalls, StopCalls, Terminal, goalVars, robotVars, Stages
  <2>6. QED
    BY <2>1, <2>2, <2>3, <2>4, <2>5
<1>3. QED
  BY <1>1, <1>2

(* fail() keeps the invariant.                                                   *)
LEMMA FailIInv ==
  ASSUME IInv, NEW g \in Goals, pc[g] \in {"start"} \cup Stages, Fail(g),
         shot' \in [Goals -> Places], UNCHANGED <<busy, goalVars, robotVars, fb>>
  PROVE  IInv'
<1> USE DEF IInv, TypeOK
<1>1. ThreadTypes'
  BY PlacesFacts DEF ThreadTypes, CallInv, MoveCalls, StopCalls, goalVars, robotVars, moveVars, Stages, Goto, Become, Fail, SendStop
<1>2. GoalTypes'
  BY PlacesFacts DEF GoalTypes, LoopInv, Terminal, goalVars, robotVars, moveVars, Stages, Goto, Become, Fail, SendStop
<1>3. RobotTypes'
  BY PlacesFacts DEF RobotTypes, goalVars, robotVars, moveVars, Stages, Goto, Become, Fail, SendStop
<1>4. CallInv'
  BY PlacesFacts DEF CallInv, MoveCalls, StopCalls, ThreadTypes, goalVars, robotVars, moveVars, Stages, Goto, Become, Fail, SendStop
<1>5. LoopInv'
  BY PlacesFacts DEF LoopInv, GoalTypes, ThreadTypes, CallInv, MoveCalls, StopCalls, Terminal, goalVars, robotVars, moveVars, Stages, Goto, Become, Fail, SendStop
<1>6. QED
  BY <1>1, <1>2, <1>3, <1>4, <1>5

(* The thread of execute keeps the invariant.                                    *)
LEMMA GoalIInv ==
  ASSUME IInv, NEW g \in Goals,
         \/ Start(g) \/ Stage(g) \/ View(g) \/ ViewMoved(g)
         \/ CaptureRequest(g) \/ Captured(g) \/ CaptureFailed(g)
         \/ Abort(g) \/ Cancel(g) \/ Unwind(g)
  PROVE  IInv'
<1>0. ASSUME Fail(g), pc[g] \in {"start"} \cup Stages, shot' \in [Goals -> Places],
             UNCHANGED <<busy, goalVars, robotVars, fb>>
      PROVE  IInv'
  BY <1>0, FailIInv
<1>00. shot \in [Goals -> Places]
  BY DEF IInv, TypeOK, GoalTypes
<1> USE DEF IInv, TypeOK
<1>1. CASE Start(g)
  <2>1. CASE SafetyOk
    <3>1. ThreadTypes'
      BY <1>1, <2>1, ProceedTypes DEF Start, Stages
    <3>2. GoalTypes'
      BY <1>1, <2>1, PlacesFacts DEF GoalTypes, LoopInv, Terminal, goalVars, robotVars, moveVars, Stages, Goto, Become, Start, Proceed, Leave
    <3>3. RobotTypes'
      BY <1>1, <2>1, PlacesFacts DEF RobotTypes, goalVars, robotVars, moveVars, Stages, Goto, Become, Start, Proceed, Leave
    <3>4. CallInv'
      BY <1>1, <2>1, PlacesFacts DEF CallInv, MoveCalls, StopCalls, ThreadTypes, goalVars, robotVars, moveVars, Stages, Goto, Become, Start, Proceed, Leave
    <3>5. LoopInv'
      BY <1>1, <2>1, PlacesFacts DEF LoopInv, GoalTypes, ThreadTypes, CallInv, MoveCalls, StopCalls, Terminal, goalVars, robotVars, moveVars, Stages, Goto, Become, Start, Proceed, Leave
    <3>6. QED
      BY <3>1, <3>2, <3>3, <3>4, <3>5
  <2>2. CASE ~SafetyOk
    <3> HIDE DEF IInv
    <3>1. QED
      BY <1>0, <1>00, <1>1, <2>2 DEF Start, Stages
  <2>3. QED
    BY <2>1, <2>2
<1>2. CASE Stage(g)
  <2>1. CASE io[g] = "none" /\ pc[g] \in Poses /\ SendMove(g, Pose(pc[g])) /\ UNCHANGED <<goalVars, pc>>
    <3>1. ThreadTypes'
      BY <1>2, <2>1, PlacesFacts DEF ThreadTypes, CallInv, MoveCalls, StopCalls, goalVars, robotVars, moveVars, Stages, Goto, Become, Stage, SendMove, AtRest, PoseNames
    <3>2. GoalTypes'
      BY <1>2, <2>1, PlacesFacts DEF GoalTypes, LoopInv, Terminal, goalVars, robotVars, moveVars, Stages, Goto, Become, Stage, SendMove, AtRest, PoseNames
    <3>3. RobotTypes'
      BY <1>2, <2>1, PlacesFacts DEF RobotTypes, goalVars, robotVars, moveVars, Stages, Goto, Become, Stage, SendMove, AtRest, PoseNames
    <3>4. CallInv'
      BY <1>2, <2>1, PlacesFacts DEF CallInv, MoveCalls, StopCalls, ThreadTypes, goalVars, robotVars, moveVars, Stages, Goto, Become, Stage, SendMove, AtRest, PoseNames
    <3>5. LoopInv'
      BY <1>2, <2>1, PlacesFacts DEF LoopInv, GoalTypes, ThreadTypes, CallInv, MoveCalls, StopCalls, Terminal, goalVars, robotVars, moveVars, Stages, Goto, Become, Stage, SendMove, AtRest, PoseNames
    <3>6. QED
      BY <3>1, <3>2, <3>3, <3>4, <3>5
  <2>2. CASE EndStage(g)
    <3> HIDE DEF IInv
    <3>1. QED
      BY <1>2, <2>2, EndStageIInv DEF Stage
  <2>3. CASE Fail(g) /\ UNCHANGED goalVars
    <3> HIDE DEF IInv
    <3>1. QED
      BY <1>0, <1>00, <1>2, <2>3 DEF Stage, Stages
  <2>4. QED
    BY <1>2, <2>1, <2>2, <2>3 DEF Stage
<1>3. CASE View(g)
  <2>1. CASE idx[g] = views[g]
    <3>1. ThreadTypes'
      BY <1>3, <2>1, ProceedTypes DEF View, Stages
    <3>2. GoalTypes'
      BY <1>3, <2>1, PlacesFacts DEF GoalTypes, LoopInv, Terminal, goalVars, robotVars, moveVars, Stages, Goto, Become, View, Proceed, Leave
    <3>3. RobotTypes'
      BY <1>3, <2>1, PlacesFacts DEF RobotTypes, goalVars, robotVars, moveVars, Stages, Goto, Become, View, Proceed, Leave
    <3>4. CallInv'
      BY <1>3, <2>1, PlacesFacts DEF CallInv, MoveCalls, StopCalls, ThreadTypes, goalVars, robotVars, moveVars, Stages, Goto, Become, View, Proceed, Leave
    <3>5. LoopInv'
      BY <1>3, <2>1, PlacesFacts DEF LoopInv, GoalTypes, ThreadTypes, CallInv, MoveCalls, StopCalls, Terminal, goalVars, robotVars, moveVars, Stages, Goto, Become, View, Proceed, Leave
    <3>6. QED
      BY <3>1, <3>2, <3>3, <3>4, <3>5
  <2>2. CASE idx[g] # views[g] /\ status[g] = "canceling"
    <3>1. ThreadTypes'
      BY <1>3, <2>2, PlacesFacts DEF ThreadTypes, CallInv, MoveCalls, StopCalls, goalVars, robotVars, moveVars, Stages, Goto, Become, View, SendStop
    <3>2. GoalTypes'
      BY <1>3, <2>2, PlacesFacts DEF GoalTypes, LoopInv, Terminal, goalVars, robotVars, moveVars, Stages, Goto, Become, View, SendStop
    <3>3. RobotTypes'
      BY <1>3, <2>2, PlacesFacts DEF RobotTypes, goalVars, robotVars, moveVars, Stages, Goto, Become, View, SendStop
    <3>4. CallInv'
      BY <1>3, <2>2, PlacesFacts DEF CallInv, MoveCalls, StopCalls, ThreadTypes, goalVars, robotVars, moveVars, Stages, Goto, Become, View, SendStop
    <3>5. LoopInv'
      BY <1>3, <2>2, PlacesFacts DEF LoopInv, GoalTypes, ThreadTypes, CallInv, MoveCalls, StopCalls, Terminal, goalVars, robotVars, moveVars, Stages, Goto, Become, View, SendStop
    <3>6. QED
      BY <3>1, <3>2, <3>3, <3>4, <3>5
  <2>3. CASE idx[g] # views[g] /\ status[g] # "canceling"
    <3>0. /\ pc[g] = "view" /\ io[g] = "none" /\ idx[g] \in 0..MaxViews-1 /\ idx[g] < views[g]
          /\ Waypoint(idx[g]) \in Targets
          /\ SendMove(g, Waypoint(idx[g])) /\ UNCHANGED <<pc, busy, goalVars, robotVars, fb, shot>>
      BY <1>3, <2>3, PlacesFacts DEF View, GoalTypes, LoopInv
    <3>1. ThreadTypes'
      BY <3>0, PlacesFacts DEF ThreadTypes, CallInv, MoveCalls, StopCalls, goalVars, robotVars, moveVars, Stages, Goto, Become, SendMove, AtRest
    <3>2. GoalTypes'
      BY <3>0, PlacesFacts DEF GoalTypes, LoopInv, Terminal, goalVars, robotVars, moveVars, Stages, Goto, Become, SendMove, AtRest
    <3>3. RobotTypes'
      BY <3>0, PlacesFacts DEF RobotTypes, goalVars, robotVars, moveVars, Stages, Goto, Become, SendMove, AtRest
    <3>4. CallInv'
      BY <3>0, PlacesFacts DEF CallInv, MoveCalls, StopCalls, ThreadTypes, goalVars, robotVars, moveVars, Stages, Goto, Become, SendMove, AtRest
    <3>5. LoopInv'
      BY <3>0, PlacesFacts DEF LoopInv, GoalTypes, ThreadTypes, CallInv, MoveCalls, StopCalls, Terminal, goalVars, robotVars, moveVars, Stages, Goto, Become, SendMove, AtRest
    <3>6. QED
      BY <3>1, <3>2, <3>3, <3>4, <3>5
  <2>4. QED
    BY <2>1, <2>2, <2>3
<1>4. CASE ViewMoved(g)
  <2>1. CASE io[g] = "reached"
    <3>1. ThreadTypes'
      BY <1>4, <2>1, PlacesFacts DEF ThreadTypes, CallInv, MoveCalls, StopCalls, goalVars, robotVars, moveVars, Stages, Goto, Become, ViewMoved, ToCapture
    <3>2. GoalTypes'
      BY <1>4, <2>1, PlacesFacts DEF GoalTypes, LoopInv, Terminal, goalVars, robotVars, moveVars, Stages, Goto, Become, ViewMoved, ToCapture
    <3>3. RobotTypes'
      BY <1>4, <2>1, PlacesFacts DEF RobotTypes, goalVars, robotVars, moveVars, Stages, Goto, Become, ViewMoved, ToCapture
    <3>4. CallInv'
      BY <1>4, <2>1, PlacesFacts DEF CallInv, MoveCalls, StopCalls, ThreadTypes, goalVars, robotVars, moveVars, Stages, Goto, Become, ViewMoved, ToCapture
    <3>5. LoopInv'
      BY <1>4, <2>1, PlacesFacts DEF LoopInv, GoalTypes, ThreadTypes, CallInv, MoveCalls, StopCalls, Terminal, goalVars, robotVars, moveVars, Stages, Goto, Become, ViewMoved, ToCapture
    <3>6. QED
      BY <3>1, <3>2, <3>3, <3>4, <3>5
  <2>2. CASE io[g] = "gaveUp"
    <3> HIDE DEF IInv
    <3>1. QED
      BY <1>0, <1>00, <1>4, <2>2 DEF ViewMoved, Stages
  <2>3. QED
    BY <1>4, <2>1, <2>2 DEF ViewMoved
<1>5. CASE CaptureRequest(g)
  <2>1. CASE Become(g, "capSent") /\ UNCHANGED <<tgt, fromRest, missed, pc>>
    <3>1. ThreadTypes'
      BY <1>5, <2>1, PlacesFacts DEF ThreadTypes, CallInv, MoveCalls, StopCalls, goalVars, robotVars, moveVars, Stages, Goto, Become, CaptureRequest
    <3>2. GoalTypes'
      BY <1>5, <2>1, PlacesFacts DEF GoalTypes, LoopInv, Terminal, goalVars, robotVars, moveVars, Stages, Goto, Become, CaptureRequest
    <3>3. RobotTypes'
      BY <1>5, <2>1, PlacesFacts DEF RobotTypes, goalVars, robotVars, moveVars, Stages, Goto, Become, CaptureRequest
    <3>4. CallInv'
      BY <1>5, <2>1, PlacesFacts DEF CallInv, MoveCalls, StopCalls, ThreadTypes, goalVars, robotVars, moveVars, Stages, Goto, Become, CaptureRequest
    <3>5. LoopInv'
      BY <1>5, <2>1, PlacesFacts DEF LoopInv, GoalTypes, ThreadTypes, CallInv, MoveCalls, StopCalls, Terminal, goalVars, robotVars, moveVars, Stages, Goto, Become, CaptureRequest
    <3>6. QED
      BY <3>1, <3>2, <3>3, <3>4, <3>5
  <2>2. CASE Fail(g)
    <3> HIDE DEF IInv
    <3>1. QED
      BY <1>0, <1>00, <1>5, <2>2 DEF CaptureRequest, Stages
  <2>3. QED
    BY <1>5, <2>1, <2>2 DEF CaptureRequest
<1>6. CASE Captured(g)
  <2>1. ThreadTypes'
    BY <1>6, PlacesFacts DEF ThreadTypes, CallInv, MoveCalls, StopCalls, goalVars, robotVars, moveVars, Stages, Goto, Become, Captured, Proceed, Leave
  <2>2. GoalTypes'
    BY <1>6, PlacesFacts DEF GoalTypes, LoopInv, Terminal, goalVars, robotVars, moveVars, Stages, Goto, Become, Captured, Proceed, Leave
  <2>3. RobotTypes'
    BY <1>6, PlacesFacts DEF RobotTypes, goalVars, robotVars, moveVars, Stages, Goto, Become, Captured, Proceed, Leave
  <2>4. CallInv'
    BY <1>6, PlacesFacts DEF CallInv, MoveCalls, StopCalls, ThreadTypes, goalVars, robotVars, moveVars, Stages, Goto, Become, Captured, Proceed, Leave
  <2>5. LoopInv'
    BY <1>6, PlacesFacts DEF LoopInv, GoalTypes, ThreadTypes, CallInv, MoveCalls, StopCalls, Terminal, goalVars, robotVars, moveVars, Stages, Goto, Become, Captured, Proceed, Leave
  <2>6. QED
    BY <2>1, <2>2, <2>3, <2>4, <2>5
<1>7. CASE CaptureFailed(g)
  <2>1. shot' \in [Goals -> Places]
    BY <1>00, <1>7, PlacesFacts DEF CaptureFailed
  <2> HIDE DEF IInv
  <2>2. QED
    BY <1>0, <1>7, <2>1 DEF CaptureFailed, Stages
<1>8. CASE Abort(g)
  <2>1. ThreadTypes'
    BY <1>8, PlacesFacts DEF ThreadTypes, CallInv, MoveCalls, StopCalls, goalVars, robotVars, moveVars, Stages, Goto, Become, Abort, Conclude, Proceed, Leave
  <2>2. GoalTypes'
    BY <1>8, PlacesFacts DEF GoalTypes, LoopInv, Terminal, goalVars, robotVars, moveVars, Stages, Goto, Become, Abort, Conclude, Proceed, Leave
  <2>3. RobotTypes'
    BY <1>8, PlacesFacts DEF RobotTypes, goalVars, robotVars, moveVars, Stages, Goto, Become, Abort, Conclude, Proceed, Leave
  <2>4. CallInv'
    BY <1>8, PlacesFacts DEF CallInv, MoveCalls, StopCalls, ThreadTypes, goalVars, robotVars, moveVars, Stages, Goto, Become, Abort, Conclude, Proceed, Leave
  <2>5. LoopInv'
    BY <1>8, PlacesFacts DEF LoopInv, GoalTypes, ThreadTypes, CallInv, MoveCalls, StopCalls, Terminal, goalVars, robotVars, moveVars, Stages, Goto, Become, Abort, Conclude, Proceed, Leave
  <2>6. QED
    BY <2>1, <2>2, <2>3, <2>4, <2>5
<1>9. CASE Cancel(g)
  <2>1. ThreadTypes'
    BY <1>9, PlacesFacts DEF ThreadTypes, CallInv, MoveCalls, StopCalls, goalVars, robotVars, moveVars, Stages, Goto, Become, Cancel, Conclude, Proceed, Leave
  <2>2. GoalTypes'
    BY <1>9, PlacesFacts DEF GoalTypes, LoopInv, Terminal, goalVars, robotVars, moveVars, Stages, Goto, Become, Cancel, Conclude, Proceed, Leave
  <2>3. RobotTypes'
    BY <1>9, PlacesFacts DEF RobotTypes, goalVars, robotVars, moveVars, Stages, Goto, Become, Cancel, Conclude, Proceed, Leave
  <2>4. CallInv'
    BY <1>9, PlacesFacts DEF CallInv, MoveCalls, StopCalls, ThreadTypes, goalVars, robotVars, moveVars, Stages, Goto, Become, Cancel, Conclude, Proceed, Leave
  <2>5. LoopInv'
    BY <1>9, PlacesFacts DEF LoopInv, GoalTypes, ThreadTypes, CallInv, MoveCalls, StopCalls, Terminal, goalVars, robotVars, moveVars, Stages, Goto, Become, Cancel, Conclude, Proceed, Leave
  <2>6. QED
    BY <2>1, <2>2, <2>3, <2>4, <2>5
<1>10. CASE Unwind(g)
  <2>1. ThreadTypes'
    BY <1>10, PlacesFacts DEF ThreadTypes, CallInv, MoveCalls, StopCalls, goalVars, robotVars, moveVars, Stages, Goto, Become, Unwind
  <2>2. GoalTypes'
    BY <1>10, PlacesFacts DEF GoalTypes, LoopInv, Terminal, goalVars, robotVars, moveVars, Stages, Goto, Become, Unwind
  <2>3. RobotTypes'
    BY <1>10, PlacesFacts DEF RobotTypes, goalVars, robotVars, moveVars, Stages, Goto, Become, Unwind
  <2>4. CallInv'
    BY <1>10, PlacesFacts DEF CallInv, MoveCalls, StopCalls, ThreadTypes, goalVars, robotVars, moveVars, Stages, Goto, Become, Unwind
  <2>5. LoopInv'
    BY <1>10, PlacesFacts DEF LoopInv, GoalTypes, ThreadTypes, CallInv, MoveCalls, StopCalls, Terminal, goalVars, robotVars, moveVars, Stages, Goto, Become, Unwind
  <2>6. QED
    BY <2>1, <2>2, <2>3, <2>4, <2>5
<1> HIDE DEF IInv
<1>11. QED
  BY <1>1, <1>2, <1>3, <1>4, <1>5, <1>6, <1>7, <1>8, <1>9, <1>10

(* What is outside the node keeps the invariant.                                 *)
LEMMA EnvironmentIInv ==
  ASSUME IInv, Environment
  PROVE  IInv'
<1> USE DEF IInv, TypeOK
<1>1. CASE OnFeedback
  <2>1. ThreadTypes'
    BY <1>1, PlacesFacts DEF ThreadTypes, CallInv, MoveCalls, StopCalls, goalVars, robotVars, moveVars, Stages, Goto, Become, OnFeedback
  <2>2. GoalTypes'
    BY <1>1, PlacesFacts DEF GoalTypes, LoopInv, Terminal, goalVars, robotVars, moveVars, Stages, Goto, Become, OnFeedback
  <2>3. RobotTypes'
    BY <1>1, PlacesFacts DEF RobotTypes, goalVars, robotVars, moveVars, Stages, Goto, Become, OnFeedback
  <2>4. CallInv'
    BY <1>1, PlacesFacts DEF CallInv, MoveCalls, StopCalls, ThreadTypes, goalVars, robotVars, moveVars, Stages, Goto, Become, OnFeedback
  <2>5. LoopInv'
    BY <1>1, PlacesFacts DEF LoopInv, GoalTypes, ThreadTypes, CallInv, MoveCalls, StopCalls, Terminal, goalVars, robotVars, moveVars, Stages, Goto, Become, OnFeedback
  <2>6. QED
    BY <2>1, <2>2, <2>3, <2>4, <2>5
<1>2. CASE BridgeStop
  <2>1. ThreadTypes'
    BY <1>2, PlacesFacts DEF ThreadTypes, CallInv, MoveCalls, StopCalls, goalVars, robotVars, moveVars, Stages, Goto, Become, BridgeStop
  <2>2. GoalTypes'
    BY <1>2, PlacesFacts DEF GoalTypes, LoopInv, Terminal, goalVars, robotVars, moveVars, Stages, Goto, Become, BridgeStop
  <2>3. RobotTypes'
    BY <1>2, PlacesFacts DEF RobotTypes, goalVars, robotVars, moveVars, Stages, Goto, Become, BridgeStop
  <2>4. CallInv'
    BY <1>2, PlacesFacts DEF CallInv, MoveCalls, StopCalls, ThreadTypes, goalVars, robotVars, moveVars, Stages, Goto, Become, BridgeStop
  <2>5. LoopInv'
    BY <1>2, PlacesFacts DEF LoopInv, GoalTypes, ThreadTypes, CallInv, MoveCalls, StopCalls, Terminal, goalVars, robotVars, moveVars, Stages, Goto, Become, BridgeStop
  <2>6. QED
    BY <2>1, <2>2, <2>3, <2>4, <2>5
<1>3. CASE RobotLeaves
  <2>1. ThreadTypes'
    BY <1>3, PlacesFacts DEF ThreadTypes, CallInv, MoveCalls, StopCalls, goalVars, robotVars, moveVars, Stages, Goto, Become, RobotLeaves
  <2>2. GoalTypes'
    BY <1>3, PlacesFacts DEF GoalTypes, LoopInv, Terminal, goalVars, robotVars, moveVars, Stages, Goto, Become, RobotLeaves
  <2>3. RobotTypes'
    BY <1>3, PlacesFacts DEF RobotTypes, goalVars, robotVars, moveVars, Stages, Goto, Become, RobotLeaves
  <2>4. CallInv'
    BY <1>3, PlacesFacts DEF CallInv, MoveCalls, StopCalls, ThreadTypes, goalVars, robotVars, moveVars, Stages, Goto, Become, RobotLeaves
  <2>5. LoopInv'
    BY <1>3, PlacesFacts DEF LoopInv, GoalTypes, ThreadTypes, CallInv, MoveCalls, StopCalls, Terminal, goalVars, robotVars, moveVars, Stages, Goto, Become, RobotLeaves
  <2>6. QED
    BY <2>1, <2>2, <2>3, <2>4, <2>5
<1>4. CASE RobotArrives
  <2>1. ThreadTypes'
    BY <1>4, PlacesFacts DEF ThreadTypes, CallInv, MoveCalls, StopCalls, goalVars, robotVars, moveVars, Stages, Goto, Become, RobotArrives
  <2>2. GoalTypes'
    BY <1>4, PlacesFacts DEF GoalTypes, LoopInv, Terminal, goalVars, robotVars, moveVars, Stages, Goto, Become, RobotArrives
  <2>3. RobotTypes'
    <3>1. /\ pos' = Head(queue).to /\ queue' = Tail(queue) /\ queue # <<>>
          /\ UNCHANGED <<fb, safe, late>>
      BY <1>4 DEF RobotArrives
    <3>2. queue \in Seq(Commands)
      BY DEF RobotTypes
    <3>3. pos' \in Places /\ queue' \in Seq(Commands)
      BY <3>1, <3>2, QueueFacts, PlacesFacts
    <3>4. QED
      BY <3>1, <3>3 DEF RobotTypes
  <2>4. CallInv'
    BY <1>4, PlacesFacts DEF CallInv, MoveCalls, StopCalls, ThreadTypes, goalVars, robotVars, moveVars, Stages, Goto, Become, RobotArrives
  <2>5. LoopInv'
    BY <1>4, PlacesFacts DEF LoopInv, GoalTypes, ThreadTypes, CallInv, MoveCalls, StopCalls, Terminal, goalVars, robotVars, moveVars, Stages, Goto, Become, RobotArrives
  <2>6. QED
    BY <2>1, <2>2, <2>3, <2>4, <2>5
<1>5. CASE SafetyChanges
  <2>1. ThreadTypes'
    BY <1>5, PlacesFacts DEF ThreadTypes, CallInv, MoveCalls, StopCalls, goalVars, robotVars, moveVars, Stages, Goto, Become, SafetyChanges
  <2>2. GoalTypes'
    BY <1>5, PlacesFacts DEF GoalTypes, LoopInv, Terminal, goalVars, robotVars, moveVars, Stages, Goto, Become, SafetyChanges
  <2>3. RobotTypes'
    BY <1>5, QueueFacts DEF RobotTypes, robotVars, SafetyChanges
  <2>4. CallInv'
    BY <1>5, PlacesFacts DEF CallInv, MoveCalls, StopCalls, ThreadTypes, goalVars, robotVars, moveVars, Stages, Goto, Become, SafetyChanges
  <2>5. LoopInv'
    BY <1>5, PlacesFacts DEF LoopInv, GoalTypes, ThreadTypes, CallInv, MoveCalls, StopCalls, Terminal, goalVars, robotVars, moveVars, Stages, Goto, Become, SafetyChanges
  <2>6. QED
    BY <2>1, <2>2, <2>3, <2>4, <2>5
<1>6. ASSUME NEW t \in Movers, DriverAnswersMove(t) PROVE IInv'
  <2>1. ThreadTypes'
    BY <1>6, PlacesFacts DEF ThreadTypes, CallInv, MoveCalls, StopCalls, goalVars, robotVars, moveVars, Stages, Goto, Become, DriverAnswersMove, Enqueue
  <2>2. GoalTypes'
    BY <1>6, PlacesFacts DEF GoalTypes, LoopInv, Terminal, goalVars, robotVars, moveVars, Stages, Goto, Become, DriverAnswersMove, Enqueue
  <2>3. RobotTypes'
    <3>1. io[t] = "moveSent" => [by |-> t, to |-> tgt[t]] \in Commands
      BY DEF CallInv, ThreadTypes, Stages
    <3>2. QED
      BY <1>6, <3>1, QueueFacts DEF RobotTypes, DriverAnswersMove, Enqueue
  <2>4. CallInv'
    BY <1>6, PlacesFacts DEF CallInv, MoveCalls, StopCalls, ThreadTypes, goalVars, robotVars, moveVars, Stages, Goto, Become, DriverAnswersMove, Enqueue
  <2>5. LoopInv'
    BY <1>6, PlacesFacts DEF LoopInv, GoalTypes, ThreadTypes, CallInv, MoveCalls, StopCalls, Terminal, goalVars, robotVars, moveVars, Stages, Goto, Become, DriverAnswersMove, Enqueue
  <2>6. QED
    BY <2>1, <2>2, <2>3, <2>4, <2>5
<1>7. ASSUME NEW t \in Threads, DriverAnswersStop(t) PROVE IInv'
  <2>1. ThreadTypes'
    BY <1>7, PlacesFacts DEF ThreadTypes, CallInv, MoveCalls, StopCalls, goalVars, robotVars, moveVars, Stages, Goto, Become, DriverAnswersStop, Missed
  <2>2. GoalTypes'
    BY <1>7, PlacesFacts DEF GoalTypes, LoopInv, Terminal, goalVars, robotVars, moveVars, Stages, Goto, Become, DriverAnswersStop, Missed
  <2>3. RobotTypes'
    BY <1>7, QueueFacts DEF RobotTypes, robotVars, DriverAnswersStop, Missed
  <2>4. CallInv'
    BY <1>7, PlacesFacts DEF CallInv, MoveCalls, StopCalls, ThreadTypes, goalVars, robotVars, moveVars, Stages, Goto, Become, DriverAnswersStop, Missed
  <2>5. LoopInv'
    BY <1>7, PlacesFacts DEF LoopInv, GoalTypes, ThreadTypes, CallInv, MoveCalls, StopCalls, Terminal, goalVars, robotVars, moveVars, Stages, Goto, Become, DriverAnswersStop, Missed
  <2>6. QED
    BY <2>1, <2>2, <2>3, <2>4, <2>5
<1>8. ASSUME NEW cmd \in late, DriverServesLateMove(cmd) PROVE IInv'
  <2>1. ThreadTypes'
    BY <1>8, PlacesFacts DEF ThreadTypes, CallInv, MoveCalls, StopCalls, goalVars, robotVars, moveVars, Stages, Goto, Become, DriverServesLateMove, Enqueue
  <2>2. GoalTypes'
    BY <1>8, PlacesFacts DEF GoalTypes, LoopInv, Terminal, goalVars, robotVars, moveVars, Stages, Goto, Become, DriverServesLateMove, Enqueue
  <2>3. RobotTypes'
    BY <1>8, QueueFacts DEF RobotTypes, robotVars, DriverServesLateMove, Enqueue
  <2>4. CallInv'
    BY <1>8, PlacesFacts DEF CallInv, MoveCalls, StopCalls, ThreadTypes, goalVars, robotVars, moveVars, Stages, Goto, Become, DriverServesLateMove, Enqueue
  <2>5. LoopInv'
    BY <1>8, PlacesFacts DEF LoopInv, GoalTypes, ThreadTypes, CallInv, MoveCalls, StopCalls, Terminal, goalVars, robotVars, moveVars, Stages, Goto, Become, DriverServesLateMove, Enqueue
  <2>6. QED
    BY <2>1, <2>2, <2>3, <2>4, <2>5
<1>9. ASSUME NEW g \in Goals, CameraAnswers(g) PROVE IInv'
  <2>1. ThreadTypes'
    BY <1>9, PlacesFacts DEF ThreadTypes, CallInv, MoveCalls, StopCalls, goalVars, robotVars, moveVars, Stages, Goto, Become, CameraAnswers, Standing
  <2>2. GoalTypes'
    <3>1. pos \in Places /\ EnRoute \in Places
      BY PlacesFacts DEF RobotTypes
    <3>2. shot' \in [Goals -> Places]
      BY <1>9, <3>1 DEF GoalTypes, CameraAnswers
    <3>3. QED
      BY <1>9, <3>2 DEF GoalTypes, goalVars, CameraAnswers
  <2>3. RobotTypes'
    BY <1>9, PlacesFacts DEF RobotTypes, goalVars, robotVars, moveVars, Stages, Goto, Become, CameraAnswers, Standing
  <2>4. CallInv'
    BY <1>9, PlacesFacts DEF CallInv, MoveCalls, StopCalls, ThreadTypes, goalVars, robotVars, moveVars, Stages, Goto, Become, CameraAnswers, Standing
  <2>5. LoopInv'
    BY <1>9, PlacesFacts DEF LoopInv, GoalTypes, ThreadTypes, CallInv, MoveCalls, StopCalls, Terminal, goalVars, robotVars, moveVars, Stages, Goto, Become, CameraAnswers, Standing
  <2>6. QED
    BY <2>1, <2>2, <2>3, <2>4, <2>5
<1> HIDE DEF IInv
<1>10. QED
  BY <1>1, <1>2, <1>3, <1>4, <1>5, <1>6, <1>7, <1>8, <1>9 DEF Environment

(* Every step preserves the invariant.                                          *)
LEMMA NextIInv == IInv /\ [Next]_vars => IInv'
<1> SUFFICES ASSUME IInv, [Next]_vars PROVE IInv'
  OBVIOUS
<1>1. CASE Environment
  BY <1>1, EnvironmentIInv
<1>2. CASE Requests
  BY <1>2, CallerIInv, ServerIInv DEF Requests
<1>3. CASE ServerStep
  BY <1>3, ServerIInv
<1>4. ASSUME NEW c \in Callers, CallerStep(c) PROVE IInv'
  BY <1>4, CallerIInv, IoStepIInv DEF CallerStep
<1>5. ASSUME NEW g \in Goals, GoalStep(g) PROVE IInv'
  BY <1>5, GoalIInv, IoStepIInv DEF GoalStep
<1>6. CASE UNCHANGED vars
  BY <1>6 DEF IInv, TypeOK, ThreadTypes, GoalTypes, RobotTypes, CallInv, LoopInv, vars, goalVars, moveVars, robotVars
<1>7. QED
  BY <1>1, <1>2, <1>3, <1>4, <1>5, <1>6 DEF Next

(* The types, the calls and the view counters are invariant.                     *)
THEOREM Invariance == Spec => []IInv
  BY InitIInv, NextIInv, PTL DEF Spec

(* TypeOK: every variable of the node and of the robot keeps its type.           *)
THEOREM TypeCorrect == Spec => []TypeOK
  BY Invariance, PTL DEF IInv

(* ResultCountsSamples: image_count of a concluded inspection is the number of   *)
(* samples it published (and of views, when it succeeded).                       *)
THEOREM ResultsCount == Spec => []ResultCountsSamples
<1>1. IInv => ResultCountsSamples
  BY DEF IInv, LoopInv, ResultCountsSamples
<1>2. QED
  BY Invariance, <1>1, PTL

-------------------------------------------------------------------------------
(* The slot.  A step changes who holds it and who commands a motion in one of    *)
(* five ways.                                                                    *)
SameHolders == busy' = busy /\ \A t \in Movers : Holds(t)' <=> Holds(t)
SameMoving  == \A t \in Movers : Moving(t)' <=> Moving(t)
OthersHold(t) == \A u \in Movers \ {t} : Holds(u)' <=> Holds(u)
OthersMove(t) == \A u \in Movers \ {t} : Moving(u)' <=> Moving(u)

Nothing   == SameHolders /\ SameMoving
Commands1(t) == SameHolders /\ OthersMove(t) /\ Holds(t) /\ ~Moving(t) /\ Moving(t)'
Settles(t)   == SameHolders /\ OthersMove(t) /\ Moving(t) /\ ~Moving(t)'
Takes(t)     == SameMoving /\ OthersHold(t) /\ ~busy /\ busy' /\ Holds(t)'
Returns(t)   == SameMoving /\ OthersHold(t) /\ Holds(t) /\ ~Moving(t) /\ ~Holds(t)' /\ ~busy'

Effect == Nothing \/ \E t \in Movers : Commands1(t) \/ Settles(t) \/ Takes(t) \/ Returns(t)

(* A thread with a motion command out holds the slot.                           *)
LEMMA MovingHolds ==
  ASSUME IInv, NEW t \in Movers, Moving(t)
  PROVE  Holds(t)
BY DEF IInv, TypeOK, ThreadTypes, CallInv, Moving, Holds

(* A step that leaves busy, and pc and io of the movers, alone.                  *)
LEMMA QuietEffect ==
  ASSUME UNCHANGED <<busy, pc>>, \A t \in Movers : io'[t] = io[t]
  PROVE  Effect
BY DEF Effect, Nothing, SameHolders, SameMoving, Holds, Moving

(* A call of the RobotIoBridge leaves the slot alone and only ends a motion.    *)
LEMMA IoStepEffect ==
  ASSUME IInv, NEW t \in Movers, IoStep(t)
  PROVE  Effect
<1> USE DEF IInv, TypeOK, ThreadTypes
<1>1. SameHolders /\ OthersMove(t)
  BY DEF IoStep, MoveAnswered, MoveUnanswered, Poll, StopReturns, Become, SameHolders, OthersMove, Holds, Moving
<1>2. ASSUME Moving(t)' PROVE Moving(t)
  BY <1>2 DEF IoStep, MoveAnswered, MoveUnanswered, Poll, StopReturns, Become, Moving
<1>3. QED
  BY <1>1, <1>2 DEF Effect, Nothing, Settles, SameMoving, OthersMove, Moving

(* A service handler takes the free slot, commands, or gives its slot back.     *)
LEMMA CallerEffect ==
  ASSUME IInv, NEW c \in Callers,
         \/ \E p \in PoseNames : HandleGoto(c, p)
         \/ \E k \in 1..Jogs, valid \in BOOLEAN : HandleJog(c, k, valid)
         \/ CallerStep(c)
  PROVE  Effect
<1> USE DEF IInv, TypeOK, ThreadTypes, Goto, Become
<1>1. ASSUME NEW p \in PoseNames, HandleGoto(c, p) PROVE Takes(c)
  BY <1>1 DEF HandleGoto, Takes, SameMoving, OthersHold, Holds, Moving
<1>2. ASSUME NEW k \in 1..Jogs, NEW valid \in BOOLEAN, HandleJog(c, k, valid) PROVE Takes(c)
  BY <1>2 DEF HandleJog, Takes, SameMoving, OthersHold, Holds, Moving
<1>3. CASE CheckSafety(c)
  BY <1>3 DEF CheckSafety, moveVars, Effect, Nothing, SameHolders, SameMoving, Holds, Moving
<1>4. CASE CallerMoves(c)
  <2>1. Commands1(c)
    BY <1>4 DEF CallerMoves, SendMove, Commands1, SameHolders, OthersMove, Holds, Moving
  <2>2. QED
    BY <2>1 DEF Effect
<1>5. CASE CallerReturns(c)
  <2>1. Returns(c)
    BY <1>5 DEF CallerReturns, Leave, Returns, SameMoving, OthersHold, Holds, Moving, CallInv
  <2>2. QED
    BY <2>1 DEF Effect
<1>6. CASE IoStep(c)
  BY <1>6, IoStepEffect
<1> HIDE DEF IInv
<1>7. QED
  BY <1>1, <1>2, <1>3, <1>4, <1>5, <1>6 DEF Effect, CallerStep

(* handle_goal takes the free slot for its goal; handle_cancel leaves it alone. *)
LEMMA ServerEffect ==
  ASSUME IInv,
         \/ \E g \in Goals, n \in 0..MaxViews : HandleGoal(g, n)
         \/ \E g \in Goals : HandleCancel(g)
         \/ ServerStep
  PROVE  Effect
<1> USE DEF IInv, TypeOK, ThreadTypes, Goto, Become
<1>1. ASSUME NEW g \in Goals, NEW n \in 0..MaxViews, HandleGoal(g, n) PROVE Effect
  <2>1. CASE n = 0 \/ "inspect" \notin Poses \/ busy
    BY <1>1, <2>1 DEF HandleGoal, moveVars, Effect, Nothing, SameHolders, SameMoving, Holds, Moving
  <2>2. CASE ~(n = 0 \/ "inspect" \notin Poses \/ busy)
    <3>1. Takes(g)
      BY <1>1, <2>2 DEF HandleGoal, moveVars, Takes, SameMoving, OthersHold, Holds, Moving
    <3>2. QED
      BY <3>1 DEF Effect
  <2>3. QED
    BY <2>1, <2>2
<1>2. ASSUME NEW g \in Goals, HandleCancel(g) PROVE Effect
  BY <1>2 DEF HandleCancel, SendStop, Effect, Nothing, SameHolders, SameMoving, Holds, Moving
<1>3. CASE CancelAccepted
  BY <1>3 DEF CancelAccepted, Effect, Nothing, SameHolders, SameMoving, Holds, Moving
<1>4. CASE StopReturns(Server)
  BY <1>4 DEF StopReturns, Effect, Nothing, SameHolders, SameMoving, Holds, Moving
<1> HIDE DEF IInv
<1>5. QED
  BY <1>1, <1>2, <1>3, <1>4 DEF ServerStep

(* A step of execute that stays in execute, and out of a move.                   *)
LEMMA InsideEffect ==
  ASSUME IInv, NEW g \in Goals, pc[g] \notin {"none", "end"}, ~Moving(g), UNCHANGED busy,
         NEW w \in {"fail", "cancel", "unwind"} \cup Stages, pc' = [pc EXCEPT ![g] = w],
         NEW i \in {"none", "stopSent", "capSent"}, io' = [io EXCEPT ![g] = i]
  PROVE  Effect
BY DEF IInv, TypeOK, ThreadTypes, Stages, Effect, Nothing, SameHolders, SameMoving, Holds, Moving

(* execute commands while it holds the slot, and gives it back in its guard.    *)
LEMMA GoalEffect ==
  ASSUME IInv, NEW g \in Goals, GoalStep(g)
  PROVE  Effect
<1>0. IInv /\ ThreadTypes /\ CallInv
  BY DEF IInv, TypeOK
<1>1. CASE Start(g)
  BY <1>0, <1>1, InsideEffect DEF Start, Proceed, Leave, Fail, SendStop, Goto, Become, CallInv, Moving, Stages
<1>2. CASE Stage(g)
  <2>1. CASE SendMove(g, Pose(pc[g])) /\ UNCHANGED pc /\ io[g] = "none"
    <3>1. Commands1(g)
      BY <1>0, <1>2, <2>1 DEF Stage, SendMove, Become, ThreadTypes, Commands1, SameHolders, OthersMove, Holds, Moving
    <3>2. QED
      BY <3>1 DEF Effect
  <2>2. CASE EndStage(g)
    <3>1. PICK w \in {"approach", "inspect", "view", "home", "unwind"} :
             pc' = [pc EXCEPT ![g] = w] /\ io' = [io EXCEPT ![g] = "none"]
      BY <1>2, <2>2 DEF Stage, EndStage, Conclude, Proceed, Leave, Goto, Become, After
    <3>2. QED
      BY <1>0, <1>2, <3>1, InsideEffect DEF Stage, Moving, Stages
  <2>3. CASE Fail(g) /\ io[g] = "gaveUp"
    BY <1>0, <1>2, <2>3, InsideEffect DEF Stage, Fail, SendStop, Goto, Become, Moving
  <2>4. QED
    BY <1>2, <2>1, <2>2, <2>3 DEF Stage
<1>3. CASE View(g)
  <2>1. CASE SendMove(g, Waypoint(idx[g])) /\ UNCHANGED pc
    <3>1. Commands1(g)
      BY <1>0, <1>3, <2>1 DEF View, SendMove, Become, ThreadTypes, Commands1, SameHolders, OthersMove, Holds, Moving
    <3>2. QED
      BY <3>1 DEF Effect
  <2>2. CASE Proceed(g, "retreat")
    BY <1>0, <1>3, <2>2, InsideEffect DEF View, Proceed, Leave, Goto, Become, Moving, Stages
  <2>3. CASE Goto(g, "cancel") /\ SendStop(g)
    BY <1>0, <1>3, <2>3, InsideEffect DEF View, SendStop, Goto, Become, Moving
  <2>4. QED
    BY <1>3, <2>1, <2>2, <2>3 DEF View
<1>4. CASE ViewMoved(g)
  BY <1>0, <1>4, InsideEffect DEF ViewMoved, ToCapture, Fail, SendStop, Goto, Become, Moving, Stages
<1>5. CASE CaptureRequest(g)
  <2>1. CASE Become(g, "capSent") /\ UNCHANGED pc
    BY <1>0, <1>5, <2>1 DEF CaptureRequest, Become, ThreadTypes, Effect, Nothing, SameHolders, SameMoving, Holds, Moving
  <2>2. CASE Fail(g)
    BY <1>0, <1>5, <2>2, InsideEffect DEF CaptureRequest, Fail, SendStop, Goto, Become, Moving
  <2>3. QED
    BY <1>5, <2>1, <2>2 DEF CaptureRequest
<1>6. CASE Captured(g)
  BY <1>0, <1>6, InsideEffect DEF Captured, Proceed, Leave, Goto, Become, Moving, Stages
<1>7. CASE CaptureFailed(g)
  BY <1>0, <1>7, InsideEffect DEF CaptureFailed, Fail, SendStop, Goto, Become, Moving
<1>8. CASE Abort(g)
  BY <1>0, <1>8, InsideEffect DEF Abort, Conclude, Proceed, Leave, Goto, Become, Moving
<1>9. CASE Cancel(g)
  BY <1>0, <1>9, InsideEffect DEF Cancel, Conclude, Proceed, Leave, Goto, Become, Moving
<1>10. CASE Unwind(g)
  <2>1. Returns(g)
    BY <1>0, <1>10 DEF Unwind, moveVars, Goto, ThreadTypes, CallInv, Returns, SameMoving, OthersHold, Holds, Moving
  <2>2. QED
    BY <2>1 DEF Effect
<1>11. CASE IoStep(g)
  BY <1>11, IoStepEffect
<1>12. QED
  BY <1>1, <1>2, <1>3, <1>4, <1>5, <1>6, <1>7, <1>8, <1>9, <1>10, <1>11 DEF GoalStep

(* What is outside the node does not touch the slot.                            *)
LEMMA EnvironmentEffect ==
  ASSUME IInv, Environment
  PROVE  Effect
<1>1. CASE OnFeedback \/ BridgeStop \/ RobotLeaves \/ RobotArrives \/ SafetyChanges
  BY <1>1, QuietEffect DEF OnFeedback, BridgeStop, RobotLeaves, RobotArrives, SafetyChanges, moveVars
<1>2. ASSUME NEW t \in Movers, DriverAnswersMove(t) PROVE Effect
  <2>1. SameHolders /\ OthersMove(t) /\ Moving(t)
    BY <1>2 DEF IInv, TypeOK, ThreadTypes, DriverAnswersMove, Become, SameHolders, OthersMove, Holds, Moving
  <2>2. QED
    BY <2>1 DEF Effect, Nothing, Settles, SameMoving, OthersMove
<1>3. ASSUME NEW t \in Threads, DriverAnswersStop(t) PROVE Effect
  BY <1>3 DEF IInv, TypeOK, ThreadTypes, DriverAnswersStop, Become, Effect, Nothing, SameHolders, SameMoving, Holds, Moving
<1>4. ASSUME NEW cmd \in late, DriverServesLateMove(cmd) PROVE Effect
  BY <1>4, QuietEffect DEF DriverServesLateMove, moveVars
<1>5. ASSUME NEW g \in Goals, CameraAnswers(g) PROVE Effect
  BY <1>5 DEF IInv, TypeOK, ThreadTypes, CameraAnswers, Become, Effect, Nothing, SameHolders, SameMoving, Holds, Moving
<1>6. QED
  BY <1>1, <1>2, <1>3, <1>4, <1>5 DEF Environment

(* Every step has one of the effects the abstract slot allows.                  *)
LEMMA NextEffect == IInv /\ [Next]_vars => Effect
<1> SUFFICES ASSUME IInv, [Next]_vars PROVE Effect
  OBVIOUS
<1>1. CASE Environment
  BY <1>1, EnvironmentEffect
<1>2. CASE Requests
  BY <1>2, CallerEffect, ServerEffect DEF Requests
<1>3. CASE ServerStep
  BY <1>3, ServerEffect
<1>4. ASSUME NEW c \in Callers, CallerStep(c) PROVE Effect
  BY <1>4, CallerEffect
<1>5. ASSUME NEW g \in Goals, GoalStep(g) PROVE Effect
  BY <1>5, GoalEffect
<1>6. CASE UNCHANGED vars
  BY <1>6, QuietEffect DEF vars, moveVars
<1>7. QED
  BY <1>1, <1>2, <1>3, <1>4, <1>5, <1>6 DEF Next

(* MotionExclusive: the three entry points share one slot, for any number of     *)
(* requests and goals.                                                           *)
THEOREM SlotExclusive == Spec => []MotionExclusive
<1>1. Init => MotionExclusive
  BY DEF Init, MotionExclusive, Holds
<1>2. IInv /\ MotionExclusive /\ [Next]_vars => MotionExclusive'
  <2> SUFFICES ASSUME MotionExclusive, Effect PROVE MotionExclusive'
    BY NextEffect
  <2>1. CASE SameHolders
    BY <2>1 DEF SameHolders, MotionExclusive
  <2>2. ASSUME NEW t \in Movers, Takes(t) PROVE MotionExclusive'
    BY <2>2 DEF Takes, OthersHold, MotionExclusive
  <2>3. ASSUME NEW t \in Movers, Returns(t) PROVE MotionExclusive'
    BY <2>3 DEF Returns, OthersHold, MotionExclusive
  <2>4. QED
    BY <2>1, <2>2, <2>3 DEF Effect, Nothing, Commands1, Settles
<1>3. QED
  BY <1>1, <1>2, Invariance, PTL DEF Spec

(* ExecutorServes: at most one service handler blocks (it holds the slot), and   *)
(* handle_cancel, so three executor threads are enough for any number of         *)
(* requests and goals.                                                           *)
THEOREM ExecutorNeverStarves ==
  ASSUME ExecThreads >= 3
  PROVE  Spec => []ExecutorServes
<1>1. ASSUME MotionExclusive PROVE ExecutorServes
  <2>1. PICK c : Blocked \subseteq {c, Server}
    BY <1>1 DEF MotionExclusive, Blocked, Holds
  <2>2. PICK S : S = {c} /\ IsFiniteSet(S) /\ Cardinality(S) = 1
    BY FS_Singleton
  <2>3. IsFiniteSet(S \cup {Server}) /\ Cardinality(S \cup {Server}) <= 2
    BY <2>2, FS_AddElement
  <2>4. Blocked \subseteq S \cup {Server}
    BY <2>1, <2>2
  <2>5. Cardinality(Blocked) <= Cardinality(S \cup {Server})
    BY <2>3, <2>4, FS_Subset
  <2>6. IsFiniteSet(Blocked) /\ Cardinality(Blocked) \in Nat /\ Cardinality(S \cup {Server}) \in Nat
    BY <2>3, <2>4, FS_Subset, FS_CardinalityType
  <2>7. QED
    BY <2>3, <2>5, <2>6 DEF ExecutorServes, FreeThread
<1>2. QED
  BY <1>1, SlotExclusive, PTL

-------------------------------------------------------------------------------
(* The steps that take no request: no goal and no handler begins in them, and   *)
(* no cancel.                                                                   *)
Live(g) == status[g] \in {"executing", "canceling"}
Over(g) == pc[g] \in {"none", "unwind", "end"}

Unasked ==
  \/ Environment \/ ServerStep \/ UNCHANGED vars
  \/ \E c \in Callers : CallerStep(c)
  \/ \E g \in Goals : GoalStep(g)

LEMMA UnaskedBegins ==
  ASSUME IInv, Unasked
  PROVE  /\ \A g \in Goals : Live(g)' => Live(g) /\ (Over(g)' => Over(g))
         /\ \A c \in Callers : pc'[c] # "idle" => pc[c] # "idle"
         /\ canceller' \in {canceller, NoGoal}
<1>0. ThreadTypes /\ GoalTypes
  BY DEF IInv, TypeOK
<1> DEFINE Goal == /\ \A g \in Goals : Live(g)' => Live(g) /\ (Over(g)' => Over(g))
                   /\ canceller' \in {canceller, NoGoal}
           Call == \A c \in Callers : pc'[c] # "idle" => pc[c] # "idle"
<1>1. ASSUME UNCHANGED goalVars, \A g \in Goals : pc'[g] = pc[g] PROVE Goal
  BY <1>1 DEF goalVars, Live, Over
<1>2. CASE Environment \/ UNCHANGED vars
  <2>1. UNCHANGED goalVars /\ UNCHANGED pc
    BY <1>2 DEF Environment, OnFeedback, BridgeStop, RobotLeaves, RobotArrives, SafetyChanges,
       DriverAnswersMove, DriverAnswersStop, DriverServesLateMove, CameraAnswers, vars
  <2>2. QED
    BY <1>1, <2>1
<1>3. CASE ServerStep
  <2>1. Goal
    BY <1>0, <1>1, <1>3 DEF ServerStep, CancelAccepted, StopReturns, GoalTypes, Live, Over
  <2>2. UNCHANGED pc
    BY <1>3 DEF ServerStep, CancelAccepted, StopReturns
  <2>3. QED
    BY <2>1, <2>2
<1>4. ASSUME NEW c \in Callers, CallerStep(c) PROVE Goal /\ Call
  <2>1. UNCHANGED goalVars
    BY <1>4 DEF CallerStep, CheckSafety, CallerMoves, CallerReturns, IoStep, MoveAnswered, MoveUnanswered,
       Poll, StopReturns
  <2>2. Call /\ \A g \in Goals : pc'[g] = pc[g]
    BY <1>0, <1>4 DEF CallerStep, CheckSafety, CallerMoves, CallerReturns, IoStep, MoveAnswered, MoveUnanswered,
       Poll, StopReturns, Goto, ThreadTypes
  <2>3. QED
    BY <1>1, <2>1, <2>2
<1>5. ASSUME NEW g \in Goals, GoalStep(g) PROVE Goal /\ Call
  <2>1. CASE UNCHANGED <<status, canceller, pc>>
    BY <2>1 DEF Live, Over
  <2>2. ASSUME NEW w, pc' = [pc EXCEPT ![g] = w], w \notin {"none", "unwind", "end"},
               UNCHANGED <<status, canceller>>
        PROVE  Goal /\ Call
    BY <1>0, <2>2 DEF ThreadTypes, Live, Over
  <2>3. ASSUME NEW outcome \in Terminal, NEW n, Conclude(g, outcome, n) PROVE Goal /\ Call
    <3>1. /\ status' = [status EXCEPT ![g] = outcome] /\ outcome \notin {"executing", "canceling"}
          /\ pc' = [pc EXCEPT ![g] = "unwind"] /\ canceller' = canceller
      BY <2>3 DEF Conclude, Proceed, Goto, Terminal
    <3>2. QED
      BY <1>0, <3>1 DEF ThreadTypes, GoalTypes, Live, Over
  <2>4. CASE pc' = [pc EXCEPT ![g] = "end"] /\ pc[g] = "unwind" /\ UNCHANGED <<status, canceller>>
    BY <1>0, <2>4 DEF ThreadTypes, Live, Over
  <2> HIDE DEF Goal, Call
  <2>5. CASE IoStep(g)
    BY <2>1, <2>5 DEF IoStep, MoveAnswered, MoveUnanswered, Poll, StopReturns, goalVars
  <2>6. CASE Start(g) \/ View(g) \/ ViewMoved(g) \/ CaptureRequest(g) \/ CaptureFailed(g) \/ Captured(g)
    BY <2>1, <2>2, <2>6 DEF Start, View, ViewMoved, CaptureRequest, CaptureFailed, Captured, Proceed, Fail, ToCapture,
       Goto, goalVars
  <2>7. CASE Stage(g)
    <3>1. CASE EndStage(g)
      <4>1. CASE pc[g] = "home"
        BY <2>3, <3>1, <4>1 DEF EndStage, Terminal
      <4>2. CASE pc[g] # "home"
        <5>1. After(pc[g]) \in {"approach", "inspect", "view", "home"}
          BY <2>7, <4>2 DEF Stage, After
        <5>2. QED
          BY <2>2, <3>1, <4>2, <5>1 DEF EndStage, Proceed, Goto, goalVars
      <4>3. QED
        BY <4>1, <4>2
    <3>2. CASE (Fail(g) \/ UNCHANGED pc) /\ UNCHANGED goalVars
      BY <2>1, <2>2, <3>2 DEF Fail, Goto, goalVars
    <3>3. QED
      BY <2>7, <3>1, <3>2 DEF Stage
  <2>8. CASE Abort(g) \/ Cancel(g)
    BY <2>3, <2>8 DEF Abort, Cancel, Terminal
  <2>9. CASE Unwind(g)
    BY <2>4, <2>9 DEF Unwind, Goto, goalVars
  <2>10. QED
    BY <1>5, <2>5, <2>6, <2>7, <2>8, <2>9 DEF GoalStep
<1>6. QED
  BY <1>2, <1>3, <1>4, <1>5 DEF Unasked

(* A goal that has not ended is in execute; and while handle_cancel waits for   *)
(* its STOP no other inspection runs: the goal had the slot when it was called,  *)
(* and the action server takes no new goal before it returns.                   *)
LiveInv == \A g \in Goals : Live(g) => ~Over(g)
CancelAlone == \A g, h \in Goals : canceller = g /\ h # g => ~Live(h)

LEMMA CancelAloneStep ==
  ASSUME IInv, MotionExclusive, LiveInv, CancelAlone, [Next]_vars
  PROVE  LiveInv' /\ CancelAlone'
<1>0. GoalTypes /\ ThreadTypes
  BY DEF IInv, TypeOK
<1>1. CASE Unasked
  BY <1>1, UnaskedBegins DEF CancelAlone, LiveInv
<1>2. ASSUME NEW c \in Callers,
             \/ \E p \in PoseNames : HandleGoto(c, p)
             \/ \E k \in 1..Jogs, valid \in BOOLEAN : HandleJog(c, k, valid)
      PROVE  LiveInv' /\ CancelAlone'
  <2>1. UNCHANGED <<status, canceller>>
    BY <1>2 DEF HandleGoto, HandleJog, goalVars
  <2>2. \A g \in Goals : pc'[g] = pc[g]
    BY <1>0, <1>2 DEF HandleGoto, HandleJog, Goto, ThreadTypes
  <2>3. QED
    BY <2>1, <2>2 DEF CancelAlone, LiveInv, Live, Over
<1>3. ASSUME NEW g \in Goals, HandleCancel(g) PROVE LiveInv' /\ CancelAlone'
  <2>1. \A h \in Goals : Live(h) => Holds(h)
    BY DEF LiveInv, Over, Holds
  <2>2. canceller' = g /\ Live(g) /\ UNCHANGED <<status, pc>>
    BY <1>3 DEF HandleCancel, Live
  <2>3. \A h \in Goals : h # g => ~Live(h)
    BY <2>1, <2>2 DEF MotionExclusive
  <2>4. QED
    BY <2>2, <2>3 DEF CancelAlone, LiveInv, Live, Over
<1>4. ASSUME NEW g \in Goals, NEW n \in 0..MaxViews, HandleGoal(g, n) PROVE LiveInv' /\ CancelAlone'
  <2>1. canceller' = NoGoal
    BY <1>4 DEF HandleGoal
  <2>2. \/ pc' = pc /\ status' = [status EXCEPT ![g] = "rejected"]
        \/ pc' = [pc EXCEPT ![g] = "start"] /\ status' = [status EXCEPT ![g] = "executing"]
    BY <1>4 DEF HandleGoal, Goto
  <2>3. LiveInv'
    BY <1>0, <2>2 DEF LiveInv, Live, Over, GoalTypes, ThreadTypes
  <2>4. QED
    BY <2>1, <2>3 DEF CancelAlone
<1>5. QED
  BY <1>1, <1>2, <1>3, <1>4 DEF Next, Requests, Unasked

(* They hold throughout.                                                        *)
THEOREM CancelSparesOthers == Spec => [](LiveInv /\ CancelAlone)
<1>1. Init => LiveInv /\ CancelAlone
  BY DEF Init, LiveInv, CancelAlone, Live
<1>2. IInv /\ MotionExclusive /\ LiveInv /\ CancelAlone /\ [Next]_vars => LiveInv' /\ CancelAlone'
  BY CancelAloneStep
<1>3. QED
  BY <1>1, <1>2, Invariance, SlotExclusive, PTL DEF Spec

(* The action server waits for a STOP only while handle_cancel runs.            *)
ServerRests == canceller = NoGoal => io[Server] = "none"

LEMMA ServerRestsStep ==
  ASSUME IInv, ServerRests, [Next]_vars
  PROVE  ServerRests'
<1>0. /\ io \in [Threads -> {"none", "moveSent", "moveOk", "moveNo", "poll", "reached", "gaveUp",
                             "stopSent", "stopDone", "stopped", "capSent", "capOk", "capNo"}]
      /\ Server \notin Movers /\ NoGoal \notin Goals
  BY DEF IInv, TypeOK, ThreadTypes
<1>1. ASSUME NEW t \in Movers, NEW w, UNCHANGED canceller, Become(t, w) \/ UNCHANGED io
      PROVE  ServerRests'
  BY <1>0, <1>1 DEF ServerRests, Become
<1>2. ASSUME NEW w, UNCHANGED canceller, io[Server] # "none", Become(Server, w)
      PROVE  ServerRests'
  BY <1>2 DEF ServerRests
<1>3. ASSUME UNCHANGED <<canceller, io>> PROVE ServerRests'
  BY <1>3 DEF ServerRests
<1>4. ASSUME NEW t \in Movers, IoStep(t) PROVE ServerRests'
  BY <1>1, <1>4 DEF IoStep, MoveAnswered, MoveUnanswered, Poll, StopReturns, goalVars
<1>5. CASE Environment
  <2>1. ASSUME NEW t \in Movers, DriverAnswersMove(t) PROVE ServerRests'
    BY <1>1, <2>1 DEF DriverAnswersMove, goalVars
  <2>2. ASSUME NEW t \in Threads, DriverAnswersStop(t) PROVE ServerRests'
    BY <1>1, <1>2, <2>2 DEF DriverAnswersStop, goalVars
  <2>3. ASSUME NEW g \in Goals, CameraAnswers(g) PROVE ServerRests'
    BY <1>1, <2>3 DEF CameraAnswers, goalVars
  <2>4. ASSUME \/ OnFeedback \/ BridgeStop \/ RobotLeaves \/ RobotArrives \/ SafetyChanges
               \/ \E command \in late : DriverServesLateMove(command)
        PROVE  UNCHANGED <<canceller, io>>
    BY <2>4 DEF OnFeedback, BridgeStop, RobotLeaves, RobotArrives, SafetyChanges,
       DriverServesLateMove, goalVars, moveVars
  <2>5. QED
    BY <1>3, <1>5, <2>1, <2>2, <2>3, <2>4 DEF Environment
<1>6. CASE Requests
  <2>1. ASSUME NEW g \in Goals, HandleCancel(g) PROVE ServerRests'
    BY <1>0, <2>1 DEF HandleCancel, ServerRests
  <2>2. ASSUME NEW g \in Goals, NEW n, HandleGoal(g, n) PROVE ServerRests'
    BY <1>3, <2>2 DEF HandleGoal, moveVars
  <2>3. ASSUME NEW c, NEW a, NEW valid, HandleGoto(c, a) \/ HandleJog(c, a, valid) PROVE ServerRests'
    BY <1>3, <2>3 DEF HandleGoto, HandleJog, goalVars
  <2>4. QED
    BY <1>6, <2>1, <2>2, <2>3 DEF Requests
<1>7. CASE ServerStep
  <2>1. CASE CancelAccepted
    BY <1>0, <2>1 DEF CancelAccepted, ServerRests, Become
  <2>2. CASE StopReturns(Server)
    BY <1>2, <2>2 DEF StopReturns, goalVars
  <2>3. QED
    BY <1>7, <2>1, <2>2 DEF ServerStep
<1>8. ASSUME NEW c \in Callers, CallerStep(c) PROVE ServerRests'
  <2>1. CASE IoStep(c)
    BY <1>4, <2>1
  <2>2. CASE CheckSafety(c) \/ CallerMoves(c) \/ CallerReturns(c)
    BY <1>1, <2>2 DEF CheckSafety, CallerMoves, CallerReturns, SendMove, Leave, goalVars, moveVars
  <2>3. QED
    BY <1>8, <2>1, <2>2 DEF CallerStep
<1>9. ASSUME NEW g \in Goals, GoalStep(g) PROVE ServerRests'
  <2>1. CASE IoStep(g)
    BY <1>4, <2>1
  <2>2. CASE Start(g) \/ View(g) \/ ViewMoved(g) \/ CaptureRequest(g) \/ CaptureFailed(g) \/ Captured(g)
    BY <1>1, <2>2 DEF Start, View, ViewMoved, CaptureRequest, CaptureFailed, Captured, Proceed, Fail, ToCapture,
       SendMove, SendStop, Leave, goalVars
  <2>3. CASE Stage(g)
    BY <1>1, <2>3 DEF Stage, EndStage, Conclude, Proceed, Fail, SendMove, SendStop, Leave, goalVars
  <2>4. CASE Abort(g) \/ Cancel(g) \/ Unwind(g)
    BY <1>1, <2>4 DEF Abort, Cancel, Unwind, Conclude, Proceed, Leave, goalVars, moveVars
  <2>5. QED
    BY <1>9, <2>1, <2>2, <2>3, <2>4 DEF GoalStep
<1>10. CASE UNCHANGED vars
  BY <1>3, <1>10 DEF vars, goalVars, moveVars
<1>11. QED
  BY <1>5, <1>6, <1>7, <1>8, <1>9, <1>10 DEF Next

(* It holds throughout.                                                         *)
THEOREM ServerStopsInCancel == Spec => []ServerRests
<1>1. Init => ServerRests
  BY DEF Init, ServerRests
<1>2. QED
  BY <1>1, ServerRestsStep, Invariance, PTL DEF Spec

-------------------------------------------------------------------------------
(* SlotImplemented: the node implements the abstract slot of MotionSlot.         *)

Holder == IF \E t \in Movers : Holds(t) THEN CHOOSE t \in Movers : Holds(t) ELSE NoGoal

HolderOk ==
  /\ \A t \in Movers : Holds(t) => Holder = t
  /\ Holder = NoGoal <=> ~busy
  /\ Holder \in Movers \cup {NoGoal}

(* With at most one holder, the CHOOSE of the refinement mapping finds it.      *)
LEMMA HolderFacts == MotionExclusive => HolderOk
<1> SUFFICES ASSUME MotionExclusive PROVE HolderOk
  OBVIOUS
<1>1. ASSUME NEW t \in Movers, Holds(t) PROVE Holder = t
  BY <1>1 DEF MotionExclusive, Holder
<1>2. CASE ~ \E t \in Movers : Holds(t)
  BY <1>2 DEF MotionExclusive, Holder, HolderOk
<1>3. ASSUME NEW t \in Movers, Holds(t) PROVE HolderOk
  BY <1>1, <1>3 DEF MotionExclusive, HolderOk
<1>4. QED
  BY <1>2, <1>3

(* The same after a step.                                                       *)
LEMMA HolderFactsNext == MotionExclusive' => HolderOk'
  BY HolderFacts, PTL

(* SlotImplemented: whatever the threads of the node do, seen through who holds  *)
(* motion_busy_ and whether its motion is out, is a behaviour of MotionSlot.     *)
THEOREM ImplementsMotionSlot == Spec => SlotImplemented
<1> DEFINE Out == \E t \in Movers : Moving(t)
<1>1. Init => Slot!Init
  BY DEF Init, Slot!Init, Holds, Moving
<1>2. IInv /\ MotionExclusive /\ MotionExclusive' /\ [Next]_vars => [Slot!Next]_(Slot!vars)
  <2> SUFFICES ASSUME IInv, MotionExclusive, MotionExclusive', Effect
               PROVE  [Slot!Next]_(Slot!vars)
    BY NextEffect
  <2>0. \A t \in Movers : Moving(t) => Holds(t)
    BY MovingHolds
  <2>1. HolderOk /\ HolderOk'
    BY HolderFacts, HolderFactsNext
  <2> HIDE DEF Holder
  <2>3. CASE Nothing
    <3>1. Holder' = Holder
      BY <2>1, <2>3 DEF Nothing, SameHolders, HolderOk, MotionExclusive
    <3>2. Out' <=> Out
      BY <2>3 DEF Nothing, SameMoving
    <3>3. QED
      BY <3>1, <3>2 DEF Slot!vars, Holder
  <2>4. ASSUME NEW t \in Movers, Commands1(t) PROVE Slot!Command
    <3>1. Holder = t /\ Holder' = Holder
      BY <2>1, <2>4 DEF Commands1, SameHolders, HolderOk
    <3>2. ~Out /\ Out'
      BY <2>0, <2>4 DEF Commands1, MotionExclusive
    <3>3. QED
      BY <3>1, <3>2 DEF Slot!Command, Holder
  <2>5. ASSUME NEW t \in Movers, Settles(t) PROVE Slot!Settle
    <3>1. Holder' = Holder
      BY <2>0, <2>1, <2>5 DEF Settles, SameHolders, HolderOk
    <3>2. Out /\ ~Out'
      BY <2>0, <2>5 DEF Settles, OthersMove, MotionExclusive
    <3>3. QED
      BY <3>1, <3>2 DEF Slot!Settle, Holder
  <2>6. ASSUME NEW t \in Movers, Takes(t) PROVE Slot!Take(t)
    <3>1. Holder = NoGoal /\ Holder' = t
      BY <2>1, <2>6 DEF Takes, HolderOk
    <3>2. Out' <=> Out
      BY <2>6 DEF Takes, SameMoving
    <3>3. QED
      BY <3>1, <3>2 DEF Slot!Take, Holder
  <2>7. ASSUME NEW t \in Movers, Returns(t) PROVE Slot!GiveBack
    <3>1. Holder = t /\ Holder' = NoGoal
      BY <2>1, <2>7 DEF Returns, HolderOk
    <3>2. ~Out /\ ~Out'
      BY <2>0, <2>7 DEF Returns, SameMoving, MotionExclusive
    <3>3. QED
      BY <3>1, <3>2 DEF Slot!GiveBack, Holder
  <2>8. QED
    BY <2>3, <2>4, <2>5, <2>6, <2>7 DEF Effect, Slot!Next
<1>3. QED
  BY <1>1, <1>2, Invariance, SlotExclusive, PTL DEF Spec, SlotImplemented, Slot!Spec
===============================================================================
