------------------------ MODULE Scenario1InspectProofs ------------------------
(* The properties of scenario1_inspect for every orbit, range and number of     *)
(* views: the alarm first, then the views of an orbit, then what the robot holds*)
(* while run() goes through them.                                               *)
EXTENDS Scenario1Inspect, TLAPS

(* Where no move has been sent since the flags were last seen to be good.       *)
Checked == {"start", "services", "state", "check", "view", "pose"}

AlarmInv ==
  /\ alarmed \in {0, 1}
  /\ SafetyOk => alarmed = 0
  /\ at \in Checked => alarmed = 0

LEMMA InitAlarm == Init => AlarmInv
  BY DEF Init, AlarmInv, SafetyOk

LEMMA RunAlarm == AlarmInv /\ Run => AlarmInv'
<1> SUFFICES ASSUME AlarmInv, Run PROVE AlarmInv'
  OBVIOUS
<1> USE DEF AlarmInv, Checked, SafetyOk, Goto, End, stateVars
<1>1. CASE Start
  BY <1>1 DEF Start
<1>2. CASE Services
  BY <1>2 DEF Services
<1>3. CASE FirstState
  BY <1>3 DEF FirstState
<1>4. CASE Precheck
  BY <1>4 DEF Precheck
<1>5. CASE View
  BY <1>5 DEF View
<1>6. CASE Answered
  BY <1>6 DEF Answered
<1>7. CASE Unanswered
  BY <1>7 DEF Unanswered
<1>8. CASE Safety
  BY <1>8 DEF Safety
<1>9. CASE Arrived
  BY <1>9 DEF Arrived
<1>10. CASE StopReturns
  BY <1>10 DEF StopReturns
<1> QED
  BY <1>1, <1>2, <1>3, <1>4, <1>5, <1>6, <1>7, <1>8, <1>9, <1>10 DEF Run

LEMMA WorldAlarm == AlarmInv /\ [Next /\ ~Run]_vars => AlarmInv'
<1> SUFFICES ASSUME AlarmInv, [Next /\ ~Run]_vars PROVE AlarmInv'
  OBVIOUS
<1> USE DEF AlarmInv, Checked, SafetyOk, Goto, nodeVars, stateVars
<1>1. CASE OnFeedback
  BY <1>1 DEF OnFeedback
<1>2. CASE OnToolPose \/ ServicesUp \/ Interrupt
  BY <1>2 DEF OnToolPose, ServicesUp, Interrupt
<1>3. CASE DriverAnswersMove \/ DriverServesLateMove
  BY <1>3 DEF DriverAnswersMove, DriverServesLateMove
<1>4. CASE DriverAnswersStop
  BY <1>4 DEF DriverAnswersStop
<1>5. CASE RobotMoves \/ SafetyChanges
  BY <1>5 DEF RobotMoves, SafetyChanges
<1>6. CASE UNCHANGED vars
  BY <1>6 DEF vars
<1> QED
  BY <1>1, <1>2, <1>3, <1>4, <1>5, <1>6 DEF Next

LEMMA StepAlarm == AlarmInv /\ [Next]_vars => AlarmInv'
  BY RunAlarm, WorldAlarm

(* Once the flags of the last feedback are bad, at most one more view is sent   *)
(* to the robot, however feedback, alarms and the run interleave.               *)
THEOREM AlarmEnds == Spec => []AlarmEndsRun
<1>1. AlarmInv => AlarmEndsRun
  BY DEF AlarmInv, AlarmEndsRun
<1> QED
  BY <1>1, InitAlarm, StepAlarm, PTL DEF Spec

-------------------------------------------------------------------------------
(* The orbit.  Its numbers:                                                     *)
LEMMA Turns == Full \in Nat \ {0} /\ Tol \in 1..Full - 1 /\ Sweeps \subseteq 0..Full + Tol - 1
BY TurnAssumption, BoundsAssumption

(* Products of integers, which the provers only handle one at a time.           *)
LEMMA TimesInt == ASSUME NEW a \in Int, NEW b \in Int PROVE a * b \in Int
OBVIOUS

LEMMA TimesMonotone == ASSUME NEW a \in Nat, NEW b \in Nat, NEW c \in Nat, b <= c PROVE a * b <= a * c
OBVIOUS

LEMMA TimesMinus == ASSUME NEW a \in Int, NEW b \in Int, NEW c \in Int PROVE a * (b - c) = a * b - a * c
OBVIOUS

LEMMA Division ==
  ASSUME NEW a \in Int, NEW m \in Nat \ {0}
  PROVE  a \div m \in Int /\ a % m \in 0..m-1 /\ a = m * (a \div m) + (a % m)
BY Z3T(30)

(* Less than m apart, two integers do not have the same remainder.              *)
LEMMA NoWrap ==
  ASSUME NEW a \in Int, NEW b \in Int, NEW m \in Nat \ {0}, a # b, a - b < m, b - a < m
  PROVE  a % m # b % m
<1> SUFFICES ASSUME a % m = b % m PROVE FALSE
  OBVIOUS
<1> DEFINE p == a \div m
           q == b \div m
<1>1. /\ p \in Int /\ q \in Int
      /\ a = m * p + (a % m) /\ b = m * q + (b % m) /\ a % m \in Int
  BY Division
<1> HIDE DEF p, q
<1>2. a - b = m * p - m * q /\ m * p \in Int /\ m * q \in Int
  BY <1>1, TimesInt
<1>3. m * (p - q) = m * p - m * q
  BY <1>1, TimesMinus
<1>4. CASE p = q
  BY <1>2, <1>4
<1>5. CASE p > q
  <2>1. m * 1 <= m * (p - q)
    BY <1>1, <1>5, TimesMonotone
  <2>2. QED
    BY <1>2, <1>3, <2>1
<1>6. CASE p < q
  <2>1. m * 1 <= m * (q - p) /\ m * (q - p) = m * q - m * p
    BY <1>1, <1>6, TimesMonotone, TimesMinus
  <2>2. QED
    BY <1>2, <2>1
<1>7. QED
  BY <1>1, <1>4, <1>5, <1>6

(* The parameters of a run, dry or real.                                        *)
Plans == DryPlans \cup RealPlans

(* The number of views and the range of a run are bounded.                      *)
LEMMA PlanTypes ==
  ASSUME plan \in Plans
  PROVE  /\ plan.views \in Nat /\ (plan.views <= MaxViews \/ plan.views <= MaxOrbit)
         /\ plan.range \in Int /\ Abs(plan.range) \in 0..Full + Tol - 1
         /\ MaxViews \in Nat /\ MaxOrbit \in Nat
<1>0. MaxViews \in Nat /\ MaxOrbit \in Nat /\ Full + Tol - 1 \in Nat
  BY Turns, BoundsAssumption
<1>1. ASSUME NEW n \in Int, n \in -(Full + Tol - 1)..Full + Tol - 1 PROVE Abs(n) \in 0..Full + Tol - 1
  BY <1>0, <1>1 DEF Abs
<1>2. CASE plan \in DryPlans
  <2>1. /\ plan.views \in 0..MaxOrbit /\ plan.range \in -(Full + Tol - 1)..Full + Tol - 1
    BY <1>2 DEF DryPlans
  <2>2. QED
    BY <1>0, <1>1, <2>1, Turns
<1>3. CASE plan \in RealPlans
  <2>1. /\ plan.views \in 0..MaxViews /\ plan.range \in Sweeps \cup {-s : s \in Sweeps}
    BY <1>3 DEF RealPlans
  <2>2. plan.range \in -(Full + Tol - 1)..Full + Tol - 1
    <3>1. \A s \in Sweeps : s \in Int /\ 0 <= s /\ s <= Full + Tol - 1
      BY <1>0, Turns
    <3>2. QED
      BY <1>0, <2>1, <3>1
  <2>3. QED
    BY <1>0, <1>1, <2>1, <2>2, Turns
<1>4. QED
  BY <1>2, <1>3 DEF Plans

(* The divisor of the angles is positive.                                       *)
LEMMA DivisorType == plan \in Plans => Divisor \in Nat \ {0}
  BY PlanTypes DEF Divisor

(* The size of a product is the product of the sizes.                           *)
LEMMA AbsTimes ==
  ASSUME NEW a \in Int, NEW b \in Int
  PROVE  Abs(a * b) = Abs(a) * Abs(b) /\ Abs(a) \in Nat /\ Abs(a * b) \in Nat
BY DEF Abs

(* The views of an orbit span less than a turn.                                 *)
LEMMA Span ==
  ASSUME plan \in Plans, plan.views > 1,
         (Tol - 1) * (MaxOrbit - 1) < Full, (Tol - 1) * (MaxViews - 1) < Full
  PROVE  Abs(plan.range) * (plan.views - 1) < Full * Divisor
<1> DEFINE r == Abs(plan.range)
           n == plan.views
<1>0. /\ n \in Nat /\ n > 1 /\ r \in 0..Full + Tol - 1 /\ Full \in Nat \ {0} /\ Tol \in 1..Full - 1
      /\ MaxViews \in Nat /\ MaxOrbit \in Nat /\ (n <= MaxViews \/ n <= MaxOrbit)
  BY PlanTypes, Turns
<1>1. CASE FullTurn
  <2>1. Divisor = n
    BY <1>0, <1>1 DEF Divisor
  <2>2. (Tol - 1) * (n - 1) < Full
    <3>1. (Tol - 1) * (n - 1) <= (Tol - 1) * (MaxViews - 1) \/ (Tol - 1) * (n - 1) <= (Tol - 1) * (MaxOrbit - 1)
      BY <1>0, TimesMonotone
    <3>2. /\ (Tol - 1) * (n - 1) \in Int /\ (Tol - 1) * (MaxViews - 1) \in Int
          /\ (Tol - 1) * (MaxOrbit - 1) \in Int
      BY <1>0, TimesInt
    <3>3. QED
      BY <1>0, <3>1, <3>2
  <2>3. r * (n - 1) <= (Full + Tol - 1) * (n - 1)
    <3>1. (n - 1) * r <= (n - 1) * (Full + Tol - 1)
      BY <1>0, TimesMonotone
    <3>2. QED
      BY <1>0, <3>1
  <2>4. (Full + Tol - 1) * (n - 1) = Full * n - Full + (Tol - 1) * (n - 1)
    BY <1>0
  <2> HIDE DEF r, n
  <2>5. /\ r * (n - 1) \in Int /\ (Full + Tol - 1) * (n - 1) \in Int /\ Full * n \in Int
        /\ (Tol - 1) * (n - 1) \in Int
    BY <1>0, TimesInt
  <2>6. r * (n - 1) < Full * n
    BY <1>0, <2>2, <2>3, <2>4, <2>5
  <2>7. QED
    BY <2>1, <2>6 DEF r, n
<1>2. CASE ~FullTurn
  <2>1. Divisor = n - 1 /\ r <= Full - 1
    BY <1>0, <1>2 DEF Divisor, FullTurn, Abs
  <2> HIDE DEF r, n
  <2>2. (n - 1) * r <= (n - 1) * (Full - 1)
    BY <1>0, <2>1, TimesMonotone
  <2>3. (n - 1) * (Full - 1) = Full * (n - 1) - (n - 1) /\ r * (n - 1) = (n - 1) * r
    BY <1>0
  <2>4. (n - 1) * r \in Int /\ (n - 1) * (Full - 1) \in Int /\ Full * (n - 1) \in Int
    BY <1>0, TimesInt
  <2>5. r * (n - 1) < Full * (n - 1)
    BY <1>0, <2>2, <2>3, <2>4
  <2>6. QED
    BY <2>1, <2>5 DEF r, n
<1>3. QED
  BY <1>1, <1>2

(* The views of a plan are all different and evenly spaced: two of them are less*)
(* than a turn apart (Span), so no turn brings them together (NoWrap).          *)
LEMMA PlansEven ==
  ASSUME plan \in Plans,
         (Tol - 1) * (MaxOrbit - 1) < Full, (Tol - 1) * (MaxViews - 1) < Full
  PROVE  OrbitEven
<1> SUFFICES ASSUME plan.views > 1, plan.range # 0
             PROVE  /\ \A v, w \in Views : v # w => Target(v) # Target(w)
                    /\ LET last == Angle(plan.views - 1) IN
                         IF FullTurn THEN Abs(Full * Divisor - Abs(last) - Abs(plan.range)) < Tol * Divisor
                                     ELSE last = plan.range * Divisor
  BY DEF OrbitEven
<1> DEFINE r == plan.range
           n == plan.views
           m == Full * Divisor
<1>0. /\ n \in Nat /\ n > 1 /\ r \in Int /\ r # 0 /\ Abs(r) \in Nat
      /\ Full \in Nat \ {0} /\ Divisor \in Nat \ {0} /\ Tol \in 1..Full - 1
      /\ Abs(r) * (n - 1) < m /\ m \in Nat \ {0}
  BY PlanTypes, Turns, DivisorType, Span
<1>1. ASSUME NEW v \in Views, NEW w \in Views, v > w PROVE Target(v) # Target(w)
  <2> HIDE DEF r, n, m
  <2>1. v \in Int /\ w \in Int /\ v - w \in 1..n - 1
    BY <1>0, <1>1 DEF Views, n
  <2>2. Angle(v) = r * v /\ Angle(w) = r * w /\ r * v \in Int /\ r * w \in Int /\ r * (v - w) = r * v - r * w
    BY <1>0, <2>1, TimesInt, TimesMinus DEF Angle, r, n
  <2>3. Abs(r * (v - w)) = Abs(r) * (v - w)
    BY <1>0, <2>1, AbsTimes DEF Abs
  <2>4. Abs(r) * (v - w) <= Abs(r) * (n - 1) /\ Abs(r) * 1 <= Abs(r) * (v - w)
    BY <1>0, <2>1, TimesMonotone
  <2>5. r * (v - w) \in Int /\ Abs(r) * (v - w) \in Int /\ Abs(r) * (n - 1) \in Int
    BY <1>0, <2>1, TimesInt
  <2>6. r * (v - w) # 0 /\ r * (v - w) < m /\ -(r * (v - w)) < m
    BY <1>0, <2>3, <2>4, <2>5 DEF Abs
  <2>7. r * v # r * w /\ r * v - r * w < m /\ r * w - r * v < m
    BY <2>2, <2>5, <2>6
  <2>8. QED
    BY <1>0, <2>2, <2>7, NoWrap DEF Target, m
<1>2. \A v, w \in Views : v # w => Target(v) # Target(w)
  <2>1. \A v, w \in Views : v # w => v > w \/ w > v
    BY <1>0 DEF Views
  <2>2. QED
    BY <1>1, <2>1
<1>3. Angle(n - 1) = r * (n - 1)
  BY <1>0 DEF Angle
<1>4. CASE FullTurn
  <2>1. Divisor = n /\ Abs(Abs(r) - Full) < Tol
    BY <1>0, <1>4 DEF Divisor, FullTurn
  <2>2. Abs(r * (n - 1)) = Abs(r) * (n - 1)
    BY <1>0, AbsTimes DEF Abs
  <2> HIDE DEF r, n, m
  <2>3. Full * n - Abs(r) * (n - 1) - Abs(r) = (Full - Abs(r)) * n
    BY <1>0
  <2>4. Abs((Full - Abs(r)) * n) = Abs(Full - Abs(r)) * n
    BY <1>0, AbsTimes DEF Abs
  <2>5. Abs(Full - Abs(r)) \in 0..Tol - 1
    BY <1>0, <2>1 DEF Abs
  <2>6. Abs(Full - Abs(r)) * n < Tol * n
    <3>1. n * Abs(Full - Abs(r)) <= n * (Tol - 1)
      BY <1>0, <2>5, TimesMonotone
    <3>2. n * (Tol - 1) = Tol * n - n /\ Abs(Full - Abs(r)) * n = n * Abs(Full - Abs(r))
      BY <1>0, <2>5
    <3>3. Tol * n \in Int /\ n * Abs(Full - Abs(r)) \in Int /\ n * (Tol - 1) \in Int
      BY <1>0, <2>5, TimesInt
    <3>4. QED
      BY <1>0, <3>1, <3>2, <3>3
  <2>7. Abs(Full * Divisor - Abs(Angle(n - 1)) - Abs(r)) < Tol * Divisor
    BY <1>3, <2>1, <2>2, <2>3, <2>4, <2>6
  <2>8. QED
    BY <1>2, <1>4, <2>7 DEF r, n
<1>5. CASE ~FullTurn
  <2>1. Divisor = n - 1
    BY <1>0, <1>5 DEF Divisor
  <2>2. QED
    BY <1>2, <1>3, <1>5, <2>1
<1>6. QED
  BY <1>4, <1>5

(* OrbitEven: no two views of an orbit are the same, and they are evenly spaced *)
(* up to the end of the range, or round the whole circle (orbitAngles).  A range*)
(* that passes for a full turn may be Tol - 1 units longer, and its views then  *)
(* reach that much further for each view there is: the hypotheses bound the     *)
(* number of views so that the last one does not meet the first (6283 views for *)
(* the 1e-3 of the code).  The plan never changes: Init is all there is to it.  *)
THEOREM OrbitsAreEven ==
  ASSUME (Tol - 1) * (MaxOrbit - 1) < Full, (Tol - 1) * (MaxViews - 1) < Full
  PROVE  Spec => []OrbitEven
<1>1. Init => plan \in Plans
  BY DEF Init, Plans
<1>2. plan \in Plans /\ [Next]_vars => (plan \in Plans)'
  BY DEF Next, Run, Start, Services, FirstState, Precheck, View, Answered, Unanswered, Safety, Arrived,
     StopReturns, OnFeedback, OnToolPose, ServicesUp, Interrupt, DriverAnswersMove, DriverServesLateMove,
     DriverAnswersStop, RobotMoves, SafetyChanges, Goto, End, nodeVars, vars
<1>3. plan \in Plans => OrbitEven
  BY PlansEven
<1>4. QED
  BY <1>1, <1>2, <1>3, PTL DEF Spec

-------------------------------------------------------------------------------
(* What the robot holds.  Where run() has sent nothing yet; where it has not    *)
(* sent view i, as far as the driver let it; where it is at work on view i.     *)
Before == {"start", "services", "state", "check"}
Unsent == {"view", "sent", "refused"}
AtView == {"sent", "moving", "refused", "safety", "pose"}

(* A run that has sent nothing has commanded nothing; the view at work is a view*)
(* inside safe_region; a request served late is of the view the run ended at.   *)
RunInv ==
  /\ at \in Before => i = 0 /\ queue = <<>>
  /\ at \in AtView => i \in Views \ plan.outside
  /\ ~ros => excused
  /\ late # {} => at = "done" /\ excused /\ late = {i} /\ i \in Views \ plan.outside

(* The commands the robot holds are in the order of the views, none beyond the  *)
(* current one; the earlier ones are of the place where it stands, and what     *)
(* tool_pose says of the current view is true.                                  *)
HeldInv ==
  /\ \A k \in 1..Len(queue) : /\ queue[k] <= i /\ queue[k] \notin plan.outside
                              /\ queue[k] < i => Target(queue[k]) = pos
                              /\ at \in Unsent => queue[k] < i
  /\ \A j, k \in 1..Len(queue) : j < k => queue[j] <= queue[k]
  /\ tcp = Target(i) => pos = Target(i)

(* A STOP that was heeded, and an end that excuses nothing, leave nothing to do.*)
EndInv ==
  /\ at = "stopped" /\ ~excused => queue = <<>>
  /\ EndLeavesStill

(* TypeOK, with the bound on alarmed left to AlarmInv.                          *)
Types ==
  /\ plan \in Plans
  /\ at \in {"start", "services", "state", "check", "view", "sent", "moving", "refused",
             "safety", "pose", "stop", "stopped", "done"}
  /\ i \in 0..plan.views /\ how \in {"none", "dry", "completed", "failed"}
  /\ ros \in BOOLEAN /\ have \in BOOLEAN /\ ok \in BOOLEAN
  /\ up \in BOOLEAN /\ safe \in BOOLEAN /\ excused \in BOOLEAN
  /\ tcp \in {Away, Origin} \cup 0..Full * Divisor
  /\ pos \in {Away} \cup 0..Full * Divisor
  /\ queue \in Seq(Views) /\ late \subseteq Views
  /\ alarmed # 0 => plan.views # 0

(* The inductive invariant.                                                     *)
FollowInv == Types /\ AlarmInv /\ RunInv /\ HeldInv /\ EndInv

(* Every view has a place on the orbit.                                         *)
LEMMA TargetPlace ==
  ASSUME plan \in Plans, NEW v \in Nat
  PROVE  Target(v) \in 0..Full * Divisor /\ Target(v) \notin {Away, Origin}
<1> DEFINE m == Full * Divisor
<1>1. m \in Nat \ {0} /\ plan.range \in Int
  BY PlanTypes, Turns, DivisorType
<1>2. Angle(v) \in Int
  BY <1>1, TimesInt DEF Angle
<1> HIDE DEF m
<1>3. Angle(v) % m \in 0..m-1
  BY <1>1, <1>2, Division
<1>4. QED
  BY <1>1, <1>3 DEF Target, m, Away, Origin

(* The plan never changes, nor do the places of its views.                      *)
LEMMA SamePlan ==
  ASSUME UNCHANGED plan
  PROVE  Divisor' = Divisor /\ Views' = Views /\ \A v : Target(v)' = Target(v)
BY DEF Divisor, FullTurn, Abs, Views, Target, Angle

(* No action touches the parameters.                                            *)
LEMMA PlanStays == [Next]_vars => UNCHANGED plan
  BY DEF Next, Run, Start, Services, FirstState, Precheck, View, Answered, Unanswered, Safety, Arrived,
     StopReturns, OnFeedback, OnToolPose, ServicesUp, Interrupt, DriverAnswersMove, DriverServesLateMove,
     DriverAnswersStop, RobotMoves, SafetyChanges, Goto, End, nodeVars, vars

(* What the types say of the commands of the robot.                             *)
LEMMA QueueTypes ==
  ASSUME Types
  PROVE  /\ plan.views \in Nat /\ Views = 0..plan.views - 1 /\ i \in Nat
         /\ <<>> \in Seq(Views)
         /\ queue # <<>> => Head(queue) \in Views /\ Tail(queue) \in Seq(Views)
         /\ \A v \in Views : Append(queue, v) \in Seq(Views)
         /\ \A k \in 1..Len(queue) : queue[k] \in Views
<1>1. plan.views \in Nat /\ queue \in Seq(Views)
  BY PlanTypes DEF Types
<1>2. queue # <<>> => Head(queue) \in Views
  BY <1>1
<1>3. queue # <<>> => Tail(queue) \in Seq(Views)
  BY <1>1
<1>4. \A v \in Views : Append(queue, v) \in Seq(Views)
  BY <1>1
<1>5. QED
  BY <1>1, <1>2, <1>3, <1>4 DEF Types, Views

(* run() keeps the types ...                                                    *)
LEMMA RunTypes == Types /\ AlarmInv /\ RunInv /\ Run => Types'
<1> SUFFICES ASSUME Types, AlarmInv, RunInv, Run PROVE Types'
  OBVIOUS
<1>0. /\ UNCHANGED <<plan, have, ok, up, ros, tcp, pos, queue, safe>>
      /\ Divisor' = Divisor /\ Views' = Views /\ plan.views \in Nat /\ i \in 0..plan.views
      /\ Views = 0..plan.views - 1
  <2>1. UNCHANGED <<plan, have, ok, up, ros, tcp, pos, queue, safe>>
    BY DEF Run, Start, Services, FirstState, Precheck, View, Answered, Unanswered, Safety, Arrived,
       StopReturns, Goto, End, stateVars, robotVars
  <2>2. QED
    BY <2>1, SamePlan, QueueTypes DEF Types
<1> USE DEF Goto, End, Excuse
<1>1. CASE Start \/ Services \/ FirstState \/ Precheck \/ Answered \/ Safety
  <2>1. /\ UNCHANGED <<i, late, alarmed, excused>>
        /\ at' \in {"services", "state", "check", "view", "safety", "pose", "stop", "done"}
        /\ how' \in {how, "dry", "failed"}
    BY <1>1 DEF Start, Services, FirstState, Precheck, Answered, Safety, robotVars
  <2>2. QED
    BY <1>0, <2>1 DEF Types
<1>2. CASE View
  BY <1>0, <1>2 DEF Types, View, robotVars, AlarmInv, Checked
<1>3. CASE Unanswered
  BY <1>0, <1>3 DEF Types, Unanswered, RunInv, AtView
<1>4. CASE Arrived
  BY <1>0, <1>4 DEF Types, Arrived, robotVars, RunInv, AtView
<1>5. CASE StopReturns
  BY <1>0, <1>5 DEF Types, StopReturns, robotVars
<1>6. QED
  BY <1>1, <1>2, <1>3, <1>4, <1>5 DEF Run

(* ... and so do the callbacks, the driver and the robot.                       *)
LEMMA WorldTypes == Types /\ RunInv /\ [Next /\ ~Run]_vars => Types'
<1> SUFFICES ASSUME Types, RunInv, [Next /\ ~Run]_vars PROVE Types'
  OBVIOUS
<1>0. UNCHANGED plan /\ Divisor' = Divisor /\ Views' = Views
  BY PlanStays, SamePlan
<1> USE DEF Goto, Excuse, nodeVars, stateVars, robotVars
<1>1. CASE OnFeedback \/ OnToolPose \/ ServicesUp \/ Interrupt
  <2>1. UNCHANGED <<at, i, how, pos, queue, safe, late>>
    BY <1>1 DEF OnFeedback, OnToolPose, ServicesUp, Interrupt
  <2>2. tcp' \in {tcp, pos} /\ alarmed' \in {alarmed, 0}
    BY <1>1 DEF OnFeedback, OnToolPose, ServicesUp, Interrupt
  <2>3. /\ ros' \in BOOLEAN /\ have' \in BOOLEAN /\ ok' \in BOOLEAN
        /\ up' \in BOOLEAN /\ safe' \in BOOLEAN /\ excused' \in BOOLEAN
    BY <1>1 DEF Types, OnFeedback, OnToolPose, ServicesUp, Interrupt
  <2>4. tcp' \in {Away, Origin} \cup 0..Full * Divisor
    BY <2>2 DEF Types
  <2>5. QED
    BY <1>0, <2>1, <2>2, <2>3, <2>4 DEF Types
<1>2. CASE DriverAnswersMove \/ DriverServesLateMove
  <2>1. i' = i /\ \/ queue' = queue \/ \E v \in Views : queue' = Append(queue, v)
    BY <1>2 DEF DriverAnswersMove, DriverServesLateMove, RunInv, AtView, Types
  <2>2. queue' \in Seq(Views)
    BY <2>1, QueueTypes DEF Types
  <2>3. QED
    BY <1>0, <1>2, <2>1, <2>2 DEF Types, DriverAnswersMove, DriverServesLateMove
<1>3. CASE DriverAnswersStop
  <2>1. /\ at' = "stopped" /\ UNCHANGED <<i, how, ros, have, ok, tcp, up, pos, safe, late, alarmed>>
        /\ queue' \in {queue, <<>>} /\ excused' \in BOOLEAN
    BY <1>3 DEF DriverAnswersStop, Types
  <2>2. QED
    BY <1>0, <2>1, QueueTypes DEF Types
<1>4. CASE RobotMoves
  <2>1. Target(Head(queue)) \in 0..Full * Divisor
    <3>1. Head(queue) \in Nat
      BY <1>4, QueueTypes DEF RobotMoves
    <3>2. QED
      BY <3>1, TargetPlace DEF Types
  <2>2. queue' \in Seq(Views) /\ pos' \in {Away} \cup 0..Full * Divisor
    BY <1>4, <2>1, QueueTypes DEF RobotMoves, Types
  <2>3. QED
    BY <1>0, <1>4, <2>2 DEF RobotMoves, Types
<1>5. CASE SafetyChanges \/ UNCHANGED vars
  <2>1. UNCHANGED <<at, i, how, ros, have, ok, tcp, up, pos, late, alarmed, excused>>
    BY <1>5 DEF SafetyChanges, vars
  <2>2. queue' \in {queue, <<>>} /\ safe' \in BOOLEAN
    BY <1>5 DEF SafetyChanges, vars, Types
  <2>3. queue' \in Seq(Views)
    BY <2>2, QueueTypes DEF Types
  <2>4. QED
    BY <1>0, <2>1, <2>2, <2>3 DEF Types
<1>6. QED
  BY <1>1, <1>2, <1>3, <1>4, <1>5 DEF Next

(* It holds at the start.                                                       *)
LEMMA InitFollow == Init => FollowInv
<1> SUFFICES ASSUME Init PROVE FollowInv
  OBVIOUS
<1>1. plan \in Plans /\ plan.views \in Nat
  BY PlanTypes DEF Init, Plans
<1>2. pos \in {Away} \cup 0..Full * Divisor
  <2>1. \A v \in Views : Target(v) \in 0..Full * Divisor
    BY <1>1, TargetPlace DEF Views
  <2>2. QED
    BY <2>1 DEF Init
<1>3. queue = <<>> /\ queue \in Seq(Views) /\ Len(queue) = 0
  BY DEF Init
<1>4. Types
  <2>1. /\ ros \in BOOLEAN /\ have \in BOOLEAN /\ ok \in BOOLEAN
        /\ up \in BOOLEAN /\ safe \in BOOLEAN /\ excused \in BOOLEAN
    BY DEF Init
  <2>2. at = "start" /\ i \in 0..plan.views /\ how = "none" /\ tcp = Origin /\ late = {} /\ alarmed = 0
    BY <1>1 DEF Init
  <2>3. QED
    BY <1>1, <1>2, <1>3, <2>1, <2>2 DEF Types
<1>5. Target(i) # Origin
  BY <1>1, TargetPlace DEF Init
<1>6. RunInv /\ HeldInv /\ EndInv
  BY <1>3, <1>5 DEF Init, RunInv, HeldInv, EndInv, EndLeavesStill, AtView, Before
<1>7. QED
  BY <1>4, <1>6, InitAlarm DEF FollowInv

(* run() itself neither moves the robot nor touches its queue.                  *)
LEMMA RunFollow ==
  ASSUME Types, RunInv, HeldInv, EndInv, Run
  PROVE  RunInv' /\ HeldInv' /\ EndInv'
<1>0. /\ UNCHANGED <<plan, ros, tcp, pos, queue>> /\ Views' = Views
      /\ \A v : Target(v)' = Target(v)
  <2>1. UNCHANGED <<plan, ros, tcp, pos, queue>>
    BY DEF Run, Start, Services, FirstState, Precheck, View, Answered, Unanswered, Safety, Arrived,
       StopReturns, Goto, End, stateVars, robotVars
  <2>2. QED
    BY <2>1, SamePlan
<1>1. \A k \in 1..Len(queue) : queue[k] \in Views
  BY QueueTypes
<1>2. i \in Nat /\ plan.views \in Nat /\ Views = 0..plan.views - 1 /\ i <= plan.views
  BY QueueTypes DEF Types
<1> USE DEF Goto, End
<1>3. CASE Start \/ Services \/ FirstState \/ Precheck
  <2>1. /\ at \in Before /\ UNCHANGED <<i, late, excused>>
        /\ at' \in {"services", "state", "check", "view", "done"}
    BY <1>3 DEF Start, Services, FirstState, Precheck, Before, robotVars
  <2>2. i = 0 /\ queue = <<>> /\ Len(queue) = 0
    BY <2>1 DEF RunInv
  <2>3. RunInv'
    BY <1>0, <2>1, <2>2 DEF RunInv, Before, AtView
  <2>4. HeldInv' /\ EndInv'
    BY <1>0, <2>1, <2>2 DEF HeldInv, EndInv, EndLeavesStill
  <2>5. QED
    BY <2>3, <2>4
<1>4. CASE View
  <2>1. at = "view" /\ UNCHANGED <<i, late, excused>>
    BY <1>4 DEF View, robotVars
  <2>2. \/ i = plan.views /\ at' = "done"
        \/ ~ros /\ at' = "done"
        \/ at' = "stop"
        \/ i # plan.views /\ i \notin plan.outside /\ at' = "sent"
    BY <1>4 DEF View
  <2>3. RunInv'
    BY <1>0, <1>2, <2>1, <2>2 DEF RunInv, Before, AtView
  <2>4. HeldInv'
    BY <1>0, <2>1, <2>2 DEF HeldInv, Unsent
  <2>5. EndInv'
    BY <1>0, <1>1, <1>2, <2>1, <2>2 DEF EndInv, EndLeavesStill, HeldInv, RunInv, Unsent
  <2>6. QED
    BY <2>3, <2>4, <2>5
<1>5. CASE Answered
  <2>1. /\ UNCHANGED <<i, late, excused>>
        /\ (at = "moving" /\ at' = "safety") \/ (at = "refused" /\ at' = "done")
    BY <1>5 DEF Answered, robotVars
  <2>2. RunInv'
    BY <1>0, <2>1 DEF RunInv, Before, AtView
  <2>3. HeldInv'
    BY <1>0, <2>1 DEF HeldInv, Unsent
  <2>4. EndInv'
    BY <1>0, <2>1 DEF EndInv, EndLeavesStill, HeldInv, Unsent
  <2>5. QED
    BY <2>2, <2>3, <2>4
<1>6. CASE Unanswered
  <2>1. /\ UNCHANGED i /\ excused' = TRUE /\ at' = "done" /\ at \in {"sent", "moving", "refused"}
        /\ late' \in {late, {i}}
    BY <1>6 DEF Unanswered, Excuse, Types
  <2>2. RunInv'
    BY <1>0, <2>1 DEF RunInv, Before, AtView
  <2>3. HeldInv' /\ EndInv'
    BY <1>0, <2>1 DEF HeldInv, EndInv, EndLeavesStill, Unsent
  <2>4. QED
    BY <2>2, <2>3
<1>7. CASE Safety
  <2>1. /\ UNCHANGED <<i, late, excused>> /\ at = "safety"
        /\ at' \in {"pose", "stop"} \/ (~ros /\ at' = "done")
    BY <1>7 DEF Safety, robotVars
  <2>2. RunInv'
    BY <1>0, <2>1 DEF RunInv, Before, AtView
  <2>3. HeldInv' /\ EndInv'
    BY <1>0, <2>1 DEF HeldInv, EndInv, EndLeavesStill, RunInv, Unsent
  <2>4. QED
    BY <2>2, <2>3
<1>8. CASE Arrived
  <2>1. CASE tcp = Target(i)
    <3>1. /\ at = "pose" /\ at' = "view" /\ i' = i + 1 /\ UNCHANGED <<late, excused>> /\ pos = Target(i)
      BY <1>8, <2>1 DEF Arrived, HeldInv, robotVars
    <3>2. RunInv'
      BY <1>0, <3>1 DEF RunInv, Before, AtView
    <3>3. \A k \in 1..Len(queue) : queue[k] < i + 1 /\ Target(queue[k]) = pos
      BY <1>1, <1>2, <3>1 DEF HeldInv
    <3>4. tcp = Target(i') => pos = Target(i')
      BY <2>1, <3>1
    <3>5. HeldInv'
      BY <1>0, <1>1, <1>2, <3>1, <3>3, <3>4 DEF HeldInv
    <3>6. QED
      BY <3>1, <3>2, <3>5 DEF EndInv, EndLeavesStill
  <2>2. CASE tcp # Target(i)
    <3>1. /\ UNCHANGED <<i, late>> /\ excused' = TRUE /\ at' = "done" /\ at = "pose"
      BY <1>8, <2>2 DEF Arrived, Excuse, robotVars, Types
    <3>2. RunInv'
      BY <1>0, <3>1 DEF RunInv, Before, AtView
    <3>3. HeldInv' /\ EndInv'
      BY <1>0, <3>1 DEF HeldInv, EndInv, EndLeavesStill, Unsent
    <3>4. QED
      BY <3>2, <3>3
  <2>3. QED
    BY <2>1, <2>2
<1>9. CASE StopReturns
  <2>1. /\ UNCHANGED <<i, late>> /\ at' = "done"
        /\ (at = "stop" /\ excused' = TRUE) \/ (at = "stopped" /\ excused' = excused)
    BY <1>9 DEF StopReturns, Excuse, robotVars, Types
  <2>2. RunInv'
    BY <1>0, <2>1 DEF RunInv, Before, AtView
  <2>3. HeldInv'
    BY <1>0, <2>1 DEF HeldInv, Unsent
  <2>4. EndInv'
    BY <1>0, <2>1 DEF EndInv, EndLeavesStill
  <2>5. QED
    BY <2>2, <2>3, <2>4
<1>10. QED
  BY <1>3, <1>4, <1>5, <1>6, <1>7, <1>8, <1>9 DEF Run

(* The robot gets view i: it becomes the last of the commands.                  *)
LEMMA SentFollow ==
  ASSUME Types, HeldInv, UNCHANGED <<plan, i, tcp, pos>>, queue' = Append(queue, i),
         i \in Views \ plan.outside, at' \notin Unsent
  PROVE  HeldInv'
<1>0. (\A v : Target(v)' = Target(v)) /\ i \in Nat /\ \A k \in 1..Len(queue) : queue[k] \in Views
  BY SamePlan, QueueTypes
<1>1. /\ Len(queue') = Len(queue) + 1 /\ Len(queue) \in Nat /\ queue'[Len(queue) + 1] = i
      /\ \A k \in 1..Len(queue) : queue'[k] = queue[k]
  BY DEF Types
<1>2. \A k \in 1..Len(queue') : k \in 1..Len(queue) \/ k = Len(queue) + 1
  BY <1>1
<1>3. ASSUME NEW k \in 1..Len(queue')
      PROVE  /\ queue'[k] <= i /\ queue'[k] \notin plan.outside
             /\ queue'[k] < i => Target(queue'[k]) = pos
  <2>1. CASE k \in 1..Len(queue)
    BY <1>1, <2>1 DEF HeldInv
  <2>2. CASE k = Len(queue) + 1
    BY <1>0, <1>1, <2>2
  <2>3. QED
    BY <1>2, <2>1, <2>2
<1>4. ASSUME NEW j \in 1..Len(queue'), NEW k \in 1..Len(queue'), j < k PROVE queue'[j] <= queue'[k]
  <2>1. CASE k \in 1..Len(queue)
    <3>1. j \in 1..Len(queue)
      BY <1>1, <1>4, <2>1
    <3>2. QED
      BY <1>1, <1>4, <2>1, <3>1 DEF HeldInv
  <2>2. CASE k = Len(queue) + 1
    BY <1>1, <1>3, <2>2
  <2>3. QED
    BY <1>2, <2>1, <2>2
<1>5. tcp' = Target(i') => pos' = Target(i')
  BY DEF HeldInv
<1>6. QED
  BY <1>0, <1>3, <1>4, <1>5 DEF HeldInv

(* The first command of the robot, and those behind it.                         *)
LEMMA QueueFacts ==
  ASSUME Types, queue # <<>>
  PROVE  /\ Head(queue) = queue[1] /\ 1 \in 1..Len(queue) /\ queue[1] \in Nat
         /\ Len(Tail(queue)) = Len(queue) - 1 /\ Len(queue) \in Nat
         /\ \A k \in 1..Len(Tail(queue)) : Tail(queue)[k] = queue[k + 1] /\ k + 1 \in 1..Len(queue)
<1>1. queue \in Seq(Views)
  BY DEF Types
<1>2. /\ Head(queue) = queue[1] /\ 1 \in 1..Len(queue)
      /\ Len(Tail(queue)) = Len(queue) - 1 /\ Len(queue) \in Nat \ {0}
  BY <1>1
<1>3. \A k \in 1..Len(queue) - 1 : Tail(queue)[k] = queue[k + 1]
  BY <1>1
<1>4. queue[1] \in Nat
  BY <1>2, QueueTypes
<1>5. QED
  BY <1>2, <1>3, <1>4

(* The robot leaves only for the current view, once the commands before it are  *)
(* through.                                                                     *)
LEMMA RobotFollow ==
  ASSUME Types, RunInv, HeldInv, EndInv, RobotMoves
  PROVE  RunInv' /\ HeldInv' /\ EndInv'
<1> DEFINE goal == Target(queue[1])
<1>0. /\ UNCHANGED <<plan, at, i, ros, tcp, late, excused>> /\ queue # <<>>
      /\ \/ pos \in {Away, goal} /\ pos' = goal /\ queue' = Tail(queue)
         \/ pos \notin {Away, goal} /\ pos' = Away /\ queue' = queue
  BY QueueFacts DEF RobotMoves, nodeVars, stateVars
<1>1. Views' = Views /\ \A v : Target(v)' = Target(v)
  BY <1>0, SamePlan
<1>2. /\ i \in Nat /\ \A k \in 1..Len(queue) : queue[k] \in Nat /\ Target(queue[k]) # Away
  <2>1. \A k \in 1..Len(queue) : queue[k] \in Nat
    BY QueueTypes
  <2>2. QED
    BY <2>1, QueueTypes, TargetPlace DEF Types
<1>3. /\ 1 \in 1..Len(queue) /\ queue[1] <= i /\ queue[1] \notin plan.outside
      /\ queue[1] < i => goal = pos
      /\ \A k \in 1..Len(queue) : queue[1] <= queue[k]
  BY <1>0, <1>2, QueueFacts DEF HeldInv
<1>4. RunInv'
  <2>1. queue = <<>> => queue' = <<>>
    BY <1>0
  <2>2. at \notin Before
    BY <1>0 DEF RunInv
  <2>3. QED
    BY <1>0, <1>1, <2>2 DEF RunInv, AtView
<1>5. at = "stopped" => excused
  BY <1>0 DEF EndInv
<1>6. at = "done" /\ ~excused => pos' = pos
  BY <1>0, <1>2, <1>3 DEF EndInv, EndLeavesStill
<1> HIDE DEF goal
<1>7. CASE pos \in {Away, goal} /\ pos' = goal /\ queue' = Tail(queue)
  <2>1. \A k \in 1..Len(queue') : queue'[k] = queue[k + 1] /\ k + 1 \in 1..Len(queue)
    BY <1>0, <1>7, QueueFacts
  <2>2. \A k \in 1..Len(queue) : queue[k] < i => Target(queue[k]) = goal
    BY <1>2, <1>7 DEF HeldInv
  <2>3. tcp = Target(i) => pos' = Target(i)
    BY <1>2, <1>3, <1>7, TargetPlace DEF HeldInv, Types
  <2>4. HeldInv'
    <3>1. \A k \in 1..Len(queue') :
             /\ queue'[k] <= i /\ queue'[k] \notin plan.outside
             /\ queue'[k] < i => Target(queue'[k]) = pos'
             /\ at \in Unsent => queue'[k] < i
      BY <1>7, <2>1, <2>2 DEF HeldInv
    <3>2. \A j, k \in 1..Len(queue') : j < k => queue'[j] <= queue'[k]
      BY <2>1 DEF HeldInv
    <3>3. QED
      BY <1>0, <1>1, <2>3, <3>1, <3>2 DEF HeldInv
  <2>5. EndInv'
    BY <1>0, <1>1, <1>5, <1>6, <2>1 DEF EndInv, EndLeavesStill
  <2>6. QED
    BY <1>4, <2>4, <2>5
<1>8. CASE pos \notin {Away, goal} /\ pos' = Away /\ queue' = queue
  <2>1. queue[1] = i
    BY <1>2, <1>3, <1>8
  <2>2. \A k \in 1..Len(queue) : queue[k] = i
    BY <1>2, <1>3, <2>1 DEF HeldInv
  <2>3. tcp # Target(i)
    BY <1>8, <2>1 DEF HeldInv, goal
  <2>4. HeldInv'
    BY <1>0, <1>1, <1>2, <1>8, <2>2, <2>3 DEF HeldInv
  <2>5. EndInv'
    BY <1>0, <1>1, <1>5, <1>6, <1>8 DEF EndInv, EndLeavesStill
  <2>6. QED
    BY <1>4, <2>4, <2>5
<1>9. QED
  BY <1>0, <1>7, <1>8

(* The callbacks, the driver and the robot.                                     *)
LEMMA WorldFollow ==
  ASSUME Types, RunInv, HeldInv, EndInv, [Next /\ ~Run]_vars
  PROVE  RunInv' /\ HeldInv' /\ EndInv'
<1>0. UNCHANGED plan /\ Views' = Views /\ \A v : Target(v)' = Target(v)
  BY PlanStays, SamePlan
<1>1. CASE OnFeedback \/ OnToolPose \/ ServicesUp \/ Interrupt \/ UNCHANGED vars
  <2>1. /\ UNCHANGED <<at, i, pos, queue, late>> /\ tcp' \in {tcp, pos}
        /\ (ros' = ros /\ excused' = excused) \/ excused' = TRUE
    BY <1>1 DEF OnFeedback, OnToolPose, ServicesUp, Interrupt, vars, nodeVars, stateVars, robotVars
  <2>2. RunInv'
    BY <1>0, <2>1 DEF RunInv
  <2>3. HeldInv'
    BY <1>0, <2>1 DEF HeldInv
  <2>4. EndInv'
    BY <1>0, <2>1 DEF EndInv, EndLeavesStill
  <2>5. QED
    BY <2>2, <2>3, <2>4
<1>2. CASE DriverAnswersMove
  <2>1. /\ UNCHANGED <<i, pos, late, tcp, ros, excused>> /\ at = "sent"
        /\ \/ at' = "moving" /\ queue' = Append(queue, i)
           \/ at' = "refused" /\ queue' = queue
    BY <1>2 DEF DriverAnswersMove, Goto, stateVars
  <2>2. i \in Views \ plan.outside
    BY <2>1 DEF RunInv, AtView
  <2>3. RunInv'
    BY <1>0, <2>1, <2>2 DEF RunInv, Before, AtView
  <2>4. HeldInv'
    <3>1. CASE at' = "moving" /\ queue' = Append(queue, i)
      BY <1>0, <2>1, <2>2, <3>1, SentFollow DEF Unsent
    <3>2. CASE at' = "refused" /\ queue' = queue
      BY <1>0, <2>1, <3>2 DEF HeldInv, Unsent
    <3>3. QED
      BY <2>1, <3>1, <3>2
  <2>5. EndInv'
    BY <2>1 DEF EndInv, EndLeavesStill
  <2>6. QED
    BY <2>3, <2>4, <2>5
<1>3. CASE DriverServesLateMove
  <2>1. /\ UNCHANGED <<at, i, pos, tcp, ros, excused>> /\ late # {} /\ late' = {}
        /\ \E v \in late : queue' = Append(queue, v)
    BY <1>3 DEF DriverServesLateMove, nodeVars, stateVars
  <2>2. at = "done" /\ excused /\ i \in Views \ plan.outside /\ queue' = Append(queue, i)
    BY <2>1 DEF RunInv
  <2>3. RunInv'
    BY <1>0, <2>1, <2>2 DEF RunInv, Before, AtView
  <2>4. HeldInv'
    BY <1>0, <2>1, <2>2, SentFollow DEF Unsent
  <2>5. EndInv'
    BY <2>1, <2>2 DEF EndInv, EndLeavesStill
  <2>6. QED
    BY <2>3, <2>4, <2>5
<1>4. CASE DriverAnswersStop
  <2>1. /\ UNCHANGED <<i, pos, tcp, ros, late>> /\ at = "stop" /\ at' = "stopped"
        /\ (queue' = <<>> /\ excused' = excused) \/ (queue' = queue /\ excused' = TRUE)
    BY <1>4 DEF DriverAnswersStop, Goto, stateVars, Excuse, Types
  <2>2. RunInv'
    BY <1>0, <2>1 DEF RunInv, Before, AtView
  <2>3. HeldInv'
    BY <1>0, <2>1 DEF HeldInv, Unsent
  <2>4. EndInv'
    BY <2>1 DEF EndInv, EndLeavesStill
  <2>5. QED
    BY <2>2, <2>3, <2>4
<1>5. CASE SafetyChanges
  <2>1. UNCHANGED <<at, i, pos, tcp, ros, late, excused>> /\ queue' \in {queue, <<>>}
    BY <1>5 DEF SafetyChanges, nodeVars, stateVars
  <2>2. RunInv'
    BY <1>0, <2>1 DEF RunInv
  <2>3. HeldInv'
    BY <1>0, <2>1 DEF HeldInv
  <2>4. EndInv'
    BY <1>0, <2>1 DEF EndInv, EndLeavesStill
  <2>5. QED
    BY <2>2, <2>3, <2>4
<1>6. CASE RobotMoves
  BY <1>6, RobotFollow
<1>7. QED
  BY <1>1, <1>2, <1>3, <1>4, <1>5, <1>6 DEF Next

(* FollowInv holds throughout: every step of run() and of the rest keeps it.    *)
LEMMA FollowInvariance == Spec => []FollowInv
<1>1. FollowInv /\ [Next]_vars => FollowInv'
  BY RunTypes, WorldTypes, RunFollow, WorldFollow, StepAlarm DEF FollowInv
<1>2. QED
  BY <1>1, InitFollow, PTL DEF Spec

(* TypeOK: every variable stays within its type, the history of the moves sent  *)
(* under an alarm included (alarmed is at most 1, and 0 without views).         *)
THEOREM TypeCorrect == Spec => []TypeOK
<1>1. FollowInv => TypeOK
  <2> SUFFICES ASSUME FollowInv PROVE TypeOK
    OBVIOUS
  <2>1. alarmed \in 0..plan.views
    BY PlanTypes DEF FollowInv, Types, AlarmInv
  <2>2. QED
    BY <2>1 DEF FollowInv, Types, TypeOK, Plans
<1>2. QED
  BY <1>1, FollowInvariance, PTL

(* QueueFollowsRun: the robot holds the current view or ones it stands at, none *)
(* outside safe_region, and a run that ends without an excuse leaves it nothing *)
(* to do (run, wait_until_pose, stop).                                          *)
THEOREM QueueFollows == Spec => []QueueFollowsRun
<1>1. FollowInv => QueueFollowsRun
  BY DEF FollowInv, HeldInv, EndInv, QueueFollowsRun, OneViewAtATime
<1>2. QED
  BY <1>1, FollowInvariance, PTL
===============================================================================
