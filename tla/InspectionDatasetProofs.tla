------------------------ MODULE InspectionDatasetProofs ------------------------
(* Theorems about InspectionDataset, for any machines, runs, views, and requests *)
(* and samples that wait: images before samples, the types, and which image lies *)
(* beside which sidecar.                                                         *)
EXTENDS InspectionDataset, TLAPS

(* The camera serves its requests in order, so those of runs that gave up come  *)
(* before the one the manager waits for, and none is left behind it that could  *)
(* overwrite its image.                                                         *)
Mine == [run |-> cur, view |-> view]
Stale(k) == asked[k].run < cur

TypeInv ==
  /\ goal \in [Runs -> [label : Labels, views : 0..MaxViews]]
  /\ cur \in 0..MaxRuns /\ view \in Nat
  /\ at \in {"idle", "view", "wait"} /\ answer \in {"none", "ok", "no"}
  /\ asked \in Seq(Samples)
  /\ image \in [Labels \X Views -> [run : Runs \cup {None}, how : Written]]
  /\ at # "idle" => cur \in Runs
  /\ at = "wait" => view \in Views

QueueInv ==
  /\ at = "idle" => \A k \in 1..Len(asked) : asked[k].run <= cur
  /\ at = "view" => \A k \in 1..Len(asked) : Stale(k)
  /\ at = "wait" /\ answer = "none" =>
       /\ asked # <<>> /\ asked[Len(asked)] = Mine
       /\ \A k \in 1..Len(asked)-1 : Stale(k)
  /\ at = "wait" /\ answer # "none" => asked = <<>>
  /\ at = "wait" /\ answer = "ok" => image[Here].run = cur /\ image[Here].how \in Good

IInv == TypeInv /\ QueueInv

LEMMA Bounds == MaxRuns \in Nat /\ MaxViews \in Nat
BY BoundsAssumption DEF BoundsAssumption

USE Bounds

LEMMA InitIInv == Init => IInv
BY DEF Init, IInv, TypeInv, QueueInv, None, Written

(* Steps that leave the camera's queue and the images alone.                    *)
LEMMA StartRunIInv == IInv /\ StartRun => IInv'
<1> SUFFICES ASSUME IInv, StartRun PROVE IInv'
  OBVIOUS
<1> USE DEF IInv, diskVars
<1>1. /\ at = "idle" /\ at' = "view" /\ cur \in 0..MaxRuns /\ cur < MaxRuns /\ cur' = cur + 1
      /\ view' = 0 /\ UNCHANGED <<goal, answer, asked, image>>
  BY DEF StartRun, TypeInv
<1>2. TypeInv'
  BY <1>1 DEF TypeInv, Runs
<1>3. \A k \in 1..Len(asked) : asked[k] \in Samples
  BY DEF TypeInv
<1>4. \A k \in 1..Len(asked) : asked[k].run \in Int /\ asked[k].run <= cur
  BY <1>1, <1>3 DEF QueueInv, Samples, Runs
<1>5. QueueInv'
  BY <1>1, <1>4 DEF QueueInv, Stale
<1> QED
  BY <1>2, <1>5

LEMMA EndsIInv == IInv /\ (GiveUp \/ Succeed \/ CaptureFails) => IInv'
<1> SUFFICES ASSUME IInv, GiveUp \/ Succeed \/ CaptureFails PROVE IInv'
  OBVIOUS
<1> USE DEF IInv, diskVars
<1>1. /\ at \in {"view", "wait"} /\ at' = "idle" /\ UNCHANGED <<goal, cur, view, asked, image>>
      /\ answer' \in {answer, "none"}
  BY DEF GiveUp, Succeed, CaptureFails, EndRun
<1>2. TypeInv'
  BY <1>1 DEF TypeInv
<1>3. cur \in Nat /\ \A k \in 1..Len(asked) : asked[k] \in Samples
  BY DEF TypeInv
<1>4. asked \in Seq(Samples) /\ Len(asked) \in Nat
  BY DEF TypeInv
<1>5. \A k \in 1..Len(asked) : asked[k].run <= cur
  <2> SUFFICES ASSUME NEW k \in 1..Len(asked) PROVE asked[k].run <= cur
    OBVIOUS
  <2>1. asked[k].run \in Int
    BY <1>3 DEF Samples, Runs
  <2>2. Stale(k) \/ asked[k] = Mine
    BY <1>1, <1>4 DEF QueueInv
  <2> QED
    BY <1>3, <2>1, <2>2 DEF Stale, Mine
<1>6. QueueInv'
  BY <1>1, <1>5 DEF QueueInv
<1> QED
  BY <1>2, <1>6

LEMMA CaptureIInv == IInv /\ Capture => IInv'
<1> SUFFICES ASSUME IInv, Capture PROVE IInv'
  OBVIOUS
<1> USE DEF IInv, diskVars
<1>1. /\ at = "view" /\ view < goal[cur].views /\ at' = "wait" /\ answer' = "none"
      /\ asked' = Append(asked, Mine) /\ UNCHANGED <<goal, cur, view, image>>
  BY DEF Capture, Mine
<1>2. cur \in Runs /\ goal[cur].views \in 0..MaxViews /\ view \in Nat
  BY <1>1 DEF TypeInv
<1>3. view \in Views /\ Mine \in Samples
  BY <1>1, <1>2 DEF Views, Mine, Samples
<1>4. asked \in Seq(Samples) /\ Mine' = Mine
  BY <1>1 DEF TypeInv, Mine
<1>5. TypeInv'
  BY <1>1, <1>2, <1>3, <1>4 DEF TypeInv
<1>6. /\ Len(asked') = Len(asked) + 1 /\ asked' # <<>> /\ asked'[Len(asked')] = Mine
      /\ \A k \in 1..Len(asked) : asked'[k] = asked[k]
  BY <1>1, <1>3, <1>4
<1>7. \A k \in 1..Len(asked')-1 : Stale(k)'
  <2>1. \A k \in 1..Len(asked) : Stale(k)
    BY <1>1 DEF QueueInv
  <2>2. Len(asked')-1 = Len(asked)
    BY <1>4, <1>6
  <2> QED
    BY <1>1, <1>6, <2>1, <2>2 DEF Stale
<1>8. QueueInv'
  BY <1>1, <1>4, <1>6, <1>7 DEF QueueInv
<1> QED
  BY <1>5, <1>8

LEMMA CapturedIInv == IInv /\ Captured => IInv'
<1> SUFFICES ASSUME IInv, Captured PROVE IInv'
  OBVIOUS
<1> USE DEF IInv, diskVars
<1>1. /\ at = "wait" /\ answer = "ok" /\ at' = "view" /\ answer' = "none" /\ view' = view + 1
      /\ UNCHANGED <<goal, cur, asked, image>>
  BY DEF Captured
<1>2. TypeInv'
  BY <1>1 DEF TypeInv
<1>3. asked = <<>>
  BY <1>1 DEF QueueInv
<1>4. QueueInv'
  BY <1>1, <1>3 DEF QueueInv
<1> QED
  BY <1>2, <1>4

(* The request that is served is stale, or the manager's own and the last.      *)
LEMMA HandleCaptureIInv == IInv /\ HandleCapture => IInv'
<1> SUFFICES ASSUME IInv, HandleCapture PROVE IInv'
  OBVIOUS
<1> USE DEF IInv
<1> DEFINE req == Head(asked)
<1>1. PICK how \in Written \cup {"none"} :
        /\ asked # <<>> /\ asked' = Tail(asked) /\ Write(req, how) /\ Answer(req, how \in Good)
        /\ UNCHANGED <<goal, cur, view, at>>
  BY DEF HandleCapture
<1>2. asked \in Seq(Samples) /\ Len(asked) \in Nat \ {0} /\ req \in Samples /\ req = asked[1]
  BY <1>1 DEF TypeInv
<1>3. /\ Tail(asked) \in Seq(Samples) /\ Len(Tail(asked)) = Len(asked) - 1
      /\ \A k \in 1..Len(Tail(asked)) : Tail(asked)[k] = asked[k+1]
  BY <1>2
<1>4. req.run \in Runs /\ req.view \in Views /\ goal[req.run].label \in Labels
  BY <1>2 DEF Samples, TypeInv
<1>5. TypeInv'
  <2>1. image' \in [Labels \X Views -> [run : Runs \cup {None}, how : Written]]
    BY <1>1, <1>4 DEF Write, Label, TypeInv
  <2>2. answer' \in {"none", "ok", "no"}
    BY <1>1 DEF Answer, TypeInv
  <2> QED
    BY <1>1, <1>3, <2>1, <2>2 DEF TypeInv
<1>6. Mine' = Mine /\ Here' = Here
  BY <1>1 DEF Mine, Here, Label
<1>7. QueueInv'
  <2>1. CASE at \in {"idle", "view"}
    BY <1>1, <1>2, <1>3, <2>1 DEF QueueInv, Stale
  <2>2. CASE at = "wait" /\ req # Mine
    <3>1. answer = "none" /\ answer' = "none"
      BY <1>1, <2>2 DEF QueueInv, Answer, Mine
    <3>2. asked[Len(asked)] = Mine /\ \A k \in 1..Len(asked)-1 : Stale(k)
      BY <2>2, <3>1 DEF QueueInv
    <3>3. Len(asked) # 1
      BY <1>2, <2>2, <3>2
    <3>4. Tail(asked) # <<>> /\ Tail(asked)[Len(asked) - 1] = Mine
      <4>1. Len(asked) - 1 \in 1..Len(Tail(asked)) /\ (Len(asked) - 1) + 1 = Len(asked)
        BY <1>2, <1>3, <3>3
      <4>2. Tail(asked)[Len(asked) - 1] = asked[Len(asked)]
        BY <1>3, <4>1
      <4>3. Len(Tail(asked)) # 0 /\ Len(<<>>) = 0
        BY <1>2, <1>3, <3>3
      <4> QED
        BY <3>2, <4>2, <4>3
    <3>5. \A k \in 1..Len(Tail(asked))-1 : Stale(k)'
      BY <1>1, <1>2, <1>3, <3>2 DEF Stale
    <3> QED
      BY <1>1, <1>3, <1>6, <2>2, <3>1, <3>4, <3>5 DEF QueueInv
  <2>3. CASE at = "wait" /\ req = Mine
    <3>1. answer = "none"
      BY <1>1, <2>3 DEF QueueInv
    <3>2. Len(asked) = 1
      <4>1. ~Stale(1)
        BY <1>2, <2>3 DEF Stale, Mine, TypeInv
      <4>2. \A k \in 1..Len(asked)-1 : Stale(k)
        BY <2>3, <3>1 DEF QueueInv
      <4>3. \A n \in Nat \ {0} : n # 1 => 1 \in 1..n-1
        OBVIOUS
      <4> QED
        BY <1>2, <4>1, <4>2, <4>3
    <3>3. asked' = <<>>
      BY <1>1, <1>3, <3>2
    <3>4. answer' = IF how \in Good THEN "ok" ELSE "no"
      BY <1>1, <2>3 DEF Answer, Mine
    <3>5. how \in Good => image'[Here].run = cur /\ image'[Here].how \in Good
      <4>1. Here = <<Label(req.run), req.view>> /\ Here \in Labels \X Views
        BY <1>4, <2>3 DEF Here, Mine, Label
      <4>2. how \in Good => image' = [image EXCEPT ![Here] = [run |-> cur, how |-> how]]
        <5>1. req.run = cur
          BY <2>3 DEF Mine
        <5> HIDE DEF req
        <5> QED
          BY <1>1, <4>1, <5>1 DEF Write, Good
      <4>3. image \in [Labels \X Views -> [run : Runs \cup {None}, how : Written]]
        BY DEF TypeInv
      <4> HIDE DEF IInv, Here
      <4> QED
        BY <4>1, <4>2, <4>3
    <3> QED
      BY <1>1, <1>6, <2>3, <3>3, <3>4, <3>5 DEF QueueInv
  <2> QED
    BY <2>1, <2>2, <2>3 DEF TypeInv
<1> QED
  BY <1>5, <1>7

LEMMA StepIInv == IInv /\ [Next]_vars => IInv'
<1> SUFFICES ASSUME IInv, [Next]_vars PROVE IInv'
  OBVIOUS
<1>1. CASE Manager
  BY <1>1, StartRunIInv, EndsIInv, CaptureIInv, CapturedIInv DEF Manager
<1>2. CASE HandleCapture
  BY <1>2, HandleCaptureIInv
<1>3. CASE OnSample \/ RecorderStarts \/ RecorderDies \/ UNCHANGED vars
  <2>1. UNCHANGED <<managerVars, asked, image>>
    BY <1>3 DEF OnSample, RecorderStarts, RecorderDies, vars, diskVars
  <2> QED
    BY <2>1 DEF managerVars, IInv, TypeInv, QueueInv, Stale, Mine, Here, Label
<1> QED
  BY <1>1, <1>2, <1>3 DEF Next

(* publish_sample comes after camera_node has written this run's image, no       *)
(* write of it failing, and before any other request touches the file, whatever *)
(* requests of runs that gave up are still waiting.  What closing the file lost *)
(* is not known to anyone, and not claimed.                                     *)
THEOREM SamplesHaveImages == Spec => SampleHasImage
<1>1. IInv /\ [Next]_vars =>
        [Captured => image[Here].run = cur /\ image[Here].how \in Good]_vars
  BY DEF IInv, QueueInv, Captured
<1>2. IInv /\ [Next]_vars => IInv'
  BY StepIInv
<1> QED
  BY <1>1, <1>2, InitIInv, PTL DEF Spec, SampleHasImage

-------------------------------------------------------------------------------
(* TypeOK.  What is published or recorded is a view of its run.                 *)

(* What Append and Tail do, element by element.                                 *)
LEMMA AppendFacts ==
  ASSUME NEW S, NEW q \in Seq(S), NEW e \in S
  PROVE  /\ Append(q, e) \in Seq(S) /\ Len(Append(q, e)) = Len(q) + 1 /\ Len(q) \in Nat
         /\ \A k \in 1..Len(q) : Append(q, e)[k] = q[k]
         /\ Append(q, e)[Len(q) + 1] = e
OBVIOUS

LEMMA TailFacts ==
  ASSUME NEW S, NEW q \in Seq(S), q # <<>>
  PROVE  /\ Tail(q) \in Seq(S) /\ Len(Tail(q)) = Len(q) - 1 /\ Len(q) \in Nat \ {0}
         /\ \A k \in 1..Len(q) - 1 : Tail(q)[k] = q[k+1]
         /\ Head(q) = q[1] /\ q[1] \in S
OBVIOUS

(* publish_sample adds to the topic, or loses the new sample or the oldest one. *)
Added(s)   == topic' = Append(topic, s) /\ lost' = lost
Dropped(s) == topic' = topic /\ lost' = lost \cup {s.run}
Shifted(s) == topic # <<>> /\ topic' = Append(Tail(topic), s) /\ lost' = lost \cup {topic[1].run}

LEMMA PublishShape ==
  ASSUME topic \in Seq(Samples), NEW s \in Samples, Publish(s)
  PROVE  Added(s) \/ Dropped(s) \/ Shifted(s)
<1>1. Depth \in Nat \ {0}
  BY QueuesAssumption
<1>2. Len(topic) \in Nat /\ (topic = <<>> => Len(topic) = 0)
  OBVIOUS
<1>3. topic # <<>> => Head(topic) = topic[1]
  OBVIOUS
<1>4. QED
  BY <1>1, <1>2, <1>3 DEF Publish, Added, Dropped, Shifted

(* The members of a queue, and what its changes do to them.                     *)
Members(q) == {q[k] : k \in 1..Len(q)}

LEMMA AppendMembers ==
  ASSUME NEW S, NEW q \in Seq(S), NEW e \in S
  PROVE  Members(Append(q, e)) = Members(q) \cup {e}
<1>1. \A k : k \in 1..Len(q) + 1 <=> k \in 1..Len(q) \/ k = Len(q) + 1
  BY AppendFacts
<1>2. QED
  BY <1>1, AppendFacts DEF Members

LEMMA TailMembers ==
  ASSUME NEW S, NEW q \in Seq(S), q # <<>>
  PROVE  Members(Tail(q)) \subseteq Members(q) /\ q[1] \in Members(q)
<1>1. \A k \in 1..Len(q) - 1 : k + 1 \in 1..Len(q)
  BY TailFacts
<1>2. 1 \in 1..Len(q)
  BY TailFacts
<1>3. QED
  BY <1>1, <1>2, TailFacts DEF Members

LEMMA PublishMembers ==
  ASSUME topic \in Seq(Samples), NEW s \in Samples, Publish(s)
  PROVE  topic' \in Seq(Samples) /\ Members(topic') \subseteq Members(topic) \cup {s}
<1>1. CASE Added(s)
  BY <1>1, AppendFacts, AppendMembers DEF Added
<1>2. CASE Dropped(s)
  BY <1>2 DEF Dropped
<1>3. CASE Shifted(s)
  <2>1. Tail(topic) \in Seq(Samples) /\ topic # <<>>
    BY <1>3, TailFacts DEF Shifted
  <2>2. Members(topic') = Members(Tail(topic)) \cup {s} /\ topic' \in Seq(Samples)
    BY <1>3, <2>1, AppendFacts, AppendMembers DEF Shifted
  <2>3. QED
    BY <2>1, <2>2, TailMembers
<1>4. QED
  BY <1>1, <1>2, <1>3, PublishShape

(* A sample is of a view its run has, in the topic and in the manifest.          *)
Recordable(s) == s.view < goal[s.run].views

RangeInv ==
  /\ view \in 0..MaxViews
  /\ at # "idle" => view <= goal[cur].views
  /\ at = "wait" => view < goal[cur].views
  /\ \A s \in Members(topic) : Recordable(s)
  /\ \A l \in Labels : \A s \in Members(manifest[l]) : Recordable(s)

DiskTypes ==
  /\ outcome \in [Runs -> {"none", "succeeded", "failed"}]
  /\ topic \in Seq(Samples) /\ listening \in BOOLEAN
  /\ sidecar \in [Labels \X Views -> Runs \cup {None}]
  /\ manifest \in [Labels -> Seq(Samples)]
  /\ failed \subseteq Labels \X Views /\ lost \subseteq Runs

TypedInv == IInv /\ RangeInv /\ DiskTypes

(* That is TypeOK, and it holds initially.                                      *)
LEMMA TypedInvTypeOK == TypedInv => TypeOK
  BY DEF TypedInv, IInv, TypeInv, RangeInv, DiskTypes, Members, Recordable, TypeOK

LEMMA InitTyped == Init => TypedInv
<1> SUFFICES ASSUME Init PROVE TypedInv
  OBVIOUS
<1>1. IInv
  BY InitIInv
<1>2. Members(topic) = {} /\ \A l \in Labels : Members(manifest[l]) = {}
  BY DEF Init, Members
<1>3. RangeInv
  BY <1>2 DEF Init, RangeInv
<1>4. DiskTypes
  <2>1. topic \in Seq(Samples) /\ manifest \in [Labels -> Seq(Samples)]
    BY DEF Init
  <2>2. outcome \in [Runs -> {"none"}] /\ sidecar \in [Labels \X Views -> {None}]
    BY DEF Init
  <2>3. QED
    BY <2>1, <2>2 DEF Init, DiskTypes
<1>5. QED
  BY <1>1, <1>3, <1>4 DEF TypedInv

(* The file of the view that is waited for.                                     *)
LEMMA HereIsFile ==
  ASSUME IInv, at = "wait"
  PROVE  Here \in Labels \X Views /\ [run |-> cur, view |-> view] \in Samples /\ cur \in Runs
BY DEF IInv, TypeInv, Here, Label, Samples

(* The steps keep the types.                                                    *)
LEMMA ManagerTyped == TypedInv /\ Manager => RangeInv' /\ DiskTypes'
<1> SUFFICES ASSUME TypedInv, Manager PROVE RangeInv' /\ DiskTypes'
  OBVIOUS
<1>0. IInv /\ TypeInv /\ RangeInv /\ DiskTypes
  BY DEF TypedInv, IInv
<1>1. CASE StartRun
  <2>1. cur' \in Runs /\ view' = 0 /\ at' = "view" /\ UNCHANGED <<goal, topic, manifest>>
    BY <1>0, <1>1 DEF StartRun, TypeInv, Runs, diskVars
  <2>2. view' <= goal'[cur'].views
    BY <1>0, <2>1 DEF TypeInv
  <2>3. RangeInv'
    BY <1>0, <2>1, <2>2 DEF RangeInv, Recordable
  <2>4. QED
    BY <1>0, <1>1, <2>3 DEF StartRun, DiskTypes, diskVars
<1>2. CASE GiveUp \/ Succeed \/ CaptureFails
  <2>1. /\ at' = "idle" /\ at # "idle" /\ UNCHANGED <<goal, cur, view, topic, sidecar, manifest, lost, listening>>
        /\ \E how \in {"succeeded", "failed"} : outcome' = [outcome EXCEPT ![cur] = how]
        /\ failed' = failed \/ (at = "wait" /\ failed' = failed \cup {Here})
    BY <1>2 DEF GiveUp, Succeed, CaptureFails, EndRun, diskVars
  <2>2. RangeInv'
    BY <1>0, <2>1 DEF RangeInv, Recordable
  <2>3. QED
    BY <1>0, <2>1, <2>2, HereIsFile DEF DiskTypes
<1>3. CASE Capture
  <2>1. /\ view < goal[cur].views
        /\ UNCHANGED <<goal, cur, view, topic, sidecar, manifest, lost, listening, failed, outcome>>
    BY <1>3 DEF Capture, diskVars
  <2>2. RangeInv'
    <3>1. cur \in Runs /\ goal[cur].views \in 0..MaxViews /\ view \in 0..MaxViews
      BY <1>0, <1>3 DEF Capture, TypeInv, RangeInv
    <3>2. QED
      BY <1>0, <2>1, <3>1 DEF RangeInv, Recordable
  <2>3. QED
    BY <1>0, <2>1, <2>2 DEF DiskTypes
<1>4. CASE Captured
  <2> DEFINE s == [run |-> cur, view |-> view]
  <2>1. /\ at = "wait" /\ Publish(s) /\ failed' = failed \ {Here} /\ view' = view + 1 /\ at' = "view"
        /\ UNCHANGED <<goal, cur, outcome, listening, sidecar, manifest>>
    BY <1>4 DEF Captured, diskVars
  <2>2. s \in Samples /\ cur \in Runs
    BY <1>0, <2>1, HereIsFile
  <2>3. Recordable(s) /\ view + 1 <= goal[cur].views /\ view + 1 \in 0..MaxViews
    <3>1. goal[cur].views \in 0..MaxViews /\ view \in 0..MaxViews /\ view < goal[cur].views
      BY <1>0, <2>1, <2>2 DEF TypeInv, RangeInv
    <3>2. QED
      BY <3>1 DEF Recordable
  <2>4. topic' \in Seq(Samples) /\ Members(topic') \subseteq Members(topic) \cup {s}
    BY <1>0, <2>1, <2>2, PublishMembers DEF DiskTypes
  <2>5. RangeInv'
    BY <1>0, <2>1, <2>3, <2>4 DEF RangeInv, Recordable
  <2>6. lost' \subseteq Runs
    <3>1. topic # <<>> => topic[1] \in Samples
      BY <1>0, TailFacts DEF DiskTypes
    <3>2. Added(s) \/ Dropped(s) \/ Shifted(s)
      BY <1>0, <2>1, <2>2, PublishShape DEF DiskTypes
    <3>3. QED
      BY <1>0, <2>2, <3>1, <3>2 DEF Added, Dropped, Shifted, DiskTypes, Samples
  <2>7. QED
    BY <1>0, <2>1, <2>4, <2>5, <2>6 DEF DiskTypes
<1>5. QED
  BY <1>1, <1>2, <1>3, <1>4 DEF Manager

(* What on_sample does with the sample it takes.                                *)
LEMMA OnSampleShape ==
  ASSUME TypedInv, OnSample
  PROVE  LET s == topic[1]
             l == Label(s.run)
         IN  /\ topic # <<>> /\ topic' = Tail(topic) /\ s \in Samples /\ s \in Members(topic)
             /\ l \in Labels /\ <<l, s.view>> \in Labels \X Views
             /\ UNCHANGED <<managerVars, asked, listening, image, failed>>
             /\ \E side \in {s.run, None, sidecar[<<l, s.view>>]}, line \in {manifest[l], Append(manifest[l], s)} :
                  /\ sidecar' = [sidecar EXCEPT ![<<l, s.view>>] = side]
                  /\ manifest' = [manifest EXCEPT ![l] = line]
                  /\ lost' = lost \/ lost' = lost \cup {s.run}
                  /\ s.run \in lost' \/ side = s.run
<1>1. topic # <<>> /\ topic \in Seq(Samples)
  BY DEF OnSample, TypedInv, DiskTypes
<1>2. Head(topic) = topic[1] /\ topic[1] \in Samples /\ topic[1] \in Members(topic)
  BY <1>1, TailFacts, TailMembers
<1>3. Label(topic[1].run) \in Labels /\ topic[1].view \in Views
  BY <1>2 DEF Samples, Label, TypedInv, IInv, TypeInv
<1>4. QED
  BY <1>1, <1>2, <1>3 DEF OnSample, Record, Sides, Lines

LEMMA OnSampleTyped == TypedInv /\ OnSample => RangeInv' /\ DiskTypes'
<1> SUFFICES ASSUME TypedInv, OnSample PROVE RangeInv' /\ DiskTypes'
  OBVIOUS
<1> DEFINE s == topic[1]
           l == Label(s.run)
<1>0. IInv /\ TypeInv /\ RangeInv /\ DiskTypes
  BY DEF TypedInv, IInv
<1>1. /\ topic # <<>> /\ topic' = Tail(topic) /\ s \in Samples /\ s \in Members(topic)
      /\ l \in Labels /\ <<l, s.view>> \in Labels \X Views
      /\ UNCHANGED <<managerVars, asked, listening, image, failed>>
  BY OnSampleShape
<1>2. PICK side \in {s.run, None, sidecar[<<l, s.view>>]}, line \in {manifest[l], Append(manifest[l], s)} :
         /\ sidecar' = [sidecar EXCEPT ![<<l, s.view>>] = side]
         /\ manifest' = [manifest EXCEPT ![l] = line]
         /\ lost' = lost \/ lost' = lost \cup {s.run}
  BY OnSampleShape
<1>3. line \in Seq(Samples) /\ Members(line) \subseteq Members(manifest[l]) \cup {s}
  <2>1. manifest[l] \in Seq(Samples)
    BY <1>0, <1>1 DEF DiskTypes
  <2>2. Append(manifest[l], s) \in Seq(Samples) /\ Members(Append(manifest[l], s)) = Members(manifest[l]) \cup {s}
    <3> HIDE DEF s, l
    <3>1. QED
      BY <1>1, <2>1, AppendFacts, AppendMembers
  <2> HIDE DEF s, l
  <2>3. CASE line = manifest[l]
    BY <2>1, <2>3
  <2>4. CASE line = Append(manifest[l], s)
    BY <2>2, <2>4
  <2>5. QED
    BY <1>2, <2>3, <2>4
<1>4. side \in Runs \cup {None} /\ s.run \in Runs
  BY <1>0, <1>1, <1>2 DEF DiskTypes, Samples
<1>5. topic' \in Seq(Samples) /\ Members(topic') \subseteq Members(topic)
  BY <1>0, <1>1, TailFacts, TailMembers DEF DiskTypes
<1>6. Recordable(s) /\ \A m \in Labels : \A e \in Members(manifest[m]) : Recordable(e)
  BY <1>0, <1>1 DEF RangeInv
<1>7. ASSUME NEW m \in Labels, NEW e \in Members(manifest'[m]) PROVE Recordable(e)
  <2>1. manifest'[m] = IF m = l THEN line ELSE manifest[m]
    BY <1>0, <1>2, <1>7 DEF DiskTypes
  <2>2. QED
    BY <1>3, <1>6, <1>7, <2>1
<1>8. /\ sidecar' \in [Labels \X Views -> Runs \cup {None}] /\ manifest' \in [Labels -> Seq(Samples)]
      /\ lost' \subseteq Runs
  BY <1>0, <1>1, <1>2, <1>3, <1>4 DEF DiskTypes
<1> HIDE DEF s, l
<1>9. RangeInv'
  BY <1>0, <1>1, <1>5, <1>6, <1>7 DEF RangeInv, Recordable, managerVars
<1>10. QED
  BY <1>0, <1>1, <1>5, <1>8, <1>9 DEF DiskTypes, managerVars

LEMMA StepTyped == TypedInv /\ [Next]_vars => TypedInv'
<1> SUFFICES ASSUME TypedInv, [Next]_vars PROVE TypedInv'
  OBVIOUS
<1>0. IInv' /\ RangeInv /\ DiskTypes /\ TypeInv
  BY StepIInv DEF TypedInv, IInv
<1>1. CASE Manager
  BY <1>0, <1>1, ManagerTyped DEF TypedInv
<1>2. CASE OnSample
  BY <1>0, <1>2, OnSampleTyped DEF TypedInv
<1>3. CASE HandleCapture \/ RecorderStarts \/ UNCHANGED vars
  <2>1. /\ UNCHANGED <<goal, cur, view, at, outcome, topic, sidecar, manifest, failed, lost>>
        /\ listening' \in {listening, TRUE}
    BY <1>3 DEF HandleCapture, RecorderStarts, vars, managerVars, diskVars
  <2>2. RangeInv' /\ DiskTypes'
    BY <1>0, <2>1 DEF RangeInv, DiskTypes, Recordable
  <2>3. QED
    BY <1>0, <2>2 DEF TypedInv
<1>4. CASE RecorderDies
  <2>1. /\ UNCHANGED <<goal, cur, view, at, outcome, sidecar, manifest, failed>>
        /\ topic' = <<>> /\ listening' = FALSE /\ lost' = lost \cup {topic[k].run : k \in 1..Len(topic)}
    BY <1>4 DEF RecorderDies, managerVars, diskVars
  <2>2. {topic[k].run : k \in 1..Len(topic)} \subseteq Runs
    <3>1. \A k \in 1..Len(topic) : topic[k] \in Samples
      BY <1>0 DEF DiskTypes
    <3>2. QED
      BY <3>1 DEF Samples
  <2>3. Members(topic') = {}
    BY <2>1 DEF Members
  <2>4. lost' \subseteq Runs /\ topic' \in Seq(Samples)
    BY <1>0, <2>1, <2>2 DEF DiskTypes
  <2>5. RangeInv' /\ DiskTypes'
    BY <1>0, <2>1, <2>3, <2>4 DEF RangeInv, DiskTypes, Recordable
  <2>6. QED
    BY <1>0, <2>5 DEF TypedInv
<1>5. QED
  BY <1>1, <1>2, <1>3, <1>4 DEF Next

(* So the types hold in every state.                                            *)
LEMMA TypedInvariance == Spec => []TypedInv
  BY InitTyped, StepTyped, PTL DEF Spec

(* Every variable keeps its type, and the manifest only lists views that their   *)
(* runs have, however samples and requests are delayed or lost.                  *)
THEOREM TypesAreRight == Spec => []TypeOK
  BY TypedInvariance, TypedInvTypeOK, PTL

-------------------------------------------------------------------------------
(* PairsMatch.                                                                  *)
File(s) == <<Label(s.run), s.view>>

(* The last sample of f in the queue q is that of run r; without one, r's is in  *)
(* the sidecar.                                                                 *)
RecordedIn(q, side, f, r) ==
  \/ \E k \in 1..Len(q) : /\ q[k].run = r /\ File(q[k]) = f
                          /\ \A j \in 1..Len(q) : j > k => File(q[j]) # f
  \/ side = r /\ \A k \in 1..Len(q) : File(q[k]) # f

(* A new sample of r becomes the last; one of another file changes nothing.     *)
LEMMA RecordedAppend ==
  ASSUME NEW q \in Seq(Samples), NEW s \in Samples, NEW side, NEW f, NEW r,
         (File(s) = f /\ s.run = r) \/ (File(s) # f /\ RecordedIn(q, side, f, r))
  PROVE  RecordedIn(Append(q, s), side, f, r)
<1> DEFINE p == Append(q, s)
<1>1. /\ Len(p) = Len(q) + 1 /\ Len(q) \in Nat /\ p[Len(q) + 1] = s
      /\ \A k \in 1..Len(q) : p[k] = q[k]
  BY AppendFacts
<1> HIDE DEF p
<1>2. CASE File(s) = f /\ s.run = r
  BY <1>1, <1>2 DEF RecordedIn
<1>3. CASE File(s) # f /\ RecordedIn(q, side, f, r)
  <2>1. \A k \in 1..Len(p) : k \in 1..Len(q) \/ k = Len(q) + 1
    BY <1>1
  <2>2. CASE side = r /\ \A k \in 1..Len(q) : File(q[k]) # f
    BY <1>1, <1>3, <2>1, <2>2 DEF RecordedIn
  <2>3. ASSUME NEW k \in 1..Len(q), q[k].run = r, File(q[k]) = f,
               \A j \in 1..Len(q) : j > k => File(q[j]) # f
        PROVE  RecordedIn(p, side, f, r)
    <3>1. k \in 1..Len(p) /\ p[k] = q[k] /\ \A j \in 1..Len(p) : j > k => File(p[j]) # f
      BY <1>1, <1>3, <2>1, <2>3
    <3>2. QED
      BY <2>3, <3>1 DEF RecordedIn
  <2>4. QED
    BY <1>3, <2>2, <2>3 DEF RecordedIn
<1>4. QED
  BY <1>2, <1>3 DEF p

(* The oldest sample leaves: if it is the only one of f, it must reach the       *)
(* sidecar.                                                                     *)
LEMMA RecordedTail ==
  ASSUME NEW q \in Seq(Samples), q # <<>>, NEW side, NEW after, NEW f, NEW r,
         RecordedIn(q, side, f, r),
         File(q[1]) = f /\ q[1].run = r => after = r,
         File(q[1]) # f => after = side
  PROVE  RecordedIn(Tail(q), after, f, r)
<1> DEFINE p == Tail(q)
<1>1. /\ Len(p) = Len(q) - 1 /\ Len(q) \in Nat \ {0}
      /\ \A k \in 1..Len(p) : p[k] = q[k + 1] /\ k + 1 \in 1..Len(q)
  BY TailFacts
<1> HIDE DEF p
<1>2. CASE side = r /\ \A k \in 1..Len(q) : File(q[k]) # f
  BY <1>1, <1>2 DEF RecordedIn
<1>3. ASSUME NEW k \in 1..Len(q), q[k].run = r, File(q[k]) = f,
             \A j \in 1..Len(q) : j > k => File(q[j]) # f
      PROVE  RecordedIn(p, after, f, r)
  <2>1. CASE k = 1
    <3>1. \A j \in 1..Len(p) : File(p[j]) # f
      BY <1>1, <1>3, <2>1
    <3>2. QED
      BY <1>3, <2>1, <3>1 DEF RecordedIn
  <2>2. CASE k # 1
    <3>1. k - 1 \in 1..Len(p) /\ p[k - 1] = q[k]
      <4>1. k - 1 \in 1..Len(p) /\ (k - 1) + 1 = k
        BY <1>1, <2>2
      <4>2. QED
        BY <1>1, <4>1
    <3>2. \A j \in 1..Len(p) : j > k - 1 => File(p[j]) # f
      BY <1>1, <1>3
    <3>3. QED
      BY <1>3, <3>1, <3>2 DEF RecordedIn
  <2>3. QED
    BY <2>1, <2>2
<1>4. QED
  BY <1>2, <1>3 DEF RecordedIn, p

(* No capture of f waits, and the last one of it succeeded.                     *)
Settled(f) ==
  f \notin failed /\ ~(at = "wait" /\ f = Here) /\ \A s \in Members(asked) : File(s) # f

(* A request is the one the manager waits for, or one it gave up.               *)
AskedInv == \A s \in Members(asked) : File(s) \in failed \/ (at = "wait" /\ File(s) = Here)

(* What is published or recorded has an image.                                  *)
KnownInv ==
  /\ \A s \in Members(topic) : image[File(s)].run # None
  /\ \A f \in Labels \X Views : sidecar[f] # None => image[f].run # None

(* No write of a settled file failed, and the last sample of the file is that    *)
(* of its run.                                                                  *)
Paired(f) ==
  Settled(f) /\ image[f].run \notin lost \cup {None} =>
    image[f].how \in Good /\ RecordedIn(topic, sidecar[f], f, image[f].run)

PairInv == AskedInv /\ KnownInv /\ \A f \in Labels \X Views : Paired(f)

(* A step that leaves topic, sidecars and f's image alone.                      *)
LEMMA PairedStays ==
  ASSUME NEW f \in Labels \X Views, Paired(f), UNCHANGED <<goal, topic>>,
         image'[f] = image[f], sidecar'[f] = sidecar[f], lost \subseteq lost', Settled(f)' => Settled(f)
  PROVE  Paired(f)'
BY DEF Paired, RecordedIn, File, Label

LEMMA InitPair == Init => PairInv
<1> SUFFICES ASSUME Init PROVE PairInv
  OBVIOUS
<1>1. Members(asked) = {} /\ Members(topic) = {}
  BY DEF Init, Members
<1>2. QED
  BY <1>1 DEF Init, PairInv, AskedInv, KnownInv, Paired

(* StartRun, GiveUp, Succeed, Capture, CaptureFails: the requests change.       *)
LEMMA ManagerPair ==
  ASSUME TypedInv, PairInv, StartRun \/ GiveUp \/ Succeed \/ Capture \/ CaptureFails
  PROVE  PairInv'
<1>0. TypeInv /\ AskedInv /\ KnownInv
  BY DEF TypedInv, IInv, PairInv
<1>1. UNCHANGED <<goal, topic, image, sidecar, lost>>
  BY DEF StartRun, GiveUp, Succeed, Capture, CaptureFails, diskVars
<1>2. KnownInv'
  BY <1>0, <1>1 DEF KnownInv, File, Label
<1>3. CASE StartRun \/ GiveUp \/ Succeed
  <2>1. at # "wait" /\ at' # "wait" /\ UNCHANGED <<asked, failed>>
    BY <1>3 DEF StartRun, GiveUp, Succeed, EndRun
  <2>2. AskedInv'
    BY <1>0, <1>1, <2>1 DEF AskedInv, File, Label
  <2>3. \A f \in Labels \X Views : Settled(f)' => Settled(f)
    BY <1>1, <2>1 DEF Settled, File, Label
  <2>4. QED
    BY <1>1, <1>2, <2>2, <2>3, PairedStays DEF PairInv
<1>4. CASE CaptureFails
  <2>1. at = "wait" /\ at' = "idle" /\ UNCHANGED <<asked, cur, view>> /\ failed' = failed \cup {Here}
    BY <1>4 DEF CaptureFails, EndRun
  <2>2. AskedInv'
    BY <1>0, <1>1, <2>1 DEF AskedInv, File, Label
  <2>3. \A f \in Labels \X Views : Settled(f)' => Settled(f)
    BY <1>1, <2>1 DEF Settled, File, Label
  <2>4. QED
    BY <1>1, <1>2, <2>2, <2>3, PairedStays DEF PairInv
<1>5. CASE Capture
  <2> DEFINE s == [run |-> cur, view |-> view]
  <2>1. at' = "wait" /\ at = "view" /\ view < goal[cur].views /\ UNCHANGED <<cur, view, failed>> /\ asked' = Append(asked, s)
    BY <1>5 DEF Capture
  <2>2. s \in Samples /\ asked \in Seq(Samples)
    <3>1. cur \in Runs /\ goal[cur].views \in 0..MaxViews /\ view \in Nat
      BY <1>0, <2>1 DEF TypeInv
    <3>2. QED
      BY <1>0, <2>1, <3>1 DEF TypeInv, Samples, Views
  <2>3. Members(asked') = Members(asked) \cup {s}
    BY <2>1, <2>2, AppendMembers
  <2>4. Here' = Here /\ File(s) = Here /\ \A e : File(e)' = File(e)
    BY <1>1, <2>1 DEF Here, File, Label
  <2>5. AskedInv'
    BY <1>0, <2>1, <2>3, <2>4 DEF AskedInv
  <2>6. \A f \in Labels \X Views : Settled(f)' => Settled(f)
    BY <2>1, <2>3, <2>4 DEF Settled
  <2>7. QED
    BY <1>1, <1>2, <2>5, <2>6, PairedStays DEF PairInv
<1>6. QED
  BY <1>3, <1>4, <1>5

(* publish_sample: the image is this run's and good, no request is left, and     *)
(* the sample is the last of its file, or lost.                                 *)
LEMMA CapturedPair ==
  ASSUME TypedInv, PairInv, Captured
  PROVE  PairInv'
<1> DEFINE s == [run |-> cur, view |-> view]
<1>0. TypeInv /\ QueueInv /\ AskedInv /\ KnownInv /\ topic \in Seq(Samples)
  BY DEF TypedInv, IInv, PairInv, DiskTypes
<1>1. /\ at = "wait" /\ answer = "ok" /\ at' = "view" /\ Publish(s) /\ failed' = failed \ {Here}
      /\ UNCHANGED <<goal, cur, asked, image, sidecar>>
  BY DEF Captured, diskVars
<1>2. asked = <<>> /\ image[Here].run = cur /\ image[Here].how \in Good
  BY <1>0, <1>1 DEF QueueInv
<1>3. Members(asked) = {}
  BY <1>2 DEF Members
<1>4. Here \in Labels \X Views /\ s \in Samples /\ cur \in Runs /\ s.run = cur /\ File(s) = Here
  BY <1>1, HereIsFile DEF TypedInv, File, Here
<1>5. topic' \in Seq(Samples) /\ Members(topic') \subseteq Members(topic) \cup {s}
  BY <1>0, <1>1, <1>4, PublishMembers
<1>6. \A e : File(e)' = File(e)
  BY <1>1 DEF File, Label
<1>7. AskedInv'
  BY <1>1, <1>3 DEF AskedInv
<1>8. KnownInv'
  <2>1. cur # None
    BY <1>4 DEF Runs, None
  <2> HIDE DEF s
  <2>2. QED
    BY <1>0, <1>1, <1>2, <1>4, <1>5, <1>6, <2>1 DEF KnownInv
<1>9. lost \subseteq lost' /\ (Added(s) \/ Dropped(s) \/ Shifted(s))
  BY <1>0, <1>1, <1>4, PublishShape DEF Added, Dropped, Shifted
<1> HIDE DEF s
<1>10. ASSUME NEW f \in Labels \X Views, Settled(f)', image[f].run \notin lost' \cup {None}
       PROVE  image[f].how \in Good /\ RecordedIn(topic', sidecar[f], f, image[f].run)
  <2> DEFINE r == image[f].run
  <2>1. CASE f = Here
    <3>1. r = s.run /\ File(s) = f /\ image[f].how \in Good
      BY <1>2, <1>4, <2>1
    <3>2. Added(s) \/ Shifted(s)
      BY <1>4, <1>9, <1>10, <3>1 DEF Dropped
    <3>3. topic # <<>> => Tail(topic) \in Seq(Samples)
      BY <1>0, TailFacts
    <3>4. QED
      BY <1>0, <1>4, <3>1, <3>2, <3>3, RecordedAppend DEF Added, Shifted
  <2>2. CASE f # Here
    <3>1. Settled(f)
      BY <1>1, <1>3, <1>10, <2>2 DEF Settled
    <3>2. image[f].how \in Good /\ RecordedIn(topic, sidecar[f], f, r)
      BY <1>9, <1>10, <3>1 DEF PairInv, Paired
    <3>3. CASE Added(s)
      BY <1>0, <1>4, <2>2, <3>2, <3>3, RecordedAppend DEF Added
    <3>4. CASE Dropped(s)
      BY <3>2, <3>4 DEF Dropped
    <3>5. CASE Shifted(s)
      <4>1. topic # <<>> /\ topic[1].run # r
        BY <1>10, <3>5 DEF Shifted
      <4>2. RecordedIn(Tail(topic), sidecar[f], f, r) /\ Tail(topic) \in Seq(Samples)
        BY <1>0, <3>2, <4>1, RecordedTail, TailFacts
      <4>3. QED
        BY <1>4, <2>2, <3>2, <3>5, <4>2, RecordedAppend DEF Shifted
    <3>6. QED
      BY <1>9, <3>3, <3>4, <3>5
  <2>3. QED
    BY <2>1, <2>2
<1>11. \A f \in Labels \X Views : Paired(f)'
  BY <1>1, <1>6, <1>10 DEF Paired, RecordedIn
<1>12. QED
  BY <1>7, <1>8, <1>11 DEF PairInv

(* camera_node writes an image only while a request for it is there.            *)
LEMMA HandleCapturePair ==
  ASSUME TypedInv, PairInv, HandleCapture
  PROVE  PairInv'
<1> DEFINE req == asked[1]
<1>0. TypeInv /\ AskedInv /\ KnownInv
  BY DEF TypedInv, IInv, PairInv
<1>1. asked # <<>> /\ asked' = Tail(asked) /\ asked \in Seq(Samples) /\ Head(asked) = req
  BY <1>0, TailFacts DEF HandleCapture, TypeInv
<1>2. req \in Samples /\ req \in Members(asked) /\ Members(asked') \subseteq Members(asked)
  BY <1>1, TailFacts, TailMembers
<1>3. /\ UNCHANGED <<goal, cur, view, at, topic, sidecar, failed, lost>>
      /\ image' = image \/ \E w \in Written : image' = [image EXCEPT ![File(req)] = [run |-> req.run, how |-> w]]
  BY <1>1 DEF HandleCapture, Write, File
<1>4. File(req) \in Labels \X Views /\ req.run # None
  BY <1>0, <1>2 DEF File, Label, Samples, TypeInv, Runs, None
<1>5. Here' = Here /\ \A e : File(e)' = File(e)
  BY <1>3 DEF File, Here, Label
<1>6. AskedInv'
  BY <1>0, <1>2, <1>3, <1>5 DEF AskedInv
<1>7. \A f \in Labels \X Views : image'[f] = image[f] \/ (f = File(req) /\ image'[f].run # None)
  <2> HIDE DEF req
  <2>1. QED
    BY <1>0, <1>3, <1>4 DEF TypeInv
<1>8. KnownInv'
  <2>1. \A s \in Members(topic) : File(s) \in Labels \X Views
    <3>1. \A s \in Members(topic) : s \in Samples
      BY DEF Members, TypedInv, DiskTypes
    <3>2. QED
      BY <1>0, <3>1 DEF TypeInv, File, Label, Samples
  <2>2. QED
    BY <1>0, <1>3, <1>5, <1>7, <2>1 DEF KnownInv
<1>9. ASSUME NEW f \in Labels \X Views PROVE Paired(f)'
  <2>1. CASE f = File(req)
    <3>1. ~Settled(f)'
      BY <1>0, <1>2, <1>3, <1>5, <2>1 DEF AskedInv, Settled
    <3>2. QED
      BY <3>1 DEF Paired
  <2>2. CASE f # File(req)
    <3>1. image'[f] = image[f]
      BY <1>7, <2>2
    <3>2. ASSUME NEW e \in Members(asked), e \notin Members(asked') PROVE e = req
      <4>1. PICK k \in 1..Len(asked) : e = asked[k]
        BY <3>2 DEF Members
      <4>2. k = 1 \/ (k - 1 \in 1..Len(asked') /\ asked'[k - 1] = asked[k])
        <5>1. /\ Len(asked) \in Nat \ {0} /\ Len(asked') = Len(asked) - 1
              /\ \A j \in 1..Len(asked) - 1 : asked'[j] = asked[j + 1]
          BY <1>1, TailFacts
        <5>2. k # 1 => k - 1 \in 1..Len(asked) - 1 /\ (k - 1) + 1 = k
          BY <5>1
        <5>3. QED
          BY <5>1, <5>2
      <4>3. QED
        BY <3>2, <4>1, <4>2 DEF Members
    <3>3. Settled(f)' => Settled(f)
      BY <1>3, <1>5, <2>2, <3>2 DEF Settled
    <3>4. QED
      BY <1>3, <3>1, <3>3, PairedStays DEF PairInv
  <2>3. QED
    BY <2>1, <2>2
<1>10. QED
  BY <1>6, <1>8, <1>9 DEF PairInv

(* on_sample takes the oldest sample to its sidecar, or the run has lost one.   *)
LEMMA OnSamplePair ==
  ASSUME TypedInv, PairInv, OnSample
  PROVE  PairInv'
<1> DEFINE s == topic[1]
           l == Label(s.run)
<1>0. KnownInv /\ AskedInv /\ topic \in Seq(Samples) /\ sidecar \in [Labels \X Views -> Runs \cup {None}]
  BY DEF TypedInv, PairInv, DiskTypes
<1>1. /\ topic # <<>> /\ topic' = Tail(topic) /\ s \in Samples /\ s \in Members(topic)
      /\ <<l, s.view>> \in Labels \X Views
      /\ UNCHANGED <<managerVars, asked, listening, image, failed>>
  BY OnSampleShape
<1>2. PICK side \in {s.run, None, sidecar[<<l, s.view>>]} :
         /\ sidecar' = [sidecar EXCEPT ![<<l, s.view>>] = side]
         /\ lost' = lost \/ lost' = lost \cup {s.run}
         /\ s.run \in lost' \/ side = s.run
  BY OnSampleShape
<1>3. File(s) = <<l, s.view>>
  BY DEF File
<1> HIDE DEF s, l
<1>4. /\ UNCHANGED <<goal, at, cur, view, asked, image, failed>> /\ lost \subseteq lost'
      /\ File(s) \in Labels \X Views
      /\ sidecar'[File(s)] = side /\ \A f \in Labels \X Views : f # File(s) => sidecar'[f] = sidecar[f]
  BY <1>0, <1>1, <1>2, <1>3 DEF managerVars
<1>5. Here' = Here /\ \A e : File(e)' = File(e)
  BY <1>4 DEF File, Here, Label
<1>6. AskedInv'
  BY <1>0, <1>4, <1>5 DEF AskedInv
<1>7. KnownInv'
  <2>1. Members(topic') \subseteq Members(topic)
    BY <1>0, <1>1, TailMembers
  <2>2. image[File(s)].run # None
    BY <1>0, <1>1 DEF KnownInv
  <2>3. ASSUME NEW f \in Labels \X Views, sidecar'[f] # None PROVE image[f].run # None
    BY <1>0, <1>4, <2>2, <2>3 DEF KnownInv
  <2>4. QED
    BY <1>0, <1>4, <1>5, <2>1, <2>3 DEF KnownInv
<1>8. ASSUME NEW f \in Labels \X Views, Settled(f)', image[f].run \notin lost' \cup {None}
      PROVE  image[f].how \in Good /\ RecordedIn(topic', sidecar'[f], f, image[f].run)
  <2> DEFINE r == image[f].run
  <2>1. Settled(f)
    BY <1>4, <1>5, <1>8 DEF Settled
  <2>2. image[f].how \in Good /\ RecordedIn(topic, sidecar[f], f, r)
    BY <1>4, <1>8, <2>1 DEF PairInv, Paired
  <2>3. File(s) = f /\ s.run = r => sidecar'[f] = r
    BY <1>2, <1>4, <1>8
  <2>4. QED
    BY <1>0, <1>1, <1>4, <2>2, <2>3, RecordedTail DEF s
<1>9. \A f \in Labels \X Views : Paired(f)'
  BY <1>4, <1>5, <1>8 DEF Paired, RecordedIn
<1>10. QED
  BY <1>6, <1>7, <1>9 DEF PairInv

(* The recorder dies: every sample that waits is lost.                          *)
LEMMA RecorderPair ==
  ASSUME TypedInv, PairInv, RecorderDies \/ RecorderStarts \/ UNCHANGED vars
  PROVE  PairInv'
<1>0. KnownInv /\ AskedInv
  BY DEF PairInv
<1>1. /\ UNCHANGED <<goal, at, cur, view, asked, image, sidecar, failed>>
      /\ \/ UNCHANGED <<topic, lost>>
         \/ topic' = <<>> /\ lost' = lost \cup {topic[k].run : k \in 1..Len(topic)}
  BY DEF RecorderDies, RecorderStarts, vars, managerVars, diskVars
<1>2. Here' = Here /\ \A e : File(e)' = File(e)
  BY <1>1 DEF File, Here, Label
<1>3. AskedInv'
  BY <1>0, <1>1, <1>2 DEF AskedInv
<1>4. \A f \in Labels \X Views : Settled(f)' => Settled(f)
  BY <1>1, <1>2 DEF Settled
<1>5. CASE UNCHANGED <<topic, lost>>
  BY <1>0, <1>1, <1>2, <1>3, <1>4, <1>5, PairedStays DEF PairInv, KnownInv
<1>6. CASE topic' = <<>> /\ lost' = lost \cup {topic[k].run : k \in 1..Len(topic)}
  <2>1. Members(topic') = {}
    BY <1>6 DEF Members
  <2>2. KnownInv'
    BY <1>0, <1>1, <2>1 DEF KnownInv
  <2>3. ASSUME NEW f \in Labels \X Views, Settled(f)', image[f].run \notin lost' \cup {None}
        PROVE  image[f].how \in Good /\ sidecar[f] = image[f].run
    <3>1. image[f].how \in Good /\ RecordedIn(topic, sidecar[f], f, image[f].run)
      BY <1>4, <1>6, <2>3 DEF PairInv, Paired
    <3>2. \A k \in 1..Len(topic) : topic[k].run # image[f].run
      BY <1>6, <2>3
    <3>3. QED
      BY <3>1, <3>2 DEF RecordedIn
  <2>4. \A f \in Labels \X Views : Paired(f)'
    BY <1>1, <1>6, <2>3 DEF Paired, RecordedIn
  <2>5. QED
    BY <1>3, <2>2, <2>4 DEF PairInv
<1>7. QED
  BY <1>1, <1>5, <1>6

(* Every step keeps image and sidecar paired.                                   *)
LEMMA StepPair == TypedInv /\ PairInv /\ [Next]_vars => PairInv'
  BY ManagerPair, CapturedPair, HandleCapturePair, OnSamplePair, RecorderPair DEF Next, Manager

(* Once nothing of a view is under way, its image and its sidecar come from the  *)
(* same run, whatever was aborted before, unless its last capture failed or a    *)
(* sample was lost: requests and samples keep the order of the runs.             *)
THEOREM PairsAreOfOneRun == Spec => []PairsMatch
<1>1. TypedInv /\ PairInv => PairsMatch
  <2> SUFFICES ASSUME TypedInv, PairInv, NEW f \in Labels \X Views, sidecar[f] # None, ~UnderWay(f),
                      f \notin failed, image[f].run \notin lost
               PROVE  image[f].run = sidecar[f] /\ image[f].how \in Good
    BY DEF PairsMatch
  <2>1. Settled(f) /\ \A k \in 1..Len(topic) : File(topic[k]) # f
    BY DEF UnderWay, Settled, Members, File
  <2>2. image[f].run # None
    BY DEF PairInv, KnownInv
  <2>3. image[f].how \in Good /\ sidecar[f] = image[f].run
    BY <2>1, <2>2 DEF PairInv, Paired, RecordedIn
  <2>4. QED
    BY <2>3
<1>2. QED
  BY <1>1, InitPair, StepPair, TypedInvariance, PTL DEF Spec
================================================================================
