--------------------------- MODULE StateStreamProofs ---------------------------
(* Theorems about the safety events and the types of StateStream, for any       *)
(* number of executor threads, flags, messages, connections and jobs.           *)
EXTENDS StateStream, FiniteSetTheorems, TLAPS

LEMMA Bounds ==
  /\ MaxMsgs \in Nat /\ MaxConns \in Nat /\ MaxJobs \in Nat /\ MaxSteps \in Nat
  /\ Timer # IO /\ Timer \notin Workers /\ IO \notin Workers
BY BoundsAssumption, ThreadsAssumption DEF BoundsAssumption, ThreadsAssumption

USE Bounds

(* A callback of on_feedback is on its way from "store" to "emit", and what it  *)
(* publishes in between does not make it forget to emit.  Only executor threads *)
(* run it.                                                                      *)
Spot == [at : Spots, then : {"idle", "emit"}, msg : SUBSET Flags, phase : Phases,
         snap : Snapshots]

TypeInv ==
  /\ th \in [Threads -> Spot] /\ flags \subseteq Flags /\ job \in JobSlots
  /\ step \in [Jobs -> 0..MaxSteps] /\ last \subseteq Flags
  /\ events \in [Alarms -> Nat] /\ ended \subseteq Jobs

SpotInv ==
  \A t \in Threads :
    /\ th[t].at \in {"idle", "store", "phase", "release"} => th[t].then = "idle"
    /\ th[t].at = "emit" => th[t].then = "emit"
    /\ t \notin Workers => ~Handling(t)

(* While callbacks do not overlap there is one at most, of the last message,    *)
(* and only its edges have not made their events yet; between two callbacks     *)
(* there is nothing left to be announced.                                       *)
Announced == events = edges /\ flags = last /\ prev = last \cap Alarms
Announcing(t) ==
  /\ th[t].msg = last
  /\ edges = Counted(events, (last \cap Alarms) \ prev)
  /\ th[t].at = "store" => prev = flags \cap Alarms
  /\ th[t].at # "store" => flags = last

EdgeInv ==
  ~crossed =>
    /\ \A t, u \in Workers : Handling(t) /\ Handling(u) => t = u
    /\ (\A t \in Workers : ~Handling(t)) => Announced
    /\ \A t \in Workers : Handling(t) => Announcing(t)

IInv == TypeInv /\ SpotInv /\ EdgeInv

(* The spots a thread begins with.                                              *)
LEMMA RestFacts == Rest \in Spot /\ NoJob \in JobSlots /\ Blank \in Snapshots
<1>1. NoPhase \in Phases
  BY DEF NoPhase, Phases
<1>2. NoJob \in JobSlots /\ Blank \in Snapshots
  BY <1>1 DEF NoJob, JobSlots, Blank, Snapshots
<1> QED
  BY <1>1, <1>2 DEF Rest, Spot, Spots

LEMMA InitIInv == Init => IInv
<1> SUFFICES ASSUME Init PROVE IInv
  OBVIOUS
<1>1. TypeInv
  BY RestFacts DEF Init, TypeInv
<1>2. \A t \in Threads : th[t].at = "idle" /\ th[t].then = "idle"
  BY DEF Init, Rest
<1>3. SpotInv
  BY <1>2 DEF SpotInv, Handling
<1>4. EdgeInv
  BY <1>2 DEF EdgeInv, Init, Handling, Announced, Threads
<1> QED
  BY <1>1, <1>3, <1>4 DEF IInv

LEMMA BecomeFacts ==
  ASSUME TypeInv, NEW t \in Threads, NEW spot \in Spot, Become(t, spot)
  PROVE  /\ th' \in [Threads -> Spot] /\ th'[t] = spot
         /\ \A u \in Threads : u # t => th'[u] = th[u]
BY DEF TypeInv, Become

(* Steps that leave the flags, the messages and their events alone, and take    *)
(* their thread neither into a callback of on_feedback nor out of it.           *)
LEMMA AsideIInv ==
  ASSUME IInv, NEW t \in Threads, NEW spot \in Spot, Become(t, spot),
         UNCHANGED <<flags, prev, events, last, edges, crossed>>,
         job' \in JobSlots, step' \in [Jobs -> 0..MaxSteps], ended' \subseteq Jobs,
         spot.at \in {"idle", "store", "phase", "release"} => spot.then = "idle",
         spot.at = "emit" => spot.then = "emit",
         spot.at # "store", th[t].at # "store",
         (spot.at = "emit" \/ spot.then = "emit") <=> Handling(t),
         Handling(t) => spot.msg = th[t].msg
  PROVE  IInv'
<1> USE DEF IInv
<1>1. /\ th' \in [Threads -> Spot] /\ th'[t] = spot
      /\ \A u \in Threads : u # t => th'[u] = th[u]
  BY BecomeFacts
<1>2. TypeInv'
  BY <1>1 DEF TypeInv
<1>3. \A u \in Threads : Handling(u)' <=> Handling(u)
  BY <1>1 DEF Handling
<1>4. SpotInv'
  BY <1>1, <1>3 DEF SpotInv
<1>5. \A u \in Threads : Handling(u) => th'[u].msg = th[u].msg
  BY <1>1
<1>6. \A u \in Threads : th'[u].at = "store" <=> th[u].at = "store"
  BY <1>1
<1>7. EdgeInv'
  BY <1>3, <1>5, <1>6 DEF EdgeInv, Announced, Announcing, Threads
<1> QED
  BY <1>2, <1>4, <1>7

LEMMA TakeMessageIInv ==
  ASSUME IInv, NEW t \in Workers, NEW msg \in SUBSET Flags, TakeMessage(t, msg)
  PROVE  IInv'
<1> USE DEF IInv
<1> DEFINE spot == [Rest EXCEPT !.at = "store", !.msg = msg]
<1>1. /\ spot \in Spot /\ spot.at = "store" /\ spot.msg = msg /\ spot.then = "idle"
      /\ t \in Threads
  BY RestFacts DEF Rest, Spot, Spots, Threads
<1>2. /\ At(t, "idle") /\ Become(t, spot) /\ last' = msg
      /\ edges' = Counted(edges, Rising(msg))
      /\ crossed' = (crossed \/ \E u \in Workers : Handling(u))
      /\ UNCHANGED <<flags, prev, job, events, step, ended>>
  BY DEF TakeMessage
<1> HIDE DEF spot
<1>3. /\ th' \in [Threads -> Spot] /\ th'[t] = spot
      /\ \A u \in Threads : u # t => th'[u] = th[u]
  BY <1>1, <1>2, BecomeFacts
<1>4. TypeInv'
  BY <1>2, <1>3 DEF TypeInv
<1>5. \A u \in Threads : u # t => (Handling(u)' <=> Handling(u))
  BY <1>3 DEF Handling
<1>6. SpotInv'
  BY <1>1, <1>3, <1>5 DEF SpotInv
<1>7. EdgeInv'
  <2> SUFFICES ASSUME ~crossed' PROVE EdgeInv'
    BY DEF EdgeInv
  <2>1. Announced /\ \A u \in Workers : ~Handling(u)
    BY <1>2 DEF EdgeInv
  <2>2. \A u \in Workers : Handling(u)' <=> u = t
    BY <1>1, <1>3, <1>5, <2>1 DEF Handling, Threads
  <2>3. edges' = Counted(events', (last' \cap Alarms) \ prev')
    <3>1. Rising(msg) = (msg \cap Alarms) \ (last \cap Alarms)
      BY DEF Rising
    <3> QED
      BY <1>2, <2>1, <3>1 DEF Announced
  <2>4. prev' = flags' \cap Alarms
    BY <1>2, <2>1 DEF Announced
  <2>5. Announcing(t)'
    BY <1>1, <1>2, <1>3, <2>3, <2>4 DEF Announcing
  <2> QED
    BY <2>2, <2>5 DEF EdgeInv
<1> QED
  BY <1>4, <1>6, <1>7

LEMMA StoreIInv == ASSUME IInv, NEW t \in Threads, Store(t) PROVE IInv'
<1> USE DEF IInv, histVars, rosVars
<1>1. /\ t \in Workers /\ Handling(t) /\ th[t].at = "store" /\ th[t] \in Spot
  BY DEF Store, At, SpotInv, Handling, TypeInv
<1>2. /\ flags' = th[t].msg /\ UNCHANGED <<prev, job, events, step, ended, last, edges, crossed>>
  BY DEF Store
<1> DEFINE onward == [th[t] EXCEPT !.at = "publish", !.then = "emit"]
<1>3. PICK spot \in Spot :
        /\ Become(t, spot)
        /\ \/ spot = Rest /\ flags = th[t].msg
           \/ spot = onward
  <2>1. onward \in Spot
    BY <1>1 DEF Spot, Spots
  <2> QED
    BY <2>1, RestFacts DEF Store, Publish
<1>4. onward.at = "publish" /\ onward.then = "emit" /\ onward.msg = th[t].msg
  BY <1>1 DEF Spot
<1> HIDE DEF onward
<1>5. /\ th' \in [Threads -> Spot] /\ th'[t] = spot
      /\ \A u \in Threads : u # t => th'[u] = th[u]
  BY <1>3, BecomeFacts
<1>6. TypeInv'
  BY <1>1, <1>2, <1>5 DEF TypeInv, Spot
<1>7. \A u \in Threads : u # t => (Handling(u)' <=> Handling(u))
  BY <1>5 DEF Handling
<1>8. SpotInv'
  BY <1>1, <1>3, <1>4, <1>5, <1>7 DEF SpotInv, Rest
<1>9. EdgeInv'
  <2> SUFFICES ASSUME ~crossed PROVE EdgeInv'
    BY <1>2 DEF EdgeInv
  <2>1. Announcing(t) /\ \A u \in Workers : u # t => ~Handling(u)
    BY <1>1 DEF EdgeInv
  <2>2. th[t].msg = last /\ prev = flags \cap Alarms
        /\ edges = Counted(events, (last \cap Alarms) \ prev)
    BY <1>1, <2>1 DEF Announcing
  <2>3. \A u \in Workers : u # t => ~Handling(u)'
    BY <1>7, <2>1 DEF Threads
  <2>4. CASE spot = Rest /\ flags = th[t].msg
    <3>1. ~Handling(t)'
      BY <1>5, <2>4 DEF Handling, Rest
    <3>2. (last \cap Alarms) \ prev = {}
      BY <2>2, <2>4
    <3>3. Counted(events, {}) = events
      BY DEF TypeInv, Counted
    <3>4. Announced'
      BY <1>2, <2>2, <2>4, <3>2, <3>3 DEF Announced
    <3> QED
      BY <2>3, <3>1, <3>4 DEF EdgeInv
  <2>5. CASE spot = onward
    <3>1. Announcing(t)'
      BY <1>2, <1>4, <1>5, <2>2, <2>5 DEF Announcing
    <3>2. Handling(t)'
      BY <1>4, <1>5, <2>5 DEF Handling
    <3> QED
      BY <1>1, <2>3, <3>1, <3>2 DEF EdgeInv
  <2> QED
    BY <1>3, <2>4, <2>5
<1> QED
  BY <1>6, <1>8, <1>9

LEMMA EmitIInv == ASSUME IInv, NEW t \in Threads, Emit(t) PROVE IInv'
<1> USE DEF IInv, rosVars, histVars
<1> DEFINE rose == (th[t].msg \cap Alarms) \ prev
<1>1. t \in Workers /\ Handling(t) /\ th[t].at = "emit"
  BY DEF Emit, At, SpotInv, Handling
<1>2. /\ events' = Counted(events, rose) /\ prev' = th[t].msg \cap Alarms /\ Become(t, Rest)
      /\ UNCHANGED <<flags, job, last, edges, crossed, step, ended>>
  BY DEF Emit
<1>3. /\ th' \in [Threads -> Spot] /\ th'[t] = Rest
      /\ \A u \in Threads : u # t => th'[u] = th[u]
  BY <1>2, RestFacts, BecomeFacts
<1>4. TypeInv'
  <2>1. events' \in [Alarms -> Nat]
    BY <1>2 DEF TypeInv, Counted
  <2> QED
    BY <1>2, <1>3, <2>1 DEF TypeInv
<1>5. \A u \in Threads : u # t => (Handling(u)' <=> Handling(u))
  BY <1>3 DEF Handling
<1>6. SpotInv'
  BY <1>1, <1>3, <1>5 DEF SpotInv, Rest
<1>7. EdgeInv'
  <2> SUFFICES ASSUME ~crossed PROVE EdgeInv'
    BY <1>2 DEF EdgeInv
  <2>1. Announcing(t) /\ \A u \in Workers : u # t => ~Handling(u)
    BY <1>1 DEF EdgeInv
  <2>2. \A u \in Workers : ~Handling(u)'
    BY <1>3, <1>5, <2>1 DEF Threads, Handling, Rest
  <2>3. Announced'
    BY <1>1, <1>2, <2>1 DEF Announced, Announcing
  <2> QED
    BY <2>2, <2>3 DEF EdgeInv
<1> QED
  BY <1>4, <1>6, <1>7

LEMMA SnapshotFacts == IInv => Snapshot \in Snapshots
BY RestFacts DEF IInv, TypeInv, Snapshot, Snapshots

(* Build and Send, with the Resume that follows both.                           *)
LEMMA PublishingIInv ==
  ASSUME IInv, NEW t \in Threads, Build(t) \/ Send(t)
  PROVE  IInv'
<1> USE DEF IInv
<1>1. /\ th[t].at \in {"publish", "send"} /\ th[t] \in Spot
      /\ UNCHANGED <<flags, prev, job, events, last, edges, crossed, step, ended>>
  BY DEF Build, Send, At, TypeInv, rosVars, histVars
<1>2. Handling(t) <=> th[t].then = "emit"
  BY <1>1 DEF Handling
<1> DEFINE back == [th[t] EXCEPT !.at = "emit", !.snap = Blank]
           sending == [th[t] EXCEPT !.at = "send", !.snap = Snapshot]
<1>3. back \in Spot /\ back.at = "emit" /\ back.then = th[t].then /\ back.msg = th[t].msg
  BY <1>1, RestFacts DEF Spot, Spots
<1>4. sending \in Spot /\ sending.at = "send" /\ sending.then = th[t].then
      /\ sending.msg = th[t].msg
  BY <1>1, SnapshotFacts DEF Spot, Spots
<1>5. Rest.at = "idle" /\ Rest.then = "idle"
  BY DEF Rest
<1>6. \/ th[t].then = "emit" /\ Become(t, back)
      \/ th[t].then # "emit" /\ Become(t, Rest)
      \/ Become(t, sending)
  BY DEF Build, Send, Resume
<1>7. job' \in JobSlots /\ step' \in [Jobs -> 0..MaxSteps] /\ ended' \subseteq Jobs
  BY <1>1 DEF TypeInv
<1>8. th[t].then \in {"idle", "emit"}
  BY <1>1 DEF Spot
<1> HIDE DEF back, sending, IInv
<1>9. CASE th[t].then = "emit" /\ Become(t, back)
  BY <1>1, <1>2, <1>3, <1>7, <1>9, AsideIInv
<1>10. CASE th[t].then # "emit" /\ Become(t, Rest)
  BY <1>1, <1>2, <1>5, <1>7, <1>10, RestFacts, AsideIInv
<1>11. CASE Become(t, sending)
  BY <1>1, <1>2, <1>4, <1>7, <1>11, AsideIInv
<1> QED
  BY <1>6, <1>9, <1>10, <1>11

(* Steps that end in publish_state, with nothing to do after it.                *)
LEMMA PublisherIInv ==
  ASSUME IInv, NEW t \in Threads, Publish(t, "idle"),
         th[t].at \in {"idle", "phase", "release"}, job' \in JobSlots,
         UNCHANGED <<flags, prev, events, last, edges, crossed, step, ended>>
  PROVE  IInv'
<1> DEFINE spot == [th[t] EXCEPT !.at = "publish", !.then = "idle"]
<1>1. th[t] \in Spot /\ th[t].then = "idle"
  BY DEF IInv, TypeInv, SpotInv
<1>2. spot \in Spot /\ spot.at = "publish" /\ spot.then = "idle"
  BY <1>1 DEF Spot, Spots
<1>3. Become(t, spot)
  BY DEF Publish
<1>4. ~Handling(t) /\ step' \in [Jobs -> 0..MaxSteps] /\ ended' \subseteq Jobs
  BY <1>1 DEF Handling, IInv, TypeInv
<1> HIDE DEF spot
<1> QED
  BY <1>2, <1>3, <1>4, AsideIInv

LEMMA JobIInv ==
  ASSUME IInv, NEW t \in Threads, StorePhase(t) \/ Release(t)
  PROVE  IInv'
<1>1. th[t] \in Spot /\ job \in JobSlots
  BY DEF IInv, TypeInv
<1>2. job' \in JobSlots
  <2>1. th[t].phase \in Phases
    BY <1>1 DEF Spot
  <2>2. [job EXCEPT !.phase = th[t].phase] \in JobSlots
    BY <1>1, <2>1 DEF JobSlots
  <2> QED
    BY <2>2, RestFacts DEF StorePhase, Release
<1>3. /\ th[t].at \in {"phase", "release"} /\ Publish(t, "idle")
      /\ UNCHANGED <<flags, prev, events, last, edges, crossed, step, ended>>
  BY DEF StorePhase, Release, At, rosVars, histVars
<1> QED
  BY <1>2, <1>3, PublisherIInv

LEMMA CallersIInv == ASSUME IInv, OnStateTimer \/ Connect PROVE IInv'
<1>1. PICK t \in Threads : th[t].at = "idle" /\ Publish(t, "idle")
  BY DEF OnStateTimer, Connect, At, Threads
<1>2. job' \in JobSlots /\ UNCHANGED <<flags, prev, events, last, edges, crossed, step, ended>>
  BY DEF OnStateTimer, Connect, rosVars, histVars, IInv, TypeInv
<1> QED
  BY <1>1, <1>2, PublisherIInv

LEMMA TakeResponseIInv ==
  ASSUME IInv, NEW t \in Workers, TakeProgress(t) \/ TakeResult(t)
  PROVE  IInv'
<1>1. /\ t \in Threads /\ th[t].at = "idle" /\ job \in JobSlots
      /\ step \in [Jobs -> 0..MaxSteps]
      /\ UNCHANGED <<job, flags, prev, events, last, edges, crossed>>
  BY DEF TakeProgress, TakeResult, At, histVars, IInv, TypeInv, Threads
<1> DEFINE progress == [Rest EXCEPT !.at = "phase",
                                    !.phase = [of |-> job.id, step |-> step[job.id] + 1]]
           result == [Rest EXCEPT !.at = "release"]
<1>2. CASE TakeProgress(t)
  <2>1. /\ job.id \in Jobs /\ step[job.id] < MaxSteps /\ Become(t, progress)
        /\ step' = [step EXCEPT ![job.id] = step[job.id] + 1]
    BY <1>2 DEF TakeProgress
  <2>2. step[job.id] + 1 \in 0..MaxSteps /\ job.id \in 0..MaxJobs
    BY <1>1, <2>1 DEF JobSlots
  <2>3. [of |-> job.id, step |-> step[job.id] + 1] \in Phases
    BY <2>2 DEF Phases
  <2>4. progress \in Spot /\ progress.at = "phase" /\ progress.then = "idle"
    BY <2>3, RestFacts DEF Rest, Spot, Spots
  <2>5. step' \in [Jobs -> 0..MaxSteps] /\ ended' \subseteq Jobs
    BY <1>1, <1>2, <2>1, <2>2 DEF TakeProgress, IInv, TypeInv
  <2>6. ~Handling(t) /\ job' \in JobSlots
    BY <1>1 DEF Handling, IInv, SpotInv
  <2> HIDE DEF progress
  <2> QED
    BY <1>1, <2>1, <2>4, <2>5, <2>6, AsideIInv
<1>3. CASE TakeResult(t)
  <2>1. Become(t, result) /\ step' = step /\ ended' \subseteq Jobs
    BY <1>3 DEF TakeResult, IInv, TypeInv
  <2>2. result \in Spot /\ result.at = "release" /\ result.then = "idle"
    BY RestFacts DEF Rest, Spot, Spots
  <2>3. ~Handling(t) /\ job' \in JobSlots
    BY <1>1 DEF Handling, IInv, SpotInv
  <2> HIDE DEF result
  <2> QED
    BY <1>1, <2>1, <2>2, <2>3, AsideIInv
<1> QED
  BY <1>2, <1>3

LEMMA RestIInv == ASSUME IInv, Disconnect \/ Claim \/ UNCHANGED vars PROVE IInv'
<1>1. job' \in JobSlots
  <2>1. Cardinality(ended) \in Nat
    <3>1. IsFiniteSet(Jobs)
      BY FS_Interval DEF Jobs
    <3>2. IsFiniteSet(ended)
      BY <3>1, FS_Subset DEF IInv, TypeInv
    <3> QED
      BY <3>2, FS_CardinalityType
  <2>2. CASE Claim
    <3> DEFINE i == Cardinality(ended) + 1
    <3>1. i \in 0..MaxJobs /\ job' = [id |-> i, phase |-> [of |-> i, step |-> 0]]
      BY <2>1, <2>2 DEF Claim
    <3> HIDE DEF i
    <3> QED
      BY <3>1 DEF JobSlots, Phases
  <2>3. CASE Disconnect \/ UNCHANGED vars
    BY <2>3 DEF Disconnect, vars, IInv, TypeInv
  <2> QED
    BY <2>2, <2>3
<1>2. UNCHANGED <<th, flags, prev, events, last, edges, crossed, step, ended>>
  BY DEF Disconnect, Claim, vars, rosVars, histVars
<1> QED
  BY <1>1, <1>2 DEF IInv, TypeInv, SpotInv, EdgeInv, Handling, Announced, Announcing

LEMMA StepIInv == IInv /\ [Next]_vars => IInv'
<1> SUFFICES ASSUME IInv, [Next]_vars PROVE IInv'
  OBVIOUS
<1>1. ASSUME NEW t \in Threads, ThreadStep(t) PROVE IInv'
  BY <1>1, StoreIInv, EmitIInv, PublishingIInv, JobIInv DEF ThreadStep
<1>2. ASSUME NEW t \in Workers, TakeProgress(t) \/ TakeResult(t) PROVE IInv'
  BY <1>2, TakeResponseIInv
<1>3. ASSUME NEW t \in Workers, NEW msg \in SUBSET Flags, TakeMessage(t, msg) PROVE IInv'
  BY <1>3, TakeMessageIInv
<1>4. CASE OnStateTimer \/ Connect
  BY <1>4, CallersIInv
<1>5. CASE Disconnect \/ Claim \/ UNCHANGED vars
  BY <1>5, RestIInv
<1> QED
  BY <1>1, <1>2, <1>3, <1>4, <1>5 DEF Next

LEMMA Invariance == Spec => []IInv
<1>1. IInv /\ [Next]_vars => IInv'
  BY StepIInv
<1> QED
  BY <1>1, InitIInv, PTL DEF Spec

(* Between two callbacks of on_feedback that do not overlap, event_mtx_ and     *)
(* prev_* leave every alarm flag announced as often as it has risen, for any    *)
(* number of threads, flags and messages.                                       *)
THEOREM EdgesAnnounced == Spec => []EventPerEdge
<1>1. IInv => EventPerEdge
  BY DEF IInv, EdgeInv, EventPerEdge, Announced
<1> QED
  BY <1>1, Invariance, PTL

-------------------------------------------------------------------------------
(* The counters: every message is in the hands of one callback until it has     *)
(* made its events, at most one of each flag.                                   *)
InHand == {t \in Threads : Handling(t)}

CountInv ==
  /\ taken \in 0..MaxMsgs /\ edges \in [Alarms -> Nat] /\ IsFiniteSet(InHand)
  /\ \A f \in Alarms : edges[f] <= taken /\ events[f] + Cardinality(InHand) <= taken

RestTypes ==
  /\ have \in BOOLEAN /\ crossed \in BOOLEAN /\ prev \subseteq Alarms
  /\ conn \in 0..MaxConns /\ conns \in 0..MaxConns /\ shown \in Snapshots
  /\ owed \subseteq Jobs /\ stopped \subseteq Jobs

(* A thread that goes on to another spot is a callback of on_feedback then if   *)
(* that spot is one; the other threads are what they were.                      *)
OfFeedback(spot) == spot.at \in {"store", "emit"} \/ spot.then = "emit"

LEMMA InHandStep ==
  ASSUME TypeInv, NEW t \in Threads, NEW spot \in Spot, Become(t, spot)
  PROVE  /\ OfFeedback(spot) => InHand' = InHand \cup {t}
         /\ ~OfFeedback(spot) => InHand' = InHand \ {t}
<1>1. /\ th'[t] = spot /\ \A u \in Threads : u # t => th'[u] = th[u]
  BY BecomeFacts
<1>2. Handling(t)' <=> OfFeedback(spot)
  BY <1>1 DEF Handling, OfFeedback
<1>3. \A u \in Threads : u # t => (Handling(u)' <=> Handling(u))
  BY <1>1 DEF Handling
<1> QED
  BY <1>2, <1>3 DEF InHand

LEMMA CountedFacts ==
  ASSUME NEW count \in [Alarms -> Nat], NEW F
  PROVE  /\ Counted(count, F) \in [Alarms -> Nat]
         /\ \A f \in Alarms : Counted(count, F)[f] \in {count[f], count[f] + 1}
BY DEF Counted

(* No new message and no event: callbacks end, if anything.                     *)
LEMMA QuietCount ==
  ASSUME TypeInv, CountInv, UNCHANGED <<taken, edges, events>>, InHand' \subseteq InHand
  PROVE  CountInv'
<1>1. IsFiniteSet(InHand') /\ Cardinality(InHand') <= Cardinality(InHand)
  BY FS_Subset DEF CountInv
<1>2. Cardinality(InHand') \in Nat /\ Cardinality(InHand) \in Nat
  BY <1>1, FS_CardinalityType DEF CountInv
<1>3. \A f \in Alarms : events[f] \in Nat
  BY DEF TypeInv
<1> QED
  BY <1>1, <1>2, <1>3 DEF CountInv

LEMMA InitCount == Init => CountInv /\ RestTypes
<1> SUFFICES ASSUME Init PROVE CountInv /\ RestTypes
  OBVIOUS
<1>1. InHand = {}
  BY DEF Init, InHand, Handling, Rest
<1>2. IsFiniteSet(InHand) /\ Cardinality(InHand) = 0
  BY <1>1, FS_EmptySet
<1>3. CountInv
  BY <1>2 DEF Init, CountInv
<1>4. RestTypes
  <2>1. Blank \in Snapshots /\ 0 \in 0..MaxConns
    BY RestFacts
  <2>2. have \in BOOLEAN /\ crossed \in BOOLEAN
    BY DEF Init
  <2> QED
    BY <2>1, <2>2 DEF Init, RestTypes
<1> QED
  BY <1>3, <1>4

LEMMA TakeCount ==
  ASSUME IInv, CountInv, NEW t \in Workers, NEW msg \in SUBSET Flags, TakeMessage(t, msg)
  PROVE  CountInv'
<1> DEFINE spot == [Rest EXCEPT !.at = "store", !.msg = msg]
<1>1. /\ spot \in Spot /\ OfFeedback(spot) /\ t \in Threads
  BY RestFacts DEF Rest, Spot, Spots, Threads, OfFeedback
<1>2. /\ At(t, "idle") /\ Become(t, spot) /\ taken < MaxMsgs /\ taken' = taken + 1
      /\ edges' = Counted(edges, Rising(msg)) /\ events' = events
  BY DEF TakeMessage
<1> HIDE DEF spot
<1>3. InHand' = InHand \cup {t} /\ t \notin InHand
  <2>1. th[t].then = "idle" /\ th[t].at = "idle"
    BY <1>1, <1>2 DEF IInv, SpotInv, At
  <2> QED
    BY <1>1, <1>2, <2>1, InHandStep DEF IInv, InHand, Handling
<1>4. IsFiniteSet(InHand') /\ Cardinality(InHand') = Cardinality(InHand) + 1
  BY <1>3, FS_AddElement DEF CountInv
<1>5. Cardinality(InHand) \in Nat
  BY FS_CardinalityType DEF CountInv
<1>6. /\ edges' \in [Alarms -> Nat] /\ \A f \in Alarms : edges'[f] <= edges[f] + 1
      /\ \A f \in Alarms : edges[f] \in Nat /\ events[f] \in Nat
  <2>1. edges \in [Alarms -> Nat]
    BY DEF CountInv
  <2> QED
    BY <1>2, <2>1, CountedFacts DEF IInv, TypeInv
<1> QED
  BY <1>2, <1>4, <1>5, <1>6 DEF CountInv

LEMMA EmitCount == ASSUME IInv, CountInv, NEW t \in Threads, Emit(t) PROVE CountInv'
<1>1. /\ th[t].at = "emit" /\ Become(t, Rest) /\ UNCHANGED <<taken, edges>>
      /\ events' = Counted(events, (th[t].msg \cap Alarms) \ prev)
  BY DEF Emit, At, rosVars, histVars
<1>2. InHand' = InHand \ {t} /\ t \in InHand
  BY <1>1, RestFacts, InHandStep DEF IInv, InHand, Handling, OfFeedback, Rest
<1>3. IsFiniteSet(InHand') /\ Cardinality(InHand') = Cardinality(InHand) - 1
  BY <1>2, FS_RemoveElement DEF CountInv
<1>4. Cardinality(InHand) \in Nat
  BY FS_CardinalityType DEF CountInv
<1>5. \A f \in Alarms : events[f] \in Nat /\ events'[f] \in Nat /\ events'[f] <= events[f] + 1
  <2>1. events \in [Alarms -> Nat]
    BY DEF IInv, TypeInv
  <2> QED
    BY <1>1, <2>1, CountedFacts
<1>6. \A f \in Alarms : events'[f] + Cardinality(InHand') <= events[f] + Cardinality(InHand)
  <2> SUFFICES ASSUME NEW f \in Alarms
               PROVE  events'[f] + Cardinality(InHand') <= events[f] + Cardinality(InHand)
    OBVIOUS
  <2>1. events[f] \in Nat /\ events'[f] \in Nat /\ events'[f] <= events[f] + 1
    BY <1>5
  <2>2. Cardinality(InHand') = Cardinality(InHand) - 1
    BY <1>3
  <2> QED
    BY <1>4, <2>1, <2>2
<1>7. \A f \in Alarms : edges[f] <= taken /\ events'[f] + Cardinality(InHand') <= taken
  BY <1>3, <1>4, <1>5, <1>6 DEF CountInv
<1> QED
  BY <1>1, <1>3, <1>7 DEF CountInv

(* The other steps of a thread.                                                 *)
LEMMA AsideCount ==
  ASSUME IInv, CountInv, NEW t \in Threads, NEW spot \in Spot, Become(t, spot),
         UNCHANGED <<taken, edges, events>>, OfFeedback(spot) => Handling(t)
  PROVE  CountInv'
<1>1. InHand' \subseteq InHand
  BY InHandStep DEF IInv, InHand
<1> QED
  BY <1>1, QuietCount DEF IInv

LEMMA ThreadCount == ASSUME IInv, CountInv, NEW t \in Threads, ThreadStep(t) PROVE CountInv'
<1> DEFINE onward(then) == [th[t] EXCEPT !.at = "publish", !.then = then]
           back == [th[t] EXCEPT !.at = "emit", !.snap = Blank]
           sending == [th[t] EXCEPT !.at = "send", !.snap = Snapshot]
<1>0. th[t] \in Spot /\ Snapshot \in Snapshots /\ Rest \in Spot /\ ~OfFeedback(Rest)
  BY RestFacts, SnapshotFacts DEF IInv, TypeInv, OfFeedback, Rest
<1>1. onward("emit") \in Spot /\ onward("idle") \in Spot /\ ~OfFeedback(onward("idle"))
  BY <1>0 DEF Spot, Spots, OfFeedback
<1>2. back \in Spot /\ sending \in Spot /\ (OfFeedback(sending) <=> th[t].then = "emit")
  BY <1>0, RestFacts DEF Spot, Spots, OfFeedback
<1>3. (th[t].at = "store" => Handling(t)) /\ (th[t].then = "emit" => Handling(t))
  BY DEF Handling
<1> HIDE DEF onward, back, sending
<1>4. CASE Store(t)
  <2>1. UNCHANGED <<taken, edges, events>> /\ Handling(t)
    BY <1>3, <1>4 DEF Store, At, rosVars, histVars
  <2>2. Become(t, Rest) \/ Become(t, onward("emit"))
    BY <1>4 DEF Store, Publish, onward
  <2> QED
    BY <1>0, <1>1, <2>1, <2>2, AsideCount
<1>5. CASE Build(t) \/ Send(t)
  <2>1. UNCHANGED <<taken, edges, events>>
    BY <1>5 DEF Build, Send, rosVars, histVars
  <2>2. Become(t, Rest) \/ (th[t].then = "emit" /\ Become(t, back)) \/ Become(t, sending)
    BY <1>5 DEF Build, Send, Resume, back, sending
  <2> QED
    BY <1>0, <1>2, <1>3, <2>1, <2>2, AsideCount
<1>6. CASE StorePhase(t) \/ Release(t)
  <2>1. UNCHANGED <<taken, edges, events>> /\ Become(t, onward("idle"))
    BY <1>6 DEF StorePhase, Release, Publish, onward, rosVars, histVars
  <2> QED
    BY <1>1, <2>1, AsideCount
<1> QED
  BY <1>4, <1>5, <1>6, EmitCount DEF ThreadStep

LEMMA ClientCount ==
  ASSUME IInv, CountInv, OnStateTimer \/ Connect \/ Disconnect \/ Claim \/ UNCHANGED vars
  PROVE  CountInv'
<1>1. UNCHANGED <<taken, edges, events>>
  BY DEF OnStateTimer, Connect, Disconnect, Claim, vars, rosVars, histVars
<1>2. CASE OnStateTimer \/ Connect
  <2>1. PICK t \in Threads : Publish(t, "idle")
    BY <1>2 DEF OnStateTimer, Connect, Threads
  <2> DEFINE spot == [th[t] EXCEPT !.at = "publish", !.then = "idle"]
  <2>2. spot \in Spot /\ ~OfFeedback(spot) /\ Become(t, spot)
    BY <2>1 DEF Publish, IInv, TypeInv, Spot, Spots, OfFeedback
  <2> HIDE DEF spot
  <2> QED
    BY <1>1, <2>2, AsideCount
<1>3. CASE Disconnect \/ Claim \/ UNCHANGED vars
  <2>1. th' = th
    BY <1>3 DEF Disconnect, Claim, vars
  <2>2. InHand' = InHand
    BY <2>1 DEF InHand, Handling
  <2> QED
    BY <1>1, <2>2, QuietCount DEF IInv
<1> QED
  BY <1>2, <1>3

LEMMA ResponseCount ==
  ASSUME IInv, CountInv, NEW t \in Workers, TakeProgress(t) \/ TakeResult(t)
  PROVE  CountInv'
<1>1. t \in Threads /\ UNCHANGED <<taken, edges, events>>
  BY DEF TakeProgress, TakeResult, histVars, Threads
<1> DEFINE progress == [Rest EXCEPT !.at = "phase",
                                    !.phase = [of |-> job.id, step |-> step[job.id] + 1]]
           result == [Rest EXCEPT !.at = "release"]
<1>2. result \in Spot /\ ~OfFeedback(result) /\ ~OfFeedback(progress)
  BY RestFacts DEF Rest, Spot, Spots, OfFeedback
<1>3. CASE TakeProgress(t)
  <2>1. job.id \in Jobs /\ step[job.id] < MaxSteps /\ Become(t, progress)
    BY <1>3 DEF TakeProgress
  <2>2. step[job.id] + 1 \in 0..MaxSteps /\ job.id \in 0..MaxJobs
    BY <2>1 DEF IInv, TypeInv, Jobs
  <2>3. progress \in Spot
    BY <2>2, RestFacts DEF Rest, Spot, Spots, Phases
  <2> HIDE DEF progress
  <2> QED
    BY <1>1, <1>2, <2>1, <2>3, AsideCount
<1>4. CASE TakeResult(t)
  <2>1. Become(t, result)
    BY <1>4 DEF TakeResult
  <2> HIDE DEF result
  <2> QED
    BY <1>1, <1>2, <2>1, AsideCount
<1> QED
  BY <1>3, <1>4

LEMMA StepCount == IInv /\ CountInv /\ [Next]_vars => CountInv'
<1> SUFFICES ASSUME IInv, CountInv, [Next]_vars PROVE CountInv'
  OBVIOUS
<1>1. ASSUME NEW t \in Threads, ThreadStep(t) PROVE CountInv'
  BY <1>1, ThreadCount
<1>2. ASSUME NEW t \in Workers, TakeProgress(t) \/ TakeResult(t) PROVE CountInv'
  BY <1>2, ResponseCount
<1>3. ASSUME NEW t \in Workers, NEW msg \in SUBSET Flags, TakeMessage(t, msg) PROVE CountInv'
  BY <1>3, TakeCount
<1>4. CASE OnStateTimer \/ Connect \/ Disconnect \/ Claim \/ UNCHANGED vars
  BY <1>4, ClientCount
<1> QED
  BY <1>1, <1>2, <1>3, <1>4 DEF Next

LEMMA StepRest == IInv /\ RestTypes /\ [Next]_vars => RestTypes'
<1> SUFFICES ASSUME IInv, RestTypes, [Next]_vars PROVE RestTypes'
  OBVIOUS
<1> USE DEF RestTypes, rosVars, clientVars, histVars
<1>1. ASSUME NEW t \in Threads, ThreadStep(t) PROVE RestTypes'
  <2>1. CASE Store(t) \/ StorePhase(t) \/ Release(t) \/ Build(t)
    BY <2>1 DEF Store, StorePhase, Release, Build
  <2>2. CASE Emit(t)
    BY <2>2 DEF Emit
  <2>3. CASE Send(t)
    <3>1. th[t].snap \in Snapshots
      BY DEF IInv, TypeInv, Spot
    <3> QED
      BY <2>3, <3>1, RestFacts DEF Send
  <2> QED
    BY <1>1, <2>1, <2>2, <2>3 DEF ThreadStep
<1>2. ASSUME NEW t \in Workers, TakeProgress(t) \/ TakeResult(t) PROVE RestTypes'
  BY <1>2 DEF TakeProgress, TakeResult
<1>3. ASSUME NEW t \in Workers, NEW msg \in SUBSET Flags, TakeMessage(t, msg) PROVE RestTypes'
  <2>1. crossed' \in BOOLEAN
    BY <1>3 DEF TakeMessage
  <2>2. owed' \subseteq Jobs
    BY <1>3 DEF TakeMessage
  <2>3. UNCHANGED <<have, prev, conn, conns, shown, stopped>>
    BY <1>3 DEF TakeMessage
  <2> QED
    BY <2>1, <2>2, <2>3
<1>4. CASE OnStateTimer \/ Disconnect \/ Claim \/ UNCHANGED vars
  BY <1>4, RestFacts DEF OnStateTimer, Disconnect, Claim, vars
<1>5. CASE Connect
  BY <1>5 DEF Connect
<1> QED
  BY <1>1, <1>2, <1>3, <1>4, <1>5 DEF Next

(* TypeOK: every variable stays within its type; in particular no flag has more *)
(* events than there were messages, however their callbacks overlap.            *)
THEOREM TypeCorrect == Spec => []TypeOK
<1>1. IInv /\ CountInv /\ RestTypes => TypeOK
  <2> SUFFICES ASSUME IInv, CountInv, RestTypes PROVE TypeOK
    OBVIOUS
  <2>1. Cardinality(InHand) \in Nat
    BY FS_CardinalityType DEF CountInv
  <2>2. events \in [Alarms -> 0..MaxMsgs] /\ edges \in [Alarms -> 0..MaxMsgs]
    <3>1. \A f \in Alarms : events[f] \in 0..MaxMsgs /\ edges[f] \in 0..MaxMsgs
      BY <2>1 DEF CountInv, IInv, TypeInv
    <3> QED
      BY <3>1 DEF CountInv, IInv, TypeInv
  <2> QED
    BY <2>2 DEF TypeOK, IInv, TypeInv, CountInv, RestTypes, Spot
<1>2. Init => IInv /\ CountInv /\ RestTypes
  BY InitIInv, InitCount
<1>3. IInv /\ CountInv /\ RestTypes /\ [Next]_vars => IInv' /\ CountInv' /\ RestTypes'
  BY StepIInv, StepCount, StepRest
<1> QED
  BY <1>1, <1>2, <1>3, PTL DEF Spec
================================================================================
