--------------------------- MODULE InspectionDataset ---------------------------
(* What inspections leave on the disk.  The view loop of inspection_manager     *)
(* asks camera_node for an image per view and publishes a sample for it;        *)
(* dataset_recorder writes the sidecar and the manifest from the topic, behind  *)
(* the manager's back.  Files are named by label and view, so runs of one       *)
(* machine share them.  A file is known by the run it was written for.          *)
EXTENDS Integers, Sequences

CONSTANTS
  Labels,     \* machine_id of the goals
  MaxRuns,    \* bound: inspections, one after another (motion_busy_)
  MaxViews,   \* bound on num_views
  MaxPending, \* bound: capture requests the camera has not served
  Depth       \* QoS of inspection_sample: KEEP_LAST 50

ASSUME BoundsAssumption == MaxRuns \in Nat /\ MaxViews \in Nat
ASSUME QueuesAssumption == MaxPending \in Nat \ {0} /\ Depth \in Nat \ {0}

Runs  == 1..MaxRuns
Views == 0..MaxViews-1
None  == 0

VARIABLES
  goal,      \* per run: its label and its num_views
  cur, view, \* the run under way or the last one; i
  at,        \* the manager: idle, at the top of the view loop, or waiting for the camera
  outcome,   \* per run: how it ended
  asked,     \* the camera's requests, served one at a time in order
  answer,    \* the response to the request the manager waits for
  topic,     \* samples on their way to the recorder
  listening, \* dataset_recorder is up and its subscription matched
  image,     \* per label and view: the run whose image is there, and how it was written
  sidecar,   \* per label and view: the run whose view_....json is there
  manifest,  \* per label: the lines of manifest.jsonl
  failed,    \* history: views whose last capture failed or was given up
  lost       \* history: runs with a sample the recorder did not get or not write

managerVars == <<goal, cur, view, at, outcome, answer>>
diskVars    == <<image, sidecar, manifest>>
vars == <<managerVars, asked, topic, listening, diskVars, failed, lost>>

Samples == [run : Runs, view : Views]
Label(r) == goal[r].label
Here == <<Label(cur), view>>

(* An image is whole; or cut, when no write failed but the end of it was still  *)
(* in the stream's buffer and got lost as the stream was closed; or there is    *)
(* only a part of it, as a write failed.                                        *)
Written == {"whole", "cut", "part"}
Good    == {"whole", "cut"}

\* Every variable stays within its type; only views of a run are recorded for it.
TypeOK ==
  /\ goal \in [Runs -> [label : Labels, views : 0..MaxViews]]
  /\ cur \in 0..MaxRuns /\ view \in 0..MaxViews
  /\ at \in {"idle", "view", "wait"} /\ answer \in {"none", "ok", "no"}
  /\ outcome \in [Runs -> {"none", "succeeded", "failed"}]
  /\ asked \in Seq(Samples) /\ topic \in Seq(Samples) /\ listening \in BOOLEAN
  /\ image \in [Labels \X Views -> [run : Runs \cup {None}, how : Written]]
  /\ sidecar \in [Labels \X Views -> Runs \cup {None}]
  /\ manifest \in [Labels -> Seq(Samples)]
  /\ failed \subseteq Labels \X Views /\ lost \subseteq Runs
  /\ \A l \in Labels : \A k \in 1..Len(manifest[l]) :
       manifest[l][k].view < goal[manifest[l][k].run].views

Init ==
  /\ goal \in [Runs -> [label : Labels, views : 1..MaxViews]]
  /\ cur = 0 /\ view = 0 /\ at = "idle" /\ outcome = [r \in Runs |-> "none"]
  /\ asked = <<>> /\ answer = "none" /\ topic = <<>> /\ listening = FALSE
  /\ image = [f \in Labels \X Views |-> [run |-> None, how |-> "part"]]
  /\ sidecar = [f \in Labels \X Views |-> None]
  /\ manifest = [l \in Labels |-> <<>>]
  /\ failed = {} /\ lost = {}

-------------------------------------------------------------------------------
(* inspection_manager: the view loop of execute, as far as files are concerned. *)

StartRun ==
  /\ at = "idle" /\ cur < MaxRuns
  /\ cur' = cur + 1 /\ view' = 0 /\ at' = "view"
  /\ UNCHANGED <<goal, outcome, answer, asked, topic, listening, diskVars, failed, lost>>

EndRun(how) == at' = "idle" /\ outcome' = [outcome EXCEPT ![cur] = how]

(* A move fails, the goal is canceled, or the camera's service is not ready.    *)
GiveUp ==
  /\ at = "view" /\ EndRun("failed")
  /\ UNCHANGED <<goal, cur, view, answer, asked, topic, listening, diskVars, failed, lost>>

Succeed ==
  /\ at = "view" /\ view = goal[cur].views /\ EndRun("succeeded")
  /\ UNCHANGED <<goal, cur, view, answer, asked, topic, listening, diskVars, failed, lost>>

Capture ==
  /\ at = "view" /\ view < goal[cur].views /\ Len(asked) < MaxPending
  /\ at' = "wait" /\ answer' = "none"
  /\ asked' = Append(asked, [run |-> cur, view |-> view])
  /\ UNCHANGED <<goal, cur, view, outcome, topic, listening, diskVars, failed, lost>>

(* publish_sample.  A full queue loses its oldest sample.                       *)
Publish(sample) ==
  IF ~listening
    THEN lost' = lost \cup {sample.run} /\ UNCHANGED topic
    ELSE IF Len(topic) < Depth
      THEN topic' = Append(topic, sample) /\ UNCHANGED lost
      ELSE topic' = Append(Tail(topic), sample) /\ lost' = lost \cup {Head(topic).run}

Captured ==
  /\ at = "wait" /\ answer = "ok"
  /\ Publish([run |-> cur, view |-> view])
  /\ failed' = failed \ {Here}
  /\ view' = view + 1 /\ at' = "view" /\ answer' = "none"
  /\ UNCHANGED <<goal, cur, outcome, asked, listening, diskVars>>

(* ok = false, or no answer within 10 s; the request is not recalled.           *)
CaptureFails ==
  /\ at = "wait"
  /\ failed' = failed \cup {Here}
  /\ EndRun("failed") /\ answer' = "none"
  /\ UNCHANGED <<goal, cur, view, asked, topic, listening, diskVars, lost>>

Manager == StartRun \/ GiveUp \/ Succeed \/ Capture \/ Captured \/ CaptureFails

-------------------------------------------------------------------------------
(* camera_node: one thread.                                                     *)

Write(req, how) ==
  LET file == <<Label(req.run), req.view>> IN
    image' = IF how = "none" THEN image
             ELSE [image EXCEPT ![file] = [run |-> req.run, how |-> how]]

Answer(req, ok) ==
  answer' = IF at = "wait" /\ req = [run |-> cur, view |-> view]
              THEN IF ok THEN "ok" ELSE "no"
              ELSE answer

\* Bug: two requests are served at a time, and may finish in either order.
HandleCapture_Reentrant ==
  /\ \E k \in 1..Len(asked) : \E how \in Written \cup {"none"} :
       /\ Write(asked[k], how) /\ Answer(asked[k], how \in Good)
       /\ asked' = SubSeq(asked, 1, k-1) \o SubSeq(asked, k+1, Len(asked))
  /\ UNCHANGED <<goal, cur, view, at, outcome, topic, listening, sidecar, manifest, failed, lost>>

\* Bug: the file was opened, whether all of it could be written is not asked.
HandleCapture_NotGood ==
  /\ asked # <<>> /\ asked' = Tail(asked)
  /\ \E how \in Written \cup {"none"} :
       Write(Head(asked), how) /\ Answer(Head(asked), how # "none")
  /\ UNCHANGED <<goal, cur, view, at, outcome, topic, listening, sidecar, manifest, failed, lost>>

(* handle_capture with write_stub_ppm: the file is truncated and written, to    *)
(* its end or not; or not even opened.  good() is asked before the stream is    *)
(* closed, so what is lost in closing it goes unnoticed, and the answer is ok.  *)
HandleCapture ==
  /\ asked # <<>> /\ asked' = Tail(asked)
  /\ \E how \in Written \cup {"none"} :
       Write(Head(asked), how) /\ Answer(Head(asked), how \in Good)
  /\ UNCHANGED <<goal, cur, view, at, outcome, topic, listening, sidecar, manifest, failed, lost>>

-------------------------------------------------------------------------------
(* dataset_recorder: one thread.                                                *)

(* The sidecar is replaced (or lost with what it held, or not opened), a line   *)
(* is added to the manifest (or not): on_sample asks neither stream.            *)
Record(sample, side, line) ==
  LET l == Label(sample.run) IN
    /\ sidecar' = [sidecar EXCEPT ![<<l, sample.view>>] = side]
    /\ manifest' = [manifest EXCEPT ![l] = line]
    /\ lost' = IF side = sample.run /\ line # manifest[l] THEN lost ELSE lost \cup {sample.run}

Lines(sample) == manifest[Label(sample.run)]
Sides(sample) == {sample.run, None, sidecar[<<Label(sample.run), sample.view>>]}

\* Bug: the manifest is opened like the sidecar, with trunc.
OnSample_Truncates ==
  /\ topic # <<>> /\ topic' = Tail(topic)
  /\ \E side \in Sides(Head(topic)), line \in {<<>>, <<Head(topic)>>} :
       Record(Head(topic), side, line)
  /\ UNCHANGED <<managerVars, asked, listening, image, failed>>

\* Bug: the view is counted from one.
OnSample_FromOne ==
  /\ topic # <<>> /\ topic' = Tail(topic)
  /\ \E line \in {Lines(Head(topic)), Append(Lines(Head(topic)), [Head(topic) EXCEPT !.view = @ + 1])} :
       Record(Head(topic), Head(topic).run, line)
  /\ UNCHANGED <<managerVars, asked, listening, image, failed>>

OnSample ==
  /\ topic # <<>> /\ topic' = Tail(topic)
  /\ \E side \in Sides(Head(topic)), line \in {Lines(Head(topic)), Append(Lines(Head(topic)), Head(topic))} :
       Record(Head(topic), side, line)
  /\ UNCHANGED <<managerVars, asked, listening, image, failed>>

(* External: it is started, or dies with what it has not written.               *)
RecorderStarts ==
  /\ ~listening /\ listening' = TRUE
  /\ UNCHANGED <<managerVars, asked, topic, diskVars, failed, lost>>

RecorderDies ==
  /\ listening /\ listening' = FALSE
  /\ topic' = <<>> /\ lost' = lost \cup {topic[k].run : k \in 1..Len(topic)}
  /\ UNCHANGED <<managerVars, asked, diskVars, failed>>

Next == Manager \/ HandleCapture \/ OnSample \/ RecorderStarts \/ RecorderDies

Spec == Init /\ [][Next]_vars

(* The recorder's thread handles what it was sent.                              *)
FairSpec == Spec /\ WF_vars(OnSample)

-------------------------------------------------------------------------------
(* Properties.                                                                  *)

(* PROJECT_PLAN.md:211: one inspection makes one complete dataset.  A run that  *)
(* succeeded gets a manifest line per view, once and in order, although its     *)
(* result does not wait for the recorder, unless the recorder lost a sample.    *)
LinesOf(r) == SelectSeq(manifest[Label(r)], LAMBDA s : s.run = r)
DatasetCompletes ==
  \A r \in Runs : outcome[r] = "succeeded" ~>
    \/ r \in lost
    \/ LinesOf(r) = [k \in 1..goal[r].views |-> [run |-> r, view |-> k-1]]

(* A sample is published only when the image it names is on the disk, is of     *)
(* this run and no write of it has failed: requests of a run that gave up       *)
(* waiting are served before it.  (CaptureImage.srv says that ok means saved;   *)
(* the end of the file may still have been lost when it was closed.)            *)
SampleHasImage ==
  [][Captured => image[Here].run = cur /\ image[Here].how \in Good]_vars

(* Image and sidecar of a view come from the same run, once the view's requests *)
(* and samples are through, unless its last capture failed or a sample was      *)
(* lost: the image of an aborted capture lies beside the sidecar of an older    *)
(* run, and no error tells.  An image beside its sidecar may be cut.            *)
UnderWay(f) ==
  \/ \E k \in 1..Len(asked) : f = <<Label(asked[k].run), asked[k].view>>
  \/ \E k \in 1..Len(topic) : f = <<Label(topic[k].run), topic[k].view>>
  \/ at = "wait" /\ f = Here
PairsMatch ==
  \A f \in Labels \X Views :
    sidecar[f] # None /\ ~UnderWay(f) /\ f \notin failed /\ image[f].run \notin lost =>
      image[f].run = sidecar[f] /\ image[f].how \in Good
===============================================================================
