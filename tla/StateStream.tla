------------------------------ MODULE StateStream ------------------------------
(* What tending_bridge tells its client: the state snapshots and the safety     *)
(* events.  feedback_states and the manager's action feedback arrive in         *)
(* callbacks of a Reentrant group, several at a time and in any order once they *)
(* run; the timer and a new connection send snapshots too.  A step of a thread  *)
(* is one critical section of state_mtx_, event_mtx_ or the server's mtx_.      *)
(* Connections are one at a time.  The driver and the manager are external.     *)
EXTENDS Integers, FiniteSets

CONSTANTS
  Workers,   \* executor threads that run the callbacks of cb_group_
  Timer, IO, \* the thread of on_state_timer; the server's IO thread
  Alarms,    \* flags with an event: e_stop, safetyguard_a, robot_error
  Stopping,  \* those of them that abort the job: e_stop, safetyguard_a
  Links,     \* flags without: is_sct_connected, is_svr_connected, project_run
  MaxMsgs,   \* bound: feedback_states messages the node takes
  MaxConns,  \* bound: connections
  MaxJobs,   \* bound: run_inspection commands
  MaxSteps   \* bound: feedback messages of one inspection

ASSUME ThreadsAssumption == Timer # IO /\ {Timer, IO} \cap Workers = {}
ASSUME FlagsAssumption == Stopping \subseteq Alarms /\ Alarms \cap Links = {}
ASSUME BoundsAssumption ==
  MaxMsgs \in Nat /\ MaxConns \in Nat /\ MaxJobs \in Nat /\ MaxSteps \in Nat

Flags   == Alarms \cup Links
Threads == Workers \cup {Timer, IO}
Jobs    == 1..MaxJobs
Phases  == [of : 0..MaxJobs, step : 0..MaxSteps]  \* step 0 is "PENDING"

VARIABLES
  have,    \* have_feedback_
  flags,   \* the stored flags that are set
  prev,    \* prev_e_stop_, prev_guard_, prev_robot_error_: those that are set
  job,     \* job_active_ and job_id_ (0 without a job), job_phase_ and job_progress_
  th,      \* per thread: where it is, the message it handles, the snapshot it holds
  conn,    \* the connected client, or 0
  conns,   \* connections so far
  shown,   \* the last state line queued for that client
  events,  \* per flag: events broadcast
  stopped, \* jobs for which abort_active_job called do_stop
  taken, last,  \* feedback_states messages taken so far, and the flags of the last
  step, ended,  \* per job: the feedback the manager has sent; jobs whose result is taken
  edges,   \* history, per flag: rising edges in the messages taken
  owed,    \* history: jobs that were active when a message with such an edge was taken
  crossed  \* history: a message was taken while another's callback was running

rosVars    == <<taken, last, step, ended>>
clientVars == <<conn, conns, shown>>
histVars   == <<edges, owed, crossed>>
vars == <<have, flags, prev, job, th, clientVars, events, stopped, rosVars, histVars>>

NoPhase == [of |-> 0, step |-> 0]
NoJob   == [id |-> 0, phase |-> NoPhase]
Blank   == [flags |-> {}, job |-> NoJob]
Rest    == [at |-> "idle", msg |-> {}, phase |-> NoPhase, then |-> "idle", snap |-> Blank]

(* build_state, under state_mtx_: of the job only what is shown of an active one. *)
Snapshot == [flags |-> flags, job |-> IF job.id = 0 THEN NoJob ELSE job]

JobSlots  == [id : 0..MaxJobs, phase : Phases]
Snapshots == [flags : SUBSET Flags, job : JobSlots]
Spots     == {"idle", "store", "phase", "release", "publish", "send", "emit"}

\* Every variable stays within its type.
TypeOK ==
  /\ have \in BOOLEAN /\ flags \subseteq Flags /\ prev \subseteq Alarms
  /\ job \in JobSlots
  /\ th \in [Threads -> [at : Spots, then : {"idle", "emit"}, msg : SUBSET Flags,
                         phase : Phases, snap : Snapshots]]
  /\ conn \in 0..MaxConns /\ conns \in 0..MaxConns /\ shown \in Snapshots
  /\ events \in [Alarms -> 0..MaxMsgs] /\ edges \in [Alarms -> 0..MaxMsgs]
  /\ taken \in 0..MaxMsgs /\ last \subseteq Flags /\ step \in [Jobs -> 0..MaxSteps]
  /\ ended \subseteq Jobs /\ owed \subseteq Jobs /\ stopped \subseteq Jobs
  /\ crossed \in BOOLEAN

Init ==
  /\ have = FALSE /\ flags = {} /\ prev = {} /\ job = NoJob
  /\ th = [t \in Threads |-> Rest]
  /\ conn = 0 /\ conns = 0 /\ shown = Blank
  /\ events = [f \in Alarms |-> 0] /\ stopped = {}
  /\ taken = 0 /\ last = {} /\ step = [i \in Jobs |-> 0] /\ ended = {}
  /\ edges = [f \in Alarms |-> 0] /\ owed = {} /\ crossed = FALSE

At(t, where) == th[t].at = where
Become(t, spot) == th' = [th EXCEPT ![t] = spot]

\* publish_state is called, and after it what "then" says.
Publish(t, then) == Become(t, [th[t] EXCEPT !.at = "publish", !.then = then])
Resume(t) == Become(t, IF th[t].then = "emit" THEN [th[t] EXCEPT !.at = "emit", !.snap = Blank]
                                              ELSE Rest)

-------------------------------------------------------------------------------
(* on_feedback.                                                                 *)

Handling(t) == th[t].at \in {"store", "emit"} \/ th[t].then = "emit"
Rising(msg) == (msg \ last) \cap Alarms
Counted(count, F) == [f \in Alarms |-> IF f \in F THEN count[f] + 1 ELSE count[f]]

(* A free executor thread takes the next message; the driver may have set and   *)
(* cleared any flag since the last one.                                         *)
TakeMessage(t, msg) ==
  /\ At(t, "idle") /\ taken < MaxMsgs
  /\ Become(t, [Rest EXCEPT !.at = "store", !.msg = msg])
  /\ taken' = taken + 1 /\ last' = msg
  /\ edges' = Counted(edges, Rising(msg))
  /\ owed' = IF Rising(msg) \cap Stopping # {} THEN owed \cup ({job.id} \cap Jobs) ELSE owed
  /\ crossed' = (crossed \/ \E u \in Workers : Handling(u))
  /\ UNCHANGED <<have, flags, prev, job, clientVars, events, stopped, step, ended>>

(* Bug: a change of the alarm flags alone is not seen as a change.              *)
Store_OnlyLinks(t) ==
  /\ At(t, "store")
  /\ have' = TRUE /\ flags' = th[t].msg
  /\ IF have /\ flags \cap Links = th[t].msg \cap Links THEN Become(t, Rest) ELSE Publish(t, "emit")
  /\ UNCHANGED <<prev, job, clientVars, events, stopped, rosVars, histVars>>

(* Under state_mtx_; only a change is published and searched for edges.         *)
Store(t) ==
  /\ At(t, "store")
  /\ have' = TRUE /\ flags' = th[t].msg
  /\ IF have /\ flags = th[t].msg THEN Become(t, Rest) ELSE Publish(t, "emit")
  /\ UNCHANGED <<prev, job, clientVars, events, stopped, rosVars, histVars>>

(* Bug: prev_e_stop_ and its like are set and never cleared.                    *)
Emit_Latches(t) ==
  /\ At(t, "emit")
  /\ LET rose == (th[t].msg \cap Alarms) \ prev IN
       /\ events' = Counted(events, rose)
       /\ stopped' = IF rose \cap Stopping # {} THEN stopped \cup ({job.id} \cap Jobs) ELSE stopped
  /\ prev' = prev \cup (th[t].msg \cap Alarms)
  /\ Become(t, Rest)
  /\ UNCHANGED <<have, flags, job, clientVars, rosVars, histVars>>

(* emit_safety_events, under event_mtx_, with abort_active_job.                 *)
Emit(t) ==
  /\ At(t, "emit")
  /\ LET rose == (th[t].msg \cap Alarms) \ prev IN
       /\ events' = Counted(events, rose)
       /\ stopped' = IF rose \cap Stopping # {} THEN stopped \cup ({job.id} \cap Jobs) ELSE stopped
  /\ prev' = th[t].msg \cap Alarms
  /\ Become(t, Rest)
  /\ UNCHANGED <<have, flags, job, clientVars, rosVars, histVars>>

-------------------------------------------------------------------------------
(* publish_state, by any thread; on_client_connect on the IO thread.            *)

(* client_count, then build_state.                                              *)
Build(t) ==
  /\ At(t, "publish")
  /\ IF conn = 0 THEN Resume(t) ELSE Become(t, [th[t] EXCEPT !.at = "send", !.snap = Snapshot])
  /\ UNCHANGED <<have, flags, prev, job, clientVars, events, stopped, rosVars, histVars>>

(* broadcast, or send_to: to whoever is connected by now.                       *)
Send(t) ==
  /\ At(t, "send")
  /\ shown' = IF conn = 0 THEN Blank ELSE th[t].snap
  /\ Resume(t)
  /\ UNCHANGED <<have, flags, prev, job, conn, conns, events, stopped, rosVars, histVars>>

(* Bug: the timer publishes nothing while there is no job.                      *)
OnStateTimer_OnlyBusy ==
  /\ At(Timer, "idle") /\ job.id # 0
  /\ Publish(Timer, "idle")
  /\ UNCHANGED <<have, flags, prev, job, clientVars, events, stopped, rosVars, histVars>>

OnStateTimer ==
  /\ At(Timer, "idle")
  /\ Publish(Timer, "idle")
  /\ UNCHANGED <<have, flags, prev, job, clientVars, events, stopped, rosVars, histVars>>

Connect ==
  /\ At(IO, "idle") /\ conn = 0 /\ conns < MaxConns
  /\ conn' = conns + 1 /\ conns' = conns + 1
  /\ Publish(IO, "idle")
  /\ UNCHANGED <<have, flags, prev, job, shown, events, stopped, rosVars, histVars>>

Disconnect ==
  /\ At(IO, "idle") /\ conn # 0
  /\ conn' = 0 /\ shown' = Blank
  /\ UNCHANGED <<have, flags, prev, job, th, conns, events, stopped, rosVars, histVars>>

-------------------------------------------------------------------------------
(* The job's part of the state.                                                 *)

(* claim_job for a run_inspection: the phase is PENDING.                        *)
Claim ==
  /\ At(IO, "idle") /\ conn # 0 /\ job.id = 0 /\ Cardinality(ended) < MaxJobs
  /\ LET i == Cardinality(ended) + 1 IN job' = [id |-> i, phase |-> [of |-> i, step |-> 0]]
  /\ UNCHANGED <<have, flags, prev, th, clientVars, events, stopped, rosVars, histVars>>

(* External: the manager's next feedback on the goal, taken by a free thread.   *)
TakeProgress(t) ==
  /\ At(t, "idle") /\ job.id \in Jobs \ ended /\ step[job.id] < MaxSteps
  /\ step' = [step EXCEPT ![job.id] = @ + 1]
  /\ Become(t, [Rest EXCEPT !.at = "phase", !.phase = [of |-> job.id, step |-> step[job.id] + 1]])
  /\ UNCHANGED <<have, flags, prev, job, clientVars, events, stopped, taken, last, ended, histVars>>

(* feedback_callback does not ask whose the slot is by now.                     *)
StorePhase(t) ==
  /\ At(t, "phase")
  /\ job' = [job EXCEPT !.phase = th[t].phase]
  /\ Publish(t, "idle")
  /\ UNCHANGED <<have, flags, prev, clientVars, events, stopped, rosVars, histVars>>

(* Variant: a result is taken although no goal is out.                          *)
TakeResult_NoGoal(t) ==
  /\ At(t, "idle") /\ job.id \notin ended
  /\ ended' = ended \cup {job.id}
  /\ Become(t, [Rest EXCEPT !.at = "release"])
  /\ UNCHANGED <<have, flags, prev, job, clientVars, events, stopped, taken, last, step, histVars>>

(* External: the goal's result, taken by a free thread.                         *)
TakeResult(t) ==
  /\ At(t, "idle") /\ job.id \in Jobs \ ended
  /\ ended' = ended \cup {job.id}
  /\ Become(t, [Rest EXCEPT !.at = "release"])
  /\ UNCHANGED <<have, flags, prev, job, clientVars, events, stopped, taken, last, step, histVars>>

(* result_callback: release_job, publish_state.                                 *)
Release(t) ==
  /\ At(t, "release")
  /\ job' = NoJob
  /\ Publish(t, "idle")
  /\ UNCHANGED <<have, flags, prev, clientVars, events, stopped, rosVars, histVars>>

-------------------------------------------------------------------------------
ThreadStep(t) ==
  Store(t) \/ Emit(t) \/ Build(t) \/ Send(t) \/ StorePhase(t) \/ Release(t)

Next ==
  \/ \E t \in Threads : ThreadStep(t)
  \/ \E t \in Workers : TakeProgress(t) \/ TakeResult(t) \/ \E msg \in SUBSET Flags : TakeMessage(t, msg)
  \/ OnStateTimer \/ Connect \/ Disconnect \/ Claim

Spec == Init /\ [][Next]_vars

(* Callbacks run to their end and the timer keeps firing; the driver, the       *)
(* manager and the client owe nothing.                                          *)
Fairness == WF_vars(OnStateTimer) /\ \A t \in Threads : WF_vars(ThreadStep(t))

FairSpec == Spec /\ Fairness

-------------------------------------------------------------------------------
(* Properties.                                                                  *)

(* While callbacks do not overlap, every rising edge of an alarm flag, in       *)
(* whatever messages it hides, has made exactly one event by the time its       *)
(* callback is through.                                                         *)
EventPerEdge == ~crossed /\ (\A t \in Workers : ~Handling(t)) => events = edges

(* ... and the job that ran when the message was taken is stopped, unless it    *)
(* ends by itself: the callback is asynchronous, the edge is not forgotten.     *)
EdgeStopsJob ==
  \A i \in Jobs : i \in owed ~> i \in stopped \/ job.id # i \/ crossed

(* Snapshots are built under one lock and sent under another by four kinds of   *)
(* threads, so an older one may follow a newer one; but once the flags and the  *)
(* job settle, the connected client is left with the state as it is.            *)
StateConverges == <>[](conn = 0 \/ shown = Snapshot)

(* tending_bridge_node.cpp:174: the mutex around the edge detection keeps the   *)
(* same transition from being announced twice although callbacks run            *)
(* concurrently.  It does not keep them in the order of their messages.         *)
EventOnce == \A f \in Alarms : events[f] <= edges[f]
===============================================================================
