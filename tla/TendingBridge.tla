----------------------------- MODULE TendingBridge -----------------------------
(* The tending_bridge node: one job slot between the GUI's JSON commands and    *)
(* inspection_manager, claimed on the socket's IO thread, released by the       *)
(* executor's callbacks, and stopped by whoever finds a reason: the user, a     *)
(* lost connection, the watchdog, a safety edge.  A step of a thread is one     *)
(* critical section of state_mtx_ with the calls around it that no other        *)
(* thread can tell apart from it.  The manager, the clients and the driver are  *)
(* external.                                                                    *)
EXTENDS Integers, FiniteSets

CONSTANTS
  MaxJobs,    \* bound: motion commands that pass the argument checks
  MaxConns,   \* bound: connections over the behaviour; one at a time (max_clients = 1)
  MaxAlarms   \* bound: safety edges, and losses and returns of the driver's feedback

ASSUME BoundsAssumption ==
  MaxJobs \in Nat \ {0} /\ MaxConns \in Nat \ {0} /\ MaxAlarms \in Nat

Jobs    == 1..MaxJobs           \* the ids of the motion commands, in order of arrival
Conns   == 1..MaxConns          \* ClientId, from next_id_
Kinds   == {"inspect", "move"}  \* run_inspection; goto_pose or jog
None    == 0
Threads == {"io", "watchdog", "safety"}  \* IO thread, on_watchdog, emit_safety_events

VARIABLES
  job,       \* job_active_, job_id_, job_cmd_, job_client_, cancel_requested_, inspect_goal_
  fired,     \* deadman_fired_
  prevAlive, \* prev_driver_alive_
  th,        \* per thread: where it is, what it read before, where a stop returns to
  conn,      \* the connected client, or None
  nextConn,  \* next_id_
  silent,    \* the connected client has been silent for client_timeout_ms
  driverUp,  \* feedback is younger than driver_timeout_ms
  alarms,    \* safety edges, losses and returns of feedback so far, for the bound
  cmd,       \* per command: its kind and the connection it came from
  ack,       \* per command: the ack sent
  result,    \* per command: the result given to send_to, which drops it if the owner is gone
  cb,        \* per command: how far the callbacks of its request have come
  mgr,       \* per command: what inspection_manager has made of it
  cancelled, \* goals for which a cancel request was sent
  stopped,   \* history: do_stop during the current job: STOP sent, or not sent
  armed      \* history: the current job was claimed with deadman_fired_ cleared

nodeVars   == <<job, fired, prevAlive, th>>
linkVars   == <<conn, nextConn, silent, driverUp, alarms>>
clientVars == <<cmd, ack, result>>
mgrVars    == <<mgr, cancelled>>
histVars   == <<stopped, armed>>
vars == <<nodeVars, linkVars, clientVars, cb, mgrVars, histVars>>

NoJob == [active |-> FALSE, id |-> None, kind |-> "none", client |-> None,
          cancel |-> FALSE, goal |-> None]
Idle  == [at |-> "idle", arg |-> None, then |-> "idle"]

StopTries == {"none", "sent", "notReady"}

JobSlots == [active : BOOLEAN, id : Jobs \cup {None}, kind : Kinds \cup {"none"},
             client : Conns \cup {None}, cancel : BOOLEAN, goal : Jobs \cup {None}]
Spots    == {"idle", "send", "cancel", "gone", "fire", "abort", "owner", "decide",
             "rearm", "stop", "goals"}
Places   == [at : Spots, arg : Jobs \cup Conns \cup {None}, then : {"idle", "owner"}]

NodeTypes ==
  /\ job \in JobSlots
  /\ fired \in BOOLEAN /\ prevAlive \in BOOLEAN
  /\ th \in [Threads -> Places]
  /\ stopped \in StopTries /\ armed \in BOOLEAN

LinkTypes ==
  /\ conn \in Conns \cup {None} /\ nextConn \in 1..MaxConns + 1
  /\ silent \in BOOLEAN /\ driverUp \in BOOLEAN /\ alarms \in 0..MaxAlarms

CommandTypes ==
  /\ cmd \in [Jobs -> [kind : Kinds \cup {"none"}, from : Conns \cup {None}]]
  /\ ack \in [Jobs -> {"none", "ok", "busy"}]
  /\ result \in [Jobs -> {"none", "REJECTED", "outcome"}]
  /\ cb \in [Jobs -> {"none", "waiting", "responded", "reported", "done"}]
  /\ mgr \in [Jobs -> {"none", "sent", "rejected", "running", "ended"}]
  /\ cancelled \in SUBSET Jobs

\* Every variable stays within its type.
TypeOK == NodeTypes /\ LinkTypes /\ CommandTypes

Init ==
  /\ job = NoJob
  /\ fired = FALSE /\ prevAlive = FALSE
  /\ th = [t \in Threads |-> Idle]
  /\ conn = None /\ nextConn = 1 /\ silent = FALSE /\ driverUp = FALSE /\ alarms = 0
  /\ cmd = [i \in Jobs |-> [kind |-> "none", from |-> None]]
  /\ ack = [i \in Jobs |-> "none"]
  /\ result = [i \in Jobs |-> "none"]
  /\ cb = [i \in Jobs |-> "none"]
  /\ mgr = [i \in Jobs |-> "none"]
  /\ cancelled = {} /\ stopped = "none" /\ armed = FALSE

At(t, where) == th[t].at = where
Go(t, where, arg, then) ==
  th' = [th EXCEPT ![t] = [at |-> where, arg |-> arg, then |-> then]]
Goto(t, where) == Go(t, where, th[t].arg, th[t].then)
Return(t) == Go(t, th[t].then, None, "idle")
Rest(t) == Go(t, "idle", None, "idle")
StopThen(t, then) == Go(t, "stop", None, then)

-------------------------------------------------------------------------------
(* do_stop, by any thread: STOP goes to the driver; or, set_event not ready, it *)
(* is not sent, now or later, and an event says so.  Then the goal is cancelled.*)

StopRobot(t, ready) ==
  /\ At(t, "stop")
  /\ Goto(t, "goals")
  /\ stopped' = IF ~job.active \/ stopped = "sent" THEN stopped
                ELSE IF ready THEN "sent" ELSE "notReady"
  /\ UNCHANGED <<job, fired, prevAlive, linkVars, clientVars, cb, mgrVars, armed>>

(* A goal that is not known yet is cancelled later, by its response callback.   *)
StopGoal(t) ==
  /\ At(t, "goals")
  /\ job' = IF job.kind = "inspect" THEN [job EXCEPT !.cancel = TRUE] ELSE job
  /\ IF job.goal # None
       THEN Go(t, "cancel", job.goal, th[t].then)
       ELSE Return(t)
  /\ UNCHANGED <<fired, prevAlive, linkVars, clientVars, cb, mgrVars, histVars>>

(* async_cancel_goal, of the goal handle copied under the lock.                 *)
CancelGoal(t) ==
  /\ At(t, "cancel")
  /\ cancelled' = cancelled \cup {th[t].arg}
  /\ Return(t)
  /\ UNCHANGED <<job, fired, prevAlive, linkVars, clientVars, cb, mgr, histVars>>

Stopping(t) ==
  \/ \E ready \in BOOLEAN : StopRobot(t, ready)
  \/ StopGoal(t) \/ CancelGoal(t)

(* abort_active_job: only if there is a job.                                    *)
AbortJob(t) ==
  /\ At(t, "abort")
  /\ IF job.active THEN Goto(t, "stop")
                   ELSE Return(t)
  /\ UNCHANGED <<job, fired, prevAlive, linkVars, clientVars, cb, mgrVars, histVars>>

-------------------------------------------------------------------------------
(* on_line, on the IO thread.  Commands refused before claim_job (bad JSON,     *)
(* schema, arguments, service not ready) are acked and change nothing here.     *)

Receive == At("io", "idle") /\ conn # None /\ silent' = FALSE

(* Variant: the test of job_active_ is missing.                                 *)
Claim_NoTest(i, kind) ==
  /\ Receive
  /\ cmd[i].kind = "none" /\ \A j \in 1..i-1 : cmd[j].kind # "none"
  /\ cmd' = [cmd EXCEPT ![i] = [kind |-> kind, from |-> conn]]
  /\ job' = [active |-> TRUE, id |-> i, kind |-> kind, client |-> conn,
             cancel |-> FALSE, goal |-> job.goal]
  /\ Go("io", "send", i, "idle")
  /\ stopped' = "none" /\ armed' = ~fired
  /\ UNCHANGED <<fired, prevAlive, conn, nextConn, driverUp, alarms, ack, result, cb, mgrVars>>

(* handle_run_inspection, handle_goto_pose, handle_jog: claim_job.              *)
Claim(i, kind) ==
  /\ Receive
  /\ cmd[i].kind = "none" /\ \A j \in 1..i-1 : cmd[j].kind # "none"
  /\ cmd' = [cmd EXCEPT ![i] = [kind |-> kind, from |-> conn]]
  /\ IF job.active
       THEN ack' = [ack EXCEPT ![i] = "busy"] /\ UNCHANGED <<job, th, histVars>>
       ELSE /\ job' = [active |-> TRUE, id |-> i, kind |-> kind, client |-> conn,
                       cancel |-> FALSE, goal |-> job.goal]
            /\ Go("io", "send", i, "idle")
            /\ stopped' = "none" /\ armed' = ~fired
            /\ UNCHANGED ack
  /\ UNCHANGED <<fired, prevAlive, conn, nextConn, driverUp, alarms, result, cb, mgrVars>>

(* ... then the ack, and the goal or request goes to the manager.               *)
Send ==
  /\ At("io", "send")
  /\ LET i == th["io"].arg IN
       /\ ack' = [ack EXCEPT ![i] = "ok"]
       /\ cb' = [cb EXCEPT ![i] = "waiting"]
       /\ mgr' = [mgr EXCEPT ![i] = "sent"]
  /\ Rest("io")
  /\ UNCHANGED <<job, fired, prevAlive, linkVars, cmd, result, cancelled, histVars>>

(* Variant: a goal handle that is not there yet is cancelled all the same.      *)
HandleCancel_NoCheck ==
  /\ Receive /\ job.active
  /\ job' = [job EXCEPT !.cancel = TRUE]
  /\ Go("io", "cancel", job.goal, "idle")
  /\ UNCHANGED <<fired, prevAlive, conn, nextConn, driverUp, alarms, clientVars, cb, mgrVars, histVars>>

(* handle_cancel of the running job; with no job, or another target, it is      *)
(* acked NOT_RUNNING.                                                           *)
HandleCancel ==
  /\ Receive /\ job.active
  /\ job' = [job EXCEPT !.cancel = TRUE]
  /\ IF job.goal # None
       THEN Go("io", "cancel", job.goal, "idle")
       ELSE StopThen("io", "idle")
  /\ UNCHANGED <<fired, prevAlive, conn, nextConn, driverUp, alarms, clientVars, cb, mgrVars, histVars>>

HandleStop ==
  /\ Receive
  /\ StopThen("io", "idle")
  /\ UNCHANGED <<job, fired, prevAlive, conn, nextConn, driverUp, alarms, clientVars, cb, mgrVars, histVars>>

(* ping, and every line that is only acked.                                     *)
HandlePing ==
  /\ Receive /\ silent
  /\ UNCHANGED <<nodeVars, conn, nextConn, driverUp, alarms, clientVars, cb, mgrVars, histVars>>

Connect ==
  /\ At("io", "idle") /\ conn = None /\ nextConn <= MaxConns
  /\ conn' = nextConn /\ nextConn' = nextConn + 1 /\ silent' = FALSE
  /\ UNCHANGED <<nodeVars, driverUp, alarms, clientVars, cb, mgrVars, histVars>>

(* drop_client erases the connection, then on_client_disconnect runs.           *)
Disconnect ==
  /\ At("io", "idle") /\ conn # None
  /\ Go("io", "gone", conn, "idle")
  /\ conn' = None /\ silent' = FALSE
  /\ UNCHANGED <<job, fired, prevAlive, nextConn, driverUp, alarms, clientVars, cb, mgrVars, histVars>>

OwnerGone ==
  /\ At("io", "gone")
  /\ IF job.active /\ job.client = th["io"].arg THEN Goto("io", "fire") ELSE Rest("io")
  /\ UNCHANGED <<job, fired, prevAlive, linkVars, clientVars, cb, mgrVars, histVars>>

(* deadman_fired_.exchange(true): the first to set it stops the robot.          *)
Fire(t, otherwise) ==
  /\ fired' = TRUE
  /\ IF fired THEN otherwise ELSE StopThen(t, "idle")

(* Variant: a disconnection only marks the deadman as fired.                    *)
GoneFires_OnlyMarks ==
  /\ At("io", "fire")
  /\ fired' = TRUE
  /\ Rest("io")
  /\ UNCHANGED <<job, prevAlive, linkVars, clientVars, cb, mgrVars, histVars>>

(* on_client_disconnect of the owner.                                           *)
GoneFires ==
  /\ At("io", "fire")
  /\ Fire("io", Rest("io"))
  /\ UNCHANGED <<job, prevAlive, linkVars, clientVars, cb, mgrVars, histVars>>

IoStep == Send \/ OwnerGone \/ GoneFires \/ Stopping("io")

-------------------------------------------------------------------------------
(* on_watchdog, every 200 ms.                                                   *)

(* 1) the driver's feedback was lost (abort the job) or is back.                *)
CheckDriver ==
  /\ At("watchdog", "idle")
  /\ prevAlive' = driverUp
  /\ Go("watchdog", IF prevAlive /\ ~driverUp THEN "abort" ELSE "owner", None, "owner")
  /\ UNCHANGED <<job, fired, linkVars, clientVars, cb, mgrVars, histVars>>

(* 2) the deadman: who owns the job ...                                         *)
ReadOwner ==
  /\ At("watchdog", "owner")
  /\ Go("watchdog", IF job.active THEN "decide" ELSE "rearm", job.client, "idle")
  /\ UNCHANGED <<job, fired, prevAlive, linkVars, clientVars, cb, mgrVars, histVars>>

(* ... and, without the lock, is it still there?                                *)
Decide ==
  /\ At("watchdog", "decide")
  /\ LET lost == conn # th["watchdog"].arg \/ silent IN
       IF lost THEN Fire("watchdog", Rest("watchdog"))
               ELSE Goto("watchdog", "rearm") /\ UNCHANGED fired
  /\ UNCHANGED <<job, prevAlive, linkVars, clientVars, cb, mgrVars, histVars>>

Rearm ==
  /\ At("watchdog", "rearm")
  /\ fired' = FALSE
  /\ Rest("watchdog")
  /\ UNCHANGED <<job, prevAlive, linkVars, clientVars, cb, mgrVars, histVars>>

WatchdogStep == \/ CheckDriver \/ ReadOwner \/ Decide \/ Rearm
                \/ AbortJob("watchdog") \/ Stopping("watchdog")

Alarm == alarms < MaxAlarms /\ alarms' = alarms + 1

(* emit_safety_events saw an e-stop or safeguard edge.                          *)
SafetyEdge ==
  /\ At("safety", "idle") /\ Alarm
  /\ Goto("safety", "abort")
  /\ UNCHANGED <<job, fired, prevAlive, conn, nextConn, silent, driverUp, clientVars, cb,
                 mgrVars, histVars>>

SafetyStep == AbortJob("safety") \/ Stopping("safety")

-------------------------------------------------------------------------------
(* The callbacks of the requests to the manager, on the executor's threads.     *)

(* send_result comes first, release_job after it.                               *)
Report(i, status) ==
  /\ result' = [result EXCEPT ![i] = status]
  /\ cb' = [cb EXCEPT ![i] = "reported"]

(* Variant: cancel_requested_ is not looked at when the goal is accepted.       *)
GoalResponse_Forgets(i) ==
  /\ cb[i] = "waiting" /\ cmd[i].kind = "inspect" /\ mgr[i] \notin {"none", "sent"}
  /\ IF mgr[i] = "rejected"
       THEN Report(i, "REJECTED") /\ UNCHANGED job
       ELSE /\ job' = [job EXCEPT !.goal = i]
            /\ cb' = [cb EXCEPT ![i] = "responded"]
            /\ UNCHANGED result
  /\ UNCHANGED <<fired, prevAlive, th, linkVars, cmd, ack, mgrVars, histVars>>

(* Variant: a rejected goal gets its result, but keeps the slot.                *)
GoalResponse_KeepsSlot(i) ==
  /\ cb[i] = "waiting" /\ cmd[i].kind = "inspect" /\ mgr[i] \notin {"none", "sent"}
  /\ IF mgr[i] = "rejected"
       THEN /\ result' = [result EXCEPT ![i] = "REJECTED"]
            /\ UNCHANGED <<job, cb, cancelled>>
       ELSE /\ job' = [job EXCEPT !.goal = i]
            /\ cancelled' = IF job.cancel THEN cancelled \cup {i} ELSE cancelled
            /\ cb' = [cb EXCEPT ![i] = "responded"]
            /\ UNCHANGED result
  /\ UNCHANGED <<fired, prevAlive, th, linkVars, cmd, ack, mgr, histVars>>

(* goal_response_callback.  A cancel or stop that came before is made good.     *)
GoalResponse(i) ==
  /\ cb[i] = "waiting" /\ cmd[i].kind = "inspect" /\ mgr[i] \notin {"none", "sent"}
  /\ IF mgr[i] = "rejected"
       THEN Report(i, "REJECTED") /\ UNCHANGED <<job, cancelled>>
       ELSE /\ job' = [job EXCEPT !.goal = i]
            /\ cancelled' = IF job.cancel THEN cancelled \cup {i} ELSE cancelled
            /\ cb' = [cb EXCEPT ![i] = "responded"]
            /\ UNCHANGED result
  /\ UNCHANGED <<fired, prevAlive, th, linkVars, cmd, ack, mgr, histVars>>

(* result_callback of the goal, or the response of a goto or jog request.       *)
ResultArrives(i) ==
  /\ cb[i] = IF cmd[i].kind = "inspect" THEN "responded" ELSE "waiting"
  /\ mgr[i] = "ended"
  /\ Report(i, "outcome")
  /\ UNCHANGED <<nodeVars, linkVars, cmd, ack, mgrVars, histVars>>

(* Variant: inspect_goal_ is not reset.                                         *)
ReleaseJob_KeepsGoal(i) ==
  /\ cb[i] = "reported"
  /\ job' = [NoJob EXCEPT !.goal = job.goal]
  /\ cb' = [cb EXCEPT ![i] = "done"]
  /\ stopped' = "none" /\ armed' = FALSE
  /\ UNCHANGED <<fired, prevAlive, th, linkVars, clientVars, mgrVars>>

(* release_job.                                                                 *)
ReleaseJob(i) ==
  /\ cb[i] = "reported"
  /\ job' = NoJob
  /\ cb' = [cb EXCEPT ![i] = "done"]
  /\ stopped' = "none" /\ armed' = FALSE
  /\ UNCHANGED <<fired, prevAlive, th, linkVars, clientVars, mgrVars>>

Callback(i) == GoalResponse(i) \/ ResultArrives(i) \/ ReleaseJob(i)

-------------------------------------------------------------------------------
(* External.                                                                    *)

ManagerAnswers(i) ==
  /\ mgr[i] = "sent"
  /\ \E m \in {"running"} \cup IF cmd[i].kind = "inspect" THEN {"rejected"} ELSE {} :
       mgr' = [mgr EXCEPT ![i] = m]
  /\ UNCHANGED <<nodeVars, linkVars, clientVars, cb, cancelled, histVars>>

ManagerEnds(i) ==
  /\ mgr[i] = "running"
  /\ mgr' = [mgr EXCEPT ![i] = "ended"]
  /\ UNCHANGED <<nodeVars, linkVars, clientVars, cb, cancelled, histVars>>

ClientSilent ==
  /\ conn # None /\ ~silent /\ silent' = TRUE
  /\ UNCHANGED <<nodeVars, conn, nextConn, driverUp, alarms, clientVars, cb, mgrVars, histVars>>

DriverChanges ==
  /\ driverUp' = ~driverUp /\ Alarm
  /\ UNCHANGED <<nodeVars, conn, nextConn, silent, clientVars, cb, mgrVars, histVars>>

Next ==
  \/ \E i \in Jobs : \/ \E kind \in Kinds : Claim(i, kind)
                     \/ Callback(i) \/ ManagerAnswers(i) \/ ManagerEnds(i)
  \/ HandleCancel \/ HandleStop \/ HandlePing \/ Connect \/ Disconnect
  \/ IoStep \/ WatchdogStep \/ SafetyEdge \/ SafetyStep
  \/ ClientSilent \/ DriverChanges

Spec == Init /\ [][Next]_vars

(* The threads of the node keep running (the timer keeps firing); the manager,  *)
(* the clients and the driver owe nothing.                                      *)
Fairness ==
  /\ WF_vars(IoStep) /\ WF_vars(WatchdogStep) /\ WF_vars(SafetyStep)
  /\ \A i \in Jobs : WF_vars(Callback(i))

FairSpec == Spec /\ Fairness

-------------------------------------------------------------------------------
(* Properties.                                                                  *)

InFlight(i) == cmd[i].kind # "none" /\ ack[i] # "busy" /\ cb[i] # "done"

(* The slot is taken exactly while one command is in flight, and describes that *)
(* command; the goal in it is that command's.  release_job clears the slot      *)
(* without asking whose it is, so a second command in flight, or a goal left    *)
(* over, would free or cancel somebody else's job.                              *)
JobCoherent ==
  /\ \A i \in Jobs : InFlight(i) <=> (job.active /\ job.id = i)
  /\ job.active => /\ job.id \in Jobs
                   /\ job.kind = cmd[job.id].kind /\ job.client = cmd[job.id].from
  /\ job.goal # None => job.active /\ job.goal = job.id /\ job.kind = "inspect"

(* A cancel or a stop that came before the goal was accepted is not forgotten:  *)
(* once the goal is known it has been cancelled, or a thread is about to.       *)
CancelNotLost ==
  job.cancel /\ job.goal # None =>
    \/ job.goal \in cancelled
    \/ \E t \in Threads : At(t, "cancel") /\ th[t].arg = job.goal

(* PROTOCOL.md 5.2: inspection_manager has at most one command of the bridge to *)
(* work on, whoever sent it and however the callbacks are late.                 *)
OneAtManager == Cardinality({i \in Jobs : mgr[i] \in {"sent", "running"}}) <= 1

(* What the manager made of an accepted command is sent to the client that gave *)
(* it (who may have left), and the slot is free for the next command.           *)
ResultDelivered ==
  \A i \in Jobs :
    mgr[i] \in {"ended", "rejected"} ~> result[i] # "none" /\ ~InFlight(i)

(* The deadman: a connection that goes away while its command runs makes the    *)
(* bridge send STOP and, if the command is an inspection, cancel its goal, once *)
(* there is one; provided the command was claimed with deadman_fired_ cleared.  *)
(* The STOP is not sent if set_event is not ready at that moment: nothing tries *)
(* again while the owner is away, as deadman_fired_ stays set.  An inspection   *)
(* is cancelled all the same, but a goto_pose or jog then runs on.              *)
OwnerLost(i) == job.active /\ job.id = i /\ conn # job.client
JobOver(i) == ~(job.active /\ job.id = i)
GoalCancelled == job.kind = "inspect" =>
                   job.cancel /\ (job.goal # None => job.goal \in cancelled)
DeadmanStops ==
  \A i \in Jobs :
    OwnerLost(i) /\ armed ~> JobOver(i) \/ (stopped \in {"sent", "notReady"} /\ GoalCancelled)

(* PROTOCOL.md 5.3: the connection of the GUI that started the command is cut   *)
(* and there is an active goal, so the goal is cancelled and STOP is sent.      *)
(* deadman_fired_ survives from an earlier job when the watchdog did not look   *)
(* in between, and the bridge then does not even try.                           *)
DeadmanAlwaysStops ==
  \A i \in Jobs : OwnerLost(i) ~> JobOver(i) \/ stopped \in {"sent", "notReady"}
================================================================================
