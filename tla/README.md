# Verification of the tending robot's control software

TLA+ models of the ROS 2 nodes that move the robot of the machine-tending cell: what they keep,
what they promise to each other, and what happens when drivers, clients and threads do not do
what one would like. TLC checks the models on small instances; TLAPS proves the central safety
properties for every instance. Paths below are relative to the repository's packages
(`tending_control/src/...` is `src/tending_control/src/...`).

## 1. The system

```
 GUI (Windows) --TCP, JSON lines--> JsonLineServer -- on_line, on_disconnect --> tending_bridge node
                                                                                 |        |
                                        run_inspection action, go_to_named_pose, |        | set_event STOP
                                        jog_joint services                       v        | (directly)
                camera_node <-- capture_image -- inspection_manager              |        |
                dataset_recorder <-- inspection_sample --|  RobotIoBridge        |        |
                                                         '-- set_positions, ---> tm_driver <'
                                                             set_event STOP      -- feedback_states -->
```

| component | state | operations | talks to |
|---|---|---|---|
| `inspection_manager` (`tending_control/src/inspection_manager.cpp`) | `motion_busy_`, `poses_`; in `execute`: the view index and the result | `handle_goto`, `handle_jog`, `handle_goal`, `handle_accepted`, `handle_cancel`, `execute` in a detached thread | RobotIoBridge (calls), camera (service), clients (services, action) |
| `RobotIoBridge` (`tending_control/src/robot_io_bridge.cpp`) | the last feedback: `have_state_`, flags, `joint_pos_`, `tcp_pose_` | `on_feedback`, `on_tool_pose`, `wait_for_services`, `safety_ok`, `move_ptp_joint`, `stop`; `move_ptp_tool`, `move_line_tool` for the stand-alone scenario | tm_driver |
| `tending_bridge` node (`tending_bridge/src/tending_bridge_node.cpp`) | the job slot (`job_*`, `cancel_requested_`, `inspect_goal_`), `deadman_fired_`, `prev_*`, the last feedback | six commands of the GUI, connect and disconnect, `on_feedback`, `on_watchdog` every 200 ms, the callbacks of goals and requests, `publish_state` | JsonLineServer (callbacks on the IO thread), inspection_manager, tm_driver |
| `JsonLineServer` (`tending_bridge/src/json_line_server.cpp`) | `clients_` (socket, `rx`, `tx`, `last_rx`), `running_`, the wake pipe | `run` (IO thread), `accept_new`, `handle_readable`, `flush_tx`, `drop_client`; `broadcast`, `send_to`, `stop` from node threads | TCP peers, the node's handlers |
| `camera_node` (`tending_camera/src/camera_node.cpp`) | the image files, named by machine and view | `handle_capture`, one request at a time | inspection_manager |
| `dataset_recorder` (`tending_data/src/dataset_recorder.cpp`) | the sidecars and `manifest.jsonl` of each machine | `on_sample`, from a queue of 50 | the topic of the manager, files |
| `scenario1_inspect` (`tending_control/src/scenario1_inspect.cpp`) | parameters, the view index; a `RobotIoBridge` of its own | `run`: wait, check, one Cartesian move per view | tm_driver, not inspection_manager |
| `pose_utils` | none | orbit angles, poses, tolerances | called by the two programs that move |
| `tending_moveit` scenario, `ee_pose_query`, `mock_ui_client.py` | parameters | stand-alone programs | robot, or nothing |

What makes it hard:

* *Threads.* `inspection_manager` runs blocking service handlers and `handle_cancel` in a
  `MultiThreadedExecutor`, and each inspection in a detached thread; only `motion_busy_` and the
  mutex of the stored feedback stand between them. In `tending_bridge` the socket's IO thread,
  the watchdog, the feedback subscription and the request callbacks share the job slot under
  `state_mtx_`, but decide outside it.
* *Time-outs.* Every request to the driver has one; the request itself is not recalled.
* *Order.* STOP is sent by three parties and may overtake the motion it is meant for; results
  are sent before slots are released; cancels may come before the goal they cancel.
* *Stale state.* Moves end by comparing the target with the *last stored* feedback.
* *Callbacks.* `on_feedback` of the bridge runs in a reentrant group: two messages may be handled at
  once, and overtake each other between `state_mtx_` and `event_mtx_`.
* *Connections.* Bytes arrive in arbitrary chunks; peers vanish at any point; the deadman must
  notice.
* *Files.* Images, sidecars and the manifest are written by two nodes that do not know of each other,
  under names that runs of one machine share; nobody asks whether a stream could be written.

What each component must get right is stated as properties in section 4.

## 2. The modules

| module | models | abstracts |
|---|---|---|
| `InspectionManager` | `inspection_manager.cpp` with `on_feedback`, `safety_ok`, `move_ptp_joint`, `stop` of `robot_io_bridge.cpp`; driver, robot, camera as the environment | joint vectors and angles are *places*; messages and feedback texts left out |
| `MotionSlot` | abstract specification: one slot, one motion at a time, given back between motions | everything else |
| `MCInspectionManager` | the model values for TLC | |
| `TendingBridge` | `tending_bridge_node.cpp`: commands, slot, stop, deadman, watchdog, callbacks; manager, clients and driver as the environment | message texts, the state snapshot, the phase shown to the GUI; `goto_pose` and `jog` are one kind of command |
| `StateStream` | `tending_bridge_node.cpp`: `on_feedback`, `emit_safety_events`, `publish_state`, `on_state_timer`, `feedback_callback`, and what the other callbacks do to the state shown | the slot is claimed and released, not fought over; flags stand for the whole feedback |
| `TendingCell` | `TendingBridge` and `InspectionManager` composed, with goals, requests, cancels, results and STOPs on their way between them | safety edges, the watchdog and lost connections stay in `TendingBridge` |
| `JsonLineServer` | `json_line_server.cpp`; sockets and `poll` as the environment | a line is its position in the peer's stream, output is a count of messages |
| `InspectionDataset` | `camera_node.cpp`, `dataset_recorder.cpp`, and the view loop of `execute` as far as files are concerned | a file is known by the run it was written for |
| `Scenario1Inspect` | `scenario1_inspect.cpp` with `wait_for_services`, `on_tool_pose`, `move_ptp_tool`, `move_line_tool`, `wait_until_pose` of `robot_io_bridge.cpp` and `orbitAngles` of `pose_utils.cpp` | poses are views of the orbit; angles are integers |

Theorems are in `InspectionManagerProofs`, `InspectionMotionProofs` (which builds on it), `TendingBridgeProofs`,
`TendingCellProofs`, `StateStreamProofs`, `JsonLineServerProofs`, `InspectionDatasetProofs` and `Scenario1InspectProofs`.
Definitions marked *Bug* or *Variant* in a module are altered forms of the definition that follows
them; no specification uses them. They show that the properties notice such a change.

### InspectionManager

`pc` says where a handler or an inspection's thread is, `io` which call of `RobotIoBridge` (or of
the camera) it is in: the two together are the thread's stack. One step runs up to the next point
where the code blocks or where another thread can see the difference. `busy` is `motion_busy_`,
`fb` what `on_feedback` stored, `status` the goal's state in the action server, `canceller` the
goal whose `handle_cancel` is on the stack. (`inspecting_` is written by `execute` and read by
nobody, so it has no variable.)

| action | code |
|---|---|
| `HandleGoto`, `HandleJog`, `CheckSafety`, `CallerMoves`, `CallerReturns` | `handle_goto`, `handle_jog` and the destructor of `MotionGuard`; a refused request changes nothing and is no step |
| `HandleGoal` | `handle_goal` and `handle_accepted` |
| `HandleCancel`, `StopReturns`, `CancelAccepted` | `handle_cancel`: STOP first; only its return makes the goal canceling |
| `Start`, `Stage`, `View`, `ViewMoved`, `CaptureRequest`, `Captured`, `CaptureFailed`, `Abort`, `Cancel`, `Unwind` | `execute`, line by line; `Fail` is the lambda `fail`, `Unwind` the destructor of `Guard` |
| `SendMove`, `MoveAnswered`, `MoveUnanswered`, `Poll` | `move_ptp_joint`: request, answer, 5 s without one, the poll of the feedback. The poll's iterations that only sleep are stuttering; the deadline may pass at any time |
| `SendStop`, `StopReturns` | `stop` |
| `OnFeedback` | `on_feedback` |

The environment is as bad as the interfaces allow: the driver accepts, refuses, or does not answer
(the request is then `late`: served afterwards, or lost); STOP empties the robot's queue or is
refused; flags change at any time; feedback may stop for ever; the camera may refuse, or not
answer; the other node's STOP comes whenever it likes.

An answer can be handled only while the executor has a free thread (`FreeThread`): services and
`handle_cancel` occupy one while they wait. The action server's callbacks are in the node's default,
mutually exclusive group, which is why `HandleGoal` waits for `canceller = NoGoal`.

Four history variables record what properties ask about and no action reads: `fromRest` (the move was
sent with the robot at rest where the feedback said), `missed` (an answer was not awaited or a STOP
not heeded), `cancelAt` (how many samples were out when the goal became canceling), `shot`
(where the robot stood when the image was taken).

### TendingBridge

`job` is the slot with its six members, `th` where each of the three threads with pending work is
(IO thread, watchdog, the feedback callback that saw an edge) and what it read earlier.
A step is one critical section of `state_mtx_` with the calls around it. `do_stop` is
`StopRobot`, `StopGoal`, `CancelGoal`, whoever calls it; the watchdog is `CheckDriver`,
`ReadOwner`, `Decide`, `Rearm`, because it reads under the lock and judges after it. The callbacks
of a request are `GoalResponse`, `ResultArrives`, `ReleaseJob`: the result is sent before the slot is
released, and everything may happen in between. `emit_safety_events` holds `event_mtx_` while it
aborts the job, so there is at most one such thread.

Commands are numbered in order of arrival; that is all that is kept of their ids (an id that the GUI
uses twice is not modelled: only the GUI could be confused by it). `max_clients` is 1, as in the
node's default and in `bridge.yaml`. `result` is what was given to `send_to`, which drops it when the owner has
left. `stopped` and `armed` are history: what `do_stop` did during the current job (nothing, STOP sent, or not sent
because `set_event` was not ready), and whether the job was claimed with `deadman_fired_` cleared.

### JsonLineServer

`at` is the IO thread's place in `run()`; `polled`, `got`, `todo`, `lines` are its local variables.
A peer's stream is `wrote` bytes long, `recvd` of them have been returned by `recv()`, `framed` of
those have been cut into lines; the difference is `rx`. A line is the pair of positions of its first
byte and its newline, which is enough to say that it is whole, was handed over once and in order.
(A carriage return before the newline, which the code strips, is an ordinary byte here.)
`Queue` and `Wake` are separate, as in the code: `tx` grows under the lock, the byte is written
to the pipe outside it. `wake()` of a full pipe is lost, as its comment says.

### StateStream

`th` is a record per thread: where it is, the message it handles, the snapshot it holds. A callback of
`on_feedback` is `TakeMessage` (a free executor thread takes the next message), `Store` (under
`state_mtx_`), `Build` and `Send` (`publish_state`: the snapshot under `state_mtx_`, the broadcast
under the server's mutex) and `Emit` (`emit_safety_events` under `event_mtx_`); between any two of
them another thread may run. The timer, a new connection, the goal's feedback and its result
go through the same `Build` and `Send`. `flags` is the set of stored flags that are set; `Alarms` are those
with an event, `Stopping` those that also abort the job. `prev` is `prev_e_stop_` and its like. The
history variables `edges` (rising edges in the messages as they came), `owed` (jobs that ran
when such a message came) and `crossed` (two callbacks of `on_feedback` have overlapped) are read
by no guard.

### TendingCell

Every action is an action of one module with the other's variables unchanged, or a joint one where a
message is handed over: `GoalArrives` is the manager's `HandleGoal` and the bridge's `ManagerAnswers`,
`RequestArrives` the same for `goto_pose` and `jog`, `CancelArrives` the manager's `HandleCancel` for a
goal that the bridge has cancelled, `ResultSent` the bridge's `ManagerEnds` once the manager has
concluded. What `TendingBridge` leaves to its environment is thereby fixed to what the manager really
does. `stops` counts the STOPs that the driver has not seen and nobody waits for: those of `do_stop`, and those that
`stop()` of the manager gave up after 5 s and did not recall (`StopGivenUp`). `StopArrives` serves them
whenever it likes, in a later command as well. A STOP that is not sent, as `set_event` is not ready, is to the cell
one that got lost.

### InspectionDataset

`image`, `sidecar` and `manifest` are the disk; `asked` the camera's requests, which its single thread serves
in order; `topic` the recorder's queue, which loses its oldest sample when it is full. `CaptureFails`
is a capture that was refused or not answered within 10 s: the request stays in `asked`.
`HandleCapture` may leave a whole image, half of one, or none. A failed write is seen by `good()` and answered
`ok = false`; but `camera_node.cpp:96` asks before the stream is closed, so an image that loses its
end then (`"cut"`) is answered `ok = true`. `Record` is `on_sample` with two
streams that may each fail unnoticed. The recorder may start late or die.

### Scenario1Inspect

`plan` holds the parameters of one run, `at` where `run()` is, `i` its loop variable. `View` is the top
of the loop with the request it sends; `Safety` and `Arrived` are the two halves of the iteration of
`wait_until_pose` that leaves it (the stored flags, then the stored pose, with callbacks in between). A full turn is
`Full` units. The angles of an orbit of n views are multiples of 1/n or 1/(n-1) of a unit, so
everything is multiplied by `Divisor`; `Target` identifies angles that differ by full
turns, as the pose does. In a real run the robot is sent to views; a dry run only
computes the orbit. `excused` records what the code answers with no STOP: a move that was not
answered or not over in time, a STOP that was not heeded, and an interrupt.

## 3. Runs

All runs use `-workers 2`; each takes from a second to somewhat over three minutes.

| run | instance | states | what it shows |
|---|---|---|---|
| `manager_inspection` | 1 caller, 1 goal, 2 views, queue of 2, 1 late request | 1.6 M | `TypeOK`, `ReachedMeansThere`, `ResultCountsSamples`, `CancelBoundsSamples`, `AbortLeavesRobotStill`, `SampleAsLabelled` |
| `manager_threads` | 2 callers, 1 goal, 1 view, fair | 0.15 M | `MotionExclusive`, `ExecutorServes`, `SlotImplemented`, `SlotComesFree`, `CancelAnswered` |
| `bridge_jobs` | 2 commands, 2 connections, 2 alarms | 6.4 M | `TypeOK`, `JobCoherent`, `CancelNotLost`, `OneAtManager` |
| `bridge_progress` | the same without alarms, fair | 0.3 M | `ResultDelivered`, `DeadmanStops` |
| `stream_state` | 2 executor threads, 1 flag, 3 messages, 1 job with 1 feedback, 1 connection, fair | 0.9 M | `TypeOK`, `EventPerEdge`, `EdgeStopsJob`, `StateConverges` |
| `cell_commands` | 2 commands, 1 connection, 1 STOP that nobody waits for under way, 1 view, fair | 0.4 M | `RefusedOnlyByUnwinding`, `CommandConcludes`, `AwaitedStopSparesInspections` |
| `dataset` | 1 machine, 3 runs, up to 2 views, 2 requests, a queue of 2, fair | 1.5 M | `TypeOK`, `PairsMatch`, `SampleHasImage`, `DatasetCompletes` |
| `scenario` | orbits of up to 8 views, runs of up to 4, a turn of 60, both modes, fair | 0.4 M | `TypeOK`, `OrbitEven`, `QueueFollowsRun`, `AlarmEndsRun`, `RunEnds` |
| `json_server` | 2 peers, 1 client, streams of 5 bytes, chunks of 2, lines of 2, pipe of 1 | 5.9 M | `TypeOK`, `NoLostWakeup`, `LineAfterLine` |
| `json_progress` | 1 peer, stream of 8 bytes, fair | 0.2 M | `LineReachesHandler`, `LeaverDropped`, `OutputDrains`, `StopEnds` |

Two runs check a statement that the repository makes and the code does not keep; TLC shows how.

| run | statement | what happens |
|---|---|---|
| `bridge_deadman` | `PROTOCOL.md` 5.3: an orphaned active goal is stopped | `deadman_fired_` is left set by the previous job if no watchdog round fell between the two; the window is 200 ms |
| `stream_events` | `tending_bridge_node.cpp:174`: serialising the edge detection prevents duplicate events | `event_mtx_` serialises the callbacks but not in the order of their messages: one that carries the flag as it was between two newer ones clears `prev_e_stop_`, and the same edge is announced, and the job aborted, twice |

More behaviours that the models have and a reader of the documents may not expect:

* A move that timed out is neither stopped nor recalled. Its slot is released, and the next inspection
  may be accepted while the robot still executes it (`robot_io_bridge.cpp:176`, against
  `inspection_manager.cpp:239`).
* An accepted cancel may end as ABORTED or SUCCEEDED: the STOP that comes with it makes the move fail,
  and `fail()` aborts; or the loop is over and the goal succeeds (`tending_bridge_node.cpp:566`).
* BUSY is also answered between a result and `release_job` (`PROTOCOL.md:173`).
* The watchdog decides on an owner it read before it let go of the lock
  (`tending_bridge_node.cpp:657`): it may stop a robot whose job has just ended
  (`PROTOCOL.md:182`).
* The deadman tries once. If `set_event` is not ready then, the STOP is not sent
  (`tending_bridge_node.cpp:590`) and, as `deadman_fired_` stays set while the owner is away, not sent
  later either: an inspection is cancelled all the same, a `goto_pose` or `jog` runs on.
* A STOP of the manager that was not answered within 5 s is not recalled (`robot_io_bridge.cpp:280`). Served late,
  it stops whatever moves by then, another inspection too.
* An image may be answered `ok = true`, and published, although its end was lost when the file was closed
  (`camera_node.cpp:96`); `CaptureImage.srv:5` says that `ok` means saved.

### Why the bounds are enough

* *Two views* are the least for which a cancel can fall before, in and after a view with another one
  still to come, and for counts to be wrong by one in both directions. *A queue of 2 and one
  late request* put a command of somebody else before and behind the goal's own.
* *Two callers and a goal* give every pair of entry points for the slot but two goals, which the
  theorem about `MotionExclusive` covers; a caller can also run twice. Data does not matter to exclusion, so one view and
  one pose suffice. `ExecThreads = 3`: one holder of the slot, one `handle_cancel`, one to serve;
  on a machine with fewer threads `ExecutorServes` is false, and the theorem about it has
  `ExecThreads >= 3` as its assumption.
* *Two commands, two connections*: everything `TendingBridge` could get wrong is between a command
  and the next, or an owner and its successor. Alarms (`MaxAlarms`) are the safety edges
  and the losses and returns of the driver's feedback together; two let feedback come back, or a safety edge fall beside the
  watchdog's own abort. `bridge_progress` and `bridge_deadman` have none: the deadman needs neither.
* *Three messages, two threads*: the least for a flag to rise, fall and rise while an older callback is
  still on its way. One flag is enough for its own edges, as flags are detected one by one;
  `stream_events` adds a flag without an event, so that messages differ without an edge.
* *Three runs of one machine*: a capture given up in the first, its late image in the second, and a third that
  succeeds over both. Machines share no file, so one label says it all. A queue of 2 can
  overflow, which 50 can as well, given time.
* *A turn of 60 with a tolerance of 2*: ranges from 0 past a full turn in both directions, so that the test for a
  full turn is met at, below and above it. Orbits of up to 8 views for the angles, 4
  for the run: the robot is never more than two views from the current one.
* *One STOP under way* in `TendingCell`, of the bridge or given up by the manager: a second one empties the same
  queue. One connection, as the deadman is not part of it.
* *Streams* contain two adjacent newlines (an empty line), a line across a chunk boundary and, in the
  longer stream, a tail that is too long. One wake-up fills the pipe.

### Fairness

`FairSpec` of each module asks weak fairness of the program's own threads and nothing of the world
around it.

* `InspectionManager`: every wait of a handler or of `execute` has a time-out (5 s, 10 s,
  `move_timeout_s`), so the thread is always able to go on; the executor's threads and the detached
  one are scheduled by the operating system. The driver, the robot, the camera and the feedback
  may be silent for ever. What rests on this: `SlotComesFree`, `CancelAnswered`.
* `TendingBridge`: the IO thread finishes a line, the timer keeps firing, callbacks that are due run.
  The manager is not fair: `ResultDelivered` starts when it has ended or rejected the command,
  because the bridge has no time-out of its own for it.
* `TendingCell` closes that gap: with the manager's threads fair in place of the manager as a whole,
  and goals, requests and results delivered by the middleware, `CommandConcludes` holds from the
  acknowledgement on. Cancels and STOPs may never arrive.
* `StateStream`: a callback that has begun runs to its end, and the timer of 200 ms fires again.
  No further message, feedback or connection need come. What rests on this: `EdgeStopsJob`,
  `StateConverges`.
* `InspectionDataset`: the recorder's thread handles what is queued. It may not be running at all.
* `Scenario1Inspect`: the main thread goes on; each of its waits has a deadline (5 s or 10 s,
  `move_timeout_s`).
* `JsonLineServer`: the IO thread runs. `PollReturns` is strongly fair, since `PollFails` (a signal)
  may interrupt `poll` now and then, but not each time. A thread that queued output reaches
  `wake()`. `OutputDrains` also needs the peer to read (`PeerReads`): it is about the
  server's part, and a peer that never reads keeps its output for ever, by design.

`CHECK_DEADLOCK` is off for all but `InspectionManager`: with commands, connections, messages or runs
used up, the scenario over or the server stopped, nothing need happen. `InspectionManager` never stops,
since feedback keeps coming.

## 4. Properties

*One motion.* `MotionExclusive`: the slot is set exactly while one thread is between taking and
returning it, whichever of the three ways it came. `SlotImplemented`: seen from outside, the node is
`MotionSlot`, with the holder as `holder` and a command on its way as `commanding`.

*Moves and samples.* `ReachedMeansThere`: a move that began with the robot at rest where the feedback said
ends with success only at its target; without the premise it would not hold, since older feedback may
match the target. `SampleAsLabelled`: the k-th sample is view k-1, its image and its
joint positions are both from there. `ResultCountsSamples`: `image_count` is right on all endings.

*Cancelling.* `CancelBoundsSamples`: at most the view under way is still published.
`AbortLeavesRobotStill`: an aborted or canceled inspection leaves none of its commands in the robot,
if the driver answered. `CancelAnswered`: `handle_cancel` returns, and its goal is then canceling or has ended.
`SlotComesFree`: every motion gives the slot back.

*Executor.* `ExecutorServes`: the blocking handlers leave a thread for the answers they wait for.

*Job slot.* `JobCoherent`, `OneAtManager`: the slot describes the one command in flight, the manager
has no second. `CancelNotLost`: a cancel before the goal's acceptance is made good.
`ResultDelivered`: what ends is reported, to its owner if it is still there, and frees the slot. `DeadmanStops`: when the
owner is lost, `do_stop` runs and cancels the goal, if there is one or as soon as there is; its STOP is sent, or
was not because `set_event` was not ready. It does not say that the robot stands.

*Events and state.* `EventPerEdge`: while callbacks do not overlap, every rising edge, whatever
messages it hides in, makes exactly one event. `EdgeStopsJob`: the job that ran when the message came is stopped
or ends by itself. `StateConverges`: although an older snapshot may follow a newer one, the client is left
with the state as it is once it settles; it is the timer that makes this true. `EventOnce`, without the premise
on overlapping, does not hold (`stream_events`).

*Cell.* `CommandConcludes`: what is acknowledged is concluded and frees the bridge's slot, with nothing but the manager's
time-outs to rely on. `RefusedOnlyByUnwinding`: the bridge serialises so well that the manager's own slot
refuses it only in the moment between a result and the guard's destructor.
`AwaitedStopSparesInspections`: when the driver serves a STOP of the manager that its sender still waits for, no
inspection runs but the sender's own, or the one whose `handle_cancel` sent it. (A `goto_pose` or `jog` may be
hit: a cancel may still wait when its goal has failed.) Of a STOP served after its 5 s, or sent by the
bridge, it says nothing: that may hit any motion.

*Dataset.* `SampleHasImage`: a sample names an image that is there, of its own run and without a failed write, although
requests of runs that gave up are still served. (The end of the image may have been lost in closing it, which nobody
sees.) `DatasetCompletes`: a run that succeeded has its lines in the manifest, once and in order, unless the recorder
lost a sample. `PairsMatch`: image and sidecar of a view are from the same run, once the view is through and unless its
last capture failed or a sample was lost; then the image of an aborted run may lie beside an older sidecar, and
nothing in the files tells. The matching image may be a cut one.

*Scenario.* `OrbitEven`: the views of a sweep differ and are evenly spaced, with the end of the range as the last one
or, round a full turn, not. `QueueFollowsRun`: the robot holds one view at a time, never one outside `safe_region` in
hybrid mode, and nothing when the run ends, up to the excused ends. `AlarmEndsRun`: once the stored flags are bad, one
more move goes out at most: no move looks at them before it is sent. `RunEnds`.

*Server.* `NoLostWakeup`: nothing is left to the time-out of `poll`. `LineAfterLine`: every line is handed
over whole, once and in order, however the stream is cut into chunks. `LineReachesHandler`, `LeaverDropped`,
`OutputDrains`, `StopEnds`. The last holds because streams end: `handle_readable` reads on as long as there is
something to read and does not look at `running_`, so a peer that never pauses can keep `stop()` waiting, and the
other clients too.

## 5. Proofs

Every safety property of section 4 that holds, invariant or action property, is a theorem for every value of the
constants. Assumptions are the named `ASSUME`s on the constants, which say no more than that bounds are numbers,
that poses are among the five names and that the sets of threads are disjoint; `Callers` is finite. Two theorems
have hypotheses of their own, given below: `ExecutorNeverStarves` and `OrbitsAreEven`.

`InspectionManagerProofs`. None of the properties is inductive. `IInv` adds to the types
`CallInv`, which calls a thread can be in at each place (without it a stale answer could be
delivered to a thread that has left the call), and `LoopInv`, how far the view loop has counted at each place
(`idx < views` where a sample may still be published, `idx = views` from RETREAT on, 0 before the loop).
There is one lemma per group of actions. From `IInv`: `TypeCorrect`, `ResultsCount`.
For exclusion the steps are classified first (`Effect`): each one leaves the slot alone, commands,
settles, takes or returns. `SlotExclusive` and the refinement `ImplementsMotionSlot` both follow from that
lemma, and neither looks at single actions again. `ExecutorNeverStarves` bounds the blocked threads
by the one holder and `handle_cancel`, and assumes `ExecThreads >= 3`. `CancelSparesOthers`: no inspection begins and
no cancel but by a request (`UnaskedBegins`); a goal that has not ended is in `execute` (`LiveInv`) and so holds the slot,
which by exclusion leaves room for no other when `handle_cancel` is called, and the action server takes
no new goal until it returns (`CancelAlone`). `ServerStopsInCancel` adds that the action server has a STOP out only
while `handle_cancel` runs.

`InspectionMotionProofs` builds on these. `CancelBoundsSamples` needs to know that the bound is `MaxViews` until
the goal is canceling and that a goal between its look at `is_canceling` and its sample (`Inside`) has the sample
still to its credit. All steps but two are `Calm`: they publish nothing, and enter a view only if the goal
executes. The two are `Captured`, which spends the credit, and `CancelAccepted`, which sets the bound. Theorem: `CancelBound`.

For `ReachedMeansThere` the robot has to be watched while a move is out. `RestInv` goes through its life: until the driver
has the request the robot is at rest (`AtStart`); from then on nobody's late request is in flight, the robot holds commands
to the target only, and feedback from the target means the robot is there (`UnderWay`, then `There`). That nobody
else disturbs this is `MotionExclusive`: only the holder sends moves (`OnlyHolderAims`), and a request becomes late only when its
sender gives up. `AimInv` adds that a goal inside a view is aimed at that view's waypoint and that the image was taken
at it, which carries `SampleAsLabelled` over the time between the capture and the sample. `OwnInv` says what
"left in the robot" needs: a late request is of a goal in `missed`, and a goal that has stopped, or ended after its
STOP, has no command in the queue. Theorems: `RestInvariance`, `ReachedIsThere`, `SamplesAsLabelled`, `AbortsLeaveStill`.
The steps are first reduced to what they do to a move (`GoalShape`, `CallerShape`, `IoShape`), and the three
invariants are proved of the shapes.

`TendingBridgeProofs`. `JobCoherent` and `CancelNotLost` hold only together with `LifeInv` (a command that has not
arrived, or was refused, has left no trace; one the manager works on still has its callbacks
before it) and `ThreadInv` (what the IO thread is about to send is a new command; a thread that cancels
has a goal). The central step is `ReleaseJobIInv`: `release_job` asks nobody, and is right
because the reporting command is in flight and therefore the slot's. Theorems: `Invariance`, `TypeCorrect`, `SlotCoherent`,
`CancelsReachTheGoal`, `ManagerGetsOne`.

`TendingCellProofs`. Every step of the cell is a step of the bridge or leaves it alone, and one of the manager or leaves it
alone: `ImplementsBridge`, `ImplementsManager`. For the messages this is the point of the joint actions: what arrives at one
node is what the other sent. So the invariants of both nodes hold in the cell (`NodesInv`); to cite them, the modules with
their proofs are instantiated and their actions shown to be those of the nodes (`SameManager`, `SameBridge`), which is
no more than expanding definitions. `AwaitedStopsSpareOthers` then follows from the manager's
theorems: a running inspection holds the slot, and so does any other thread that waits for a STOP, unless it is `handle_cancel`'s,
which `CancelSparesOthers` is about. `CellInv` is the
invariant that neither node has alone: a goal that has not ended, and a handler that has not returned, belong to a
command that the bridge counts as running, of the right kind (`NodesAgree`). With the bridge's one command in flight and the
manager's exclusion it gives `RefusedOnlyWhileUnwinding`, the action property `RefusedOnlyByUnwinding`, and `MotionIsTold`: as
long as something of the bridge moves the robot, the job slot names it; so `BUSY` and the state sent to the GUI are
right about the robot while the clients' commands are all there is. (It is not a property of a run: it follows from `CellInv` and
`JobCoherent`.)

`StateStreamProofs`. `EventPerEdge` speaks of moments without a callback; `EdgeInv` says what holds during one: it is the
only one, its message is the last, and only its edges against `prev` lack their event. `SpotInv` says
that a thread does not forget, while it publishes, that it has to emit. `AsideIInv` disposes of all steps that have
nothing to do with messages. Theorem: `EdgesAnnounced`. The types need more than types: that a flag has no more events than
there were messages is `CountInv`, by which each message is in the hands of one callback until it has made its events
(`events[f]` plus the callbacks under way is at most `taken`). Theorem: `TypeCorrect`.

`JsonLineServerProofs`. `IInv` adds four things to the types: `ServeInv` (whom the IO thread serves is a client, and stays one,
as only it drops clients), `StreamInv` (what is framed ends at a newline, with none behind it in `rx`, and has been handed
over but for the chunk under way), `LinesInv` (the lines of that chunk are exactly those between what was handed over and what
is framed) and `WakeInv` (a queued message owes a wake-up at most). The operators `Least` and `Most` choose the
ends of a set of positions; that these exist follows from the well-foundedness of `<`, which the library proves.
`ChunkLines` is the heart: the lines cut off a chunk are the lines of the whole stream that end in it,
wherever `rx` began. Theorems: `Invariance`, `TypeCorrect`, `WakeupsSuffice`, `LinesInOrder`.

`InspectionDatasetProofs`. `QueueInv`: behind the request the manager waits for there is no other, before it there are only
those of earlier runs, and once it is answered the camera's queue is empty; so nothing can overwrite the image before its
sample is published. Theorem: `SamplesHaveImages`; like `PairsAreOfOneRun` it counts an image cut in closing as good.
`TypesAreRight` adds that views stay below the number a run has, in the topic and in the manifest (`TypedInv`). For `PairsMatch` image and sidecar take different ways: the image through the
camera's queue, the sample through the recorder's. `PairInv`: a request that waits is of a failed capture or the one under way; and once
a file is settled, the last sample of that file in the topic, or the sidecar if there is none, is of the image's run. Theorem:
`PairsAreOfOneRun`.

`Scenario1InspectProofs`. `AlarmInv` adds where in `run()` no move has been sent since the flags were last good.
Theorem: `AlarmEnds`. `OrbitsAreEven` is arithmetic on the plan, which never changes: two views of a sweep differ by less than a
full turn. It has hypotheses, `(Tol - 1) * (MaxOrbit - 1) < Full` and the same for `MaxViews`: a range that passes for a full turn may exceed it by
just less than the tolerance, and `orbitAngles` then spreads the excess over all the views, so with more views than turn by tolerance
(6283 for the code's 1e-3 rad) the last could coincide with the first. The instance of the run satisfies them, as does every orbit one
would program. `FollowInv` goes with the queue: its commands are in the order of the views, the earlier ones to where the robot stands, a
late request is of the view at which the run ended, and what `tool_pose` says of the current view is true
(`HeldInv`); a heeded STOP has left the queue empty (`EndInv`). Theorems: `TypeCorrect`, `QueueFollows`.

Only model-checked: the liveness properties (`SlotComesFree`, `CancelAnswered`, `ResultDelivered`,
`DeadmanStops`, `EdgeStopsJob`, `StateConverges`, `CommandConcludes`, `DatasetCompletes`, `RunEnds`, the four of
`json_progress`), since liveness under fairness and ENABLED are out of the proof system's reach. The two statements that
do not hold (`DeadmanAlwaysStops`, `EventOnce`) have their counterexamples from TLC.

## 6. Not modelled, and what is planned

* `ee_pose_query` prints a pose and changes nothing. The MoveIt scenario is a sequential client of a library that does
  the planning and its failures. `mock_ui_client.py` is a test client.
* Geometry: rotations and poses are floating point (Eigen) and have unit tests; of `pose_utils` only the angles of an
  orbit are modelled, in exact arithmetic.
* Message formats, parsing and parameters. A line that is JSON but no object, or an argument of the wrong type, makes the
  parser throw out of `on_line` on the IO thread; that is left out with the parsing.
  `ignore_safety_flags` of the scenario, with which it looks at no flag.
* `tool_pose` messages out of order, and more than one of them under way: `on_tool_pose` stores where the robot is.
* Node start-up and the death of `inspection_manager` while a command runs: the bridge has no time-out for it, and the slot
  stays taken. `rclcpp::ok()` turns false only in `Scenario1Inspect`.
* `send_script` and the getters of `RobotIoBridge` that nobody calls or that read one member.

What is left to do:

1. `TendingCell` with the deadman and the safety callback, for a STOP of the bridge that is late; its instance is at
   the limit of what TLC does in a few minutes.
2. An abstract specification of a command as the GUI sees it (ack, result, one at a time), implemented by
   `TendingBridge`, and of the server as one FIFO per peer, implemented by `JsonLineServer`.
