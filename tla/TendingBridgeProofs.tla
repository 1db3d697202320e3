------------------------- MODULE TendingBridgeProofs -------------------------
(* The job slot of the bridge, proved for any number of commands, connections   *)
(* and alarms: the slot describes the one command in flight, a cancel is not    *)
(* lost, and the manager never has two commands of the bridge.                  *)
EXTENDS TendingBridge, FiniteSetTheorems, TLAPS

(* What the three properties rest on.  A command that has not arrived, or was   *)
(* refused, has left no trace; one that the manager works on still waits for    *)
(* its callbacks.                                                               *)
LifeInv ==
  \A i \in Jobs :
    /\ cmd[i].kind = "none" => ack[i] = "none"
    /\ cmd[i].kind = "none" \/ ack[i] = "busy" => cb[i] = "none" /\ mgr[i] = "none"
    /\ mgr[i] \in {"sent", "running"} => cb[i] \in {"waiting", "responded"}

(* The IO thread sends a command that is in flight and was not sent before; a   *)
(* thread cancels a command and not nothing.                                    *)
NewCommand(i) ==
  i \in Jobs /\ cmd[i].kind # "none" /\ ack[i] = "none" /\ cb[i] = "none" /\ mgr[i] = "none"

ThreadInv ==
  /\ At("io", "send") => NewCommand(th["io"].arg)
  /\ \A t \in Threads : At(t, "cancel") => th[t].arg \in Jobs

IInv == TypeOK /\ JobCoherent /\ LifeInv /\ ThreadInv /\ CancelNotLost

(* The facts about constants that the steps use.                                *)
LEMMA Universe ==
  /\ None \notin Jobs /\ None \notin Conns
  /\ MaxConns \in Nat /\ MaxAlarms \in Nat
  /\ Jobs \subseteq Nat /\ Conns \subseteq Nat
BY BoundsAssumption DEF Jobs, Conns, None

(* Setting the cancel flag, or the goal, of a job keeps the rest of it.         *)
LEMMA SlotFacts ==
  ASSUME NEW j \in JobSlots, NEW i \in Jobs
  PROVE  /\ [j EXCEPT !.cancel = TRUE] \in JobSlots /\ [j EXCEPT !.goal = i] \in JobSlots
         /\ j.goal \in Jobs \cup {None} /\ j.id \in Jobs \cup {None}
         /\ j.client \in Conns \cup {None}
BY DEF JobSlots

(* The free slot and the slot of a new job are slots.                           *)
LEMMA SlotConstants ==
  /\ NoJob \in JobSlots
  /\ \A i \in Jobs, kind \in Kinds, c \in Conns \cup {None}, g \in Jobs \cup {None} :
       [active |-> TRUE, id |-> i, kind |-> kind, client |-> c,
        cancel |-> FALSE, goal |-> g] \in JobSlots
BY DEF NoJob, JobSlots

(* What Go does to the thread that goes and to the others.                      *)
LEMMA GoFacts ==
  ASSUME th \in [Threads -> Places], NEW t \in Threads, NEW where \in Spots,
         NEW arg \in Jobs \cup Conns \cup {None}, NEW then \in {"idle", "owner"},
         Go(t, where, arg, then)
  PROVE  /\ th' \in [Threads -> Places]
         /\ \A u \in Threads : u # t => th'[u] = th[u]
         /\ th'[t].at = where /\ th'[t].arg = arg /\ th'[t].then = then
BY DEF Go, Places

(* The places a thread goes to are places.                                      *)
LEMMA PlaceFacts ==
  ASSUME th \in [Threads -> Places], NEW t \in Threads
  PROVE  /\ th[t].at \in Spots /\ th[t].then \in {"idle", "owner"}
         /\ th[t].arg \in Jobs \cup Conns \cup {None}
BY DEF Places

(* The initial state has no job and no command.                                 *)
LEMMA InitIInv == Init => IInv
<1> SUFFICES ASSUME Init PROVE IInv  OBVIOUS
<1>0. Idle \in Places  BY DEF Idle, Places, Spots
<1>1. NodeTypes
  <2>1. th \in [Threads -> Places]  BY <1>0 DEF Init
  <2>2. job \in JobSlots  BY SlotConstants DEF Init
  <2>3. fired = FALSE /\ prevAlive = FALSE /\ stopped = "none" /\ armed = FALSE
    BY DEF Init
  <2> QED  BY <2>1, <2>2, <2>3 DEF NodeTypes, StopTries
<1>2. LinkTypes
  <2>1. conn \in Conns \cup {None} /\ nextConn = 1 /\ silent = FALSE /\ driverUp = FALSE
        /\ alarms = 0
    BY DEF Init
  <2>2. nextConn \in 1..MaxConns + 1 /\ alarms \in 0..MaxAlarms  BY <2>1, Universe
  <2> QED  BY <2>1, <2>2 DEF LinkTypes
<1>3. CommandTypes  BY DEF Init, CommandTypes, Kinds
<1>4. JobCoherent  BY DEF Init, JobCoherent, InFlight, NoJob
<1>5. LifeInv  BY DEF Init, LifeInv
<1>6. ThreadInv  BY DEF Init, ThreadInv, At, Idle, Threads
<1>7. CancelNotLost  BY DEF Init, CancelNotLost, NoJob
<1> QED  BY <1>1, <1>2, <1>3, <1>4, <1>5, <1>6, <1>7 DEF IInv, TypeOK

-------------------------------------------------------------------------------
(* A step that leaves the job, the commands and the threads alone.              *)
LEMMA Elsewhere ==
  ASSUME IInv, UNCHANGED <<job, th, clientVars, cb, mgrVars>>,
         LinkTypes', fired' \in BOOLEAN, prevAlive' \in BOOLEAN,
         stopped' \in StopTries, armed' \in BOOLEAN
  PROVE  IInv'
<1>1. TypeOK'  BY DEF IInv, TypeOK, NodeTypes, CommandTypes, clientVars, mgrVars
<1>2. JobCoherent'  BY DEF IInv, JobCoherent, InFlight, clientVars
<1>3. LifeInv'  BY DEF IInv, LifeInv, clientVars, mgrVars
<1>4. ThreadInv'  BY DEF IInv, ThreadInv, At, NewCommand, clientVars, mgrVars
<1>5. CancelNotLost'  BY DEF IInv, CancelNotLost, At, mgrVars
<1> QED  BY <1>1, <1>2, <1>3, <1>4, <1>5 DEF IInv

(* A step in which a thread that was not cancelling goes to a place where it    *)
(* has nothing to send or to cancel.                                            *)
LEMMA ThreadMoves ==
  ASSUME IInv, NEW t \in Threads, NEW where \in Spots \ {"send", "cancel"},
         NEW arg \in Jobs \cup Conns \cup {None}, NEW then \in {"idle", "owner"},
         Go(t, where, arg, then), ~At(t, "cancel"),
         UNCHANGED <<job, clientVars, cb, mgrVars>>,
         LinkTypes', fired' \in BOOLEAN, prevAlive' \in BOOLEAN,
         stopped' \in StopTries, armed' \in BOOLEAN
  PROVE  IInv'
<1>0. /\ th' \in [Threads -> Places] /\ th'[t].at = where
      /\ \A u \in Threads : u # t => th'[u] = th[u]
  BY GoFacts DEF IInv, TypeOK, NodeTypes
<1>1. TypeOK'  BY <1>0 DEF IInv, TypeOK, NodeTypes, CommandTypes, clientVars, mgrVars
<1>2. JobCoherent'  BY DEF IInv, JobCoherent, InFlight, clientVars
<1>3. LifeInv'  BY DEF IInv, LifeInv, clientVars, mgrVars
<1>4. ThreadInv'
  BY <1>0 DEF IInv, ThreadInv, At, NewCommand, Threads, clientVars, mgrVars
<1>5. CancelNotLost'  BY <1>0 DEF IInv, CancelNotLost, At, mgrVars
<1> QED  BY <1>1, <1>2, <1>3, <1>4, <1>5 DEF IInv

-------------------------------------------------------------------------------
(* The steps that only move a thread: the way into do_stop, the deadman, the    *)
(* watchdog, the safety edges.                                                  *)
LEMMA MovesIInv ==
  ASSUME IInv, NEW t \in Threads,
         \/ (\E ready \in BOOLEAN : StopRobot(t, ready)) \/ AbortJob(t) \/ HandleStop \/ Disconnect \/ OwnerGone
         \/ GoneFires \/ CheckDriver \/ ReadOwner \/ Decide \/ Rearm \/ SafetyEdge
  PROVE  IInv'
<1> USE DEF IInv, TypeOK, NodeTypes
<1>0. /\ th[t].at \in Spots /\ th[t].then \in {"idle", "owner"} \ {"send", "cancel"}
      /\ th[t].arg \in Jobs \cup Conns \cup {None}
      /\ {"io", "watchdog", "safety"} = Threads
      /\ \A u \in Threads : th[u].arg \in Jobs \cup Conns \cup {None}
                           /\ th[u].then \in {"idle", "owner"}
  BY PlaceFacts DEF Threads
<1>s. {"idle", "gone", "fire", "abort", "owner", "decide", "rearm", "stop", "goals"}
        \subseteq Spots \ {"send", "cancel"}
  BY DEF Spots
<1>1. CASE \E ready \in BOOLEAN : StopRobot(t, ready)
  <2>1. Go(t, "goals", th[t].arg, th[t].then) /\ ~At(t, "cancel")
    BY <1>1 DEF StopRobot, Goto, At
  <2>2. UNCHANGED <<job, clientVars, cb, mgrVars>> /\ LinkTypes'
        /\ stopped' \in StopTries /\ armed' \in BOOLEAN
        /\ fired' \in BOOLEAN /\ prevAlive' \in BOOLEAN
    BY <1>1 DEF StopRobot, linkVars, LinkTypes, JobSlots, StopTries
  <2> QED  BY <1>0, <1>s, <2>1, <2>2, ThreadMoves
<1>2. CASE AbortJob(t)
  <2>1. ~At(t, "cancel") /\ UNCHANGED <<job, clientVars, cb, mgrVars>> /\ LinkTypes'
        /\ stopped' \in StopTries /\ armed' \in BOOLEAN
        /\ fired' \in BOOLEAN /\ prevAlive' \in BOOLEAN
    BY <1>2 DEF AbortJob, At, linkVars, LinkTypes, histVars
  <2>2. \/ Go(t, "stop", th[t].arg, th[t].then) \/ Go(t, th[t].then, None, "idle")
    BY <1>2 DEF AbortJob, Goto, Return
  <2> QED  BY <1>0, <1>s, <2>1, <2>2, ThreadMoves
<1>3. CASE HandleStop
  <2>1. Go("io", "stop", None, "idle") /\ ~At("io", "cancel")
    BY <1>3 DEF HandleStop, Receive, StopThen, At
  <2>2. UNCHANGED <<job, clientVars, cb, mgrVars>> /\ LinkTypes'
        /\ stopped' \in StopTries /\ armed' \in BOOLEAN
        /\ fired' \in BOOLEAN /\ prevAlive' \in BOOLEAN
    BY <1>3 DEF HandleStop, Receive, LinkTypes, histVars
  <2> QED  BY <1>0, <1>s, <2>1, <2>2, ThreadMoves
<1>4. CASE Disconnect
  <2>1. Go("io", "gone", conn, "idle") /\ ~At("io", "cancel") /\ conn \in Conns \cup {None}
    BY <1>4 DEF Disconnect, At, LinkTypes
  <2>2. UNCHANGED <<job, clientVars, cb, mgrVars>> /\ LinkTypes'
        /\ stopped' \in StopTries /\ armed' \in BOOLEAN
        /\ fired' \in BOOLEAN /\ prevAlive' \in BOOLEAN
    BY <1>4 DEF Disconnect, LinkTypes, histVars
  <2> QED  BY <1>0, <1>s, <2>1, <2>2, ThreadMoves
<1>5. CASE OwnerGone
  <2>1. ~At("io", "cancel") /\ UNCHANGED <<job, clientVars, cb, mgrVars>> /\ LinkTypes'
        /\ stopped' \in StopTries /\ armed' \in BOOLEAN
        /\ fired' \in BOOLEAN /\ prevAlive' \in BOOLEAN
    BY <1>5 DEF OwnerGone, At, linkVars, LinkTypes, histVars
  <2>2. Go("io", "fire", th["io"].arg, th["io"].then) \/ Go("io", "idle", None, "idle")
    BY <1>5 DEF OwnerGone, Goto, Rest
  <2> QED  BY <1>0, <1>s, <2>1, <2>2, ThreadMoves
<1>6. CASE GoneFires
  <2>1. ~At("io", "cancel") /\ UNCHANGED <<job, clientVars, cb, mgrVars>> /\ LinkTypes'
        /\ stopped' \in StopTries /\ armed' \in BOOLEAN
        /\ fired' \in BOOLEAN /\ prevAlive' \in BOOLEAN
    BY <1>6 DEF GoneFires, Fire, At, linkVars, LinkTypes, histVars
  <2>2. Go("io", "stop", None, "idle") \/ Go("io", "idle", None, "idle")
    BY <1>6 DEF GoneFires, Fire, StopThen, Rest
  <2> QED  BY <1>0, <1>s, <2>1, <2>2, ThreadMoves
<1>7. CASE CheckDriver
  <2>1. ~At("watchdog", "cancel") /\ UNCHANGED <<job, clientVars, cb, mgrVars>> /\ LinkTypes'
        /\ stopped' \in StopTries /\ armed' \in BOOLEAN
        /\ fired' \in BOOLEAN /\ prevAlive' \in BOOLEAN
    BY <1>7 DEF CheckDriver, At, linkVars, LinkTypes, histVars
  <2>2. Go("watchdog", "abort", None, "owner") \/ Go("watchdog", "owner", None, "owner")
    BY <1>7 DEF CheckDriver
  <2> QED  BY <1>0, <1>s, <2>1, <2>2, ThreadMoves
<1>8. CASE ReadOwner
  <2>1. ~At("watchdog", "cancel") /\ UNCHANGED <<job, clientVars, cb, mgrVars>> /\ LinkTypes'
        /\ stopped' \in StopTries /\ armed' \in BOOLEAN
        /\ fired' \in BOOLEAN /\ prevAlive' \in BOOLEAN
        /\ job.client \in Conns \cup {None}
    BY <1>8 DEF ReadOwner, At, linkVars, LinkTypes, histVars, JobSlots
  <2>2. Go("watchdog", "decide", job.client, "idle") \/ Go("watchdog", "rearm", job.client, "idle")
    BY <1>8 DEF ReadOwner
  <2> QED  BY <1>0, <1>s, <2>1, <2>2, ThreadMoves
<1>9. CASE Decide
  <2>1. ~At("watchdog", "cancel") /\ UNCHANGED <<job, clientVars, cb, mgrVars>> /\ LinkTypes'
        /\ stopped' \in StopTries /\ armed' \in BOOLEAN
        /\ fired' \in BOOLEAN /\ prevAlive' \in BOOLEAN
    BY <1>9 DEF Decide, Fire, At, linkVars, LinkTypes, histVars
  <2>2. \/ Go("watchdog", "stop", None, "idle") \/ Go("watchdog", "idle", None, "idle")
        \/ Go("watchdog", "rearm", th["watchdog"].arg, th["watchdog"].then)
    BY <1>9 DEF Decide, Fire, StopThen, Rest, Goto
  <2> QED  BY <1>0, <1>s, <2>1, <2>2, ThreadMoves
<1>10. CASE Rearm
  <2>1. ~At("watchdog", "cancel") /\ UNCHANGED <<job, clientVars, cb, mgrVars>> /\ LinkTypes'
        /\ stopped' \in StopTries /\ armed' \in BOOLEAN
        /\ fired' \in BOOLEAN /\ prevAlive' \in BOOLEAN
    BY <1>10 DEF Rearm, At, linkVars, LinkTypes, histVars
  <2>2. Go("watchdog", "idle", None, "idle")  BY <1>10 DEF Rearm, Rest
  <2> QED  BY <1>0, <1>s, <2>1, <2>2, ThreadMoves
<1>11. CASE SafetyEdge
  <2>1. ~At("safety", "cancel") /\ UNCHANGED <<job, clientVars, cb, mgrVars>> /\ LinkTypes'
        /\ stopped' \in StopTries /\ armed' \in BOOLEAN
        /\ fired' \in BOOLEAN /\ prevAlive' \in BOOLEAN
    BY <1>11, BoundsAssumption DEF SafetyEdge, Alarm, At, LinkTypes, histVars
  <2>2. Go("safety", "abort", th["safety"].arg, th["safety"].then)
    BY <1>11 DEF SafetyEdge, Goto
  <2> QED  BY <1>0, <1>s, <2>1, <2>2, ThreadMoves
<1> QED
  BY <1>1, <1>2, <1>3, <1>4, <1>5, <1>6, <1>7, <1>8, <1>9, <1>10, <1>11

(* The steps that move no thread and leave the commands alone.                  *)
LEMMA ElsewhereIInv ==
  ASSUME IInv, HandlePing \/ Connect \/ ClientSilent \/ DriverChanges
  PROVE  IInv'
<1>1. UNCHANGED <<job, th, clientVars, cb, mgrVars>> /\ UNCHANGED <<fired, prevAlive, histVars>>
  BY DEF HandlePing, Connect, ClientSilent, DriverChanges, nodeVars
<1>2. LinkTypes'
  <2>1. CASE HandlePing  BY <2>1 DEF HandlePing, Receive, IInv, TypeOK, LinkTypes
  <2>2. CASE Connect
    <3>1. conn' \in Conns \cup {None}
      BY <2>2, Universe DEF Connect, IInv, TypeOK, LinkTypes, Conns
    <3>2. nextConn' \in 1..MaxConns + 1
      BY <2>2, Universe DEF Connect, IInv, TypeOK, LinkTypes
    <3> QED  BY <2>2, <3>1, <3>2 DEF Connect, IInv, TypeOK, LinkTypes
  <2>3. CASE ClientSilent  BY <2>3 DEF ClientSilent, IInv, TypeOK, LinkTypes
  <2>4. CASE DriverChanges
    BY <2>4, BoundsAssumption DEF DriverChanges, Alarm, IInv, TypeOK, LinkTypes
  <2> QED  BY <2>1, <2>2, <2>3, <2>4
<1>3. /\ fired' \in BOOLEAN /\ prevAlive' \in BOOLEAN
      /\ stopped' \in StopTries /\ armed' \in BOOLEAN
  BY <1>1 DEF IInv, TypeOK, NodeTypes, histVars
<1> QED  BY <1>1, <1>2, <1>3, Elsewhere

-------------------------------------------------------------------------------
(* The steps that have to do with the job, one lemma each.                      *)

(* The second half of do_stop keeps the invariant: a known goal is taken along. *)
LEMMA StopGoalIInv ==
  ASSUME IInv, NEW t \in Threads, StopGoal(t)
  PROVE  IInv'
<1>0. /\ job \in JobSlots /\ th \in [Threads -> Places]
      /\ th[t].at = "goals" /\ th[t].then \in {"idle", "owner"}
      /\ job.goal \in Jobs \cup {None}
  BY PlaceFacts, SlotFacts DEF IInv, TypeOK, NodeTypes, StopGoal, At, JobSlots
<1>1. /\ job' \in JobSlots /\ job'.active = job.active /\ job'.id = job.id
      /\ job'.kind = job.kind /\ job'.client = job.client /\ job'.goal = job.goal
  BY <1>0 DEF StopGoal, JobSlots
<1>2. \/ /\ job.goal # None /\ Go(t, "cancel", job.goal, th[t].then)
         /\ th'[t].at = "cancel" /\ th'[t].arg = job.goal
      \/ /\ job.goal = None /\ Go(t, th[t].then, None, "idle")
         /\ th'[t].at \in {"idle", "owner"}
  BY <1>0, GoFacts DEF StopGoal, Return, Spots
<1>3. th' \in [Threads -> Places] /\ \A u \in Threads : u # t => th'[u] = th[u]
  BY <1>0, <1>2, GoFacts DEF Spots
<1>4. UNCHANGED <<fired, prevAlive, linkVars, clientVars, cb, mgrVars, histVars>>
  BY DEF StopGoal
<1>5. TypeOK'
  BY <1>1, <1>3, <1>4 DEF IInv, TypeOK, NodeTypes, LinkTypes, CommandTypes,
     linkVars, clientVars, mgrVars, histVars
<1>6. JobCoherent'  BY <1>1, <1>4 DEF IInv, JobCoherent, InFlight, clientVars
<1>7. LifeInv'  BY <1>4 DEF IInv, LifeInv, clientVars, mgrVars
<1>8. ThreadInv'
  BY <1>0, <1>2, <1>3, <1>4 DEF IInv, ThreadInv, At, NewCommand, Threads, clientVars, mgrVars
<1>9. CancelNotLost'
  BY <1>0, <1>1, <1>2, <1>3, <1>4 DEF IInv, CancelNotLost, At, mgrVars
<1> QED  BY <1>5, <1>6, <1>7, <1>8, <1>9 DEF IInv

(* async_cancel_goal keeps the invariant.                                       *)
LEMMA CancelGoalIInv ==
  ASSUME IInv, NEW t \in Threads, CancelGoal(t)
  PROVE  IInv'
<1>0. /\ th \in [Threads -> Places] /\ th[t].at = "cancel" /\ th[t].arg \in Jobs
      /\ th[t].then \in {"idle", "owner"}
  BY PlaceFacts DEF IInv, TypeOK, NodeTypes, ThreadInv, CancelGoal, At
<1>1. /\ th' \in [Threads -> Places] /\ th'[t].at \in {"idle", "owner"}
      /\ \A u \in Threads : u # t => th'[u] = th[u]
  BY <1>0, GoFacts DEF CancelGoal, Return, Spots
<1>2. /\ UNCHANGED <<job, fired, prevAlive, linkVars, clientVars, cb, mgr, histVars>>
      /\ cancelled' = cancelled \cup {th[t].arg}
  BY DEF CancelGoal
<1>3. TypeOK'
  BY <1>0, <1>1, <1>2 DEF IInv, TypeOK, NodeTypes, LinkTypes, CommandTypes,
     linkVars, clientVars, mgrVars, histVars
<1>4. JobCoherent'  BY <1>2 DEF IInv, JobCoherent, InFlight, clientVars
<1>5. LifeInv'  BY <1>2 DEF IInv, LifeInv, clientVars
<1>6. ThreadInv'
  BY <1>1, <1>2 DEF IInv, ThreadInv, At, NewCommand, Threads, clientVars
<1>7. CancelNotLost'  BY <1>0, <1>1, <1>2 DEF IInv, CancelNotLost, At
<1> QED  BY <1>3, <1>4, <1>5, <1>6, <1>7 DEF IInv

(* A cancel of the running job keeps the invariant.                             *)
LEMMA HandleCancelIInv ==
  ASSUME IInv, HandleCancel
  PROVE  IInv'
<1>0. /\ job \in JobSlots /\ th \in [Threads -> Places] /\ "io" \in Threads
      /\ th["io"].at = "idle" /\ job.goal \in Jobs \cup {None}
  BY SlotFacts DEF IInv, TypeOK, NodeTypes, HandleCancel, Receive, At, Threads, JobSlots
<1>1. /\ job' \in JobSlots /\ job'.active = job.active /\ job'.id = job.id
      /\ job'.kind = job.kind /\ job'.client = job.client /\ job'.goal = job.goal
  BY <1>0 DEF HandleCancel, JobSlots
<1>2. \/ /\ job.goal # None /\ Go("io", "cancel", job.goal, "idle")
         /\ th'["io"].at = "cancel" /\ th'["io"].arg = job.goal
      \/ /\ job.goal = None /\ Go("io", "stop", None, "idle")
         /\ th'["io"].at = "stop"
  BY <1>0, GoFacts DEF HandleCancel, StopThen, Spots
<1>3. th' \in [Threads -> Places] /\ \A u \in Threads : u # "io" => th'[u] = th[u]
  BY <1>0, <1>2, GoFacts DEF Spots
<1>4. UNCHANGED <<fired, prevAlive, clientVars, cb, mgrVars, histVars>> /\ LinkTypes'
  BY DEF HandleCancel, Receive, IInv, TypeOK, LinkTypes
<1>5. TypeOK'
  BY <1>1, <1>3, <1>4 DEF IInv, TypeOK, NodeTypes, CommandTypes,
     clientVars, mgrVars, histVars
<1>6. JobCoherent'  BY <1>1, <1>4 DEF IInv, JobCoherent, InFlight, clientVars
<1>7. LifeInv'  BY <1>4 DEF IInv, LifeInv, clientVars, mgrVars
<1>8. ThreadInv'
  BY <1>0, <1>2, <1>3, <1>4 DEF IInv, ThreadInv, At, NewCommand, Threads, clientVars, mgrVars
<1>9. CancelNotLost'
  BY <1>0, <1>1, <1>2, <1>3, <1>4 DEF IInv, CancelNotLost, At, mgrVars
<1> QED  BY <1>5, <1>6, <1>7, <1>8, <1>9 DEF IInv

(* A refused command leaves its ack; an accepted one becomes the job, which is  *)
(* the only one because there was none.                                         *)
LEMMA ClaimIInv ==
  ASSUME IInv, NEW i \in Jobs, NEW kind \in Kinds, Claim(i, kind)
  PROVE  IInv'
<1>0. /\ job \in JobSlots /\ th \in [Threads -> Places] /\ "io" \in Threads
      /\ th["io"].at = "idle" /\ job.goal \in Jobs \cup {None}
      /\ conn \in Conns \cup {None} /\ fired \in BOOLEAN
      /\ ack[i] = "none" /\ cb[i] = "none" /\ mgr[i] = "none" /\ cmd[i].kind = "none"
  BY SlotFacts DEF IInv, TypeOK, NodeTypes, LinkTypes, LifeInv, Claim, Receive, At, Threads,
     JobSlots
<1>1. /\ cmd' \in [Jobs -> [kind : Kinds \cup {"none"}, from : Conns \cup {None}]]
      /\ cmd'[i].kind = kind /\ cmd'[i].from = conn
      /\ \A j \in Jobs : j # i => cmd'[j] = cmd[j]
  BY <1>0 DEF IInv, TypeOK, CommandTypes, Claim
<1>2. UNCHANGED <<prevAlive, fired, result, cb, mgrVars>> /\ LinkTypes'
  BY DEF Claim, Receive, IInv, TypeOK, LinkTypes
<1>3. kind # "none"  BY DEF Kinds
<1>4. CASE job.active
  <2>1. /\ ack' = [ack EXCEPT ![i] = "busy"]
        /\ UNCHANGED <<job, th, histVars>>
    BY <1>4 DEF Claim
  <2>2. /\ ack' \in [Jobs -> {"none", "ok", "busy"}] /\ ack'[i] = "busy"
        /\ \A j \in Jobs : j # i => ack'[j] = ack[j]
    BY <2>1 DEF IInv, TypeOK, CommandTypes
  <2>3. TypeOK'
    BY <1>1, <1>2, <2>1, <2>2 DEF IInv, TypeOK, NodeTypes, CommandTypes, mgrVars, histVars
  <2>4. \A j \in Jobs : InFlight(j)' <=> InFlight(j)
    BY <1>0, <1>1, <1>2, <2>2 DEF InFlight
  <2>5. JobCoherent'
    <3>1. job.id \in Jobs /\ job.id # i
      BY <1>0, <1>4 DEF IInv, JobCoherent, InFlight
    <3> QED  BY <1>1, <2>1, <2>4, <3>1 DEF IInv, JobCoherent
  <2>6. LifeInv'  BY <1>0, <1>1, <1>2, <1>3, <2>2 DEF IInv, LifeInv, mgrVars
  <2>7. ThreadInv'
    BY <1>0, <2>1 DEF IInv, ThreadInv, At, Threads
  <2>8. CancelNotLost'  BY <1>2, <2>1 DEF IInv, CancelNotLost, At, mgrVars
  <2> QED  BY <2>3, <2>5, <2>6, <2>7, <2>8 DEF IInv
<1>5. CASE ~job.active
  <2>1. /\ job' = [active |-> TRUE, id |-> i, kind |-> kind, client |-> conn,
                   cancel |-> FALSE, goal |-> job.goal]
        /\ Go("io", "send", i, "idle")
        /\ stopped' = "none" /\ armed' = ~fired /\ ack' = ack
    BY <1>5 DEF Claim
  <2>2. /\ th' \in [Threads -> Places] /\ th'["io"].at = "send" /\ th'["io"].arg = i
        /\ \A u \in Threads : u # "io" => th'[u] = th[u]
    BY <1>0, <2>1, GoFacts DEF Spots
  <2>3. job' \in JobSlots  BY <1>0, <2>1, SlotConstants
  <2>4. job.goal = None  BY <1>5 DEF IInv, JobCoherent
  <2>5. TypeOK'
    BY <1>0, <1>1, <1>2, <2>1, <2>2, <2>3 DEF IInv, TypeOK, NodeTypes, StopTries, CommandTypes, mgrVars
  <2>6. InFlight(i)' /\ \A j \in Jobs : j # i => ~InFlight(j)'
    BY <1>0, <1>1, <1>2, <1>3, <1>5, <2>1 DEF IInv, JobCoherent, InFlight
  <2>7. JobCoherent'  BY <1>1, <2>1, <2>4, <2>6 DEF JobCoherent
  <2>8. LifeInv'  BY <1>0, <1>1, <1>2, <1>3, <2>1 DEF IInv, LifeInv, mgrVars
  <2>9. ThreadInv'
    BY <1>0, <1>1, <1>2, <1>3, <2>1, <2>2
       DEF IInv, ThreadInv, NewCommand, At, Threads, mgrVars
  <2>10. CancelNotLost'  BY <2>1 DEF CancelNotLost
  <2> QED  BY <2>5, <2>7, <2>8, <2>9, <2>10 DEF IInv
<1> QED  BY <1>4, <1>5

(* The ack and the request of a claimed job keep the invariant.                 *)
LEMMA SendIInv ==
  ASSUME IInv, Send
  PROVE  IInv'
<1> DEFINE i == th["io"].arg
<1>0. /\ th \in [Threads -> Places] /\ "io" \in Threads
      /\ th["io"].at = "send" /\ NewCommand(i)
  BY DEF IInv, TypeOK, NodeTypes, ThreadInv, Send, At, Threads
<1>1. /\ th' \in [Threads -> Places] /\ th'["io"].at = "idle"
      /\ \A u \in Threads : u # "io" => th'[u] = th[u]
  BY <1>0, GoFacts DEF Send, Rest, Spots
<1>2. UNCHANGED <<job, fired, prevAlive, linkVars, cmd, result, cancelled, histVars>>
  BY DEF Send
<1>3. /\ ack' = [ack EXCEPT ![i] = "ok"] /\ cb' = [cb EXCEPT ![i] = "waiting"]
      /\ mgr' = [mgr EXCEPT ![i] = "sent"]
  BY DEF Send
<1>4. TypeOK'
  BY <1>1, <1>2, <1>3 DEF IInv, TypeOK, NodeTypes, LinkTypes, CommandTypes, linkVars, histVars
<1>5. \A j \in Jobs : InFlight(j)' <=> InFlight(j)
  BY <1>0, <1>2, <1>3 DEF InFlight, NewCommand, IInv, TypeOK, CommandTypes
<1>6. JobCoherent'  BY <1>2, <1>5 DEF IInv, JobCoherent
<1>7. LifeInv'
  BY <1>0, <1>2, <1>3 DEF IInv, LifeInv, NewCommand, TypeOK, CommandTypes
<1>8. ThreadInv'  BY <1>0, <1>1 DEF IInv, ThreadInv, At, Threads
<1>9. CancelNotLost'  BY <1>0, <1>1, <1>2 DEF IInv, CancelNotLost, At
<1> QED  BY <1>4, <1>6, <1>7, <1>8, <1>9 DEF IInv

(* goal_response_callback keeps the invariant: it looks at cancel_requested_.   *)
LEMMA GoalResponseIInv ==
  ASSUME IInv, NEW i \in Jobs, GoalResponse(i)
  PROVE  IInv'
<1>0. /\ cb[i] = "waiting" /\ cmd[i].kind = "inspect" /\ mgr[i] \notin {"none", "sent"}
      /\ job \in JobSlots /\ job.active /\ job.id = i /\ job.kind = "inspect"
  BY DEF GoalResponse, IInv, TypeOK, NodeTypes, CommandTypes, JobCoherent, InFlight, LifeInv
<1>1. UNCHANGED <<fired, prevAlive, th, linkVars, cmd, ack, mgr, histVars>>
  BY DEF GoalResponse
<1>2. /\ cb' \in [Jobs -> {"none", "waiting", "responded", "reported", "done"}]
      /\ cb'[i] \in {"responded", "reported"}
      /\ mgr[i] = "running" => cb'[i] = "responded"
      /\ \A j \in Jobs : j # i => cb'[j] = cb[j]
      /\ result' \in [Jobs -> {"none", "REJECTED", "outcome"}]
  BY DEF GoalResponse, Report, IInv, TypeOK, CommandTypes
<1>3. \A j \in Jobs : InFlight(j)' <=> InFlight(j)
  BY <1>0, <1>1, <1>2 DEF InFlight
<1>4. LifeInv'  BY <1>0, <1>1, <1>2 DEF IInv, LifeInv
<1>5. ThreadInv'
  BY <1>0, <1>1, <1>2 DEF IInv, ThreadInv, NewCommand, At
<1>6. CASE mgr[i] = "rejected"
  <2>1. UNCHANGED <<job, cancelled>>  BY <1>6 DEF GoalResponse
  <2>2. TypeOK'
    BY <1>1, <1>2, <2>1 DEF IInv, TypeOK, NodeTypes, LinkTypes, CommandTypes, linkVars, histVars
  <2>3. JobCoherent'  BY <1>1, <1>3, <2>1 DEF IInv, JobCoherent
  <2>4. CancelNotLost'  BY <1>1, <2>1 DEF IInv, CancelNotLost, At
  <2> QED  BY <1>4, <1>5, <2>2, <2>3, <2>4 DEF IInv
<1>7. CASE mgr[i] # "rejected"
  <2>1. /\ job' = [job EXCEPT !.goal = i]
        /\ cancelled' = IF job.cancel THEN cancelled \cup {i} ELSE cancelled
    BY <1>7 DEF GoalResponse
  <2>2. /\ job' \in JobSlots /\ job'.active = job.active /\ job'.id = job.id
        /\ job'.kind = job.kind /\ job'.client = job.client /\ job'.goal = i
        /\ job'.cancel = job.cancel
    BY <1>0, <2>1 DEF JobSlots
  <2>3. TypeOK'
    BY <1>1, <1>2, <2>1, <2>2
       DEF IInv, TypeOK, NodeTypes, LinkTypes, CommandTypes, linkVars, histVars
  <2>4. JobCoherent'  BY <1>0, <1>1, <1>3, <2>2 DEF IInv, JobCoherent
  <2>5. CancelNotLost'  BY <2>1, <2>2 DEF CancelNotLost
  <2> QED  BY <1>4, <1>5, <2>3, <2>4, <2>5 DEF IInv
<1> QED  BY <1>6, <1>7

(* A result keeps the invariant: the slot is still the reported command's.      *)
LEMMA ResultArrivesIInv ==
  ASSUME IInv, NEW i \in Jobs, ResultArrives(i)
  PROVE  IInv'
<1>0. /\ cb[i] \in {"waiting", "responded"} /\ mgr[i] = "ended"
      /\ UNCHANGED <<nodeVars, linkVars, cmd, ack, mgrVars, histVars>>
  BY DEF ResultArrives
<1>1. /\ cb' \in [Jobs -> {"none", "waiting", "responded", "reported", "done"}]
      /\ cb'[i] = "reported" /\ \A j \in Jobs : j # i => cb'[j] = cb[j]
      /\ result' \in [Jobs -> {"none", "REJECTED", "outcome"}]
  BY DEF ResultArrives, Report, IInv, TypeOK, CommandTypes
<1>2. TypeOK'
  BY <1>0, <1>1 DEF IInv, TypeOK, NodeTypes, LinkTypes, CommandTypes, nodeVars, linkVars,
     mgrVars, histVars
<1>3. \A j \in Jobs : InFlight(j)' <=> InFlight(j)  BY <1>0, <1>1 DEF InFlight
<1>4. JobCoherent'  BY <1>0, <1>3 DEF IInv, JobCoherent, nodeVars
<1>5. LifeInv'  BY <1>0, <1>1 DEF IInv, LifeInv, mgrVars
<1>6. ThreadInv'  BY <1>0, <1>1 DEF IInv, ThreadInv, NewCommand, At, nodeVars, mgrVars
<1>7. CancelNotLost'  BY <1>0 DEF IInv, CancelNotLost, At, nodeVars, mgrVars
<1> QED  BY <1>2, <1>4, <1>5, <1>6, <1>7 DEF IInv

(* release_job does not ask whose job it ends: the coherence of the slot says   *)
(* that it is its own.                                                          *)
LEMMA ReleaseJobIInv ==
  ASSUME IInv, NEW i \in Jobs, ReleaseJob(i)
  PROVE  IInv'
<1>0. /\ cb[i] = "reported" /\ job' = NoJob /\ stopped' = "none" /\ armed' = FALSE
      /\ UNCHANGED <<fired, prevAlive, th, linkVars, clientVars, mgrVars>>
  BY DEF ReleaseJob
<1>1. /\ cb' \in [Jobs -> {"none", "waiting", "responded", "reported", "done"}]
      /\ cb'[i] = "done" /\ \A j \in Jobs : j # i => cb'[j] = cb[j]
  BY DEF ReleaseJob, IInv, TypeOK, CommandTypes
<1>2. job.active /\ job.id = i
  BY <1>0 DEF IInv, JobCoherent, InFlight, LifeInv
<1>3. TypeOK'
  BY <1>0, <1>1, SlotConstants DEF IInv, TypeOK, NodeTypes, StopTries, LinkTypes, CommandTypes, linkVars,
     clientVars, mgrVars
<1>4. \A j \in Jobs : ~InFlight(j)'
  BY <1>0, <1>1, <1>2 DEF IInv, JobCoherent, InFlight, clientVars
<1>5. JobCoherent'  BY <1>0, <1>4 DEF JobCoherent, NoJob
<1>6. LifeInv'  BY <1>0, <1>1 DEF IInv, LifeInv, clientVars, mgrVars
<1>7. ThreadInv'  BY <1>0, <1>1 DEF IInv, ThreadInv, NewCommand, At, clientVars, mgrVars
<1>8. CancelNotLost'  BY <1>0 DEF CancelNotLost, NoJob
<1> QED  BY <1>3, <1>5, <1>6, <1>7, <1>8 DEF IInv

(* The manager taking, refusing and ending commands keeps the invariant.        *)
LEMMA ManagerIInv ==
  ASSUME IInv, NEW i \in Jobs, ManagerAnswers(i) \/ ManagerEnds(i)
  PROVE  IInv'
<1>0. /\ UNCHANGED <<nodeVars, linkVars, clientVars, cb, cancelled, histVars>>
      /\ mgr[i] \in {"sent", "running"}
  BY DEF ManagerAnswers, ManagerEnds
<1>1. /\ mgr' \in [Jobs -> {"none", "sent", "rejected", "running", "ended"}]
      /\ mgr'[i] \in {"rejected", "running", "ended"}
      /\ \A j \in Jobs : j # i => mgr'[j] = mgr[j]
  BY DEF ManagerAnswers, ManagerEnds, IInv, TypeOK, CommandTypes
<1>2. TypeOK'
  BY <1>0, <1>1 DEF IInv, TypeOK, NodeTypes, LinkTypes, CommandTypes, nodeVars, linkVars,
     clientVars, histVars
<1>3. JobCoherent'  BY <1>0 DEF IInv, JobCoherent, InFlight, nodeVars, clientVars
<1>4. LifeInv'  BY <1>0, <1>1 DEF IInv, LifeInv, clientVars
<1>5. ThreadInv'
  BY <1>0, <1>1 DEF IInv, ThreadInv, NewCommand, At, nodeVars, clientVars
<1>6. CancelNotLost'  BY <1>0 DEF IInv, CancelNotLost, At, nodeVars
<1> QED  BY <1>2, <1>3, <1>4, <1>5, <1>6 DEF IInv

(* Every step preserves the invariant.                                          *)
LEMMA NextIInv == IInv /\ [Next]_vars => IInv'
<1> SUFFICES ASSUME IInv, [Next]_vars PROVE IInv'  OBVIOUS
<1>1. ASSUME NEW i \in Jobs, NEW kind \in Kinds, Claim(i, kind) PROVE IInv'
  BY <1>1, ClaimIInv
<1>2. ASSUME NEW i \in Jobs, Callback(i) PROVE IInv'
  BY <1>2, GoalResponseIInv, ResultArrivesIInv, ReleaseJobIInv DEF Callback
<1>3. ASSUME NEW i \in Jobs, ManagerAnswers(i) \/ ManagerEnds(i) PROVE IInv'
  BY <1>3, ManagerIInv
<1>4. ASSUME NEW t \in Threads, Stopping(t) PROVE IInv'
  BY <1>4, MovesIInv, StopGoalIInv, CancelGoalIInv DEF Stopping
<1>5. ASSUME NEW t \in Threads, AbortJob(t) PROVE IInv'  BY <1>5, MovesIInv
<1>6. {"io", "watchdog", "safety"} = Threads  BY DEF Threads
<1>7. CASE HandleStop \/ Disconnect \/ SafetyEdge  BY <1>6, <1>7, MovesIInv
<1>8. CASE HandleCancel  BY <1>8, HandleCancelIInv
<1>9. CASE HandlePing \/ Connect \/ ClientSilent \/ DriverChanges  BY <1>9, ElsewhereIInv
<1>10. CASE IoStep  BY <1>4, <1>6, <1>10, MovesIInv, SendIInv DEF IoStep
<1>11. CASE WatchdogStep  BY <1>4, <1>5, <1>6, <1>11, MovesIInv DEF WatchdogStep
<1>12. CASE SafetyStep  BY <1>4, <1>5, <1>6, <1>12 DEF SafetyStep
<1>13. CASE UNCHANGED vars
  BY <1>13, Elsewhere DEF vars, nodeVars, linkVars, histVars, IInv, TypeOK, NodeTypes, LinkTypes
<1> QED
  BY <1>1, <1>2, <1>3, <1>7, <1>8, <1>9, <1>10, <1>11, <1>12, <1>13 DEF Next

(* In every reachable state of the bridge, for any number of commands,          *)
(* connections and alarms, the inductive invariant holds.                       *)
THEOREM Invariance == Spec => []IInv
BY InitIInv, NextIInv, PTL DEF Spec

(* TypeOK: the slot, the threads of the node and the records of the commands     *)
(* keep their types.                                                            *)
THEOREM TypeCorrect == Spec => []TypeOK
<1>1. IInv => TypeOK  BY DEF IInv
<1> QED  BY <1>1, Invariance, PTL

(* The slot is taken exactly while one command is in flight and describes it,   *)
(* so release_job, which asks nobody, never frees the slot of another command.  *)
THEOREM SlotCoherent == Spec => []JobCoherent
<1>1. IInv => JobCoherent  BY DEF IInv
<1> QED  BY <1>1, Invariance, PTL

(* A cancel or a stop that came before the goal was accepted still cancels it.  *)
THEOREM CancelsReachTheGoal == Spec => []CancelNotLost
<1>1. IInv => CancelNotLost  BY DEF IInv
<1> QED  BY <1>1, Invariance, PTL

(* The manager never works on two commands of the bridge.                       *)
THEOREM ManagerGetsOne == Spec => []OneAtManager
<1>1. ASSUME IInv PROVE OneAtManager
  <2> DEFINE S == {i \in Jobs : mgr[i] \in {"sent", "running"}}
  <2>1. \A i \in S : InFlight(i)  BY <1>1 DEF IInv, LifeInv, InFlight
  <2>2. \A i \in S : i = job.id  BY <1>1, <2>1 DEF IInv, JobCoherent
  <2>3. S = {} \/ S = {job.id}  BY <2>2
  <2>4. Cardinality(S) = 0 \/ Cardinality(S) = 1
    BY <2>3, FS_EmptySet, FS_Singleton
  <2> QED  BY <2>4 DEF OneAtManager
<1> QED  BY <1>1, Invariance, PTL

===============================================================================
