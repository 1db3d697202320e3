------------------------------- MODULE MotionSlot -------------------------------
(* What motion_busy_ promises (inspection_manager.cpp:399): one slot that all   *)
(* commands for the robot share.  A thread takes the free slot, commands one    *)
(* motion at a time while it holds it, and gives it back between motions.       *)
CONSTANTS Threads, Nobody

VARIABLES holder, commanding

vars == <<holder, commanding>>

TypeOK == holder \in Threads \cup {Nobody} /\ commanding \in BOOLEAN

Init == holder = Nobody /\ commanding = FALSE

Take(t)  == holder = Nobody /\ holder' = t /\ UNCHANGED commanding
Command  == holder # Nobody /\ ~commanding /\ commanding' = TRUE /\ UNCHANGED holder
Settle   == commanding /\ commanding' = FALSE /\ UNCHANGED holder
GiveBack == holder # Nobody /\ ~commanding /\ holder' = Nobody /\ UNCHANGED commanding

Next == (\E t \in Threads : Take(t)) \/ Command \/ Settle \/ GiveBack

Spec == Init /\ [][Next]_vars
===============================================================================
