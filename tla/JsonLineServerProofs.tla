------------------------- MODULE JsonLineServerProofs -------------------------
(* Theorems about JsonLineServer for every stream, chunk size and number of     *)
(* peers.                                                                       *)
EXTENDS JsonLineServer, WellFoundedInduction, TLAPS

(* The assumptions, as the provers want them.                                   *)
LEMMA Bounds ==
  /\ MaxBytes \in Nat /\ MaxMsgs \in Nat /\ PipeSize \in Nat \ {0} /\ Room \in Nat \ {0}
  /\ MaxPeers \in Nat /\ MaxClients \in Nat /\ Chunk \in Nat \ {0}
  /\ \A p \in Breaks : p \in Nat /\ 1 <= p /\ p <= MaxBytes
<1>1. \A p \in Breaks : p \in 1..MaxBytes
  BY StreamAssumption DEF StreamAssumption
<1> QED
  BY <1>1, PeersAssumption, StreamAssumption, BuffersAssumption
  DEF PeersAssumption, StreamAssumption, BuffersAssumption

USE Bounds

-------------------------------------------------------------------------------
(* Least and Most are what their names say: the library proves that < is well   *)
(* founded on Nat.                                                              *)

Before == {pair \in Nat \X Nat : pair[1] < pair[2]}

LEMMA BeforeWellFounded == IsWellFoundedOn(Before, Nat)
<1>1. OpToRel(<, Nat) = Before
  BY DEF OpToRel, Before
<1> QED
  BY <1>1, NatLessThanWellFounded

LEMMA LeastExists ==
  ASSUME NEW S \in SUBSET Nat, S # {}
  PROVE  \E x \in S : \A y \in S : x <= y
<1>1. PICK x \in S : \A y \in S : <<y, x>> \notin Before
  BY BeforeWellFounded, WFMin
<1>2. ASSUME NEW y \in S, y < x PROVE FALSE
  <2>1. <<y, x>> \in Nat \X Nat /\ <<y, x>>[1] < <<y, x>>[2]
    BY <1>2
  <2>2. <<y, x>> \in Before
    BY <2>1, Zenon DEF Before
  <2> QED
    BY <1>1, <2>2
<1>3. \A y \in S : x <= y
  BY <1>2
<1> QED
  BY <1>3

LEMMA LeastFacts ==
  ASSUME NEW S \in SUBSET Peers, S # {}
  PROVE  Least(S) \in S
<1>1. \E x \in S : \A y \in S : x <= y
  BY LeastExists DEF Peers
<1> QED
  BY <1>1 DEF Least

LEMMA MostFacts ==
  ASSUME NEW S \in SUBSET Positions, S # {}
  PROVE  Most(S) \in S /\ \A y \in S : y <= Most(S)
<1> DEFINE T == {MaxBytes - y : y \in S}
<1>0. \A y \in S : y \in Nat /\ y <= MaxBytes
  BY DEF Positions
<1>1. T \in SUBSET Nat /\ T # {}
  BY <1>0
<1>2. PICK t \in T : \A u \in T : t <= u
  BY <1>1, LeastExists
<1>3. PICK x \in S : t = MaxBytes - x
  BY <1>2
<1>4. \A y \in S : x >= y
  <2> SUFFICES ASSUME NEW y \in S PROVE x >= y
    OBVIOUS
  <2>1. MaxBytes - y \in T
    OBVIOUS
  <2> QED
    BY <1>0, <1>2, <1>3, <2>1
<1>5. Most(S) \in S /\ \A y \in S : Most(S) >= y
  BY <1>4 DEF Most
<1> QED
  BY <1>0, <1>5

-------------------------------------------------------------------------------
(* Lines.                                                                       *)

(* The start of the line that ends at p.                                        *)
Start(p) == Most({0} \cup Cuts(0, p - 1)) + 1

LEMMA StartFacts ==
  ASSUME NEW p \in Breaks
  PROVE  Start(p) \in Positions /\ Start(p) <= p
<1>1. {0} \cup Cuts(0, p - 1) \in SUBSET Positions
  BY DEF Cuts, Positions
<1>2. Most({0} \cup Cuts(0, p - 1)) \in {0} \cup Cuts(0, p - 1)
  BY <1>1, MostFacts
<1> QED
  BY <1>2 DEF Start, Cuts, Positions

(* From wherever rx begins, a line starts behind the newline before it.         *)
LEMMA StartFrom ==
  ASSUME NEW from \in {0} \cup Breaks, NEW p \in Breaks, from < p
  PROVE  Most({from} \cup Cuts(from, p - 1)) + 1 = Start(p)
<1> DEFINE A == {from} \cup Cuts(from, p - 1)
           B == {0} \cup Cuts(0, p - 1)
<1>1. A \in SUBSET Positions /\ B \in SUBSET Positions /\ A # {} /\ B # {}
  BY DEF Cuts, Positions
<1>2. /\ Most(A) \in A /\ \A y \in A : y <= Most(A)
      /\ Most(B) \in B /\ \A y \in B : y <= Most(B)
  BY <1>1, MostFacts
<1>3. A \subseteq B /\ from \in A /\ \A y \in B : y >= from => y \in A
  BY DEF Cuts
<1>4. Most(A) \in Int /\ Most(B) \in Int /\ from \in Int
  BY <1>1, <1>2 DEF Positions
<1>5. Most(A) <= Most(B) /\ from <= Most(B)
  BY <1>2, <1>3
<1>6. Most(B) <= Most(A)
  BY <1>2, <1>3, <1>5
<1> QED
  BY <1>4, <1>5, <1>6 DEF Start

LEMMA LinesOfFacts ==
  ASSUME NEW from \in {0} \cup Breaks, NEW end \in Positions
  PROVE  LinesOf(from, end) = {<<Start(p), p>> : p \in Cuts(from, end)}
<1>1. \A p \in Cuts(from, end) : Most({from} \cup Cuts(from, p - 1)) + 1 = Start(p)
  BY StartFrom DEF Cuts
<1> QED
  BY <1>1 DEF LinesOf

(* A line is known by its newline.                                              *)
LEMMA AllLinesFacts ==
  /\ \A l \in AllLines : /\ l \in Positions \X Positions /\ l[2] \in Breaks
                         /\ l = <<Start(l[2]), l[2]>> /\ NotEmpty(l)
  /\ \A p \in Breaks : NotEmpty(<<Start(p), p>>) => <<Start(p), p>> \in AllLines
<1>1. LinesOf(0, MaxBytes) = {<<Start(p), p>> : p \in Cuts(0, MaxBytes)}
  BY LinesOfFacts DEF Positions
<1>2. Cuts(0, MaxBytes) = Breaks
  BY DEF Cuts
<1>3. \A p \in Breaks : Start(p) \in Positions /\ p \in Positions
  BY StartFacts DEF Positions
<1>4. AllLines = {l \in {<<Start(p), p>> : p \in Breaks} : NotEmpty(l)}
  BY <1>1, <1>2 DEF AllLines
<1> QED
  BY <1>3, <1>4

(* What a chunk yields: the lines that end in it.                               *)
LEMMA ChunkLines ==
  ASSUME NEW from \in {0} \cup Breaks, NEW end \in Positions
  PROVE  {l \in LinesOf(from, end) : NotEmpty(l)} =
         {l \in AllLines : from < l[2] /\ l[2] <= end}
<1>1. LinesOf(from, end) = {<<Start(p), p>> : p \in Cuts(from, end)}
  BY LinesOfFacts
<1>2. ASSUME NEW l \in LinesOf(from, end), NotEmpty(l)
      PROVE  l \in AllLines /\ from < l[2] /\ l[2] <= end
  BY <1>1, <1>2, AllLinesFacts DEF Cuts
<1>3. ASSUME NEW l \in AllLines, from < l[2], l[2] <= end
      PROVE  l \in LinesOf(from, end) /\ NotEmpty(l)
  BY <1>1, <1>3, AllLinesFacts DEF Cuts
<1> QED
  BY <1>2, <1>3

-------------------------------------------------------------------------------
(* The inductive invariant.                                                     *)

Serving == at \in {"recv", "deliver", "drop"}

(* Whom the IO thread polls and serves is a client, and stays one: only it      *)
(* drops clients.                                                               *)
ServeInv ==
  /\ at = "poll" => polled.all \subseteq Connected /\ polled.out \subseteq Connected
  /\ at = "accept" => /\ got.out \subseteq Connected /\ got.in \subseteq Connected
                      /\ got.err \subseteq Connected
  /\ Serving \/ at = "clients" => todo \subseteq Connected
  /\ Serving => todo # {}

(* rx holds no newline and begins behind one; and the lines cut off have been   *)
(* handed over, but for those of the chunk that is being worked on.             *)
Held(c) == at \in {"deliver", "drop"} /\ c = Current
StreamInv ==
  \A c \in Peers :
    /\ recvd[c] <= wrote[c] /\ framed[c] <= recvd[c]
    /\ framed[c] \in {0} \cup Breaks
    /\ \A p \in Breaks : p <= recvd[c] => p <= framed[c]
    /\ phase[c] \in {"away", "backlog"} => handed[c] = <<0, 0>> /\ framed[c] = 0
    /\ phase[c] = "connected" =>
         /\ handed[c][2] <= framed[c]
         /\ ~Held(c) => \A l \in AllLines : l[2] <= framed[c] => l[2] <= handed[c][2]

LinesInv ==
  /\ at # "deliver" => lines = {}
  /\ at = "deliver" =>
       /\ lines \subseteq AllLines
       /\ \A l \in lines : handed[Current][2] < l[2] /\ l[2] <= framed[Current]
       /\ \A l \in AllLines :
            l[2] <= framed[Current] => l[2] <= handed[Current][2] \/ l \in lines

(* Every queued message and stop() owe one wake-up at most.                     *)
WakeInv ==
  /\ waking <= msgs + 1 /\ (running => waking <= msgs)
  /\ NoLostWakeup

IInv == TypeOK /\ ServeInv /\ StreamInv /\ LinesInv /\ WakeInv

LEMMA InitIInv == Init => IInv
<1> SUFFICES ASSUME Init PROVE IInv
  OBVIOUS
<1>1. TypeOK
  BY DEF Init, TypeOK, NoPoll, Nobody, Positions
<1>2. ServeInv
  BY DEF Init, ServeInv, Serving
<1>3. StreamInv
  BY AllLinesFacts DEF Init, StreamInv
<1>4. LinesInv /\ WakeInv
  BY DEF Init, LinesInv, WakeInv, NoLostWakeup
<1> QED
  BY <1>1, <1>2, <1>3, <1>4 DEF IInv

LEMMA CurrentFacts ==
  ASSUME TypeOK, todo # {}
  PROVE  Current \in todo /\ Current \in Peers
BY LeastFacts DEF Current, TypeOK

(* Steps of the IO thread that touch neither clients nor the pipe.              *)
Moves == \/ Snapshot \/ PollReturns \/ PollFails \/ ServeError \/ Served \/ AllServed
         \/ RecvEnds \/ Delivered

LEMMA MovesIInv == IInv /\ Moves => IInv'
<1> SUFFICES ASSUME IInv, Moves PROVE IInv'
  OBVIOUS
<1> USE DEF IInv, clientVars, nodeVars, peerVars
<1>0. UNCHANGED <<clientVars, nodeVars, peerVars, pipe, lines>> /\ todo' \subseteq todo
  BY DEF Moves, Snapshot, PollReturns, PollFails, ServeError, Served, AllServed, RecvEnds,
         Delivered, NextClient
<1>1. TypeOK'
  <2>1. /\ Connected \in SUBSET Peers
        /\ {c \in Connected : tx[c] > 0} \in SUBSET Peers
    BY DEF Connected
  <2>2. polled' \in [all : SUBSET Peers, out : SUBSET Peers]
    BY <1>0, <2>1 DEF TypeOK, Moves, Snapshot, PollReturns, PollFails, ServeError, Served,
         AllServed, RecvEnds, Delivered, NoPoll
  <2>3. Ready \in [listen : BOOLEAN, wake : BOOLEAN, out : SUBSET Peers, in : SUBSET Peers,
                   err : SUBSET Peers]
    BY DEF TypeOK, Ready
  <2>4. got' \in [listen : BOOLEAN, wake : BOOLEAN, out : SUBSET Peers, in : SUBSET Peers,
                  err : SUBSET Peers]
    <3>1. got' \in {got, Ready, Nobody}
      BY DEF Moves, Snapshot, PollReturns, PollFails, ServeError, Served, AllServed, RecvEnds,
           Delivered
    <3>2. Nobody \in [listen : BOOLEAN, wake : BOOLEAN, out : SUBSET Peers, in : SUBSET Peers,
                      err : SUBSET Peers]
      BY DEF Nobody
    <3> QED
      BY <2>3, <3>1, <3>2 DEF TypeOK
  <2>5. at' \in {"top", "poll", "accept", "clients", "recv", "deliver", "drop", "ended"}
    BY DEF TypeOK, Moves, Snapshot, PollReturns, PollFails, ServeError, Served, AllServed,
         RecvEnds, Delivered, NextClient
  <2> QED
    BY <1>0, <2>2, <2>4, <2>5 DEF TypeOK
<1>2. ServeInv'
  <2>1. Connected' = Connected
    BY <1>0 DEF Connected
  <2> QED
    BY <1>0, <2>1 DEF ServeInv, Serving, Moves, Snapshot, PollReturns, PollFails, ServeError,
         Served, AllServed, RecvEnds, Delivered, NextClient, NoPoll, Nobody, Ready
<1>3. LinesInv'
  <2>1. at' # "deliver" /\ (at = "deliver" => lines = {})
    BY DEF Moves, Snapshot, PollReturns, PollFails, ServeError, Served, AllServed, RecvEnds,
         Delivered, NextClient
  <2> QED
    BY <1>0, <2>1 DEF LinesInv
<1>4. StreamInv'
  <2>1. ASSUME NEW c \in Peers, phase[c] = "connected", ~Held(c)'
        PROVE  \A l \in AllLines : l[2] <= framed[c] => l[2] <= handed[c][2]
    <3>1. CASE Held(c)
      <4>1. Delivered
        BY <2>1, <3>1 DEF Held, Current, Moves, Snapshot, PollReturns, PollFails, ServeError,
               Served, AllServed, RecvEnds, Delivered
      <4> QED
        BY <3>1, <4>1 DEF Delivered, LinesInv, Held
    <3>2. CASE ~Held(c)
      BY <2>1, <3>2 DEF StreamInv
    <3> QED
      BY <3>1, <3>2
  <2> QED
    BY <1>0, <2>1 DEF StreamInv
<1>5. WakeInv'
  BY <1>0 DEF WakeInv, NoLostWakeup, Connected, Moves, Snapshot, PollReturns, PollFails,
         ServeError, Served, AllServed, RecvEnds, Delivered, NextClient, TypeOK
<1> QED
  BY <1>1, <1>2, <1>3, <1>4, <1>5

(* The remaining steps of the IO thread.                                        *)
LEMMA AcceptIInv == IInv /\ Accept => IInv'
<1> SUFFICES ASSUME IInv, Accept PROVE IInv'
  OBVIOUS
<1> USE DEF IInv, ioVars, nodeVars, peerVars
<1>1. PICK c \in Peers :
        /\ phase[c] = "backlog"
        /\ \/ phase' = [phase EXCEPT ![c] = "refused"] /\ UNCHANGED <<tx, pipe>>
           \/ phase' = [phase EXCEPT ![c] = "connected"] /\ tx' = [tx EXCEPT ![c] = 1] /\ Woken
  <2>1. Backlog # {} => Least(Backlog) \in Backlog
    BY LeastFacts DEF Backlog
  <2> QED
    BY <2>1 DEF Accept, Backlog
<1>2. at = "accept" /\ UNCHANGED <<ioVars, handed, recvd, framed, nodeVars, peerVars>>
  BY DEF Accept
<1>3. TypeOK'
  BY <1>1, <1>2 DEF TypeOK, Woken, Lesser
<1>4. Connected \subseteq Connected'
  BY <1>1, <1>3 DEF Connected, TypeOK
<1>5. ServeInv' /\ LinesInv' /\ WakeInv'
  BY <1>2, <1>4 DEF ServeInv, Serving, LinesInv, WakeInv, NoLostWakeup
<1>6. StreamInv'
  <2>1. handed[c] = <<0, 0>> /\ framed[c] = 0
    BY <1>1 DEF StreamInv
  <2>2. \A l \in AllLines : ~(l[2] <= 0)
    BY AllLinesFacts
  <2>3. Held(c)' = Held(c)
    BY <1>2 DEF Held, Current
  <2>4. \A d \in Peers : /\ d # c => phase'[d] = phase[d]
                         /\ phase'[d] \in {"away", "backlog"} => phase'[d] = phase[d]
    BY <1>1 DEF TypeOK
  <2>5. ASSUME NEW d \in Peers
        PROVE  Held(d)' = Held(d)
    BY <1>2 DEF Held, Current
  <2> QED
    BY <1>2, <2>1, <2>2, <2>4, <2>5 DEF StreamInv
<1> QED
  BY <1>3, <1>5, <1>6

LEMMA DrainIInv == IInv /\ Drain => IInv'
<1> SUFFICES ASSUME IInv, Drain PROVE IInv'
  OBVIOUS
<1> USE DEF IInv, clientVars, nodeVars, peerVars, Drain
<1>1. TypeOK'
  BY DEF TypeOK
<1>2. ServeInv' /\ LinesInv' /\ WakeInv'
  BY DEF ServeInv, Serving, LinesInv, WakeInv, NoLostWakeup, Connected
<1>3. StreamInv'
  BY DEF StreamInv, Held
<1> QED
  BY <1>1, <1>2, <1>3

LEMMA FlushIInv == IInv /\ Flush => IInv'
<1> SUFFICES ASSUME IInv, Flush PROVE IInv'
  OBVIOUS
<1> USE DEF IInv, clientVars, nodeVars, peerVars
<1>1. /\ UNCHANGED <<polled, todo, lines, phase, handed, recvd, framed, nodeVars, wrote, peer, pipe>>
      /\ at = "clients" /\ at' \in {"clients", "drop"} /\ todo # {}
      /\ got' = [got EXCEPT !.out = @ \ {Current}]
  BY DEF Flush
<1>2. TypeOK'
  <2>1. tx' \in [Peers -> Nat] /\ room' \in [Peers -> 0..Room]
    <3> DEFINE n == Lesser(tx[Current], room[Current])
    <3>1. Current \in Peers
      BY <1>1, CurrentFacts
    <3>2. tx[Current] \in Nat /\ room[Current] \in 0..Room
      BY <3>1 DEF TypeOK
    <3>3. n \in Nat /\ n <= tx[Current] /\ n <= room[Current]
      BY <3>2 DEF Lesser
    <3>4. \/ UNCHANGED <<tx, room>>
          \/ /\ tx' = [tx EXCEPT ![Current] = tx[Current] - n]
             /\ room' = [room EXCEPT ![Current] = room[Current] - n]
      BY DEF Flush
    <3> HIDE DEF n
    <3>5. tx[Current] - n \in Nat /\ room[Current] - n \in 0..Room
      BY <3>2, <3>3
    <3> QED
      BY <3>4, <3>5 DEF TypeOK
  <2> QED
    BY <1>1, <2>1 DEF TypeOK
<1>3. ServeInv' /\ LinesInv' /\ WakeInv'
  BY <1>1 DEF ServeInv, Serving, LinesInv, WakeInv, NoLostWakeup, Connected
<1>4. StreamInv'
  BY <1>1 DEF StreamInv, Held
<1> QED
  BY <1>2, <1>3, <1>4

LEMMA RecvIInv == IInv /\ Recv => IInv'
<1> SUFFICES ASSUME IInv, Recv PROVE IInv'
  OBVIOUS
<1> USE DEF IInv, nodeVars, peerVars
<1> DEFINE c == Current
           end == RecvUpTo
           cuts == {framed[c]} \cup Cuts(framed[c], end)
           last == Most(cuts)
<1>1. /\ at = "recv" /\ c \in Peers /\ phase[c] = "connected" /\ lines = {}
  BY CurrentFacts DEF Recv, ServeInv, Serving, Connected, LinesInv
<1>2. /\ recvd[c] \in Positions /\ framed[c] \in Positions /\ wrote[c] \in Positions
      /\ framed[c] <= recvd[c] /\ framed[c] \in {0} \cup Breaks
      /\ \A p \in Breaks : p <= recvd[c] => p <= framed[c]
      /\ handed[c] \in Positions \X Positions /\ handed[c][2] <= framed[c]
  BY <1>1 DEF TypeOK, StreamInv
<1>3. end \in Positions /\ recvd[c] < end /\ end <= wrote[c]
  BY <1>2 DEF Recv, Unread, RecvUpTo, Lesser, Positions
<1> HIDE DEF end
<1>4. /\ last \in Positions /\ framed[c] <= last /\ last <= end
      /\ last \in {0} \cup Breaks
      /\ \A p \in Breaks : p <= end => p <= last
  <2>1. cuts \in SUBSET Positions /\ cuts # {}
    BY <1>2 DEF Cuts, Positions
  <2>2. last \in cuts /\ \A y \in cuts : y <= last
    BY <2>1, MostFacts
  <2>3. \A p \in Breaks : p <= end => p \in cuts \/ p <= framed[c]
    BY <1>2 DEF Cuts, Positions
  <2>4. last \in Positions /\ framed[c] <= last
    BY <2>1, <2>2
  <2>5. last <= end /\ last \in {0} \cup Breaks
    BY <1>2, <1>3, <2>2 DEF Cuts, Positions
  <2> QED
    BY <1>2, <2>2, <2>3, <2>4, <2>5 DEF Positions
<1>5. /\ recvd' = [recvd EXCEPT ![c] = end] /\ framed' = [framed EXCEPT ![c] = last]
      /\ UNCHANGED <<polled, got, todo, phase, tx, handed, nodeVars, peerVars, pipe>>
      /\ \/ at' = "drop" /\ lines' = {}
         \/ /\ at' = "deliver"
            /\ lines' = {l \in LinesOf(framed[c], end) : NotEmpty(l)}
  BY <1>1 DEF Recv, Cut, end
<1> HIDE DEF last
<1>6. c' = c
  BY <1>5 DEF Current
<1>7. {l \in LinesOf(framed[c], end) : NotEmpty(l)} =
      {l \in AllLines : framed[c] < l[2] /\ l[2] <= end}
  BY <1>2, <1>3, ChunkLines
<1>8. \A l \in AllLines : l \in Positions \X Positions /\ l[2] \in Breaks
  BY AllLinesFacts
<1> HIDE DEF c
<1>9. TypeOK'
  <2>1. lines' \subseteq Positions \X Positions
    BY <1>5, <1>7, <1>8
  <2>2. recvd' \in [Peers -> Positions] /\ framed' \in [Peers -> Positions]
    BY <1>1, <1>3, <1>4, <1>5 DEF TypeOK
  <2> QED
    BY <1>5, <2>1, <2>2 DEF TypeOK
<1>10. ServeInv' /\ WakeInv'
  BY <1>1, <1>5 DEF ServeInv, Serving, WakeInv, NoLostWakeup, Connected
<1>11. recvd'[c] = end /\ framed'[c] = last
  BY <1>1, <1>5 DEF TypeOK
<1>12. LinesInv'
  <2> SUFFICES ASSUME at' = "deliver"
               PROVE  /\ lines' \subseteq AllLines
                      /\ \A l \in lines' : handed[c][2] < l[2] /\ l[2] <= last
                      /\ \A l \in AllLines : l[2] <= last => l[2] <= handed[c][2] \/ l \in lines'
    BY <1>5, <1>6, <1>11 DEF LinesInv, c
  <2>1. lines' = {l \in AllLines : framed[c] < l[2] /\ l[2] <= end}
    BY <1>5, <1>7
  <2>2. \A l \in AllLines : l[2] <= end => l[2] <= last
    BY <1>4, <1>8
  <2>3. \A l \in AllLines : l[2] <= framed[c] => l[2] <= handed[c][2]
    BY <1>1 DEF StreamInv, Held, c
  <2>4. \A l \in AllLines : l[2] \in Nat
    BY <1>8
  <2> QED
    BY <1>2, <1>3, <1>4, <2>1, <2>2, <2>3, <2>4 DEF Positions
<1>13. StreamInv'
  <2>1. Held(c)'
    BY <1>5, <1>6 DEF Held, c
  <2>2. \A d \in Peers : Held(d) => Held(d)'
    BY <1>1 DEF Held
  <2>3. ASSUME NEW d \in Peers, d # c
        PROVE  recvd'[d] = recvd[d] /\ framed'[d] = framed[d]
    BY <1>5, <2>3 DEF TypeOK
  <2>4. handed[c][2] <= last
    BY <1>2, <1>4 DEF Positions
  <2>5. wrote' = wrote /\ handed' = handed /\ phase' = phase
    BY <1>5
  <2>6. phase[c] = "connected" /\ end <= wrote[c] /\ last <= end
        /\ last \in {0} \cup Breaks /\ \A p \in Breaks : p <= end => p <= last
    BY <1>1, <1>3, <1>4
  <2>7. ASSUME NEW d \in Peers, d # c
        PROVE  ~Held(d)
    BY <1>1 DEF Held
  <2> DEFINE Good(d) ==
        /\ recvd'[d] <= wrote[d] /\ framed'[d] <= recvd'[d]
        /\ framed'[d] \in {0} \cup Breaks
        /\ \A p \in Breaks : p <= recvd'[d] => p <= framed'[d]
        /\ phase[d] \in {"away", "backlog"} => handed[d] = <<0, 0>> /\ framed'[d] = 0
        /\ phase[d] = "connected" =>
             /\ handed[d][2] <= framed'[d]
             /\ ~Held(d)' => \A l \in AllLines : l[2] <= framed'[d] => l[2] <= handed[d][2]
  <2>8. Good(c)
    BY <1>11, <2>1, <2>4, <2>6
  <2>9. ASSUME NEW d \in Peers, d # c
        PROVE  Good(d)
    BY <2>3, <2>7, <2>9 DEF StreamInv
  <2>10. \A d \in Peers : Good(d)
    <3> HIDE DEF Good
    <3> QED
      BY <2>8, <2>9
  <2> QED
    BY <2>5, <2>10 DEF StreamInv
<1> QED
  BY <1>9, <1>10, <1>12, <1>13

(* What Deliver hands over is the next line of the stream.                      *)
LEMMA DeliverFacts ==
  ASSUME IInv, Deliver
  PROVE  /\ Current \in Peers /\ phase[Current] = "connected"
         /\ \E first \in AllLines \cap lines :
              /\ handed' = [handed EXCEPT ![Current] = first] /\ lines' = lines \ {first}
              /\ handed[Current][2] < first[2] /\ first[2] <= framed[Current]
              /\ \A l \in lines' : first[2] < l[2]
              /\ \A l \in AllLines : l[2] < first[2] <=> l[2] <= handed[Current][2]
<1>1. at = "deliver" /\ Current \in Peers /\ phase[Current] = "connected"
  BY CurrentFacts DEF IInv, Deliver, ServeInv, Serving, Connected
<1>2. /\ lines \subseteq AllLines
      /\ \A l \in lines : handed[Current][2] < l[2] /\ l[2] <= framed[Current]
      /\ \A l \in AllLines :
           l[2] <= framed[Current] => l[2] <= handed[Current][2] \/ l \in lines
  BY <1>1 DEF IInv, LinesInv
<1>3. PICK first \in lines :
        /\ \A other \in lines : first[2] <= other[2]
        /\ handed' = [handed EXCEPT ![Current] = first] /\ lines' = lines \ {first}
  BY DEF Deliver
<1>4. handed[Current][2] \in Nat /\ framed[Current] \in Nat
  BY <1>1 DEF IInv, TypeOK, Positions
<1>5. \A l \in AllLines : l[2] \in Nat /\ l = <<Start(l[2]), l[2]>>
  BY AllLinesFacts
<1>6. \A l \in lines' : first[2] < l[2]
  <2> SUFFICES ASSUME NEW l \in lines' PROVE first[2] < l[2]
    OBVIOUS
  <2>1. l \in lines /\ l # first /\ first[2] <= l[2]
    BY <1>3
  <2>2. l[2] # first[2]
    BY <1>2, <1>5, <2>1
  <2> QED
    BY <1>2, <1>5, <2>1, <2>2
<1>7. \A l \in AllLines : l[2] < first[2] <=> l[2] <= handed[Current][2]
  <2> SUFFICES ASSUME NEW l \in AllLines
               PROVE  l[2] < first[2] <=> l[2] <= handed[Current][2]
    OBVIOUS
  <2>1. /\ l[2] \in Nat /\ first[2] \in Nat
        /\ handed[Current][2] < first[2] /\ first[2] <= framed[Current]
    BY <1>2, <1>5
  <2>2. l[2] <= framed[Current] => l[2] <= handed[Current][2] \/ first[2] <= l[2]
    BY <1>2, <1>3
  <2> QED
    BY <1>4, <2>1, <2>2
<1> QED
  BY <1>1, <1>2, <1>3, <1>6, <1>7

LEMMA DeliverIInv == IInv /\ Deliver => IInv'
<1> SUFFICES ASSUME IInv, Deliver PROVE IInv'
  OBVIOUS
<1> USE DEF IInv, nodeVars, peerVars
<1> DEFINE c == Current
<1>1. c \in Peers /\ phase[c] = "connected"
  BY DeliverFacts
<1>2. PICK first \in AllLines \cap lines :
        /\ handed' = [handed EXCEPT ![c] = first] /\ lines' = lines \ {first}
        /\ handed[c][2] < first[2] /\ first[2] <= framed[c]
        /\ \A l \in lines' : first[2] < l[2]
  BY DeliverFacts
<1>3. /\ at = "deliver" /\ tx' = [tx EXCEPT ![c] = @ + 1] /\ Woken
      /\ UNCHANGED <<at, polled, got, todo, phase, recvd, framed, nodeVars, peerVars>>
  BY DEF Deliver
<1>4. first \in Positions \X Positions /\ \A l \in AllLines : l[2] \in Nat
  BY AllLinesFacts
<1>5. c' = c
  BY <1>3 DEF Current
<1> HIDE DEF c
<1>6. TypeOK'
  <2>1. pipe' \in 0..PipeSize
    BY <1>3 DEF TypeOK, Woken, Lesser
  <2>2. tx' \in [Peers -> Nat] /\ handed' \in [Peers -> Positions \X Positions]
    BY <1>1, <1>2, <1>3, <1>4 DEF TypeOK
  <2> QED
    BY <1>2, <1>3, <2>1, <2>2 DEF TypeOK
<1>7. ServeInv' /\ WakeInv'
  BY <1>3 DEF ServeInv, Serving, WakeInv, NoLostWakeup, Connected
<1>8. handed'[c] = first
  BY <1>1, <1>2 DEF TypeOK
<1>9. LinesInv'
  <2>1. /\ lines \subseteq AllLines /\ handed[c] \in Positions \X Positions
        /\ \A l \in lines : l[2] <= framed[c]
        /\ \A l \in AllLines : l[2] <= framed[c] => l[2] <= handed[c][2] \/ l \in lines
    BY <1>1, <1>3 DEF LinesInv, c, TypeOK
  <2>2. \A l \in AllLines : l[2] <= framed[c] => l[2] <= first[2] \/ l \in lines'
    BY <1>2, <1>4, <2>1 DEF Positions
  <2>3. /\ lines' \subseteq AllLines
        /\ \A l \in lines' : handed'[c][2] < l[2] /\ l[2] <= framed'[c]
        /\ \A l \in AllLines : l[2] <= framed'[c] => l[2] <= handed'[c][2] \/ l \in lines'
    BY <1>2, <1>3, <1>8, <2>1, <2>2
  <2> QED
    BY <1>3, <1>5, <2>3 DEF LinesInv, c
<1>10. StreamInv'
  <2>1. \A d \in Peers : Held(d)' = Held(d) /\ Held(c)
    BY <1>3, <1>5 DEF Held, c
  <2>2. \A d \in Peers : d # c => handed'[d] = handed[d]
    BY <1>2 DEF TypeOK
  <2> QED
    BY <1>1, <1>2, <1>3, <1>8, <2>1, <2>2 DEF StreamInv
<1> QED
  BY <1>6, <1>7, <1>9, <1>10

(* An erased Client has no output, no stream and no room.                       *)
LEMMA EraseFacts ==
  ASSUME IInv, NEW C \in SUBSET Peers, Erase(C), UNCHANGED handed, \A d \in Peers \ C : ~Held(d)
  PROVE  /\ StreamInv' /\ Connected' = Connected \ C
         /\ phase' \in [Peers -> {"away", "backlog", "connected", "refused", "dropped"}]
         /\ tx' \in [Peers -> Nat] /\ recvd' \in [Peers -> Positions]
         /\ framed' \in [Peers -> Positions] /\ wrote' \in [Peers -> Positions]
         /\ room' \in [Peers -> 0..Room] /\ peer' = peer
<1> USE DEF IInv, Erase
<1>1. /\ phase' \in [Peers -> {"away", "backlog", "connected", "refused", "dropped"}]
      /\ tx' \in [Peers -> Nat] /\ recvd' \in [Peers -> Positions]
      /\ framed' \in [Peers -> Positions] /\ wrote' \in [Peers -> Positions]
      /\ room' \in [Peers -> 0..Room] /\ peer' = peer
  BY DEF TypeOK, Positions
<1>2. Connected' = Connected \ C
  BY DEF Connected
<1>3. StreamInv'
  <2>1. ASSUME NEW d \in C
        PROVE  phase'[d] = "dropped" /\ recvd'[d] = 0 /\ framed'[d] = 0 /\ wrote'[d] = 0
    OBVIOUS
  <2>2. ASSUME NEW d \in Peers \ C
        PROVE  /\ phase'[d] = phase[d] /\ recvd'[d] = recvd[d] /\ framed'[d] = framed[d]
               /\ wrote'[d] = wrote[d] /\ ~Held(d)
    OBVIOUS
  <2> QED
    BY <2>1, <2>2 DEF StreamInv
<1> QED
  BY <1>1, <1>2, <1>3

LEMMA DropIInv == IInv /\ Drop => IInv'
<1> SUFFICES ASSUME IInv, Drop PROVE IInv'
  OBVIOUS
<1> USE DEF IInv, nodeVars
<1>1. /\ at = "drop" /\ at' = "clients" /\ todo' = todo \ {Current}
      /\ Current \in Peers /\ Erase({Current})
      /\ UNCHANGED <<polled, got, lines, handed, nodeVars, pipe>>
  BY CurrentFacts DEF Drop, NextClient, ServeInv, Serving
<1>2. \A d \in Peers \ {Current} : ~Held(d)
  BY DEF Held
<1>3. {Current} \in SUBSET Peers
  BY <1>1
<1>4. /\ StreamInv' /\ Connected' = Connected \ {Current}
      /\ phase' \in [Peers -> {"away", "backlog", "connected", "refused", "dropped"}]
      /\ tx' \in [Peers -> Nat] /\ recvd' \in [Peers -> Positions]
      /\ framed' \in [Peers -> Positions] /\ wrote' \in [Peers -> Positions]
      /\ room' \in [Peers -> 0..Room] /\ peer' = peer
  BY <1>1, <1>2, <1>3, EraseFacts
<1>5. TypeOK'
  BY <1>1, <1>4 DEF TypeOK
<1>6. ServeInv' /\ LinesInv' /\ WakeInv'
  BY <1>1, <1>4 DEF ServeInv, Serving, LinesInv, WakeInv, NoLostWakeup
<1> QED
  BY <1>4, <1>5, <1>6

(* The node threads.                                                            *)
LEMMA QueueIInv == ASSUME NEW C \in SUBSET Peers PROVE IInv /\ Queue(C) => IInv'
<1> SUFFICES ASSUME IInv, Queue(C) PROVE IInv'
  OBVIOUS
<1> USE DEF IInv, ioVars, peerVars, Queue
<1>1. TypeOK'
  <2>1. waking' \in 0..MaxMsgs + 1 /\ msgs' \in 0..MaxMsgs
    BY DEF TypeOK, WakeInv
  <2>2. tx' \in [Peers -> Nat]
    BY DEF TypeOK
  <2> QED
    BY <2>1, <2>2 DEF TypeOK
<1>2. ServeInv' /\ LinesInv'
  BY DEF ServeInv, Serving, LinesInv, Connected, Current
<1>3. WakeInv'
  BY DEF WakeInv, NoLostWakeup, TypeOK
<1>4. StreamInv'
  BY DEF StreamInv, Held, Current
<1> QED
  BY <1>1, <1>2, <1>3, <1>4

LEMMA WakeIInv == IInv /\ Wake => IInv'
<1> SUFFICES ASSUME IInv, Wake PROVE IInv'
  OBVIOUS
<1> USE DEF IInv, ioVars, clientVars, peerVars, Wake
<1>1. waking \in Nat /\ msgs \in Nat /\ pipe' \in 0..PipeSize /\ pipe' > 0
  BY DEF TypeOK, Woken, Lesser
<1>2. TypeOK'
  BY <1>1 DEF TypeOK
<1>3. ServeInv' /\ LinesInv' /\ WakeInv'
  BY <1>1 DEF ServeInv, Serving, LinesInv, WakeInv, NoLostWakeup, Connected, Current
<1>4. StreamInv'
  BY DEF StreamInv, Held, Current
<1> QED
  BY <1>2, <1>3, <1>4

LEMMA StopIInv == IInv /\ Stop => IInv'
<1> SUFFICES ASSUME IInv, Stop PROVE IInv'
  OBVIOUS
<1> USE DEF IInv, ioVars, clientVars, peerVars, Stop
<1>1. waking \in Nat /\ msgs \in 0..MaxMsgs /\ waking <= msgs
  BY DEF TypeOK, WakeInv
<1>2. TypeOK'
  <2>1. waking' \in 0..MaxMsgs + 1
    BY <1>1
  <2> QED
    BY <2>1 DEF TypeOK
<1>3. ServeInv' /\ LinesInv' /\ WakeInv'
  BY <1>1 DEF ServeInv, Serving, LinesInv, WakeInv, NoLostWakeup, Connected, Current
<1>4. StreamInv'
  BY DEF StreamInv, Held, Current
<1> QED
  BY <1>2, <1>3, <1>4

LEMMA CloseAllIInv == IInv /\ CloseAll => IInv'
<1> SUFFICES ASSUME IInv, CloseAll PROVE IInv'
  OBVIOUS
<1> USE DEF IInv, ioVars, nodeVars
<1>1. /\ at = "ended" /\ Erase(Connected) /\ Connected \in SUBSET Peers
      /\ UNCHANGED <<ioVars, handed, nodeVars, pipe>>
  BY DEF CloseAll, Connected
<1>2. \A d \in Peers \ Connected : ~Held(d)
  BY <1>1 DEF Held
<1>3. /\ StreamInv'
      /\ phase' \in [Peers -> {"away", "backlog", "connected", "refused", "dropped"}]
      /\ tx' \in [Peers -> Nat] /\ recvd' \in [Peers -> Positions]
      /\ framed' \in [Peers -> Positions] /\ wrote' \in [Peers -> Positions]
      /\ room' \in [Peers -> 0..Room] /\ peer' = peer
  BY <1>1, <1>2, EraseFacts
<1>4. TypeOK'
  BY <1>1, <1>3 DEF TypeOK
<1>5. ServeInv' /\ LinesInv' /\ WakeInv'
  BY <1>1 DEF ServeInv, Serving, LinesInv, WakeInv, NoLostWakeup
<1> QED
  BY <1>3, <1>4, <1>5

LEMMA PeerIInv == ASSUME NEW c \in Peers PROVE IInv /\ PeerStep(c) => IInv'
<1> SUFFICES ASSUME IInv, PeerStep(c) PROVE IInv'
  OBVIOUS
<1> USE DEF IInv, ioVars, clientVars, nodeVars, peerVars
<1>1. UNCHANGED <<ioVars, tx, handed, recvd, framed, nodeVars, pipe>>
  BY DEF PeerStep, PeerConnects, PeerWrites, PeerReads, PeerLeaves
<1>2. TypeOK'
  <2>1. /\ phase' \in [Peers -> {"away", "backlog", "connected", "refused", "dropped"}]
        /\ peer' \in [Peers -> {"open", "fin", "reset"}]
    BY DEF TypeOK, PeerStep, PeerConnects, PeerWrites, PeerReads, PeerLeaves
  <2>2. wrote' \in [Peers -> Positions] /\ room' \in [Peers -> 0..Room]
    <3>1. wrote[c] \in Positions
      BY DEF TypeOK
    <3>2. wrote[c] < MaxBytes => wrote[c] + 1 \in Positions
      BY <3>1 DEF Positions
    <3>3. /\ wrote' = wrote \/ (wrote[c] < MaxBytes /\ wrote' = [wrote EXCEPT ![c] = wrote[c] + 1])
          /\ room' = room \/ room' = [room EXCEPT ![c] = Room]
      BY DEF PeerStep, PeerConnects, PeerWrites, PeerReads, PeerLeaves
    <3>4. Room \in 0..Room
      OBVIOUS
    <3>5. wrote \in [Peers -> Positions] /\ room \in [Peers -> 0..Room]
      BY DEF TypeOK
    <3>6. wrote' \in [Peers -> Positions]
      BY <3>2, <3>3, <3>5
    <3>7. room' \in [Peers -> 0..Room]
      BY <3>3, <3>4, <3>5
    <3> QED
      BY <3>6, <3>7
  <2> QED
    BY <1>1, <2>1, <2>2 DEF TypeOK
<1>3. Connected' = Connected
  BY DEF PeerStep, PeerConnects, PeerWrites, PeerReads, PeerLeaves, Connected, TypeOK
<1>4. ServeInv' /\ LinesInv' /\ WakeInv'
  BY <1>1, <1>3 DEF ServeInv, Serving, LinesInv, WakeInv, NoLostWakeup, Current
<1>5. \A d \in Peers : /\ phase'[d] = phase[d] \/ (phase[d] = "away" /\ phase'[d] = "backlog")
                       /\ wrote[d] <= wrote'[d] /\ wrote[d] \in Nat /\ wrote'[d] \in Nat
                       /\ recvd[d] \in Nat
  BY <1>2 DEF PeerStep, PeerConnects, PeerWrites, PeerReads, PeerLeaves, TypeOK, Positions
<1>6. StreamInv'
  <2>1. \A d \in Peers : Held(d)' = Held(d)
    BY <1>1 DEF Held, Current
  <2>2. \A d \in Peers : recvd[d] <= wrote'[d]
    BY <1>5 DEF StreamInv
  <2> QED
    BY <1>1, <1>5, <2>1, <2>2 DEF StreamInv
<1> QED
  BY <1>2, <1>4, <1>6

LEMMA StepIInv == IInv /\ [Next]_vars => IInv'
<1> SUFFICES ASSUME IInv, [Next]_vars PROVE IInv'
  OBVIOUS
<1>1. CASE Moves
  BY <1>1, MovesIInv
<1>2. CASE Accept \/ Drain \/ Flush \/ Recv \/ Deliver \/ Drop
  BY <1>2, AcceptIInv, DrainIInv, FlushIInv, RecvIInv, DeliverIInv, DropIInv
<1>3. CASE Broadcast \/ SendTo
  <2>1. \E C \in SUBSET Peers : Queue(C)
    <3>1. Connected \in SUBSET Peers /\ \A c \in Connected : {c} \in SUBSET Peers
      BY DEF Connected
    <3> QED
      BY <1>3, <3>1 DEF Broadcast, SendTo
  <2> QED
    BY <2>1, QueueIInv
<1>4. CASE Wake \/ Stop \/ CloseAll
  BY <1>4, WakeIInv, StopIInv, CloseAllIInv
<1>5. CASE \E c \in Peers : PeerStep(c)
  BY <1>5, PeerIInv
<1>6. CASE UNCHANGED vars
  BY <1>6 DEF vars, ioVars, clientVars, nodeVars, peerVars, IInv, TypeOK, ServeInv, Serving,
     StreamInv, Held, LinesInv, WakeInv, NoLostWakeup, Connected, Current
<1> QED
  BY <1>1, <1>2, <1>3, <1>4, <1>5, <1>6 DEF Next, IoThread, Moves

(* Whom the IO thread serves is a client, what is framed and not handed over is *)
(* of the chunk under way, and every queued message is owed a wake-up.          *)
THEOREM Invariance == Spec => []IInv
<1>1. IInv /\ [Next]_vars => IInv'
  BY StepIInv
<1> QED
  BY <1>1, InitIInv, PTL DEF Spec

-------------------------------------------------------------------------------
(* The theorems.                                                                *)

(* JsonLineServer's state stays within its types, whatever the peers send and   *)
(* the node threads queue.                                                      *)
THEOREM TypeCorrect == Spec => []TypeOK
<1>1. IInv => TypeOK
  BY DEF IInv
<1> QED
  BY <1>1, Invariance, PTL

(* run() never sleeps on output that no POLLOUT and no wake-up will bring it    *)
(* back to, for every size of the pipe.                                         *)
THEOREM WakeupsSuffice == Spec => []NoLostWakeup
<1>1. IInv => NoLostWakeup
  BY DEF IInv, WakeInv
<1> QED
  BY <1>1, Invariance, PTL

(* handle_readable hands every peer's lines over whole, once and in order, for  *)
(* every stream, every place of its newlines and every way recv() cuts it.      *)
THEOREM LinesInOrder == Spec => LineAfterLine
<1> DEFINE NextLine ==
      \A c \in Peers : handed'[c] # handed[c] =>
        /\ handed'[c] \in AllLines /\ handed'[c][2] <= recvd[c]
        /\ \A l \in AllLines : l[2] < handed'[c][2] <=> l[2] <= handed[c][2]
<1>1. ASSUME IInv, [Next]_vars PROVE NextLine
  <2> SUFFICES ASSUME NEW c \in Peers, handed'[c] # handed[c]
               PROVE  /\ handed'[c] \in AllLines /\ handed'[c][2] <= recvd[c]
                      /\ \A l \in AllLines : l[2] < handed'[c][2] <=> l[2] <= handed[c][2]
    OBVIOUS
  <2>1. Deliver
    BY <1>1 DEF Next, vars, ioVars, clientVars, nodeVars, peerVars, IoThread, Snapshot,
       PollReturns, PollFails, Accept, Drain, ServeError, Flush, Served, AllServed, Recv, Cut,
       RecvEnds, Delivered, Drop, Broadcast, SendTo, Queue, Wake, Stop, CloseAll, PeerStep,
       PeerConnects, PeerWrites, PeerReads, PeerLeaves
  <2>2. PICK first \in AllLines \cap lines :
          /\ handed' = [handed EXCEPT ![Current] = first]
          /\ first[2] <= framed[Current]
          /\ \A l \in AllLines : l[2] < first[2] <=> l[2] <= handed[Current][2]
    BY <1>1, <2>1, DeliverFacts
  <2>3. c = Current /\ handed'[c] = first
    BY <1>1, <2>2 DEF IInv, TypeOK
  <2>4. framed[c] <= recvd[c] /\ framed[c] \in Nat /\ recvd[c] \in Nat
    BY <1>1 DEF IInv, TypeOK, StreamInv, Positions
  <2>5. first[2] \in Nat
    BY AllLinesFacts
  <2> QED
    BY <2>2, <2>3, <2>4, <2>5
<1>2. IInv /\ [Next]_vars => [NextLine]_vars
  BY <1>1
<1> QED
  BY <1>2, Invariance, PTL DEF Spec, LineAfterLine
===============================================================================
