---------------------------- MODULE JsonLineServer ----------------------------
(* JsonLineServer: one IO thread around poll(), node threads that queue output  *)
(* and wake it through a pipe, and TCP peers.  A line is known by its place in  *)
(* the stream of its peer; output is counted in messages.                       *)
(* Peers, sockets and poll() are external, modelled as run() uses them.         *)
EXTENDS Integers, FiniteSets

CONSTANTS
  MaxPeers,   \* bound: connection attempts
  MaxClients, \* max_clients_
  MaxBytes,   \* bound: length of a peer's stream
  Breaks,     \* the positions of the newlines in it
  Chunk,      \* the buffer of recv(): 4096 bytes
  MaxLine,    \* kMaxLineBytes
  PipeSize,   \* how many wake-ups the pipe holds
  Room,       \* what a socket's send buffer holds, in messages
  MaxMsgs     \* bound: messages queued by node threads

ASSUME PeersAssumption == MaxPeers \in Nat \ {0} /\ MaxClients \in Nat \ {0}
ASSUME StreamAssumption ==
  /\ MaxBytes \in Nat /\ Breaks \subseteq 1..MaxBytes
  /\ Chunk \in Nat \ {0} /\ MaxLine \in Nat /\ Chunk <= MaxLine
ASSUME BuffersAssumption ==
  PipeSize \in Nat \ {0} /\ Room \in Nat \ {0} /\ MaxMsgs \in Nat

Positions == 0..MaxBytes
Peers == 1..MaxPeers  \* ClientIds: next_id_ numbers them as they are accepted

VARIABLES
  running, \* running_
  at,      \* where the IO thread is in run()
  polled,  \* pfds: the clients polled, and those of them polled for POLLOUT
  got,     \* revents
  todo,    \* the clients with revents that are still to be served
  lines,   \* handle_readable's vector
  phase,   \* per peer: away, waiting in accept()'s backlog, a member of clients_, or past
  tx,      \* Client::tx
  handed,  \* per peer: the last line given to on_line_, from its first byte to its newline
  recvd,   \* per peer: how much of its stream recv() has returned
  framed,  \* per peer: how much of that has been cut into lines; the rest is Client::rx
  pipe,    \* the wake-ups in the pipe
  waking,  \* node threads between queueing a message (or stop()) and wake()
  msgs,    \* messages queued by node threads so far
  wrote,   \* per peer: how much of its stream it has written
  peer,    \* per peer: open, closed its end ("fin"), or connection lost ("reset")
  room     \* per peer: the free space of the socket's send buffer

ioVars     == <<at, polled, got, todo, lines>>
clientVars == <<phase, tx, handed, recvd, framed>>
nodeVars   == <<running, waking, msgs>>
peerVars   == <<wrote, peer, room>>
vars == <<ioVars, clientVars, nodeVars, peerVars, pipe>>

NoPoll == [all |-> {}, out |-> {}]
Nobody == [listen |-> FALSE, wake |-> FALSE, out |-> {}, in |-> {}, err |-> {}]
Connected == {c \in Peers : phase[c] = "connected"}
Backlog   == {c \in Peers : phase[c] = "backlog"}
Least(S)  == CHOOSE x \in S : \A y \in S : x <= y
Most(S)   == CHOOSE x \in S : \A y \in S : x >= y
Lesser(a, b) == IF a <= b THEN a ELSE b

\* Every variable stays within its type.
TypeOK ==
  /\ running \in BOOLEAN
  /\ at \in {"top", "poll", "accept", "clients", "recv", "deliver", "drop", "ended"}
  /\ polled \in [all : SUBSET Peers, out : SUBSET Peers]
  /\ got \in [listen : BOOLEAN, wake : BOOLEAN, out : SUBSET Peers, in : SUBSET Peers,
              err : SUBSET Peers]
  /\ todo \subseteq Peers /\ lines \subseteq Positions \X Positions
  /\ phase \in [Peers -> {"away", "backlog", "connected", "refused", "dropped"}]
  /\ tx \in [Peers -> Nat] /\ handed \in [Peers -> Positions \X Positions]
  /\ recvd \in [Peers -> Positions] /\ framed \in [Peers -> Positions]
  /\ pipe \in 0..PipeSize /\ waking \in 0..MaxMsgs + 1 /\ msgs \in 0..MaxMsgs
  /\ wrote \in [Peers -> Positions] /\ peer \in [Peers -> {"open", "fin", "reset"}]
  /\ room \in [Peers -> 0..Room]

Init ==
  /\ running = TRUE /\ at = "top"
  /\ polled = NoPoll /\ got = Nobody /\ todo = {} /\ lines = {}
  /\ phase = [c \in Peers |-> "away"]
  /\ tx = [c \in Peers |-> 0] /\ handed = [c \in Peers |-> <<0, 0>>]
  /\ recvd = [c \in Peers |-> 0] /\ framed = [c \in Peers |-> 0]
  /\ pipe = 0 /\ waking = 0 /\ msgs = 0
  /\ wrote = [c \in Peers |-> 0] /\ peer = [c \in Peers |-> "open"]
  /\ room = [c \in Peers |-> Room]

(* write() of one byte; a full pipe is left as it is.                           *)
Woken == pipe' = Lesser(pipe + 1, PipeSize)

-------------------------------------------------------------------------------
(* run(): the IO thread.                                                        *)

(* Variant: POLLOUT is never asked for.                                         *)
Snapshot_NoOut ==
  /\ at = "top"
  /\ IF running
       THEN polled' = [all |-> Connected, out |-> {}] /\ at' = "poll"
       ELSE at' = "ended" /\ UNCHANGED polled
  /\ UNCHANGED <<got, todo, lines, clientVars, nodeVars, peerVars, pipe>>

(* The loop's condition, then the pollfds.                                      *)
Snapshot ==
  /\ at = "top"
  /\ IF running
       THEN /\ polled' = [all |-> Connected, out |-> {c \in Connected : tx[c] > 0}]
            /\ at' = "poll"
       ELSE at' = "ended" /\ UNCHANGED polled
  /\ UNCHANGED <<got, todo, lines, clientVars, nodeVars, peerVars, pipe>>

(* poll() returns because something is ready, or after 100 ms.                  *)
Ready == [listen |-> Backlog # {},
          wake   |-> pipe > 0,
          out    |-> {c \in polled.out : room[c] > 0},
          in     |-> {c \in polled.all : wrote[c] > recvd[c] \/ peer[c] # "open"},
          err    |-> {c \in polled.all : peer[c] = "reset"}]

PollReturns ==
  /\ at = "poll"
  /\ IF running
       THEN at' = "accept" /\ got' = Ready
       ELSE at' = "ended" /\ UNCHANGED got
  /\ polled' = NoPoll
  /\ UNCHANGED <<todo, lines, clientVars, nodeVars, peerVars, pipe>>

PollFails ==
  /\ at = "poll"
  /\ at' \in {"top", "ended"}  \* EINTR; any other error
  /\ polled' = NoPoll
  /\ UNCHANGED <<got, todo, lines, clientVars, nodeVars, peerVars, pipe>>

(* accept_new takes the backlog one by one and greets (on_connect_), or refuses *)
(* for the address or the socket of the peer, or when there are clients enough. *)
Accept ==
  /\ at = "accept" /\ got.listen /\ Backlog # {}
  /\ LET c == Least(Backlog) IN
       \/ phase' = [phase EXCEPT ![c] = "refused"] /\ UNCHANGED <<tx, pipe>>
       \/ /\ Cardinality(Connected) < MaxClients
          /\ phase' = [phase EXCEPT ![c] = "connected"]
          /\ tx' = [tx EXCEPT ![c] = 1]
          /\ Woken
  /\ UNCHANGED <<ioVars, handed, recvd, framed, nodeVars, peerVars>>

Drain ==
  /\ at = "accept" /\ ~(got.listen /\ Backlog # {})
  /\ pipe' = IF got.wake THEN 0 ELSE pipe
  /\ todo' = got.out \cup got.in \cup got.err
  /\ at' = "clients"
  /\ UNCHANGED <<polled, got, lines, clientVars, nodeVars, peerVars>>

Current == Least(todo)
NextClient == at' = "clients" /\ todo' = todo \ {Current}

ServeError ==
  /\ at = "clients" /\ todo # {} /\ Current \in got.err
  /\ at' = "drop"
  /\ UNCHANGED <<polled, got, todo, lines, clientVars, nodeVars, peerVars, pipe>>

(* Variant: what the socket could take counts as sent.                          *)
Flush_TooMuch ==
  /\ at = "clients" /\ todo # {} /\ Current \notin got.err /\ Current \in got.out
  /\ got' = [got EXCEPT !.out = @ \ {Current}]
  /\ tx' = [tx EXCEPT ![Current] = @ - Room]
  /\ room' = [room EXCEPT ![Current] = 0]
  /\ UNCHANGED <<at, polled, todo, lines, phase, handed, recvd, framed, nodeVars, wrote, peer, pipe>>

(* flush_tx sends as much as the socket takes.                                  *)
Flush ==
  /\ at = "clients" /\ todo # {} /\ Current \notin got.err /\ Current \in got.out
  /\ got' = [got EXCEPT !.out = @ \ {Current}]
  /\ LET n == Lesser(tx[Current], room[Current]) IN
       IF peer[Current] = "reset"
         THEN at' = "drop" /\ UNCHANGED <<tx, room>>
         ELSE /\ tx' = [tx EXCEPT ![Current] = @ - n]
              /\ room' = [room EXCEPT ![Current] = @ - n]
              /\ UNCHANGED at
  /\ UNCHANGED <<polled, todo, lines, phase, handed, recvd, framed, nodeVars, wrote, peer, pipe>>

Served ==
  /\ at = "clients" /\ todo # {} /\ Current \notin got.err \cup got.out
  /\ IF Current \in got.in THEN at' = "recv" /\ UNCHANGED todo ELSE NextClient
  /\ UNCHANGED <<polled, got, lines, clientVars, nodeVars, peerVars, pipe>>

AllServed ==
  /\ at = "clients" /\ todo = {}
  /\ at' = "top" /\ got' = Nobody
  /\ UNCHANGED <<polled, todo, lines, clientVars, nodeVars, peerVars, pipe>>

(* handle_readable: recv() until there is no more, cutting rx into lines.       *)
Unread == wrote[Current] > recvd[Current] /\ peer[Current] # "reset"

(* The lines a stream read up to end and cut up to from yields: what was in rx  *)
(* belongs to the first of them.                                                *)
Cuts(from, end) == {p \in Breaks : from < p /\ p <= end}
LinesOf(from, end) ==
  {<<Most({from} \cup Cuts(from, p - 1)) + 1, p>> : p \in Cuts(from, end)}
NotEmpty(line) == line[1] < line[2]

RecvUpTo == recvd[Current] + Lesser(Chunk, wrote[Current] - recvd[Current])

Cut(end, last) ==
  /\ recvd' = [recvd EXCEPT ![Current] = end]
  /\ framed' = [framed EXCEPT ![Current] = last]
  /\ UNCHANGED <<polled, got, todo, phase, tx, handed, nodeVars, peerVars, pipe>>

(* Variant: what follows the last newline of a chunk is thrown away.            *)
Recv_DropsRest ==
  /\ at = "recv" /\ Unread
  /\ Cut(RecvUpTo, RecvUpTo)
  /\ at' = "deliver"
  /\ lines' = {l \in LinesOf(framed[Current], RecvUpTo) : NotEmpty(l)}

(* Variant: one line is cut off a chunk, the others wait for the next one.      *)
Recv_OneLine ==
  /\ at = "recv" /\ Unread
  /\ LET cuts == Cuts(framed[Current], RecvUpTo)
         last == IF cuts = {} THEN framed[Current] ELSE Least(cuts)
     IN /\ Cut(RecvUpTo, last)
        /\ IF RecvUpTo - last > MaxLine
             THEN at' = "drop" /\ UNCHANGED lines
             ELSE /\ at' = "deliver"
                  /\ lines' = {l \in LinesOf(framed[Current], last) : NotEmpty(l)}

(* A chunk is appended to rx and the whole lines are cut off.                   *)
Recv ==
  /\ at = "recv" /\ Unread
  /\ LET last == Most({framed[Current]} \cup Cuts(framed[Current], RecvUpTo)) IN
       /\ Cut(RecvUpTo, last)
       /\ IF RecvUpTo - last > MaxLine
            THEN at' = "drop" /\ UNCHANGED lines
            ELSE /\ at' = "deliver"
                 /\ lines' = {l \in LinesOf(framed[Current], RecvUpTo) : NotEmpty(l)}

(* Variant: recv() = 0 is taken for nothing to read.                            *)
RecvEnds_NoFin ==
  /\ at = "recv" /\ ~Unread
  /\ IF peer[Current] = "reset" THEN at' = "drop" /\ UNCHANGED todo ELSE NextClient
  /\ UNCHANGED <<polled, got, lines, clientVars, nodeVars, peerVars, pipe>>

(* Variant: EAGAIN is taken for EINTR, and recv() tried again.                  *)
RecvEnds_Spins ==
  /\ at = "recv" /\ ~Unread /\ peer[Current] # "open"
  /\ at' = "drop"
  /\ UNCHANGED <<polled, got, todo, lines, clientVars, nodeVars, peerVars, pipe>>

(* n = 0, an error, or nothing more to read.                                    *)
RecvEnds ==
  /\ at = "recv" /\ ~Unread
  /\ IF peer[Current] = "open" THEN NextClient ELSE at' = "drop" /\ UNCHANGED todo
  /\ UNCHANGED <<polled, got, lines, clientVars, nodeVars, peerVars, pipe>>

(* on_line_ outside the lock; it answers every line.                            *)
Deliver ==
  /\ at = "deliver" /\ lines # {}
  /\ \E first \in lines :
       /\ \A other \in lines : first[2] <= other[2]
       /\ handed' = [handed EXCEPT ![Current] = first]
       /\ lines' = lines \ {first}
  /\ tx' = [tx EXCEPT ![Current] = @ + 1]
  /\ Woken
  /\ UNCHANGED <<at, polled, got, todo, phase, recvd, framed, nodeVars, peerVars>>

Delivered ==
  /\ at = "deliver" /\ lines = {}
  /\ at' = "recv"
  /\ UNCHANGED <<polled, got, todo, lines, clientVars, nodeVars, peerVars, pipe>>

(* drop_client closes the connection and erases the Client; what on_disconnect_ *)
(* sends is a message like any other.                                           *)
Erase(C) ==
  /\ phase' = [c \in Peers |-> IF c \in C THEN "dropped" ELSE phase[c]]
  /\ tx' = [c \in Peers |-> IF c \in C THEN 0 ELSE tx[c]]
  /\ recvd' = [c \in Peers |-> IF c \in C THEN 0 ELSE recvd[c]]
  /\ framed' = [c \in Peers |-> IF c \in C THEN 0 ELSE framed[c]]
  /\ wrote' = [c \in Peers |-> IF c \in C THEN 0 ELSE wrote[c]]
  /\ room' = [c \in Peers |-> IF c \in C THEN 0 ELSE room[c]]
  /\ UNCHANGED peer

Drop ==
  /\ at = "drop"
  /\ Erase({Current})
  /\ NextClient
  /\ UNCHANGED <<polled, got, lines, handed, nodeVars, pipe>>

IoThread ==
  \/ Snapshot \/ PollReturns \/ Accept \/ Drain \/ ServeError \/ Flush \/ Served
  \/ AllServed \/ Recv \/ RecvEnds \/ Deliver \/ Delivered \/ Drop

-------------------------------------------------------------------------------
(* Node threads: broadcast, send_to, stop.                                      *)

(* Variant: nothing wakes the IO thread.                                        *)
Queue_NoWake(C) ==
  /\ C # {} /\ msgs < MaxMsgs
  /\ tx' = [c \in Peers |-> IF c \in C THEN tx[c] + 1 ELSE tx[c]]
  /\ msgs' = msgs + 1
  /\ UNCHANGED <<ioVars, phase, handed, recvd, framed, running, waking, peerVars, pipe>>

(* Under mtx_; the wake-up follows outside it.                                  *)
Queue(C) ==
  /\ C # {} /\ msgs < MaxMsgs
  /\ tx' = [c \in Peers |-> IF c \in C THEN tx[c] + 1 ELSE tx[c]]
  /\ msgs' = msgs + 1 /\ waking' = waking + 1
  /\ UNCHANGED <<ioVars, phase, handed, recvd, framed, running, peerVars, pipe>>

Broadcast == Queue(Connected)
SendTo == \E c \in Connected : Queue({c})

(* wake().                                                                      *)
Wake ==
  /\ waking > 0
  /\ waking' = waking - 1
  /\ Woken
  /\ UNCHANGED <<ioVars, clientVars, running, msgs, peerVars>>

Stop ==
  /\ running
  /\ running' = FALSE /\ waking' = waking + 1
  /\ UNCHANGED <<ioVars, clientVars, msgs, peerVars, pipe>>

(* stop() after join(): whoever is left is closed.                              *)
CloseAll ==
  /\ ~running /\ at = "ended" /\ Connected # {}
  /\ Erase(Connected)
  /\ UNCHANGED <<ioVars, handed, nodeVars, pipe>>

-------------------------------------------------------------------------------
(* External: the peers.                                                         *)

Linked(c) == phase[c] \in {"backlog", "connected"} /\ peer[c] = "open"

PeerConnects(c) ==
  /\ phase[c] = "away" /\ \A d \in 1..c-1 : phase[d] # "away"
  /\ phase' = [phase EXCEPT ![c] = "backlog"]
  /\ UNCHANGED <<ioVars, tx, handed, recvd, framed, nodeVars, peerVars, pipe>>

PeerWrites(c) ==
  /\ Linked(c) /\ wrote[c] < MaxBytes
  /\ wrote' = [wrote EXCEPT ![c] = @ + 1]
  /\ UNCHANGED <<ioVars, clientVars, nodeVars, peer, room, pipe>>

PeerReads(c) ==
  /\ Linked(c) /\ room[c] < Room
  /\ room' = [room EXCEPT ![c] = Room]
  /\ UNCHANGED <<ioVars, clientVars, nodeVars, wrote, peer, pipe>>

PeerLeaves(c) ==
  /\ phase[c] \in {"backlog", "connected"} /\ peer[c] # "reset"
  /\ \E how \in {"fin", "reset"} \ {peer[c]} : peer' = [peer EXCEPT ![c] = how]
  /\ UNCHANGED <<ioVars, clientVars, nodeVars, wrote, room, pipe>>

PeerStep(c) == PeerConnects(c) \/ PeerWrites(c) \/ PeerReads(c) \/ PeerLeaves(c)

Next == \/ IoThread \/ PollFails
        \/ Broadcast \/ SendTo \/ Wake \/ Stop \/ CloseAll
        \/ \E c \in Peers : PeerStep(c)

Spec == Init /\ [][Next]_vars

(* The threads run; poll() returns after 100 ms at the latest, and signals do   *)
(* not interrupt it forever; a peer that is there reads what it is sent.        *)
Fairness ==
  /\ WF_vars(IoThread) /\ SF_vars(PollReturns) /\ WF_vars(Wake)
  /\ \A c \in Peers : WF_vars(PeerReads(c))

FairSpec == Spec /\ Fairness

-------------------------------------------------------------------------------
(* Properties.                                                                  *)

(* While the IO thread sleeps in poll() without POLLOUT for a client that has   *)
(* output, a wake-up is in the pipe or a thread is about to write one: nothing  *)
(* is left to the 100 ms timeout, and a full pipe loses nothing.                *)
NoLostWakeup ==
  at = "poll" /\ (\E c \in Connected \ polled.out : tx[c] > 0) => pipe > 0 \/ waking > 0

(* on_line_ gets every line of a peer that is not empty, whole, once and in     *)
(* order, however the stream was cut into chunks.                               *)
AllLines == {l \in LinesOf(0, MaxBytes) : NotEmpty(l)}
LineAfterLine ==
  [][\A c \in Peers : handed'[c] # handed[c] =>
       /\ handed'[c] \in AllLines /\ handed'[c][2] <= recvd[c]
       /\ \A l \in AllLines : l[2] < handed'[c][2] <=> l[2] <= handed[c][2]]_vars

(* A whole line that has arrived reaches on_line_, even if the peer closes      *)
(* right after it or goes on with a line that is too long; only a lost          *)
(* connection or the end of the thread prevents it.                             *)
Fits(p) == \A l \in LinesOf(0, p) : l[2] - l[1] <= MaxLine
LineReachesHandler ==
  \A c \in Peers : \A l \in {m \in AllLines : Fits(m[2])} :
    phase[c] = "connected" /\ wrote[c] >= l[2] ~>
      handed[c][2] >= l[2] \/ peer[c] = "reset" \/ at = "ended"

(* A peer that has left is dropped, which is what starts the deadman.           *)
LeaverDropped ==
  \A c \in Peers :
    (phase[c] = "connected" /\ peer[c] # "open") ~> (phase[c] = "dropped" \/ at = "ended")

(* Output reaches the socket, unless its client goes or the thread ends.        *)
OutputDrains ==
  \A c \in Peers : tx[c] > 0 ~> (tx[c] = 0 \/ at = "ended")

(* stop() can join: the IO thread ends once running_ is cleared.  A peer that    *)
(* never pauses would keep it in handle_readable; the streams here end.         *)
StopEnds == ~running ~> at = "ended"
===============================================================================
