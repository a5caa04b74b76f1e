----------------------------- MODULE StreamRelay -----------------------------
(***************************************************************************)
(* The two relays of one proxied connection and the stream between them.   *)
(*                                                                         *)
(* lib/StreamRelay.cpp copies between stream A and stream B.  At both ends *)
(* of a multiplexer, ClientConnection and ServerToNetConnection, A is the  *)
(* multiplexer's stream and B the local socket (the application's at the   *)
(* client, the target's at the server).  Reading A or B is started and     *)
(* stopped by the state of the other stream's write buffer, and, for B, by *)
(* the START_READ and STOP_READ packets of the other end's relay, with a   *)
(* 20 s timer that closes a relay which stays stopped.  The module starts  *)
(* where the server's relay does, right behind ACCEPT_CONNECTION.          *)
(*                                                                         *)
(* EBStreamObject and libuv are external: write() queues and returns less  *)
(* than 0 when more than the limit is queued, "drain" is raised when the   *)
(* queue is back at the limit, an event without a listener is lost, and a  *)
(* local socket delivers data and its end only while it is read.  The      *)
(* shouldStartWrite and shouldStopWrite listeners of B never run: only a   *)
(* stream of the multiplexer raises these events.                          *)
(***************************************************************************)
EXTENDS Integers, Sequences

CONSTANTS
    Limit,  \* the write buffer limit of every stream, in chunks
    Data    \* bound: chunks that each local socket has to say before its end

ASSUME RelayAssumption == Limit \in Nat /\ Data \in Nat

Ends == {"client", "server"}
Streams == {"A", "B"}
Peer(n) == IF n = "client" THEN "server" ELSE "client"

VARIABLES
    phase,     \* of each relay: "before" start_relay, "running", "closed"
    reading,   \* m_a_start_read, m_b_start_read
    ended,     \* m_a_end, m_b_end
    stamp,     \* m_b_random: a new value at every start and stop of reading B
    timers,    \* armed __wait_b_start_read timers: the stamp each carries
    queued,    \* chunks written to a stream and not yet flushed
    wire,      \* packets each end has sent to the other
    left,      \* chunks each local socket has still to say
    told       \* history: the last of START_READ and STOP_READ each end took, START at first

vars == <<phase, reading, ended, stamp, timers, queued, wire, left, told>>

Words == {"START", "STOP"}
Packets == {"DATA", "END", "START", "STOP", "CLOSE"}

TypeOK ==
    /\ phase \in [Ends -> {"before", "running", "closed"}]
    /\ reading \in [Ends -> [Streams -> BOOLEAN]]
    /\ ended \in [Ends -> [Streams -> BOOLEAN]]
    /\ stamp \in [Ends -> Nat]
    /\ timers \in [Ends -> SUBSET Nat]
    /\ queued \in [Ends -> [Streams -> Nat]]
    /\ wire \in [Ends -> Seq(Packets)]
    /\ left \in [Ends -> 0 .. Data]
    /\ told \in [Ends -> Words]

Both(b) == [s \in Streams |-> b]
OnlyServer(yes, no) == [n \in Ends |-> IF n = "server" THEN yes ELSE no]

\* The server's start_relay has run; the client's waits for the SOCKS5 reply.
Init ==
    /\ phase = OnlyServer("running", "before")
    /\ reading = OnlyServer(Both(TRUE), Both(FALSE))
    /\ ended = [n \in Ends |-> Both(FALSE)]
    /\ stamp = OnlyServer(1, 0)
    /\ timers = [n \in Ends |-> {}]
    /\ queued = [n \in Ends |-> [s \in Streams |-> 0]]
    /\ wire = OnlyServer(<<"START">>, <<>>)
    /\ left = [n \in Ends |-> Data]
    /\ told = [n \in Ends |-> "START"]

-----------------------------------------------------------------------------
(* What the listeners do, each on the relay of one end *)

Running(n) == phase[n] = "running"
Over(n, s) == queued[n][s] > Limit
Sent(n, packet) == [wire EXCEPT ![n] = Append(@, packet)]

\* Variant: reading is started or stopped without a new m_b_random.
ReadLocalSameStamp(n, b) ==
    /\ reading' = [reading EXCEPT ![n].B = b]
    /\ UNCHANGED stamp

\* __relay_b_to_a and __stop_b_to_a: B is the local socket.
ReadLocal(n, b) ==
    /\ reading' = [reading EXCEPT ![n].B = b]
    /\ stamp' = [stamp EXCEPT ![n] = @ + 1]

\* The streams and the timers' callbacks of a relay that is deleted.
Cleared(n) ==
    /\ timers' = [timers EXCEPT ![n] = {}]
    /\ queued' = [queued EXCEPT ![n] = [s \in Streams |-> 0]]
    /\ reading' = [reading EXCEPT ![n] = Both(FALSE)]

\* __close, with what else is sent before: both streams are deleted and CLOSE_CONNECTION
\* is sent; the callbacks of the timers find that they cannot run.
Close(n, packets) ==
    /\ phase' = [phase EXCEPT ![n] = "closed"]
    /\ wire' = [wire EXCEPT ![n] = @ \o packets]
    /\ Cleared(n)
    /\ UNCHANGED stamp

\* The first packet on its way to n has been taken, and n has sent these.
Taken(n, packets) == [wire EXCEPT ![Peer(n)] = Tail(@), ![n] = @ \o packets]

\* __close on an event of A: the stream was closed by the peer, or ended by both.
PeerCloses(n) ==
    /\ phase' = [phase EXCEPT ![n] = "closed"]
    /\ wire' = Taken(n, <<"CLOSE">>)
    /\ Cleared(n)
    /\ UNCHANGED stamp

\* start_relay at the client, once the SOCKS5 reply is written.
StartRelay ==
    /\ phase["client"] = "before"
    /\ phase' = [phase EXCEPT !["client"] = "running"]
    /\ reading' = [reading EXCEPT !["client"] = Both(TRUE)]
    /\ stamp' = [stamp EXCEPT !["client"] = @ + 1]
    /\ wire' = Sent("client", "START")
    /\ UNCHANGED <<ended, timers, queued, left, told>>

\* b_data_listener: a chunk of the local socket is written to A.
LocalData(n) ==
    /\ Running(n) /\ reading[n].B
    /\ left[n] > 0
    /\ left' = [left EXCEPT ![n] = @ - 1]
    /\ queued' = [queued EXCEPT ![n].A = @ + 1]
    /\ wire' = Sent(n, "DATA")
    /\ IF queued[n].A + 1 > Limit THEN ReadLocal(n, FALSE) ELSE UNCHANGED <<reading, stamp>>
    /\ UNCHANGED <<phase, ended, timers, told>>

\* b_end_listener: the local socket has no more to say.
LocalEnd(n) ==
    /\ Running(n) /\ reading[n].B
    /\ left[n] = 0
    /\ ~ended[n].B
    /\ ended' = [ended EXCEPT ![n].B = TRUE]
    /\ IF ended[n].A
       THEN Close(n, <<"END", "CLOSE">>)
       ELSE wire' = Sent(n, "END") /\ UNCHANGED <<phase, reading, stamp, timers, queued>>
    /\ UNCHANGED <<left, told>>

\* An error of either stream, or the application giving up before start_relay.
Fail(n) ==
    /\ phase[n] # "closed"
    /\ Close(n, <<"CLOSE">>)
    /\ UNCHANGED <<ended, left, told>>

\* Variant: the chunk that empties the queue raises no "drain" for A.
FlushADeaf(n) ==
    /\ Running(n)
    /\ queued[n].A > 0
    /\ queued' = [queued EXCEPT ![n].A = @ - 1]
    /\ UNCHANGED <<phase, reading, ended, stamp, timers, wire, left, told>>

\* A write to A has completed; a_drain_listener reads the local socket again.
FlushA(n) ==
    /\ Running(n)
    /\ queued[n].A > 0
    /\ queued' = [queued EXCEPT ![n].A = @ - 1]
    /\ IF queued[n].A = Limit + 1 /\ ~reading[n].B
       THEN ReadLocal(n, TRUE)
       ELSE UNCHANGED <<reading, stamp>>
    /\ UNCHANGED <<phase, ended, timers, wire, left, told>>

\* Variants: the completion of one write is counted twice; reading A is started again
\* without START_READ.
FlushBTwice(n) ==
    /\ Running(n)
    /\ queued[n].B > 0
    /\ queued' = [queued EXCEPT ![n].B = @ - 2]
    /\ UNCHANGED <<phase, reading, ended, stamp, timers, wire, left, told>>

FlushBUntold(n) ==
    /\ Running(n)
    /\ queued[n].B > 0
    /\ queued' = [queued EXCEPT ![n].B = @ - 1]
    /\ reading' = [reading EXCEPT ![n].A = (queued[n].B <= Limit + 1) \/ @]
    /\ UNCHANGED <<phase, ended, stamp, timers, wire, left, told>>

\* A write to B has completed; b_drain_listener reads A again: START_READ is sent.
FlushB(n) ==
    /\ Running(n)
    /\ queued[n].B > 0
    /\ queued' = [queued EXCEPT ![n].B = @ - 1]
    /\ IF queued[n].B = Limit + 1 /\ ~reading[n].A
       THEN /\ reading' = [reading EXCEPT ![n].A = TRUE]
            /\ wire' = Sent(n, "START")
       ELSE UNCHANGED <<reading, wire>>
    /\ UNCHANGED <<phase, ended, stamp, timers, left, told>>

\* __wait_b_start_read: close when nothing has started or stopped B since.
WaitExpires(n, g) ==
    /\ Running(n)
    /\ g \in timers[n]
    /\ IF stamp[n] = g
       THEN Close(n, <<"CLOSE">>)
       ELSE /\ timers' = [timers EXCEPT ![n] = @ \ {g}]
            /\ UNCHANGED <<phase, reading, stamp, queued, wire>>
    /\ UNCHANGED <<ended, left, told>>

\* a_data_listener: a chunk is written to the local socket, which may be one too many.
PeerData(n) ==
    /\ queued' = [queued EXCEPT ![n].B = @ + 1]
    /\ IF queued[n].B + 1 > Limit /\ reading[n].A
       THEN /\ reading' = [reading EXCEPT ![n].A = FALSE]
            /\ wire' = Taken(n, <<"STOP">>)
       ELSE wire' = Taken(n, <<>>) /\ UNCHANGED reading
    /\ UNCHANGED <<phase, ended, stamp, timers>>

\* Variant: the end of A does not close a relay whose B has ended.
PeerEndKeepsOpen(n) ==
    /\ ended' = [ended EXCEPT ![n].A = TRUE]
    /\ wire' = Taken(n, <<>>)
    /\ UNCHANGED <<phase, reading, stamp, timers, queued>>

\* a_end_listener: the local socket is ended; a second END is an error.
PeerEnd(n) ==
    /\ ended' = [ended EXCEPT ![n].A = TRUE]
    /\ IF ended[n].A \/ ended[n].B
       THEN PeerCloses(n)
       ELSE wire' = Taken(n, <<>>) /\ UNCHANGED <<phase, reading, stamp, timers, queued>>

\* Variant: no timer is armed for the stop.
PeerStopUntimed(n) ==
    /\ IF reading[n].B THEN ReadLocal(n, FALSE) ELSE UNCHANGED <<reading, stamp>>
    /\ UNCHANGED timers

\* a_shouldstartwrite_listener and a_shouldstopwrite_listener.
PeerStart(n) ==
    /\ IF ~reading[n].B THEN ReadLocal(n, TRUE) ELSE UNCHANGED <<reading, stamp>>
    /\ UNCHANGED timers

PeerStop(n) ==
    IF reading[n].B
    THEN ReadLocal(n, FALSE) /\ timers' = [timers EXCEPT ![n] = @ \cup {stamp'[n]}]
    ELSE UNCHANGED <<reading, stamp, timers>>

\* The stream of the multiplexer at n raises the event of the next packet.  Before
\* start_relay and after the end it has no listener, and the packet is lost.
Receive(n) ==
    /\ wire[Peer(n)] # <<>>
    /\ LET packet == Head(wire[Peer(n)]) IN
       /\ told' = IF packet \in Words THEN [told EXCEPT ![n] = packet] ELSE told
       /\ \/ ~Running(n) /\ wire' = Taken(n, <<>>)
                         /\ UNCHANGED <<phase, reading, ended, stamp, timers, queued>>
          \/ Running(n) /\ packet = "DATA" /\ PeerData(n)
          \/ Running(n) /\ packet = "END" /\ PeerEnd(n)
          \/ Running(n) /\ packet = "CLOSE" /\ PeerCloses(n) /\ UNCHANGED ended
          \/ Running(n) /\ packet = "START" /\ PeerStart(n) /\ wire' = Taken(n, <<>>)
                        /\ UNCHANGED <<phase, ended, queued>>
          \/ Running(n) /\ packet = "STOP" /\ PeerStop(n) /\ wire' = Taken(n, <<>>)
                        /\ UNCHANGED <<phase, ended, queued>>
    /\ UNCHANGED left

-----------------------------------------------------------------------------
Step(n) ==
    \/ LocalData(n) \/ LocalEnd(n) \/ Fail(n)
    \/ FlushA(n) \/ FlushB(n)
    \/ \E g \in timers[n] : WaitExpires(n, g)
    \/ Receive(n)

Next == StartRelay \/ \E n \in Ends : Step(n)

Spec == Init /\ [][Next]_vars

\* The event loop reads what arrives and runs the timers; both multiplexers read their
\* connection all the time, so what is written to A is flushed.  The local sockets owe
\* nothing: their peers may never read (FlushB), speak or end.
Fairness == \A n \in Ends :
    /\ WF_vars(Receive(n))
    /\ WF_vars(FlushA(n))
    /\ WF_vars(\E g \in timers[n] : WaitExpires(n, g))

FairSpec == Spec /\ Fairness

-----------------------------------------------------------------------------
(* Properties *)

\* A running relay that does not read a stream has a reason that something will undo:
\* the other stream's write buffer is over its limit, so that its "drain" is to come, or,
\* for B, the timer of the stop in force is armed.
StoppedForAReason ==
    \A n \in Ends : Running(n) =>
        /\ ~reading[n].B => Over(n, "A") \/ stamp[n] \in timers[n]
        /\ ~reading[n].A => Over(n, "B")

\* A timer that would still close the relay belongs to a stop that lasts: the relay
\* of a stream which was started again is never closed by the timer of an old stop.
LiveTimerMeansStopped ==
    \A n \in Ends : stamp[n] \in timers[n] => ~reading[n].B

\* w is the last of the words START and STOP in t followed by the packets s.
LastWord(t, s, w) ==
    \/ \E k \in DOMAIN s : s[k] = w /\ \A j \in k + 1 .. Len(s) : s[j] \notin Words
    \/ t = w /\ \A j \in DOMAIN s : s[j] \notin Words

\* What the peer was last told, or will be by the packets in flight, is whether this end
\* reads its stream A: the two ends never come to disagree on who may write.
PeerHasBeenTold ==
    \A n \in Ends : Running(n) =>
        LastWord(told[Peer(n)], wire[n], IF reading[n].A THEN "START" ELSE "STOP")

\* A local socket that is not read is read again or the relay is closed: neither a full
\* buffer nor a STOP_READ whose START_READ never comes holds it for ever.
FlowResumes ==
    \A n \in Ends : Running(n) /\ ~reading[n].B ~> reading[n].B \/ ~Running(n)

\* When both local sockets have ended behind running relays, both relays close.
BothEndsClose ==
    (\A n \in Ends : Running(n) /\ ended[n].B) ~> (\A n \in Ends : phase[n] = "closed")

\* kpacket.h:36 says of END_CONNECTION "equivalent to finish flag of tcp": an end
\* that takes it from an open stream has the stream ended or closed.
EndIsSeen ==
    [][\A n \in Ends :
          /\ phase[n] # "closed"
          /\ wire[Peer(n)] # <<>> /\ Head(wire[Peer(n)]) = "END"
          /\ Len(wire'[Peer(n)]) < Len(wire[Peer(n)])
          => ended'[n].A \/ phase'[n] = "closed"]_vars
==============================================================================
