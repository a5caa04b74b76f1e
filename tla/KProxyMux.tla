------------------------------ MODULE KProxyMux ------------------------------
(***************************************************************************)
(* The two ends of one KProxy multiplexer connection.                      *)
(*                                                                         *)
(* lib/StreamProvider_KProxyMultiplexer.cpp is the stream provider that    *)
(* both ends run; lib/kclient_clientproxy.cpp owns its streams at the      *)
(* client and lib/kserver_server2net.cpp at the server.  A stream is named *)
(* on the wire by a one-byte id which the client draws at random among the *)
(* ids its m_allocator does not hold, and which becomes free at once when  *)
(* the client closes the stream.                                           *)
(*                                                                         *)
(* The packets of one direction form a FIFO channel (one TLS connection).  *)
(* A packet's field req is a history value, absent from the code: the      *)
(* request on whose behalf the packet was sent.  No guard reads it except  *)
(* to tell which names are short.  WRITE, END_CONNECTION, START_READ and   *)
(* STOP_READ are treated alike by the provider (dropped when the id is     *)
(* free, else given to the stream's callback): FORWARD stands for the four.*)
(***************************************************************************)
EXTENDS Integers, Sequences, FiniteSets

CONSTANTS
    Ids,        \* the one-byte stream ids, 0 .. SINGLE_MULTIPLEXER_MAX_CONNECTION-1
    Reqs,       \* the SOCKS5 requests the client hands to this multiplexer
    NoReq,      \* the absence of a stream
    FullAt,     \* __full(): SINGLE_MULTIPLEXER_MAX_CONNECTION / 2
    ShortNames, \* the requests whose host name has fewer than two characters
    Window      \* bound: relayed packets are written while the channel is shorter

ASSUME MuxAssumption ==
    /\ NoReq \notin Reqs
    /\ ShortNames \subseteq Reqs
    /\ FullAt \in Nat
    /\ Window \in Nat

VARIABLES
    alloc,   \* client m_allocator: the request whose stream holds the id
    wait,    \* client m_client_wait_connection: whose callback is stored for the id
    timers,  \* client: armed NEW_CONNECTION_TIMEOUT timers, <<id, request that armed it>>
    conn,    \* client: the state of each request's ClientConnection
    salloc,  \* server m_allocator: the request whose CREATE made the stream
    swait,   \* server m_server_wait_connection
    relay,   \* server: the state of the id's ServerToNetConnection
    c2s, s2c,     \* packets in flight in each direction
    cmux, smux    \* the two ConnectionProxy objects

vars == <<alloc, wait, timers, conn, salloc, swait, relay, c2s, s2c, cmux, smux>>
clientVars == <<alloc, wait, timers, conn, cmux>>
serverVars == <<salloc, swait, relay, smux>>

Ops == {"CREATE", "ACCEPT", "REJECT", "CLOSE", "FORWARD"}
Packet == [op : Ops, id : Ids, req : Reqs]
Pkt(op, id, r) == [op |-> op, id |-> id, req |-> r]

\* The ClientConnection of a request: not yet dispatched; connect() pending;
\* connect callback 0 received and netAccept running; start_relay() done;
\* connect callback -1 received; deleted.
ConnStates == {"idle", "waiting", "accepted", "relaying", "failed", "closed"}
Open == {"waiting", "accepted", "relaying", "failed"}

\* The ServerToNetConnection of an id: none; connectTo() pending; connectTo()
\* failed; "connect" event seen (m_connected) and start_relay() done.
RelayStates == {"none", "connecting", "refused", "relaying"}
Unconnected == {"connecting", "refused"}

MuxStates == {"up", "closing", "closed", "aborted"}

TypeOK ==
    /\ alloc \in [Ids -> Reqs \cup {NoReq}]
    /\ wait \in [Ids -> Reqs \cup {NoReq}]
    /\ timers \subseteq Ids \X Reqs
    /\ conn \in [Reqs -> ConnStates]
    /\ salloc \in [Ids -> Reqs \cup {NoReq}]
    /\ swait \subseteq Ids
    /\ relay \in [Ids -> RelayStates]
    /\ c2s \in Seq(Packet)
    /\ s2c \in Seq(Packet)
    /\ cmux \in MuxStates \ {"aborted"}
    /\ smux \in MuxStates

Init ==
    /\ alloc = [id \in Ids |-> NoReq]
    /\ wait = [id \in Ids |-> NoReq]
    /\ timers = {}
    /\ conn = [r \in Reqs |-> "idle"]
    /\ salloc = [id \in Ids |-> NoReq]
    /\ swait = {}
    /\ relay = [id \in Ids |-> "none"]
    /\ c2s = <<>> /\ s2c = <<>>
    /\ cmux = "up" /\ smux = "up"

-----------------------------------------------------------------------------
(* The client end *)

Allocated == {id \in Ids : alloc[id] # NoReq}

\* __full(), which Server::dispatch_proxy asks before it picks this multiplexer.
Full == Cardinality(Allocated) >= FullAt

\* Variant for the property tests: connect() without its timer.
ConnectWithoutTimer(r, id) ==
    /\ cmux = "up" /\ ~Full
    /\ conn[r] = "idle"
    /\ alloc[id] = NoReq
    /\ alloc' = [alloc EXCEPT ![id] = r]
    /\ wait' = [wait EXCEPT ![id] = r]
    /\ conn' = [conn EXCEPT ![r] = "waiting"]
    /\ c2s' = Append(c2s, Pkt("CREATE", id, r))
    /\ UNCHANGED <<timers, serverVars, s2c, cmux>>

\* ClientConnection::__connect: createStreamID, then connect(): the callback is
\* stored under the id, CREATE is written and the timer is armed for the id.
Connect(r, id) ==
    /\ cmux = "up" /\ ~Full
    /\ conn[r] = "idle"
    /\ alloc[id] = NoReq
    /\ alloc' = [alloc EXCEPT ![id] = r]
    /\ wait' = [wait EXCEPT ![id] = r]
    /\ timers' = timers \cup {<<id, r>>}
    /\ conn' = [conn EXCEPT ![r] = "waiting"]
    /\ c2s' = Append(c2s, Pkt("CREATE", id, r))
    /\ UNCHANGED <<serverVars, s2c, cmux>>

\* Variant: the callback runs but its entry stays.
AnswerKeepingEntry(id, result) ==
    /\ conn' = [conn EXCEPT ![wait[id]] = result]
    /\ UNCHANGED wait

\* The entry of an id leaves m_client_wait_connection and its callback runs: with
\* 0 the "connect" event makes the SOCKS5 side answer, with -1 the "error" event
\* finds no listener, since only start_relay registers one.
Answer(id, result) ==
    /\ wait' = [wait EXCEPT ![id] = NoReq]
    /\ conn' = [conn EXCEPT ![wait[id]] = result]

\* new_connection_timeout_callback: the timer knows only the id.
Timeout(id, r) ==
    /\ cmux = "up"
    /\ <<id, r>> \in timers
    /\ timers' = timers \ {<<id, r>>}
    /\ IF wait[id] = NoReq THEN UNCHANGED <<wait, conn>> ELSE Answer(id, "failed")
    /\ UNCHANGED <<alloc, serverVars, c2s, s2c, cmux>>

\* Variants: closeStream that forgets the pending callback, or the other end.
CloseKeepingCallback(id) ==
    /\ alloc' = [alloc EXCEPT ![id] = NoReq]
    /\ conn' = [conn EXCEPT ![alloc[id]] = "closed"]
    /\ c2s' = Append(c2s, Pkt("CLOSE", id, alloc[id]))
    /\ UNCHANGED wait

CloseSilently(id) ==
    /\ alloc' = [alloc EXCEPT ![id] = NoReq]
    /\ wait' = [wait EXCEPT ![id] = NoReq]
    /\ conn' = [conn EXCEPT ![alloc[id]] = "closed"]
    /\ UNCHANGED c2s

\* closeStream at the client, from the destructor of the ClientConnection's
\* stream: a pending callback is dropped with -1, CLOSE is written, the id is free.
ClientCloseStream(id) ==
    /\ alloc' = [alloc EXCEPT ![id] = NoReq]
    /\ wait' = [wait EXCEPT ![id] = NoReq]
    /\ conn' = [conn EXCEPT ![alloc[id]] = "closed"]
    /\ c2s' = Append(c2s, Pkt("CLOSE", id, alloc[id]))

\* The SOCKS5 peer goes away (Socks5Auth::close_this_with_error, or the "error"
\* or second "end" event of a running relay): ClientConnection::close.
AppClose(id) ==
    /\ cmux = "up"
    /\ alloc[id] # NoReq
    /\ ClientCloseStream(id)
    /\ UNCHANGED <<timers, serverVars, s2c, cmux>>

\* The SOCKS5 reply is written: socks5Transfer, ClientConnection::run and
\* start_relay, which registers the listeners and sends START_READ.
StartRelay(id) ==
    /\ cmux = "up"
    /\ alloc[id] # NoReq
    /\ conn[alloc[id]] = "accepted"
    /\ conn' = [conn EXCEPT ![alloc[id]] = "relaying"]
    /\ c2s' = Append(c2s, Pkt("FORWARD", id, alloc[id]))
    /\ UNCHANGED <<alloc, wait, timers, serverVars, s2c, cmux>>

\* The relay writes to, ends, starts or stops the stream.
ClientForward(id) ==
    /\ cmux = "up"
    /\ alloc[id] # NoReq
    /\ conn[alloc[id]] = "relaying"
    /\ Len(c2s) < Window
    /\ c2s' = Append(c2s, Pkt("FORWARD", id, alloc[id]))
    /\ UNCHANGED <<clientVars, serverVars, s2c>>

\* ACCEPT_CONNECTION and REJECT_CONNECTION look only at the id.
ClientAnswered(id, result) ==
    /\ IF wait[id] = NoReq THEN UNCHANGED <<wait, conn>> ELSE Answer(id, result)
    /\ UNCHANGED <<alloc, timers, c2s>>

\* CLOSE_CONNECTION raises "error": a running relay closes, and so its stream;
\* without listeners nothing happens.
ClientClosed(id) ==
    /\ IF alloc[id] # NoReq /\ conn[alloc[id]] = "relaying"
       THEN ClientCloseStream(id)
       ELSE UNCHANGED <<alloc, wait, conn, c2s>>
    /\ UNCHANGED timers

\* dispatch_data at the client, one packet.
ClientReceive ==
    /\ cmux = "up"
    /\ s2c # <<>>
    /\ s2c' = Tail(s2c)
    /\ LET p == Head(s2c) IN
       \/ p.op = "ACCEPT" /\ ClientAnswered(p.id, "accepted")
       \/ p.op = "REJECT" /\ ClientAnswered(p.id, "failed")
       \/ p.op = "CLOSE" /\ ClientClosed(p.id)
       \/ p.op = "FORWARD" /\ UNCHANGED <<alloc, wait, timers, conn, c2s>>
    /\ UNCHANGED <<serverVars, cmux>>

-----------------------------------------------------------------------------
(* The server end *)

\* closeStream at the server, from the destructor of the relay's stream.
ServerCloseStream(id) ==
    /\ salloc' = [salloc EXCEPT ![id] = NoReq]
    /\ relay' = [relay EXCEPT ![id] = "none"]

\* create_new_connection for an id in use: the sender is rejected, and the stream
\* which holds the id sees "error", so a running relay closes and sends CLOSE.
CreateInUse(p) ==
    /\ salloc[p.id] # NoReq
    /\ IF relay[p.id] = "relaying"
       THEN /\ ServerCloseStream(p.id)
            /\ s2c' = s2c \o <<Pkt("REJECT", p.id, p.req), Pkt("CLOSE", p.id, salloc[p.id])>>
       ELSE /\ s2c' = Append(s2c, Pkt("REJECT", p.id, p.req))
            /\ UNCHANGED <<salloc, relay>>
    /\ UNCHANGED <<swait, smux>>

\* create_new_connection for a free id: the id is locked for the new stream, enters
\* m_server_wait_connection, and the ServerToNetConnection starts to connect.
CreateNew(p) ==
    /\ salloc[p.id] = NoReq
    /\ p.req \notin ShortNames
    /\ salloc' = [salloc EXCEPT ![p.id] = p.req]
    /\ swait' = swait \cup {p.id}
    /\ relay' = [relay EXCEPT ![p.id] = "connecting"]
    /\ UNCHANGED <<s2c, smux>>

\* Variant: a build without assertions leaves the null entry in m_allocator.
CreateNullEntry(p) ==
    /\ salloc[p.id] = NoReq
    /\ p.req \in ShortNames
    /\ salloc' = [salloc EXCEPT ![p.id] = "null"]
    /\ UNCHANGED <<swait, relay, smux, s2c>>

\* A request under four bytes: reject_connection is given m_allocator[nid], a null
\* id, and send_zero_packet asserts that it is not null.  The process is gone.
CreateTooShort(p) ==
    /\ salloc[p.id] = NoReq
    /\ p.req \in ShortNames
    /\ smux' = "aborted"
    /\ salloc' = [id \in Ids |-> NoReq]
    /\ swait' = {}
    /\ relay' = [id \in Ids |-> "none"]
    /\ UNCHANGED s2c

\* CLOSE_CONNECTION raises "error": only a running relay listens.
ServerClosed(id) ==
    /\ IF relay[id] = "relaying"
       THEN /\ ServerCloseStream(id)
            /\ s2c' = Append(s2c, Pkt("CLOSE", id, salloc[id]))
       ELSE UNCHANGED <<salloc, relay, s2c>>
    /\ UNCHANGED <<swait, smux>>

\* dispatch_data at the server, one packet.
ServerReceive ==
    /\ smux = "up"
    /\ c2s # <<>>
    /\ c2s' = Tail(c2s)
    /\ LET p == Head(c2s) IN
       \/ p.op = "CREATE" /\ (CreateInUse(p) \/ CreateNew(p) \/ CreateTooShort(p))
       \/ p.op = "CLOSE" /\ ServerClosed(p.id)
       \/ p.op = "FORWARD" /\ UNCHANGED <<serverVars, s2c>>
    /\ UNCHANGED clientVars

\* Variant: start_relay before CreateConnectionSuccess.
RelayThenAccept(id) ==
    /\ smux = "up"
    /\ relay[id] = "connecting"
    /\ relay' = [relay EXCEPT ![id] = "relaying"]
    /\ swait' = swait \ {id}
    /\ s2c' = s2c \o <<Pkt("FORWARD", id, salloc[id]), Pkt("ACCEPT", id, salloc[id])>>
    /\ UNCHANGED <<clientVars, salloc, c2s, smux>>

\* The target accepts: connect_listener, CreateConnectionSuccess and start_relay,
\* which sends START_READ.
TargetConnected(id) ==
    /\ smux = "up"
    /\ relay[id] = "connecting"
    /\ relay' = [relay EXCEPT ![id] = "relaying"]
    /\ swait' = swait \ {id}
    /\ s2c' = s2c \o <<Pkt("ACCEPT", id, salloc[id]), Pkt("FORWARD", id, salloc[id])>>
    /\ UNCHANGED <<clientVars, salloc, c2s, smux>>

\* The target refuses: "error" before start_relay, and nobody listens.
TargetRefused(id) ==
    /\ smux = "up"
    /\ relay[id] = "connecting"
    /\ relay' = [relay EXCEPT ![id] = "refused"]
    /\ UNCHANGED <<clientVars, salloc, swait, c2s, s2c, smux>>

\* A running relay closes: ServerToNetConnection::close when m_connected.
RelayClose(id) ==
    /\ smux = "up"
    /\ relay[id] = "relaying"
    /\ ServerCloseStream(id)
    /\ s2c' = Append(s2c, Pkt("CLOSE", id, salloc[id]))
    /\ UNCHANGED <<clientVars, swait, c2s, smux>>

\* A running relay forwards to the client without waiting for its START_READ.
ServerForward(id) ==
    /\ smux = "up"
    /\ relay[id] = "relaying"
    /\ Len(s2c) < Window
    /\ s2c' = Append(s2c, Pkt("FORWARD", id, salloc[id]))
    /\ UNCHANGED <<clientVars, serverVars, c2s>>

-----------------------------------------------------------------------------
(* The end of the connection.  ConnectionProxy::close and                   *)
(* ClientConnectionProxy::close loop over the relays in the order of a set  *)
(* of pointers: one step for each.  When the TLS connection goes, what is   *)
(* in flight may be cut at any point.                                       *)

Truncations(s) == {SubSeq(s, 1, n) : n \in 0 .. Len(s)}

\* A read error, a failed write, an undecodable packet, or the peer's FIN.
ClientFails ==
    /\ cmux = "up"
    /\ cmux' = "closing"
    /\ UNCHANGED <<alloc, wait, timers, conn, serverVars, c2s, s2c>>

ClientSeesEnd ==
    /\ smux \in {"closed", "aborted"} /\ s2c = <<>>
    /\ ClientFails

ClientClosesOne(id) ==
    /\ cmux = "closing"
    /\ alloc[id] # NoReq
    /\ ClientCloseStream(id)
    /\ UNCHANGED <<timers, serverVars, s2c, cmux>>

\* Variant: close() without its loop over the relays.
GoneWithoutLoop ==
    /\ cmux = "closing"
    /\ cmux' = "closed"
    /\ timers' = {}
    /\ c2s' \in Truncations(c2s)
    /\ UNCHANGED <<alloc, wait, conn, serverVars, s2c>>

\* remove_proxy deletes the object: the callbacks of its timers can no longer run.
ClientGone ==
    /\ cmux = "closing"
    /\ Allocated = {}
    /\ cmux' = "closed"
    /\ timers' = {}
    /\ c2s' \in Truncations(c2s)
    /\ UNCHANGED <<alloc, wait, conn, serverVars, s2c>>

ServerFails ==
    /\ smux = "up"
    /\ smux' = "closing"
    /\ UNCHANGED <<salloc, swait, relay, clientVars, c2s, s2c>>

\* Variant: end_signal that does not close.
EndIgnored == cmux = "closed" /\ c2s = <<>> /\ UNCHANGED vars

ServerSeesEnd ==
    /\ cmux = "closed" /\ c2s = <<>>
    /\ ServerFails

\* Variant: close() that does not fail the unconnected relay.
ClosesOneWithoutFail(id) ==
    /\ smux = "closing"
    /\ salloc[id] # NoReq
    /\ ServerCloseStream(id)
    /\ s2c' = Append(s2c, Pkt("CLOSE", id, salloc[id]))
    /\ UNCHANGED <<clientVars, swait, c2s, smux>>

\* ServerToNetConnection::close: CreateConnectionFail first when not connected.
ServerClosesOne(id) ==
    /\ smux = "closing"
    /\ salloc[id] # NoReq
    /\ ServerCloseStream(id)
    /\ swait' = swait \ {id}
    /\ LET reject == Pkt("REJECT", id, salloc[id])
           close == Pkt("CLOSE", id, salloc[id])
       IN  s2c' = s2c \o IF relay[id] = "relaying" THEN <<close>> ELSE <<reject, close>>
    /\ UNCHANGED <<clientVars, c2s, smux>>

ServerGone ==
    /\ smux = "closing"
    /\ \A id \in Ids : salloc[id] = NoReq
    /\ smux' = "closed"
    /\ s2c' \in Truncations(s2c)
    /\ UNCHANGED <<salloc, swait, relay, clientVars, c2s>>

-----------------------------------------------------------------------------
ClientStep ==
    \/ \E r \in Reqs, id \in Ids : Connect(r, id) \/ Timeout(id, r)
    \/ \E id \in Ids : AppClose(id) \/ StartRelay(id) \/ ClientForward(id)
    \/ ClientReceive

ServerStep ==
    \/ \E id \in Ids : TargetConnected(id) \/ TargetRefused(id)
    \/ \E id \in Ids : RelayClose(id) \/ ServerForward(id)
    \/ ServerReceive

EndStep ==
    \/ ClientFails \/ ClientSeesEnd \/ ClientGone
    \/ ServerFails \/ ServerSeesEnd \/ ServerGone
    \/ \E id \in Ids : ClientClosesOne(id) \/ ServerClosesOne(id)

Next == ClientStep \/ ServerStep \/ EndStep

Spec == Init /\ [][Next]_vars

\* libuv runs every timer that is due and reads what arrives, and a close() once
\* begun runs to its end: each is one callback of the event loop.
Fairness ==
    /\ \A r \in Reqs, id \in Ids : WF_vars(Timeout(id, r))
    /\ WF_vars(ClientReceive) /\ WF_vars(ServerReceive)
    /\ WF_vars(ClientSeesEnd) /\ WF_vars(ServerSeesEnd)
    /\ \A id \in Ids : WF_vars(ClientClosesOne(id)) /\ WF_vars(ServerClosesOne(id))
    /\ WF_vars(ClientGone) /\ WF_vars(ServerGone)

FairSpec == Spec /\ Fairness

-----------------------------------------------------------------------------
(* Properties *)

\* A callback is stored under an id exactly while the ClientConnection that holds
\* the id waits for it: so connect() never finds an entry under the id it was
\* given (StreamProvider_KProxyMultiplexer.cpp:134), no callback outlives its
\* stream, and no waiting request has lost its callback.
CallbackHeldWhileWaiting ==
    /\ \A id \in Ids : wait[id] # NoReq => alloc[id] = wait[id] /\ conn[wait[id]] = "waiting"
    /\ \A r \in Reqs : conn[r] = "waiting" => \E id \in Ids : wait[id] = r

\* At the server an id is in m_server_wait_connection exactly while its relay is not
\* connected: so the assertions of CreateConnectionSuccess and CreateConnectionFail
\* ("FIXME assert false") hold whenever these are called, and closeStream, which has
\* by then erased the id from m_allocator, never calls CreateConnectionFail.
ServerWaitsWhileUnconnected ==
    /\ \A id \in Ids : id \in swait <=> relay[id] \in Unconnected
    /\ \A id \in Ids : salloc[id] = NoReq <=> relay[id] = "none"

\* What the server relays for a request reaches the client after the answer to its
\* CREATE: a stream that still waits never has relayed packets of its own in front.
NoDataBeforeAnswer ==
    s2c # <<>> /\ Head(s2c).op = "FORWARD" => conn[Head(s2c).req] # "waiting"

\* On the way to the server an id changes hands only behind the CLOSE of its previous
\* holder: the server never sees packets of two requests on one id without it.
ReuseFollowsClose ==
    \A j, k \in DOMAIN c2s :
        /\ j < k
        /\ c2s[j].id = c2s[k].id
        /\ c2s[j].req # c2s[k].req
        => \E m \in j .. k - 1 : c2s[m] = Pkt("CLOSE", c2s[j].id, c2s[j].req)

\* When an end is gone, so is everything that hung on it: no request is left open
\* or with a callback, no id reserved or waiting at the server.
NothingLeftBehind ==
    /\ cmux = "closed" => /\ \A r \in Reqs : conn[r] \notin Open
                          /\ \A id \in Ids : wait[id] = NoReq
                          /\ timers = {}
    /\ smux \in {"closed", "aborted"} => /\ swait = {}
                                         /\ \A id \in Ids : relay[id] = "none"

\* The provider implements what connect() promises.
CR == INSTANCE ConnectRequests WITH
        pending <- {r \in Reqs : \E id \in Ids : wait[id] = r},
        outcome <- [r \in Reqs |->
                      CASE conn[r] \in {"idle", "waiting"} -> "none"
                        [] conn[r] \in {"accepted", "relaying"} -> "ok"
                        [] conn[r] = "failed" -> "failed"
                        [] conn[r] = "closed" -> "dropped"]

\* Every connect() is resolved exactly once and none stays pending for ever.
ImplementsConnectRequests == CR!AbsSpec

\* When one end of the connection is gone the other end goes too.
BothEndsGo ==
    /\ cmux = "closed" ~> smux \in {"closed", "aborted"}
    /\ smux \in {"closed", "aborted"} ~> cmux = "closed"

\* kpacket.h:33 says of ACCEPT_CONNECTION "accept request of new connection", and
\* config.h:19 of the timer "timeout for a new proxy connection": a request is answered
\* by the reply to its own CREATE or by the timer its own connect() armed.
AnsweredByItsOwn ==
    [][\A r \in Reqs : conn[r] = "waiting" /\ conn'[r] \in {"accepted", "failed"} =>
          \/ s2c' # s2c /\ Head(s2c).req = r
          \/ \E id \in Ids : <<id, r>> \in timers \ timers']_vars
==============================================================================
