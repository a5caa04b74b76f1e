---------------------------- MODULE ClientSessions ----------------------------
(***************************************************************************)
(* The objects of the SOCKS5 server that hula runs at the client, and the  *)
(* pointers between them.                                                  *)
(*                                                                         *)
(* lib/kclient_server.cpp owns three kinds of objects: a Socks5Auth for    *)
(* each application connection (lib/kclient_socks5.cpp), a                 *)
(* ClientConnection for each request it made                               *)
(* (lib/kclient_clientproxy.cpp), and the ConnectionProxy multiplexers     *)
(* that carry them (lib/kclient_multiplexer.cpp).  They delete one another *)
(* from callbacks, in any order the network chooses.  m_auths pairs a      *)
(* Socks5Auth with the ClientConnection that works for it.                 *)
(*                                                                         *)
(* Which packets a multiplexer exchanges is the matter of KProxyMux; here  *)
(* a stream is answered or not.  The server chosen for a new multiplexer   *)
(* does not matter: counter is the sum over the listed servers.  Server::dispatch_base_on_addr returns     *)
(* after dispatch_proxy: RelayConnection is never created.                 *)
(***************************************************************************)
EXTENDS Naturals, FiniteSets

CONSTANTS
    Apps,    \* application connections, and the Socks5Auth of each
    Muxes,   \* the ConnectionProxy objects that may be made
    None,    \* a null pointer
    FullAt   \* the streams at which a multiplexer is full

\* __full() compares with half of SINGLE_MULTIPLEXER_MAX_CONNECTION: 32.
ASSUME SessionsAssumption ==
    /\ None \notin Apps \cup Muxes
    /\ IsFiniteSet(Muxes)
    /\ FullAt \in Nat \ {0}

VARIABLES
    server,  \* "up", "closed" by Server::close, "aborted" by an assertion
    listed,  \* m_config->Servers() is not empty
    auth,    \* m_state of each Socks5Auth; "handed" once its stream is transferred
    reply,   \* the SOCKS5 reply that __send_reply was asked to write
    auths,   \* m_auths: the applications whose two objects are paired
    conn,    \* what the ClientConnection of each application waits for
    knows,   \* the ClientConnections whose m_socks5 is not null
    via,     \* mp_proxy of each ClientConnection
    mux,     \* m_state of each ConnectionProxy
    cb,      \* m_connect_cb: the application whose ClientConnection gave it
    counter  \* m_current_connection: the multiplexers counted at the remote server

muxVars == <<mux, cb, counter>>
connVars == <<auths, conn, knows, via>>
sessionVars == <<auth, reply>>
vars == <<server, listed, sessionVars, connVars, muxVars>>

\* The stages of a Socks5Auth that still reads the application's stream.
Reading == {"INIT", "ID", "METHOD", "FINISH"}
\* "tunnel": connectToServer pending; "stream": connectTo pending; "failed": connectTo has
\* failed; "accepted": netAccept called; "relaying": run().
Live == {"tunnel", "stream", "failed", "accepted", "relaying"}
Streams == Live \ {"tunnel"}
MuxLive == {"CONNECTING", "AUTH", "WAIT_AUTH_REPLY", "BUILD"}

TypeOK ==
    /\ server \in {"up", "closed", "aborted"}
    /\ listed \in BOOLEAN
    /\ auth \in [Apps -> {"none", "handed", "gone"} \cup Reading]
    /\ reply \in [Apps -> {"none", "accept", "reject"}]
    /\ auths \subseteq Apps
    /\ conn \in [Apps -> {"none", "gone"} \cup Live]
    /\ knows \subseteq Apps
    /\ via \in [Apps -> Muxes \cup {None}]
    /\ mux \in [Muxes -> {"none", "gone"} \cup MuxLive]
    /\ cb \in [Muxes -> Apps \cup {None}]
    /\ counter \in Nat

Init ==
    /\ server = "up"
    /\ listed \in BOOLEAN
    /\ auth = [a \in Apps |-> "none"]
    /\ reply = [a \in Apps |-> "none"]
    /\ auths = {}
    /\ conn = [a \in Apps |-> "none"]
    /\ knows = {}
    /\ via = [a \in Apps |-> None]
    /\ mux = [m \in Muxes |-> "none"]
    /\ cb = [m \in Muxes |-> None]
    /\ counter = 0

-----------------------------------------------------------------------------
(* Deleting objects *)

\* Variant for the property tests: the pair stays in m_auths.
RemoveKeepingPair(apps) ==
    /\ conn' = [a \in Apps |-> IF a \in apps THEN "gone" ELSE conn[a]]
    /\ knows' = knows \ apps
    /\ UNCHANGED <<auths, via>>

\* ClientConnection::close of these, through remove_clientConnection and
\* remove_socks5_handler: the object leaves its multiplexer, m_auths and the server.
Remove(apps) ==
    /\ conn' = [a \in Apps |-> IF a \in apps THEN "gone" ELSE conn[a]]
    /\ auths' = auths \ apps
    /\ knows' = knows \ apps
    /\ UNCHANGED via

\* Variant: only the Socks5Auth is deleted.
CloseLeavingHandler(a) ==
    /\ auth' = [auth EXCEPT ![a] = "gone"]
    /\ UNCHANGED <<reply, connVars>>

\* close_this_with_error: the Socks5Auth is deleted, then the ClientConnection that
\* m_auths paired with it, when there is one, is closed.
CloseWithError(a) ==
    /\ auth' = [auth EXCEPT ![a] = "gone"]
    /\ Remove({a} \cap auths)
    /\ UNCHANGED reply

-----------------------------------------------------------------------------
(* The SOCKS5 session *)

\* Server::on_connection.
Accept(a) ==
    /\ server = "up"
    /\ auth[a] = "none"
    /\ auth' = [auth EXCEPT ![a] = "INIT"]
    /\ UNCHANGED <<server, listed, reply, connVars, muxVars>>

\* dispatch_data on the hello: a method without authentication skips SOCKS5_ID.
Hello(a) ==
    /\ server = "up"
    /\ auth[a] = "INIT"
    /\ \E next \in {"ID", "METHOD"} : auth' = [auth EXCEPT ![a] = next]
    /\ UNCHANGED <<server, listed, reply, connVars, muxVars>>

\* dispatch_data on the user name and password; a wrong pair leaves SOCKS5_ID.
AuthUser(a) ==
    /\ server = "up"
    /\ auth[a] = "ID"
    /\ auth' = [auth EXCEPT ![a] = "METHOD"]
    /\ UNCHANGED <<server, listed, reply, connVars, muxVars>>

\* The application closes, its stream fails, a reply cannot be written, or a message of
\* the handshake is not acceptable.
AppGone(a) ==
    /\ server = "up"
    /\ auth[a] \in Reading
    /\ CloseWithError(a)
    /\ UNCHANGED <<server, listed, muxVars>>

\* dispatch_data in SOCKS5_FINISH asserts false: the session reads until its reply is
\* written, and the application sent more than the request.
EarlyData(a) ==
    /\ server = "up"
    /\ auth[a] = "FINISH"
    /\ server' = "aborted"
    /\ UNCHANGED <<listed, sessionVars, connVars, muxVars>>

-----------------------------------------------------------------------------
(* Server::dispatch_proxy *)

\* getConnectionNumbers: the ids its provider holds; a failed stream keeps its own.
StreamsOf(m) == {a \in Apps : via[a] = m /\ conn[a] \in Streams}
Numbers(m) == Cardinality(StreamsOf(m))

\* Variant: dispatch_proxy does not ask full().
UsableEvenFull == {m \in Muxes : mux[m] = "BUILD"}

Usable == {m \in Muxes : mux[m] = "BUILD" /\ Numbers(m) < FullAt}

\* The ClientConnection made for the request; it registers at m.
NewHandler(a, m, state) ==
    /\ auth' = [auth EXCEPT ![a] = "FINISH"]
    /\ auths' = auths \cup {a}
    /\ knows' = knows \cup {a}
    /\ via' = [via EXCEPT ![a] = m]
    /\ conn' = [conn EXCEPT ![a] = state]
    /\ UNCHANGED reply

\* The usable multiplexer with the fewest streams takes it, and __connect asks it for one.
RequestStream(a) ==
    /\ server = "up"
    /\ auth[a] = "METHOD"
    /\ \E m \in Usable :
          /\ \A other \in Usable : Numbers(m) <= Numbers(other)
          /\ NewHandler(a, m, "stream")
    /\ UNCHANGED <<server, listed, muxVars>>

\* None is usable: a new multiplexer, even while others are connecting.
RequestTunnel(a) ==
    /\ server = "up"
    /\ auth[a] = "METHOD"
    /\ Usable = {} /\ listed
    /\ \E m \in Muxes :
          /\ mux[m] = "none"
          /\ NewHandler(a, m, "tunnel")
          /\ mux' = [mux EXCEPT ![m] = "CONNECTING"]
          /\ cb' = [cb EXCEPT ![m] = a]
    /\ counter' = counter + 1
    /\ UNCHANGED <<server, listed>>

\* None is usable and no server is listed: netReject.
RequestRejected(a) ==
    /\ server = "up"
    /\ auth[a] = "METHOD"
    /\ Usable = {} /\ ~listed
    /\ auth' = [auth EXCEPT ![a] = "FINISH"]
    /\ reply' = [reply EXCEPT ![a] = "reject"]
    /\ UNCHANGED <<server, listed, connVars, muxVars>>

-----------------------------------------------------------------------------
(* The multiplexers *)

\* connect_to_remote_server_callback with success, then send_authentication_info.
MuxConnected(m) ==
    /\ server = "up"
    /\ mux[m] = "CONNECTING"
    /\ mux' = [mux EXCEPT ![m] = "AUTH"]
    /\ UNCHANGED <<server, listed, sessionVars, connVars, cb, counter>>

\* on_authentication_write with success.
AuthWritten(m) ==
    /\ server = "up"
    /\ mux[m] = "AUTH"
    /\ mux' = [mux EXCEPT ![m] = "WAIT_AUTH_REPLY"]
    /\ UNCHANGED <<server, listed, sessionVars, connVars, cb, counter>>

\* authenticate with success: m_connect_cb runs, and does nothing when the
\* ClientConnection that gave it is deleted (CanRun), else __connect asks for a stream.
AuthReply(m) ==
    /\ server = "up"
    /\ mux[m] = "WAIT_AUTH_REPLY"
    /\ mux' = [mux EXCEPT ![m] = "BUILD"]
    /\ cb' = [cb EXCEPT ![m] = None]
    /\ conn' = [a \in Apps |-> IF cb[m] = a /\ conn[a] = "tunnel" THEN "stream" ELSE conn[a]]
    /\ UNCHANGED <<server, listed, sessionVars, auths, knows, via, counter>>

\* Variant: m_proxyrelays holds only the ClientConnections that have a stream.
HandlersWithStream(m) == {a \in Apps : via[a] = m /\ conn[a] \in Streams}

\* m_proxyrelays of a multiplexer.
HandlersOf(m) == {a \in Apps : via[a] = m /\ conn[a] \in Live}

\* Variants: decrease() is forgotten, or called by close() and the destructor.
DecreaseForgotten(n) == UNCHANGED counter
DecreaseTwice(n) == counter' = counter - 2 * n

Decrease(n) == counter' = counter - n

LiveMuxes == {m \in Muxes : mux[m] \in MuxLive}

\* Every failure ends in ConnectionProxy::close: the connect or the write fails, the
\* stream ends, the credentials are too long or refused, a packet is malformed, data
\* arrives before the authentication is written.  The ClientConnections are closed before
\* ~ConnectionProxy calls m_connect_cb(-1), so that call finds CanRun() false.
MuxFails(m) ==
    /\ server = "up"
    /\ mux[m] \in MuxLive
    /\ mux' = [mux EXCEPT ![m] = "gone"]
    /\ cb' = [cb EXCEPT ![m] = None]
    /\ Decrease(1)
    /\ Remove(HandlersOf(m))
    /\ UNCHANGED <<server, listed, sessionVars>>

-----------------------------------------------------------------------------
(* The answer, and the relay *)

\* Variant: m_socks5 is not cleared.
ConnectSucceedsKeepingSession(a) ==
    /\ server = "up"
    /\ conn[a] = "stream"
    /\ conn' = [conn EXCEPT ![a] = "accepted"]
    /\ reply' = [reply EXCEPT ![a] = "accept"]
    /\ UNCHANGED <<server, listed, auth, auths, knows, via, muxVars>>

\* The "connect" event: connect_listener clears m_socks5 and calls netAccept.
ConnectSucceeds(a) ==
    /\ server = "up"
    /\ conn[a] = "stream"
    /\ conn' = [conn EXCEPT ![a] = "accepted"]
    /\ knows' = knows \ {a}
    /\ reply' = [reply EXCEPT ![a] = "accept"]
    /\ UNCHANGED <<server, listed, auth, auths, via, muxVars>>

\* The "error" event of a stream that was refused or timed out has no listener.
ConnectFails(a) ==
    /\ server = "up"
    /\ conn[a] = "stream"
    /\ conn' = [conn EXCEPT ![a] = "failed"]
    /\ UNCHANGED <<server, listed, sessionVars, auths, knows, via, muxVars>>

\* write_callback_reply: return_to_server, and socks5Transfer finds the
\* ClientConnection in m_auths, which runs and is erased from there.
HandOver(a) ==
    /\ server = "up"
    /\ auth[a] = "FINISH" /\ reply[a] = "accept"
    /\ a \in auths
    /\ auth' = [auth EXCEPT ![a] = "handed"]
    /\ conn' = [conn EXCEPT ![a] = "relaying"]
    /\ auths' = auths \ {a}
    /\ UNCHANGED <<server, listed, reply, knows, via, muxVars>>

\* The ClientConnection was closed while the reply was written: the Socks5Auth is closed.
HandOverTooLate(a) ==
    /\ server = "up"
    /\ auth[a] = "FINISH" /\ reply[a] = "accept"
    /\ a \notin auths
    /\ auth' = [auth EXCEPT ![a] = "gone"]
    /\ UNCHANGED <<server, listed, reply, connVars, muxVars>>

\* Variant: a session that was rejected is left open.
ReplyKeepsRejected(a) ==
    /\ server = "up"
    /\ auth[a] = "FINISH" /\ reply[a] = "accept"
    /\ CloseWithError(a)
    /\ UNCHANGED <<server, listed, muxVars>>

\* write_callback_reply after a rejection, or with bytes left behind the request.
ReplyEndsSession(a) ==
    /\ server = "up"
    /\ auth[a] = "FINISH" /\ reply[a] # "none"
    /\ CloseWithError(a)
    /\ UNCHANGED <<server, listed, muxVars>>

\* StreamRelay calls ClientConnection::__close, which rejects the session it still knows.
RelayEnds(a) ==
    /\ server = "up"
    /\ conn[a] = "relaying"
    /\ reply' = IF a \in knows THEN [reply EXCEPT ![a] = "reject"] ELSE reply
    /\ Remove({a})
    /\ UNCHANGED <<server, listed, auth, muxVars>>

-----------------------------------------------------------------------------

\* Server::close: every multiplexer, every ClientConnection left, every Socks5Auth.
ServerClose ==
    /\ server = "up"
    /\ server' = "closed"
    /\ mux' = [m \in Muxes |-> IF m \in LiveMuxes THEN "gone" ELSE mux[m]]
    /\ cb' = [m \in Muxes |-> None]
    /\ Decrease(Cardinality(LiveMuxes))
    /\ Remove({a \in Apps : conn[a] \in Live})
    /\ auth' = [a \in Apps |-> IF auth[a] = "none" THEN "none" ELSE "gone"]
    /\ UNCHANGED <<listed, reply>>

AppNext(a) ==
    \/ Accept(a)
    \/ Hello(a)
    \/ AuthUser(a)
    \/ AppGone(a)
    \/ EarlyData(a)
    \/ RequestStream(a)
    \/ RequestTunnel(a)
    \/ RequestRejected(a)

ConnNext(a) ==
    \/ ConnectSucceeds(a)
    \/ ConnectFails(a)
    \/ HandOver(a)
    \/ HandOverTooLate(a)
    \/ ReplyEndsSession(a)
    \/ RelayEnds(a)

MuxNext(m) ==
    \/ MuxConnected(m)
    \/ AuthWritten(m)
    \/ AuthReply(m)
    \/ MuxFails(m)

Next ==
    \/ \E a \in Apps : AppNext(a) \/ ConnNext(a)
    \/ \E m \in Muxes : MuxNext(m)
    \/ ServerClose

Spec == Init /\ [][Next]_vars

\* The write of a reply completes (libuv always runs its callback).
ReplyWritten(a) == HandOver(a) \/ HandOverTooLate(a) \/ ReplyEndsSession(a)

FairSpec == Spec /\ \A a \in Apps : WF_vars(ReplyWritten(a))

-----------------------------------------------------------------------------
(* Properties *)

\* What m_auths pairs is alive: a Socks5Auth past its request, and a ClientConnection
\* that has not taken its stream.  A stale pair is a dangling pointer in
\* close_this_with_error and in socks5Transfer.
AuthsPairLive ==
    \A a \in auths : auth[a] = "FINISH" /\ conn[a] \in Live \ {"relaying"}

\* m_socks5 of a ClientConnection points to a Socks5Auth that exists and has not been
\* answered, whichever of the two, the multiplexer or the server went first: a netAccept
\* or netReject through it is the first answer.
SessionKnownIsWaiting ==
    \A a \in knows : /\ auth[a] = "FINISH" /\ reply[a] = "none"
                     /\ conn[a] \in {"tunnel", "stream", "failed"}

\* The assertions of ClientConnection::run: when the reply is written, the ClientConnection
\* that m_auths still holds has its stream and no session to answer.
HandOverReady ==
    \A a \in auths : reply[a] # "none" => conn[a] = "accepted" /\ a \notin knows

\* mp_proxy of a ClientConnection is a multiplexer that exists, built when the connection
\* has a stream, and one that will call it back when it has none.
HandlersOfLiveMux ==
    \A a \in Apps : conn[a] \in Live =>
        IF conn[a] = "tunnel"
          THEN mux[via[a]] \in MuxLive \ {"BUILD"} /\ cb[via[a]] = a
          ELSE mux[via[a]] = "BUILD"

\* m_current_connection, which select_remote_serever weighs, counts the multiplexers.
ConnectionsCounted == counter = Cardinality(LiveMuxes)

\* A multiplexer is never given more streams than full() allows, although a stream is
\* only asked for when the tunnel is built.
NeverOverfull == \A m \in Muxes : Numbers(m) <= FullAt

\* A SOCKS5 session is answered once: whatever fails later, no second reply is written
\* into the application's stream.
AnsweredOnce ==
    [][\A a \in Apps : reply[a] # "none" => reply'[a] = reply[a]]_vars

\* A session whose reply was asked for is handed over or closed.
ReplySettles ==
    \A a \in Apps : (reply[a] # "none" /\ server = "up") ~>
                    (auth[a] \in {"handed", "gone"} \/ server # "up")
==============================================================================
