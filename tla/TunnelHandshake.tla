--------------------------- MODULE TunnelHandshake ---------------------------
(***************************************************************************)
(* Both ends of one connection to the server, from the TCP connection to   *)
(* the packets: ConnectionProxy of lib/kclient_multiplexer.cpp and         *)
(* ClientConnectionProxy of lib/kserver_multiplexer.cpp.                   *)
(*                                                                         *)
(* The client writes its user name and password, each behind its length;   *)
(* the server answers two bytes; packets follow.  The server's port also   *)
(* serves browsers: a connection whose first bytes are an HTTP method is   *)
(* handed to the file server.  Nothing delimits these messages, and a read *)
(* callback gets any part of what is in flight: the ends join it to what   *)
(* they held back.                                                         *)
(*                                                                         *)
(* Connections are by TLS; what the packets ask for is the matter of       *)
(* KProxyMux.                                                              *)
(***************************************************************************)
EXTENDS PacketCodec, SequencesExt

CONSTANTS
    Accounts,    \* the users of the server's configuration
    Configured,  \* user names and passwords that a client may be configured with
    Methods,     \* the HTTP methods that match_http_method knows
    Request,     \* what a browser sends
    Sendable,    \* the packets an end may write
    MaxSent      \* bound: how many the two write

Pairs == [user : Seq(Byte), pass : Seq(Byte)]

\* Of the HTTP methods it is assumed that the first letter, read as the length of a user name,
\* announces more bytes than the method has: no part of a method is a whole login.  Of a body,
\* what encode_packet_header asserts: its length fits the 4 bytes.
ASSUME HandshakeAssumption ==
    /\ Accounts \subseteq Pairs /\ Configured \subseteq Pairs
    /\ Methods \subseteq Seq(Byte)
    /\ \A m \in Methods : Len(m) > 2 /\ m[1] + 3 > Len(m)
    /\ Request \in Seq(Byte)
    /\ \E m \in Methods : IsPrefix(m, Request)
    /\ Sendable \subseteq Packets /\ \A p \in Sendable : Len(p.body) < Wide * Wide
    /\ MaxSent \in Nat

VARIABLES
    login,    \* mp_server_info: the name and password of this client
    cstate,   \* m_state of the ConnectionProxy; "browser" when the peer is none
    cheld,    \* the bytes the client has read and not used: both its m_remain
    cgot,     \* the packets it dispatched
    csent,    \* the packets it wrote
    sstate,   \* "none" before on_connection; "http" once handed to the file server
    sheld,    \* the bytes the server has read and not used; all it read when "http"
    sgot,
    ssent,
    c2s,      \* bytes in flight
    s2c

clientVars == <<login, cstate, cheld, cgot, csent>>
serverVars == <<sstate, sheld, sgot, ssent>>
vars == <<clientVars, serverVars, c2s, s2c>>

Accept == <<FF, 0>>
Refuse == <<0, 0>>

LoginMessage(l) == <<Len(l.user)>> \o l.user \o <<Len(l.pass)>> \o l.pass

TypeOK ==
    /\ login \in Configured
    /\ cstate \in {"INITIAL", "CONNECTING", "AUTH", "WAIT_AUTH_REPLY", "BUILD", "CLOSED",
                   "browser"}
    /\ sstate \in {"none", "auth", "serving", "http", "closed"}
    /\ cheld \in Seq(Byte) /\ sheld \in Seq(Byte)
    /\ c2s \in Seq(Byte) /\ s2c \in Seq(Byte)
    /\ cgot \in Seq(Packets) /\ sgot \in Seq(Packets)
    /\ csent \in Seq(Packets) /\ ssent \in Seq(Packets)

Init ==
    /\ login \in Configured
    /\ cstate = "INITIAL" /\ sstate = "none"
    /\ cheld = <<>> /\ sheld = <<>>
    /\ cgot = <<>> /\ sgot = <<>>
    /\ csent = <<>> /\ ssent = <<>>
    /\ c2s = <<>> /\ s2c = <<>>

-----------------------------------------------------------------------------
(* The client.                                                                 *)

\* The destructor calls m_connect_cb(-1) if the tunnel is not built.
CloseClient == cstate' = "CLOSED" /\ cheld' = <<>> /\ UNCHANGED <<login, cgot, csent>>

ConnectToServer ==
    /\ cstate = "INITIAL"
    /\ cstate' = "CONNECTING"
    /\ UNCHANGED <<login, cheld, cgot, csent, serverVars, c2s, s2c>>

\* Variant for the property tests: the lengths are not checked.
ConnectedUnchecked ==
    /\ cstate = "CONNECTING"
    /\ c2s' = LoginMessage(login)
    /\ cstate' = "AUTH"
    /\ UNCHANGED <<login, cheld, cgot, csent, serverVars, s2c>>

\* connect_to_remote_server_callback, status 0, and send_authentication_info.  A length has one
\* byte: it closes when one of the two does not fit.
Connected ==
    /\ cstate = "CONNECTING"
    /\ \/ /\ Len(login.user) < Base /\ Len(login.pass) < Base
          /\ c2s' = LoginMessage(login)
          /\ cstate' = "AUTH"
          /\ UNCHANGED <<login, cheld, cgot, csent>>
       \/ /\ Len(login.user) >= Base \/ Len(login.pass) >= Base
          /\ CloseClient
          /\ UNCHANGED c2s
    /\ UNCHANGED <<serverVars, s2c>>

\* on_authentication_write.
LoginWritten ==
    /\ cstate = "AUTH"
    /\ cstate' = "WAIT_AUTH_REPLY"
    /\ UNCHANGED <<login, cheld, cgot, csent, serverVars, c2s, s2c>>

\* Variant: only the second byte of the answer is compared.
AuthenticateByStatus(buf) ==
    \/ /\ Len(buf) < 2
       /\ cheld' = buf
       /\ UNCHANGED <<login, cstate, cgot, csent>>
    \/ /\ Len(buf) >= 2 /\ buf[2] = 0
       /\ cstate' = "BUILD"
       /\ cheld' = From(buf, 2)
       /\ UNCHANGED <<login, cgot, csent>>

Authenticate(buf) ==
    \/ /\ Len(buf) < 2
       /\ cheld' = buf
       /\ UNCHANGED <<login, cstate, cgot, csent>>
    \/ /\ IsPrefix(Accept, buf)
       /\ cstate' = "BUILD"
       /\ cheld' = From(buf, 2)
       /\ UNCHANGED <<login, cgot, csent>>
    \/ /\ Len(buf) >= 2 /\ ~ IsPrefix(Accept, buf)
       /\ CloseClient

\* prm_read_callback: a bad header drops the packets before it and closes.
ClientDispatch(buf) ==
    LET d == DecodeAll(buf)
    IN  /\ cstate' = IF d.noerror THEN cstate ELSE "CLOSED"
        /\ cheld' = IF d.noerror THEN d.remain ELSE <<>>
        /\ cgot' = IF d.noerror THEN cgot \o d.packets ELSE cgot
        /\ UNCHANGED <<login, csent>>

\* read_callback with the first n bytes in flight.
ClientRead(n) ==
    /\ s2c' = From(s2c, n)
    /\ LET buf == cheld \o SubSeq(s2c, 1, n)
       IN  \/ cstate = "AUTH" /\ CloseClient  \* "server send message first"
           \/ cstate = "WAIT_AUTH_REPLY" /\ Authenticate(buf)
           \/ cstate = "BUILD" /\ ClientDispatch(buf)
    /\ UNCHANGED <<serverVars, c2s>>

\* Streams of the tunnel write packets once it is built.
ClientSends(p) ==
    /\ cstate = "BUILD"
    /\ Len(csent) + Len(ssent) < MaxSent
    /\ csent' = Append(csent, p)
    /\ c2s' = c2s \o Encode(p)
    /\ UNCHANGED <<login, cstate, cheld, cgot, serverVars, s2c>>

\* A connection that is refused or lost, the end of the server's stream, or the close of the
\* multiplexer by its owner.
ClientFails ==
    /\ cstate \notin {"INITIAL", "CLOSED", "browser"}
    /\ CloseClient
    /\ UNCHANGED <<serverVars, c2s, s2c>>

\* The peer is a browser and not a client.
BrowserAsks ==
    /\ cstate = "INITIAL"
    /\ cstate' = "browser"
    /\ c2s' = Request
    /\ UNCHANGED <<login, cheld, cgot, csent, serverVars, s2c>>

-----------------------------------------------------------------------------
(* The server.                                                                 *)

CloseServer == sstate' = "closed" /\ sheld' = <<>> /\ UNCHANGED <<sgot, ssent>>

\* Server::on_connection and start().
OnConnection ==
    /\ sstate = "none"
    /\ cstate \in {"AUTH", "WAIT_AUTH_REPLY", "browser"}
    /\ sstate' = "auth"
    /\ UNCHANGED <<clientVars, sheld, sgot, ssent, c2s, s2c>>

\* Variant: the buffer is compared with the whole method.
MatchWholeBuffer(buf) == buf \in Methods

MatchHttpMethod(buf) == \E m \in Methods : IsPrefix(m, buf)

UserLen(buf) == buf[1]
PassLen(buf) == buf[UserLen(buf) + 2]
LoginSize(buf) == UserLen(buf) + PassLen(buf) + 2

\* Variant: one byte more for the password, too.
LoginAndOneMore(buf) ==
    Len(buf) >= 2 /\ Len(buf) >= UserLen(buf) + 3 /\ Len(buf) > LoginSize(buf)

\* What dispatch_authentication_data waits for.  It reads the password's length only when there
\* is a byte behind it.
WholeLogin(buf) ==
    Len(buf) >= 2 /\ Len(buf) >= UserLen(buf) + 3 /\ Len(buf) >= LoginSize(buf)

ReadLogin(buf) ==
    [user |-> SubSeq(buf, 2, UserLen(buf) + 1),
     pass |-> SubSeq(buf, UserLen(buf) + 3, LoginSize(buf))]

HandToHttp(buf) ==
    /\ Len(buf) >= 2 /\ MatchHttpMethod(buf)
    /\ sstate' = "http"
    /\ sheld' = buf
    /\ UNCHANGED <<sgot, ssent, s2c>>

WaitForMore(buf) ==
    /\ ~ WholeLogin(buf) /\ ~ MatchHttpMethod(buf)
    /\ sheld' = buf
    /\ UNCHANGED <<sstate, sgot, ssent, s2c>>

\* A refused client is closed at once: its answer may or may not be written.
CheckUser(buf) ==
    /\ WholeLogin(buf) /\ ~ MatchHttpMethod(buf)
    /\ \/ /\ ReadLogin(buf) \in Accounts
          /\ sstate' = "serving"
          /\ sheld' = From(buf, LoginSize(buf))
          /\ s2c' = s2c \o Accept
          /\ UNCHANGED <<sgot, ssent>>
       \/ /\ ReadLogin(buf) \notin Accounts
          /\ CloseServer
          /\ s2c' \in {s2c, s2c \o Refuse}

ServerDispatch(buf) ==
    LET d == DecodeAll(buf)
    IN  /\ sstate' = IF d.noerror THEN sstate ELSE "closed"
        /\ sheld' = IF d.noerror THEN d.remain ELSE <<>>
        /\ sgot' = IF d.noerror THEN sgot \o d.packets ELSE sgot
        /\ UNCHANGED <<ssent, s2c>>

ServerRead(n) ==
    /\ c2s' = From(c2s, n)
    /\ LET buf == sheld \o SubSeq(c2s, 1, n)
       IN  \/ sstate = "auth" /\ (HandToHttp(buf) \/ WaitForMore(buf) \/ CheckUser(buf))
           \/ sstate = "serving" /\ ServerDispatch(buf)
    /\ UNCHANGED clientVars

\* Variant: the server writes as soon as it accepts the user.
ServerGreets(p) ==
    /\ sstate = "serving"
    /\ Len(csent) + Len(ssent) < MaxSent
    /\ ssent' = Append(ssent, p)
    /\ s2c' = s2c \o Encode(p)
    /\ UNCHANGED <<clientVars, sstate, sheld, sgot, c2s>>

\* The server's streams are opened by packets: it writes after it dispatched one.
ServerSends(p) ==
    /\ sstate = "serving" /\ sgot # <<>>
    /\ Len(csent) + Len(ssent) < MaxSent
    /\ ssent' = Append(ssent, p)
    /\ s2c' = s2c \o Encode(p)
    /\ UNCHANGED <<clientVars, sstate, sheld, sgot, c2s>>

\* A lost connection, the end of the client's stream, or the end of the HTTP connection.
ServerFails ==
    /\ sstate \in {"auth", "serving", "http"}
    /\ CloseServer
    /\ UNCHANGED <<clientVars, c2s, s2c>>

-----------------------------------------------------------------------------
ClientReads == \E n \in 1 .. Len(s2c) : ClientRead(n)
ServerReads == \E n \in 1 .. Len(c2s) : ServerRead(n)

\* Once the server is gone, and nothing is left to read, the client is told the end.
ClientSeesEnd == sstate = "closed" /\ s2c = <<>> /\ ClientFails

Next ==
    \/ ConnectToServer \/ Connected \/ LoginWritten \/ ClientReads \/ ClientFails
    \/ BrowserAsks
    \/ OnConnection \/ ServerReads \/ ServerFails
    \/ \E p \in Sendable : ClientSends(p) \/ ServerSends(p)

Spec == Init /\ [][Next]_vars

\* The kernel delivers what was sent, and the event loops call the callbacks that are due.
FairSpec ==
    /\ Spec
    /\ WF_vars(Connected) /\ WF_vars(LoginWritten) /\ WF_vars(OnConnection)
    /\ WF_vars(ClientReads) /\ WF_vars(ServerReads) /\ WF_vars(ClientSeesEnd)

-----------------------------------------------------------------------------
Written(packets) == FlattenSeq([i \in DOMAIN packets |-> Encode(packets[i])])

\* However the bytes are cut into reads, an end dispatches the packets that the other wrote,
\* in order, and those it did not dispatch are whole in what it holds and what is in flight:
\* the two m_remain and decode_all_packet neither lose nor repeat a byte, and no end ever
\* reports a packet error.
PacketsInOrder ==
    /\ IsPrefix(sgot, csent) /\ IsPrefix(cgot, ssent)
    /\ cstate = "BUILD" /\ sstate = "serving" =>
          /\ Written(From(csent, Len(sgot))) = sheld \o c2s
          /\ Written(From(ssent, Len(cgot))) = cheld \o s2c
    /\ cstate = "BUILD" => DecodeAll(cheld \o s2c).noerror
    /\ sstate = "serving" => DecodeAll(sheld \o c2s).noerror

\* No whole packet waits in a m_remain for bytes that may never come.  What follows a login or
\* its answer is kept until the next read: so the client must not write a packet before it is
\* accepted, and the server must not write one before it has got one.
NothingHeldBack ==
    /\ sstate = "serving" => ~ Finished(sheld)
    /\ cstate = "BUILD" => ~ Finished(cheld)

\* A tunnel that the client takes for built is one that the server accepted, for a user of its
\* configuration.
BuiltIsServed ==
    cstate = "BUILD" => login \in Accounts /\ sstate \in {"serving", "closed"}

\* The bytes of a browser are never taken for a login and answered as one, however they are
\* cut, and the file server gets all of them: those in the buffer it is given, and then those
\* in flight.
BrowserServed ==
    cstate = "browser" =>
        /\ s2c = <<>>
        /\ sstate \in {"none", "auth", "http"} => sheld \o c2s = Request

\* "call the callback when either connect success or connect fail": a client which has asked
\* for a connection has a tunnel, or is told that it has none.  It does not hold of a name
\* which the server takes for an HTTP method, nor of an empty password.
HandshakeEnds ==
    cstate = "CONNECTING" /\ ~ MatchHttpMethod(LoginMessage(login))
        ~> cstate \in {"BUILD", "CLOSED"}
=============================================================================
