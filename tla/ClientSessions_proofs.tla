------------------------ MODULE ClientSessions_proofs ------------------------
(***************************************************************************)
(* Proofs about ClientSessions, for any number of applications and         *)
(* multiplexers.                                                           *)
(*                                                                         *)
(* The inductive invariant has three parts: AppInv relates the objects of  *)
(* one application to each other, MuxInv those of an application to its    *)
(* multiplexer, and Counted the counter to the multiplexers.  Each step    *)
(* preserves them one after the other; on them rests Bounded, the number   *)
(* of the streams of a multiplexer.                                        *)
(***************************************************************************)
EXTENDS ClientSessions, FiniteSetTheorems, TLAPS

\* Before its request a Socks5Auth has caused nothing.
Early == {"none", "INIT", "ID", "METHOD"}

AppInv(a) ==
    /\ a \in auths <=> conn[a] \in Live \ {"relaying"}
    /\ a \in knows <=> conn[a] \in {"tunnel", "stream", "failed"}
    /\ a \in auths => auth[a] = "FINISH"
    /\ a \in knows => reply[a] = "none"
    /\ conn[a] = "accepted" => reply[a] = "accept"
    /\ auth[a] \in Early => conn[a] = "none" /\ reply[a] = "none"

AppsInv == \A a \in Apps : AppInv(a)

\* The callback of a multiplexer belongs to an application that made its request there;
\* without this AuthReply could move a ClientConnection of another multiplexer.
CallbackInv ==
    \A m \in Muxes : cb[m] # None => via[cb[m]] = m /\ auth[cb[m]] \notin Early

MuxInv ==
    /\ CallbackInv
    /\ \A a \in Apps : conn[a] \in Live => via[a] \in Muxes
    /\ HandlersOfLiveMux

Counted == LiveMuxes \subseteq Muxes /\ ConnectionsCounted

IInv == TypeOK /\ Counted /\ AppsInv /\ MuxInv

-----------------------------------------------------------------------------

LEMMA LiveMuxesFinite == IsFiniteSet(LiveMuxes) /\ Cardinality(LiveMuxes) \in Nat
  BY SessionsAssumption, FS_Subset, FS_CardinalityType DEF LiveMuxes

LEMMA InitIInv == Init => IInv
<1> SUFFICES ASSUME Init PROVE IInv
  OBVIOUS
<1>1. TypeOK
  BY DEF Init, TypeOK
<1>2. LiveMuxes = {}
  BY DEF Init, LiveMuxes, MuxLive
<1>3. Counted
  BY <1>2, FS_EmptySet DEF Init, Counted, ConnectionsCounted
<1>4. AppsInv
  BY DEF Init, AppsInv, AppInv, Live, Early
<1>5. MuxInv
  BY DEF Init, MuxInv, CallbackInv, HandlersOfLiveMux, Live
<1> QED
  BY <1>1, <1>3, <1>4, <1>5 DEF IInv

-----------------------------------------------------------------------------
(* Types, and the counter *)

LEMMA CountedStep == TypeOK /\ Counted /\ Next => counter' \in Nat /\ Counted'
<1> SUFFICES ASSUME TypeOK, Counted, Next PROVE counter' \in Nat /\ Counted'
  OBVIOUS
<1> USE LiveMuxesFinite DEF Counted, ConnectionsCounted
<1>0. LiveMuxes' \subseteq Muxes
  BY DEF LiveMuxes
<1>1. CASE LiveMuxes' = LiveMuxes /\ counter' = counter
  BY <1>0, <1>1
<1>2. ASSUME NEW a \in Apps, RequestTunnel(a) PROVE counter' \in Nat /\ Counted'
  <2>1. PICK m \in Muxes : mux[m] = "none" /\ mux' = [mux EXCEPT ![m] = "CONNECTING"]
    BY <1>2 DEF RequestTunnel
  <2>2. LiveMuxes' = LiveMuxes \cup {m} /\ m \notin LiveMuxes
    BY <2>1 DEF TypeOK, LiveMuxes, MuxLive
  <2>3. counter' = counter + 1
    BY <1>2 DEF RequestTunnel
  <2>4. Cardinality(LiveMuxes \cup {m}) = Cardinality(LiveMuxes) + 1
    BY <2>2, FS_AddElement
  <2> QED
    BY <1>0, <2>2, <2>3, <2>4
<1>3. ASSUME NEW m \in Muxes, MuxFails(m) PROVE counter' \in Nat /\ Counted'
  <2>1. LiveMuxes' = LiveMuxes \ {m} /\ m \in LiveMuxes
    BY <1>3 DEF MuxFails, TypeOK, LiveMuxes, MuxLive
  <2>2. counter' = counter - 1
    BY <1>3 DEF MuxFails, Decrease
  <2>3. Cardinality(LiveMuxes \ {m}) = Cardinality(LiveMuxes) - 1
    BY <2>1, FS_RemoveElement
  <2>4. Cardinality(LiveMuxes \ {m}) \in Nat
    BY FS_RemoveElement, FS_CardinalityType
  <2> QED
    BY <1>0, <2>1, <2>2, <2>3, <2>4
<1>4. CASE ServerClose
  <2>1. LiveMuxes' = {}
    BY <1>4 DEF ServerClose, TypeOK, LiveMuxes, MuxLive
  <2>2. counter' = counter - Cardinality(LiveMuxes)
    BY <1>4 DEF ServerClose, Decrease
  <2> QED
    BY <1>0, <2>1, <2>2, FS_EmptySet
<1>5. ASSUME NEW m \in Muxes, MuxConnected(m) \/ AuthWritten(m) \/ AuthReply(m)
      PROVE LiveMuxes' = LiveMuxes /\ counter' = counter
  BY <1>5 DEF MuxConnected, AuthWritten, AuthReply, TypeOK, LiveMuxes, MuxLive
<1>6. ASSUME NEW a \in Apps, AppNext(a) \/ ConnNext(a), ~RequestTunnel(a)
      PROVE LiveMuxes' = LiveMuxes /\ counter' = counter
  BY <1>6 DEF AppNext, ConnNext, Accept, Hello, AuthUser, AppGone, EarlyData, RequestStream,
     RequestRejected, ConnectSucceeds, ConnectFails, HandOver, HandOverTooLate,
     ReplyEndsSession, RelayEnds, muxVars, LiveMuxes
<1> QED
  BY <1>1, <1>2, <1>3, <1>4, <1>5, <1>6 DEF Next, MuxNext

LEMMA RemoveTypes ==
    ASSUME TypeOK, NEW apps, Remove(apps)
    PROVE  /\ conn' \in [Apps -> {"none", "gone"} \cup Live]
           /\ auths' \subseteq Apps /\ knows' \subseteq Apps
           /\ via' = via
  BY DEF Remove, TypeOK

LEMMA TypeStep == TypeOK /\ Counted /\ Next => TypeOK'
<1> SUFFICES ASSUME TypeOK, Counted, Next PROVE TypeOK'
  OBVIOUS
<1>0. counter' \in Nat
  BY CountedStep
<1> USE DEF TypeOK
<1>1. ASSUME NEW a \in Apps, Accept(a) \/ Hello(a) \/ AuthUser(a) \/ EarlyData(a)
      PROVE TypeOK'
  BY <1>0, <1>1 DEF Accept, Hello, AuthUser, EarlyData, Reading, connVars, muxVars, sessionVars
<1>2. ASSUME NEW a \in Apps, AppGone(a) \/ ReplyEndsSession(a) PROVE TypeOK'
  <2>1. CloseWithError(a) /\ UNCHANGED <<server, listed, muxVars>>
    BY <1>2 DEF AppGone, ReplyEndsSession
  <2> QED
    BY <1>0, <2>1, RemoveTypes DEF CloseWithError, muxVars
<1>3. ASSUME NEW a \in Apps, RequestStream(a) \/ RequestTunnel(a) PROVE TypeOK'
  <2>1. PICK m \in Muxes, state \in Live : NewHandler(a, m, state)
    BY <1>3 DEF RequestStream, RequestTunnel, Usable, Live
  <2>2. mux' \in [Muxes -> {"none", "gone"} \cup MuxLive] /\ cb' \in [Muxes -> Apps \cup {None}]
    BY <1>3 DEF RequestStream, RequestTunnel, muxVars, MuxLive
  <2>3. UNCHANGED <<server, listed>>
    BY <1>3 DEF RequestStream, RequestTunnel
  <2> QED
    BY <1>0, <2>1, <2>2, <2>3 DEF NewHandler, Reading
<1>4. ASSUME NEW a \in Apps, RequestRejected(a) PROVE TypeOK'
  BY <1>0, <1>4 DEF RequestRejected, Reading, connVars, muxVars
<1>5. ASSUME NEW a \in Apps, ConnectSucceeds(a) \/ ConnectFails(a) \/ HandOver(a)
                             \/ HandOverTooLate(a)
      PROVE TypeOK'
  BY <1>0, <1>5 DEF ConnectSucceeds, ConnectFails, HandOver, HandOverTooLate, Live, connVars,
     muxVars, sessionVars
<1>6. ASSUME NEW a \in Apps, RelayEnds(a) PROVE TypeOK'
  BY <1>0, <1>6, RemoveTypes DEF RelayEnds, muxVars
<1>7. ASSUME NEW m \in Muxes, MuxConnected(m) \/ AuthWritten(m) \/ AuthReply(m)
      PROVE TypeOK'
  BY <1>0, <1>7 DEF MuxConnected, AuthWritten, AuthReply, Live, MuxLive, connVars, sessionVars
<1>8. ASSUME NEW m \in Muxes, MuxFails(m) PROVE TypeOK'
  BY <1>0, <1>8, RemoveTypes DEF MuxFails, sessionVars
<1>9. CASE ServerClose
  BY <1>0, <1>9, RemoveTypes DEF ServerClose
<1> QED
  BY <1>1, <1>2, <1>3, <1>4, <1>5, <1>6, <1>7, <1>8, <1>9
  DEF Next, AppNext, ConnNext, MuxNext

-----------------------------------------------------------------------------
(* The objects of one application *)

\* Closing ClientConnections, whatever became of their sessions, keeps AppInv when the
\* sessions stay or go and no reply is asked for.
LEMMA RemoveKeepsApp ==
    ASSUME TypeOK, AppsInv, NEW apps, Remove(apps), UNCHANGED reply,
           NEW a \in Apps,
           auth'[a] = auth[a] \/ (auth'[a] = "gone" /\ (a \in auths => a \in apps)),
           a \in apps => conn[a] \in Live
    PROVE  AppInv(a)'
  BY DEF TypeOK, AppsInv, AppInv, Remove, Live, Early, Reading

LEMMA AppStep == TypeOK /\ AppsInv /\ Next => AppsInv'
<1> SUFFICES ASSUME TypeOK, AppsInv, Next, NEW b \in Apps PROVE AppInv(b)'
  BY DEF AppsInv
<1>0. AppInv(b)
  BY DEF AppsInv
<1>1. ASSUME NEW a \in Apps, Accept(a) \/ Hello(a) \/ AuthUser(a) \/ EarlyData(a)
      PROVE AppInv(b)'
  BY <1>0, <1>1 DEF Accept, Hello, AuthUser, EarlyData, TypeOK, AppInv, Early, connVars,
     sessionVars
<1>2. ASSUME NEW a \in Apps, AppGone(a) \/ ReplyEndsSession(a) PROVE AppInv(b)'
  <2>1. CloseWithError(a)
    BY <1>2 DEF AppGone, ReplyEndsSession
  <2>2. Remove({a} \cap auths) /\ UNCHANGED reply /\ auth' = [auth EXCEPT ![a] = "gone"]
    BY <2>1 DEF CloseWithError
  <2>3. b \in {a} \cap auths => conn[b] \in Live
    BY <1>0 DEF AppInv
  <2>4. auth'[b] = auth[b] \/ (auth'[b] = "gone" /\ (b \in auths => b \in {a} \cap auths))
    BY <2>2 DEF TypeOK
  <2> QED
    BY <2>2, <2>3, <2>4, RemoveKeepsApp
<1>3. ASSUME NEW a \in Apps, RequestStream(a) \/ RequestTunnel(a) PROVE AppInv(b)'
  <2>1. PICK m \in Muxes, state \in {"tunnel", "stream"} : NewHandler(a, m, state)
    BY <1>3 DEF RequestStream, RequestTunnel, Usable
  <2>2. auth[a] = "METHOD"
    BY <1>3 DEF RequestStream, RequestTunnel
  <2> QED
    BY <1>0, <2>1, <2>2 DEF NewHandler, TypeOK, AppInv, Early, Live
<1>4. ASSUME NEW a \in Apps, RequestRejected(a) PROVE AppInv(b)'
  BY <1>0, <1>4 DEF RequestRejected, TypeOK, AppInv, Early, Live, connVars
<1>5. ASSUME NEW a \in Apps, ConnectSucceeds(a) \/ ConnectFails(a) PROVE AppInv(b)'
  BY <1>0, <1>5 DEF ConnectSucceeds, ConnectFails, TypeOK, AppInv, Early, Live, sessionVars
<1>6. ASSUME NEW a \in Apps, HandOver(a) \/ HandOverTooLate(a) PROVE AppInv(b)'
  BY <1>0, <1>6 DEF HandOver, HandOverTooLate, TypeOK, AppInv, Early, Live, connVars
<1>7. ASSUME NEW a \in Apps, RelayEnds(a) PROVE AppInv(b)'
  <2>1. a \notin knows
    BY <1>7 DEF RelayEnds, AppsInv, AppInv
  <2>2. Remove({a}) /\ UNCHANGED <<auth, reply>> /\ conn[a] \in Live
    BY <1>7, <2>1 DEF RelayEnds, Live
  <2> QED
    BY <2>2, RemoveKeepsApp
<1>8. ASSUME NEW m \in Muxes, MuxConnected(m) \/ AuthWritten(m) \/ AuthReply(m)
      PROVE AppInv(b)'
  BY <1>0, <1>8 DEF MuxConnected, AuthWritten, AuthReply, TypeOK, AppInv, Early, Live,
     connVars, sessionVars
<1>9. ASSUME NEW m \in Muxes, MuxFails(m) PROVE AppInv(b)'
  <2>1. Remove(HandlersOf(m)) /\ UNCHANGED <<auth, reply>>
    BY <1>9 DEF MuxFails, sessionVars
  <2>2. b \in HandlersOf(m) => conn[b] \in Live
    BY DEF HandlersOf
  <2> QED
    BY <2>1, <2>2, RemoveKeepsApp
<1>10. CASE ServerClose
  BY <1>0, <1>10 DEF ServerClose, Remove, TypeOK, AppInv, Early, Live, Reading
<1> QED
  BY <1>1, <1>2, <1>3, <1>4, <1>5, <1>6, <1>7, <1>8, <1>9, <1>10
  DEF Next, AppNext, ConnNext, MuxNext

-----------------------------------------------------------------------------
(* An application and its multiplexer *)

\* Nothing in MuxInv is disturbed when objects only go, and the multiplexer of what stays
\* is as it was.
LEMMA MuxInvKept ==
    ASSUME TypeOK, MuxInv, via' = via,
           \A a \in Apps : auth[a] \notin Early => auth'[a] \notin Early,
           \A m \in Muxes : cb'[m] \in {cb[m], None},
           \A a \in Apps : conn'[a] \in Live =>
              /\ conn[a] \in Live
              /\ conn'[a] = "tunnel" <=> conn[a] = "tunnel"
              /\ mux'[via[a]] = mux[via[a]] /\ cb'[via[a]] = cb[via[a]]
    PROVE  MuxInv'
<1>1. CallbackInv'
  BY DEF TypeOK, MuxInv, CallbackInv
<1>2. \A a \in Apps : conn'[a] \in Live => via'[a] \in Muxes
  BY DEF MuxInv
<1>3. HandlersOfLiveMux'
  BY DEF MuxInv, HandlersOfLiveMux
<1> QED
  BY <1>1, <1>2, <1>3 DEF MuxInv

LEMMA MuxStep == TypeOK /\ AppsInv /\ MuxInv /\ Next => MuxInv'
<1> SUFFICES ASSUME TypeOK, AppsInv, MuxInv, Next PROVE MuxInv'
  OBVIOUS
<1>1. ASSUME NEW a \in Apps, Accept(a) \/ Hello(a) \/ AuthUser(a) \/ EarlyData(a)
                             \/ RequestRejected(a) \/ HandOverTooLate(a)
      PROVE MuxInv'
  BY <1>1, MuxInvKept DEF Accept, Hello, AuthUser, EarlyData, RequestRejected,
     HandOverTooLate, TypeOK, Early, connVars, muxVars, sessionVars
<1>2. ASSUME NEW a \in Apps, AppGone(a) \/ ReplyEndsSession(a) PROVE MuxInv'
  <2>1. CloseWithError(a) /\ UNCHANGED <<mux, cb>>
    BY <1>2 DEF AppGone, ReplyEndsSession, muxVars
  <2> QED
    BY <2>1, MuxInvKept DEF CloseWithError, Remove, TypeOK, Early, Live
<1>3. ASSUME NEW a \in Apps, RequestStream(a) PROVE MuxInv'
  <2>1. PICK m \in Muxes : mux[m] = "BUILD" /\ NewHandler(a, m, "stream")
    BY <1>3 DEF RequestStream, Usable
  <2>2. auth[a] = "METHOD" /\ UNCHANGED <<mux, cb>>
    BY <1>3 DEF RequestStream, muxVars
  <2>3. CallbackInv'
    BY <2>1, <2>2 DEF NewHandler, TypeOK, MuxInv, CallbackInv, Early
  <2>4. \A b \in Apps : conn'[b] \in Live => via'[b] \in Muxes
    BY <2>1 DEF NewHandler, TypeOK, MuxInv
  <2>5. HandlersOfLiveMux'
    BY <2>1, <2>2 DEF NewHandler, TypeOK, MuxInv, HandlersOfLiveMux, Live
  <2> QED
    BY <2>3, <2>4, <2>5 DEF MuxInv
<1>4. ASSUME NEW a \in Apps, RequestTunnel(a) PROVE MuxInv'
  <2>1. PICK m \in Muxes : /\ mux[m] = "none" /\ NewHandler(a, m, "tunnel")
                           /\ mux' = [mux EXCEPT ![m] = "CONNECTING"]
                           /\ cb' = [cb EXCEPT ![m] = a]
    BY <1>4 DEF RequestTunnel
  <2>2. auth[a] = "METHOD"
    BY <1>4 DEF RequestTunnel
  <2>3. CallbackInv'
    BY <2>1, <2>2 DEF NewHandler, TypeOK, MuxInv, CallbackInv, Early
  <2>4. \A b \in Apps : conn'[b] \in Live => via'[b] \in Muxes
    BY <2>1 DEF NewHandler, TypeOK, MuxInv
  <2>5. ASSUME NEW b \in Apps, b # a, conn[b] \in Live PROVE via[b] # m
    BY <2>1, <2>5 DEF MuxInv, HandlersOfLiveMux, MuxLive
  <2>6. HandlersOfLiveMux'
    BY <2>1, <2>4, <2>5 DEF NewHandler, TypeOK, MuxInv, HandlersOfLiveMux, Live, MuxLive
  <2> QED
    BY <2>3, <2>4, <2>6 DEF MuxInv
<1>5. ASSUME NEW a \in Apps, ConnectSucceeds(a) \/ ConnectFails(a) PROVE MuxInv'
  BY <1>5, MuxInvKept DEF ConnectSucceeds, ConnectFails, TypeOK, Live, muxVars, sessionVars
<1>6. ASSUME NEW a \in Apps, HandOver(a) PROVE MuxInv'
  <2>1. conn[a] = "accepted"
    BY <1>6 DEF HandOver, AppsInv, AppInv, Live
  <2> QED
    BY <1>6, <2>1, MuxInvKept DEF HandOver, TypeOK, Early, Live, muxVars
<1>7. ASSUME NEW a \in Apps, RelayEnds(a) PROVE MuxInv'
  BY <1>7, MuxInvKept DEF RelayEnds, Remove, TypeOK, Live, muxVars
<1>8. ASSUME NEW m \in Muxes, MuxConnected(m) \/ AuthWritten(m) PROVE MuxInv'
  <2>1. /\ mux[m] \in MuxLive \ {"BUILD"}
        /\ \E next \in MuxLive \ {"BUILD"} : mux' = [mux EXCEPT ![m] = next]
        /\ UNCHANGED <<auth, conn, via, cb>>
    BY <1>8 DEF MuxConnected, AuthWritten, MuxLive, sessionVars, connVars
  <2>2. CallbackInv'
    BY <2>1 DEF MuxInv, CallbackInv
  <2>3. \A b \in Apps : conn'[b] \in Live => via'[b] \in Muxes
    BY <2>1 DEF MuxInv
  <2>4. HandlersOfLiveMux'
    BY <2>1 DEF TypeOK, MuxInv, HandlersOfLiveMux
  <2> QED
    BY <2>2, <2>3, <2>4 DEF MuxInv
<1>9. ASSUME NEW m \in Muxes, AuthReply(m) PROVE MuxInv'
  <2> USE <1>9 DEF AuthReply, sessionVars
  <2>1. CallbackInv'
    BY DEF TypeOK, MuxInv, CallbackInv
  <2>2. \A b \in Apps : conn'[b] \in Live => conn[b] \in Live /\ via'[b] \in Muxes
    BY DEF TypeOK, MuxInv, Live
  <2>3. ASSUME NEW b \in Apps, conn'[b] \in Live
        PROVE IF conn'[b] = "tunnel"
                THEN mux'[via[b]] \in MuxLive \ {"BUILD"} /\ cb'[via[b]] = b
                ELSE mux'[via[b]] = "BUILD"
    <3>1. conn[b] \in Live /\ via[b] \in Muxes
      BY <2>2, <2>3
    <3>2. CASE conn[b] = "tunnel" /\ via[b] = m
      <4>1. cb[m] = b
        BY <3>1, <3>2 DEF MuxInv, HandlersOfLiveMux
      <4> QED
        BY <3>2, <4>1 DEF TypeOK
    <3>3. CASE conn[b] = "tunnel" /\ via[b] # m
      <4>1. cb[m] # b
        BY <3>3, SessionsAssumption DEF MuxInv, CallbackInv
      <4> QED
        BY <3>1, <3>3, <4>1 DEF TypeOK, MuxInv, HandlersOfLiveMux
    <3>4. CASE conn[b] # "tunnel"
      BY <3>1, <3>4 DEF TypeOK, MuxInv, HandlersOfLiveMux
    <3> QED
      BY <3>2, <3>3, <3>4
  <2>4. HandlersOfLiveMux'
    BY <2>3 DEF HandlersOfLiveMux
  <2> QED
    BY <2>1, <2>2, <2>4 DEF MuxInv
<1>10. ASSUME NEW m \in Muxes, MuxFails(m) PROVE MuxInv'
  BY <1>10, MuxInvKept DEF MuxFails, Remove, HandlersOf, TypeOK, Live, sessionVars
<1>11. CASE ServerClose
  BY <1>11, MuxInvKept DEF ServerClose, Remove, TypeOK, Early, Live
<1> QED
  BY <1>1, <1>2, <1>3, <1>4, <1>5, <1>6, <1>7, <1>8, <1>9, <1>10, <1>11
  DEF Next, AppNext, ConnNext, MuxNext

-----------------------------------------------------------------------------
(* The streams of a multiplexer *)

\* NeverOverfull, and that there is a number to compare.
Bounded == \A m \in Muxes : IsFiniteSet(StreamsOf(m)) /\ Numbers(m) <= FullAt

LEMMA BoundedStart == Init => Bounded
<1> SUFFICES ASSUME Init, NEW m \in Muxes PROVE IsFiniteSet(StreamsOf(m)) /\ Numbers(m) <= FullAt
  BY DEF Bounded
<1>1. StreamsOf(m) = {}
  BY DEF Init, StreamsOf, Streams, Live
<1> QED
  BY <1>1, FS_EmptySet, SessionsAssumption DEF Numbers

\* A step that gives a multiplexer no stream.
LEMMA FewerStreams ==
    ASSUME Bounded, NEW m \in Muxes, StreamsOf(m)' \subseteq StreamsOf(m)
    PROVE  IsFiniteSet(StreamsOf(m))' /\ (Numbers(m) <= FullAt)'
<1>1. IsFiniteSet(StreamsOf(m)) /\ Cardinality(StreamsOf(m)) <= FullAt
  BY DEF Bounded, Numbers
<1>2. IsFiniteSet(StreamsOf(m)') /\ Cardinality(StreamsOf(m)') <= Cardinality(StreamsOf(m))
  BY <1>1, FS_Subset
<1>3. Cardinality(StreamsOf(m)') \in Nat /\ Cardinality(StreamsOf(m)) \in Nat /\ FullAt \in Nat
  BY <1>1, <1>2, FS_CardinalityType, SessionsAssumption
<1> QED
  BY <1>1, <1>2, <1>3 DEF Numbers

LEMMA BoundedStep == IInv /\ Bounded /\ Next => Bounded'
<1> SUFFICES ASSUME IInv, Bounded, Next, NEW m \in Muxes
             PROVE  IsFiniteSet(StreamsOf(m))' /\ (Numbers(m) <= FullAt)'
  BY DEF Bounded
<1> USE DEF IInv
<1>1. CASE StreamsOf(m)' \subseteq StreamsOf(m)
  BY <1>1, FewerStreams
<1>2. ASSUME NEW a \in Apps, RequestStream(a), ~ (StreamsOf(m)' \subseteq StreamsOf(m))
      PROVE  IsFiniteSet(StreamsOf(m))' /\ (Numbers(m) <= FullAt)'
  <2>1. PICK n \in Usable : NewHandler(a, n, "stream")
    BY <1>2 DEF RequestStream
  <2>2. StreamsOf(m)' \subseteq StreamsOf(m) \cup {a} /\ (m # n => StreamsOf(m)' \subseteq StreamsOf(m))
    BY <2>1 DEF NewHandler, StreamsOf, TypeOK, Usable
  <2>3. m = n /\ a \in StreamsOf(m)' /\ a \notin StreamsOf(m)
    BY <1>2, <2>2
  <2>4. IsFiniteSet(StreamsOf(m)) /\ Cardinality(StreamsOf(m)) < FullAt
    BY <2>1, <2>3 DEF Usable, Numbers, Bounded
  <2>5. /\ IsFiniteSet(StreamsOf(m) \cup {a})
        /\ Cardinality(StreamsOf(m) \cup {a}) = Cardinality(StreamsOf(m)) + 1
    BY <2>3, <2>4, FS_AddElement
  <2>6. /\ IsFiniteSet(StreamsOf(m)')
        /\ Cardinality(StreamsOf(m)') <= Cardinality(StreamsOf(m) \cup {a})
    BY <2>2, <2>5, FS_Subset
  <2>7. /\ Cardinality(StreamsOf(m)') \in Nat /\ Cardinality(StreamsOf(m)) \in Nat /\ FullAt \in Nat
    BY <2>4, <2>6, FS_CardinalityType, SessionsAssumption
  <2> QED
    BY <2>4, <2>5, <2>6, <2>7 DEF Numbers
<1>3. ASSUME NEW n \in Muxes, AuthReply(n), ~ (StreamsOf(m)' \subseteq StreamsOf(m))
      PROVE  IsFiniteSet(StreamsOf(m))' /\ (Numbers(m) <= FullAt)'
  \* The tunnel was not built, so it had no streams; it gets the one of its callback.
  <2>1. \A a \in Apps : a \in StreamsOf(m)' /\ a \notin StreamsOf(m) =>
              conn[a] = "tunnel" /\ cb[n] = a /\ via[a] = m
    BY <1>3 DEF AuthReply, StreamsOf, Streams, Live, TypeOK
  <2>2. m = n
    <3>1. PICK a \in Apps : a \in StreamsOf(m)' /\ a \notin StreamsOf(m)
      BY <1>3 DEF StreamsOf
    <3>2. cb[n] = a /\ via[a] = m /\ a # None
      BY <2>1, <3>1, SessionsAssumption
    <3> QED
      BY <3>2 DEF MuxInv, CallbackInv
  <2>3. StreamsOf(m) = {}
    <3>1. mux[m] # "BUILD"
      BY <1>3, <2>2 DEF AuthReply
    <3> QED
      BY <3>1 DEF StreamsOf, Streams, MuxInv, HandlersOfLiveMux
  <2>4. StreamsOf(m)' \subseteq {cb[m]}
    BY <2>1, <2>2, <2>3 DEF StreamsOf
  <2>5. IsFiniteSet({cb[m]}) /\ Cardinality({cb[m]}) = 1
    BY FS_Singleton
  <2>6. IsFiniteSet(StreamsOf(m)') /\ Cardinality(StreamsOf(m)') <= 1
    BY <2>4, <2>5, FS_Subset
  <2>7. Cardinality(StreamsOf(m)') \in Nat /\ FullAt \in Nat /\ FullAt >= 1
    BY <2>6, FS_CardinalityType, SessionsAssumption
  <2> QED
    BY <2>6, <2>7 DEF Numbers
<1>4. ASSUME NEW a \in Apps, RequestTunnel(a) PROVE StreamsOf(m)' \subseteq StreamsOf(m)
  BY <1>4 DEF RequestTunnel, NewHandler, StreamsOf, Streams, TypeOK
<1>5. ASSUME NEW a \in Apps, ConnectSucceeds(a) \/ ConnectFails(a)
      PROVE  StreamsOf(m)' \subseteq StreamsOf(m)
  BY <1>5 DEF ConnectSucceeds, ConnectFails, StreamsOf, Streams, Live, TypeOK
<1>6. ASSUME NEW a \in Apps, HandOver(a) PROVE StreamsOf(m)' \subseteq StreamsOf(m)
  <2>1. conn[a] = "accepted"
    BY <1>6 DEF HandOver, AppsInv, AppInv, Live
  <2> QED
    BY <1>6, <2>1 DEF HandOver, StreamsOf, Streams, Live, TypeOK
<1>7. ASSUME NEW apps, Remove(apps) PROVE StreamsOf(m)' \subseteq StreamsOf(m)
  BY <1>7 DEF Remove, StreamsOf, Streams, Live
<1>8. ASSUME UNCHANGED connVars PROVE StreamsOf(m)' \subseteq StreamsOf(m)
  BY <1>8 DEF connVars, StreamsOf
<1>9. ASSUME NEW a \in Apps, Accept(a) \/ Hello(a) \/ AuthUser(a) \/ EarlyData(a)
                             \/ RequestRejected(a) \/ HandOverTooLate(a)
      PROVE  UNCHANGED connVars
  BY <1>9 DEF Accept, Hello, AuthUser, EarlyData, RequestRejected, HandOverTooLate
<1>10. ASSUME NEW a \in Apps, AppGone(a) \/ ReplyEndsSession(a) \/ RelayEnds(a)
       PROVE  \E apps : Remove(apps)
  BY <1>10 DEF AppGone, ReplyEndsSession, RelayEnds, CloseWithError
<1>11. ASSUME NEW n \in Muxes, MuxConnected(n) \/ AuthWritten(n) PROVE UNCHANGED connVars
  BY <1>11 DEF MuxConnected, AuthWritten
<1>12. ASSUME NEW n \in Muxes, MuxFails(n) PROVE \E apps : Remove(apps)
  BY <1>12 DEF MuxFails
<1>13. ServerClose => \E apps : Remove(apps)
  BY DEF ServerClose
<1> QED
  BY <1>1, <1>2, <1>3, <1>4, <1>5, <1>6, <1>7, <1>8, <1>9, <1>10, <1>11, <1>12, <1>13
  DEF Next, AppNext, ConnNext, MuxNext

-----------------------------------------------------------------------------
(* Theorems *)

LEMMA Inductive == IInv /\ [Next]_vars => IInv'
<1>1. IInv /\ Next => IInv'
  BY CountedStep, TypeStep, AppStep, MuxStep DEF IInv
<1>2. IInv /\ UNCHANGED vars => IInv'
  BY DEF IInv, vars, sessionVars, connVars, muxVars, TypeOK, Counted, ConnectionsCounted,
     LiveMuxes, AppsInv, AppInv, MuxInv, CallbackInv, HandlersOfLiveMux
<1> QED
  BY <1>1, <1>2

LEMMA Invariance == Spec => []IInv
  BY InitIInv, Inductive, PTL DEF Spec

\* Every variable keeps its type; m_current_connection, a size_t, never goes below zero.
THEOREM SessionsTypeCorrect == Spec => []TypeOK
<1>1. IInv => TypeOK
  BY DEF IInv
<1> QED
  BY <1>1, Invariance, PTL

\* No pair of m_auths (kclient_server.h) outlives one of its objects: remove_socks5_handler
\* and socks5Transfer erase it in time, and every error closes both.
THEOREM AuthsPairHolds == Spec => []AuthsPairLive
<1>1. IInv => AuthsPairLive
  BY DEF IInv, TypeOK, AppsInv, AppInv, AuthsPairLive
<1> QED
  BY <1>1, Invariance, PTL

\* m_socks5 of a ClientConnection (kclient_clientproxy.cpp) never dangles and never leads to
\* a session that was answered.
THEOREM SessionKnownHolds == Spec => []SessionKnownIsWaiting
<1>1. IInv => SessionKnownIsWaiting
  BY DEF IInv, TypeOK, AppsInv, AppInv, SessionKnownIsWaiting, Live
<1> QED
  BY <1>1, Invariance, PTL

\* The assertions of ClientConnection::run hold when write_callback_reply leads there.
THEOREM HandOverHolds == Spec => []HandOverReady
<1>1. IInv => HandOverReady
  BY DEF IInv, TypeOK, AppsInv, AppInv, HandOverReady, Live
<1> QED
  BY <1>1, Invariance, PTL

\* mp_proxy of a ClientConnection never dangles: ConnectionProxy::close closes first what
\* registered with it, and a callback that comes late moves nobody else's connection.
THEOREM HandlersHold == Spec => []HandlersOfLiveMux
<1>1. IInv => HandlersOfLiveMux
  BY DEF IInv, MuxInv
<1> QED
  BY <1>1, Invariance, PTL

\* increase() and decrease() of SingleServerInfo balance over every way a multiplexer ends.
THEOREM CountedHolds == Spec => []ConnectionsCounted
<1>1. IInv => ConnectionsCounted
  BY DEF IInv, Counted
<1> QED
  BY <1>1, Invariance, PTL

\* full() bounds the streams of every multiplexer: dispatch_proxy asks it before it gives one,
\* and the connection that a new multiplexer calls back is its only one.
THEOREM NeverOverfullHolds == Spec => []NeverOverfull
<1>1. IInv /\ Bounded /\ [Next]_vars => Bounded'
  <2>1. UNCHANGED vars /\ Bounded => Bounded'
    BY DEF vars, connVars, Bounded, Numbers, StreamsOf
  <2> QED
    BY <2>1, BoundedStep
<1>2. Bounded => NeverOverfull
  BY DEF Bounded, NeverOverfull
<1> QED
  BY <1>1, <1>2, BoundedStart, Invariance, PTL DEF Spec

\* A SOCKS5 session is answered at most once.
THEOREM AnsweredOnceHolds == Spec => AnsweredOnce
<1> DEFINE Once == \A a \in Apps : reply[a] # "none" => reply'[a] = reply[a]
<1>1. IInv /\ Next => Once
  <2> SUFFICES ASSUME IInv, Next PROVE Once
    OBVIOUS
  <2> USE DEF IInv, TypeOK
  <2>1. ASSUME NEW a \in Apps, RequestRejected(a) PROVE Once
    BY <2>1 DEF RequestRejected, AppsInv, AppInv, Early
  <2>2. ASSUME NEW a \in Apps, ConnectSucceeds(a) PROVE Once
    BY <2>2 DEF ConnectSucceeds, AppsInv, AppInv
  <2>3. ASSUME NEW a \in Apps, RelayEnds(a) PROVE Once
    BY <2>3 DEF RelayEnds, AppsInv, AppInv
  <2>4. ASSUME NEW a \in Apps, AppNext(a), ~RequestRejected(a) PROVE Once
    BY <2>4 DEF AppNext, Accept, Hello, AuthUser, AppGone, EarlyData, RequestStream,
       RequestTunnel, NewHandler, CloseWithError, sessionVars
  <2>5. ASSUME NEW a \in Apps, ConnectFails(a) \/ HandOver(a) \/ HandOverTooLate(a)
                               \/ ReplyEndsSession(a)
        PROVE Once
    BY <2>5 DEF ConnectFails, HandOver, HandOverTooLate, ReplyEndsSession, CloseWithError,
       sessionVars
  <2>6. ASSUME NEW m \in Muxes, MuxNext(m) PROVE Once
    BY <2>6 DEF MuxNext, MuxConnected, AuthWritten, AuthReply, MuxFails, sessionVars
  <2>7. CASE ServerClose
    BY <2>7 DEF ServerClose
  <2> QED
    BY <2>1, <2>2, <2>3, <2>4, <2>5, <2>6, <2>7 DEF Next, ConnNext
<1>2. IInv /\ [Next]_vars => [Once]_vars
  BY <1>1
<1> QED
  BY <1>2, Invariance, PTL DEF Spec, AnsweredOnce
=============================================================================
