-------------------------- MODULE KProxyMux_proofs --------------------------
(***************************************************************************)
(* Proofs about KProxyMux, for every set of ids and requests, every limit  *)
(* FullAt and every Window.                                                *)
(***************************************************************************)
EXTENDS KProxyMux, SequenceTheorems, TLAPS

(* The packets built by the actions, and the operations on the channels. *)

LEMMA PktType ==
    \A id \in Ids, r \in Reqs :
        \A op \in {"CREATE", "ACCEPT", "REJECT", "CLOSE", "FORWARD"} : Pkt(op, id, r) \in Packet
BY DEF Pkt, Packet, Ops

LEMMA SendType ==
    \A s \in Seq(Packet), p \in Packet :
        Append(s, p) \in Seq(Packet) /\ s \o <<p>> \in Seq(Packet)
BY AppendProperties, AppendIsConcat

LEMMA HeadType ==
    ASSUME NEW s \in Seq(Packet), s # <<>>
    PROVE  /\ Head(s) \in Packet
           /\ Head(s).op \in Ops /\ Head(s).id \in Ids /\ Head(s).req \in Reqs
           /\ Tail(s) \in Seq(Packet)
<1>1. Head(s) \in Packet /\ Tail(s) \in Seq(Packet)
  BY HeadTailProperties
<1>2. \A p \in Packet : p.op \in Ops /\ p.id \in Ids /\ p.req \in Reqs
  BY DEF Packet
<1>. QED
  BY <1>1, <1>2

LEMMA PairType ==
    \A s \in Seq(Packet), p \in Packet, q \in Packet : s \o <<p, q>> \in Seq(Packet)
BY ConcatProperties

LEMMA TruncationType ==
    ASSUME NEW s \in Seq(Packet), NEW t \in Truncations(s)
    PROVE  t \in Seq(Packet)
<1>1. PICK n \in 0 .. Len(s) : t = SubSeq(s, 1, n)
  BY DEF Truncations
<1>2. Len(s) \in Nat /\ \A i \in 1 .. n : s[i] \in Packet
  BY LenProperties, ElementOfSeq
<1>. QED
  BY <1>1, <1>2, SubSeqProperties

-----------------------------------------------------------------------------
(* Type correctness.  TypeOK is not inductive by itself: a relay answers with   *)
(* the request that salloc holds for its id, so the packet is well typed only   *)
(* because a stream is there whenever a relay is, ServerWaitsWhileUnconnected.  *)

ServerInv == TypeOK /\ ServerWaitsWhileUnconnected

LEMMA ServerInvInit == Init => ServerInv
BY EmptySeq DEF Init, ServerInv, TypeOK, ServerWaitsWhileUnconnected, ConnStates, RelayStates,
                MuxStates, Unconnected

LEMMA ServerReceiveType == ServerInv /\ ServerReceive => ServerInv'
<1>. SUFFICES ASSUME ServerInv, ServerReceive PROVE ServerInv'
  OBVIOUS
<1>. USE PktType, SendType, PairType, MuxAssumption
     DEF ServerInv, TypeOK, ServerWaitsWhileUnconnected, Unconnected, RelayStates, MuxStates,
         clientVars, serverVars
<1>. DEFINE p == Head(c2s)
<1>1. /\ p.id \in Ids /\ p.req \in Reqs
      /\ c2s' \in Seq(Packet)
      /\ UNCHANGED clientVars
  BY HeadType DEF ServerReceive
<1>2. CASE CreateInUse(p)
  <2>1. CASE relay[p.id] = "relaying"
    <3>1. Pkt("REJECT", p.id, p.req) \in Packet /\ Pkt("CLOSE", p.id, salloc[p.id]) \in Packet
      BY <1>1, <1>2 DEF CreateInUse
    <3>2. s2c' \in Seq(Packet)
      <4>1. s2c' = s2c \o <<Pkt("REJECT", p.id, p.req), Pkt("CLOSE", p.id, salloc[p.id])>>
        BY <1>2, <2>1 DEF CreateInUse
      <4>. QED
        BY <3>1, <4>1
    <3>3. ServerCloseStream(p.id) /\ UNCHANGED <<swait, smux>>
      BY <1>2, <2>1 DEF CreateInUse
    <3>. QED
      BY <1>1, <2>1, <3>2, <3>3 DEF ServerCloseStream
  <2>2. CASE relay[p.id] # "relaying"
    <3>1. s2c' \in Seq(Packet)
      <4>1. Pkt("REJECT", p.id, p.req) \in Packet
        BY <1>1
      <4>2. s2c' = Append(s2c, Pkt("REJECT", p.id, p.req))
        BY <1>2, <2>2 DEF CreateInUse
      <4>. QED
        BY <4>1, <4>2
    <3>. QED
      BY <1>1, <1>2, <2>2, <3>1 DEF CreateInUse
  <2>. QED
    BY <2>1, <2>2
<1>3. CASE CreateNew(p)
  BY <1>1, <1>3 DEF CreateNew
<1>4. CASE CreateTooShort(p)
  BY <1>1, <1>4 DEF CreateTooShort
<1>5. CASE ServerClosed(p.id)
  <2>1. CASE relay[p.id] = "relaying"
    <3>1. s2c' \in Seq(Packet)
      <4>1. Pkt("CLOSE", p.id, salloc[p.id]) \in Packet
        BY <1>1, <2>1
      <4>2. s2c' = Append(s2c, Pkt("CLOSE", p.id, salloc[p.id]))
        BY <1>5, <2>1 DEF ServerClosed
      <4>. QED
        BY <4>1, <4>2
    <3>. QED
      BY <1>1, <1>5, <2>1, <3>1, ZenonT(30) DEF ServerClosed, ServerCloseStream
  <2>2. CASE relay[p.id] # "relaying"
    BY <1>1, <1>5, <2>2 DEF ServerClosed
  <2>. QED
    BY <2>1, <2>2
<1>6. CASE UNCHANGED <<serverVars, s2c>>
  BY <1>1, <1>6
<1>. QED
  BY <1>2, <1>3, <1>4, <1>5, <1>6 DEF ServerReceive

LEMMA ServerInvStep == ServerInv /\ [Next]_vars => ServerInv'
<1>. SUFFICES ASSUME ServerInv, [Next]_vars PROVE ServerInv'
  OBVIOUS
<1>. USE PktType, SendType, PairType, MuxAssumption
     DEF ServerInv, TypeOK, ServerWaitsWhileUnconnected, Unconnected, ConnStates, RelayStates,
         MuxStates, clientVars, serverVars
<1>1. ASSUME NEW r \in Reqs, NEW id \in Ids, Connect(r, id) PROVE ServerInv'
  BY <1>1 DEF Connect
<1>2. ASSUME NEW r \in Reqs, NEW id \in Ids, Timeout(id, r) PROVE ServerInv'
  BY <1>2 DEF Timeout, Answer
<1>3. ASSUME NEW id \in Ids, AppClose(id) PROVE ServerInv'
  BY <1>3 DEF AppClose, ClientCloseStream
<1>4. ASSUME NEW id \in Ids, StartRelay(id) PROVE ServerInv'
  BY <1>4 DEF StartRelay
<1>5. ASSUME NEW id \in Ids, ClientForward(id) PROVE ServerInv'
  BY <1>5 DEF ClientForward
<1>6. ASSUME ClientReceive PROVE ServerInv'
  <2>. DEFINE id == Head(s2c).id
  <2>1. id \in Ids /\ s2c' \in Seq(Packet) /\ UNCHANGED <<serverVars, cmux>>
    <3>1. s2c \in Seq(Packet) /\ s2c # <<>> /\ s2c' = Tail(s2c) /\ UNCHANGED <<serverVars, cmux>>
      BY <1>6 DEF ClientReceive
    <3>. QED
      BY <3>1, HeadType
  <2>2. CASE ClientAnswered(id, "accepted")
    BY <2>1, <2>2, ZenonT(30) DEF ClientAnswered, Answer
  <2>3. CASE ClientAnswered(id, "failed")
    BY <2>1, <2>3, ZenonT(30) DEF ClientAnswered, Answer
  <2>4. CASE ClientClosed(id)
    <3>1. CASE alloc[id] # NoReq /\ conn[alloc[id]] = "relaying"
      <4>1. alloc[id] \in Reqs /\ Pkt("CLOSE", id, alloc[id]) \in Packet
        BY <2>1, <3>1
      <4>2. ClientCloseStream(id) /\ UNCHANGED timers
        BY <2>4, <3>1 DEF ClientClosed
      <4>. QED
        BY <2>1, <4>1, <4>2 DEF ClientCloseStream
    <3>2. CASE ~(alloc[id] # NoReq /\ conn[alloc[id]] = "relaying")
      BY <2>1, <2>4, <3>2 DEF ClientClosed
    <3>. QED
      BY <3>1, <3>2
  <2>5. CASE UNCHANGED <<alloc, wait, timers, conn, c2s>>
    BY <2>1, <2>5
  <2>. QED
    BY <1>6, <2>2, <2>3, <2>4, <2>5 DEF ClientReceive
<1>7. ASSUME NEW id \in Ids, TargetConnected(id) PROVE ServerInv'
  <2>1. s2c' \in Seq(Packet)
    BY <1>7, PairType DEF TargetConnected
  <2>. QED
    BY <1>7, <2>1 DEF TargetConnected
<1>8. ASSUME NEW id \in Ids, TargetRefused(id) PROVE ServerInv'
  BY <1>8 DEF TargetRefused
<1>9. ASSUME NEW id \in Ids, RelayClose(id) PROVE ServerInv'
  <2>1. s2c' \in Seq(Packet)
    BY <1>9 DEF RelayClose
  <2>. QED
    BY <1>9, <2>1 DEF RelayClose, ServerCloseStream
<1>10. ASSUME NEW id \in Ids, ServerForward(id) PROVE ServerInv'
  BY <1>10 DEF ServerForward
<1>11. ASSUME ServerReceive PROVE ServerInv'
  BY <1>11, ServerReceiveType
<1>12. ASSUME ClientFails PROVE ServerInv'
  BY <1>12 DEF ClientFails
<1>13. ASSUME NEW id \in Ids, ClientClosesOne(id) PROVE ServerInv'
  BY <1>13 DEF ClientClosesOne, ClientCloseStream
<1>14. ASSUME ClientGone PROVE ServerInv'
  BY <1>14, TruncationType DEF ClientGone
<1>15. ASSUME ServerFails PROVE ServerInv'
  BY <1>15 DEF ServerFails
<1>16. ASSUME NEW id \in Ids, ServerClosesOne(id) PROVE ServerInv'
  <2>1. s2c' \in Seq(Packet)
    BY <1>16, PairType DEF ServerClosesOne
  <2>. QED
    BY <1>16, <2>1 DEF ServerClosesOne, ServerCloseStream
<1>17. ASSUME ServerGone PROVE ServerInv'
  BY <1>17, TruncationType DEF ServerGone
<1>18. CASE UNCHANGED vars
  BY <1>18 DEF vars
<1>. QED
  BY <1>1, <1>2, <1>3, <1>4, <1>5, <1>6, <1>7, <1>8, <1>9, <1>10, <1>11, <1>12,
     <1>13, <1>14, <1>15, <1>16, <1>17, <1>18
     DEF Next, ClientStep, ServerStep, EndStep, ClientSeesEnd, ServerSeesEnd

LEMMA ServerInvAlways == Spec => []ServerInv
BY ServerInvInit, ServerInvStep, PTL DEF Spec

\* Every reachable state has the types that TypeOK gives.
THEOREM TypeCorrect == Spec => []TypeOK
<1>1. ServerInv => TypeOK
  BY DEF ServerInv
<1>. QED
  BY <1>1, ServerInvAlways, PTL

\* At the server an id waits for its target exactly while its relay is unconnected,
\* and has a relay exactly while it is allocated: the assertions of
\* CreateConnectionSuccess and CreateConnectionFail hold at every call.
THEOREM ServerWaitsHolds == Spec => []ServerWaitsWhileUnconnected
<1>1. ServerInv => ServerWaitsWhileUnconnected
  BY DEF ServerInv
<1>. QED
  BY <1>1, ServerInvAlways, PTL

-----------------------------------------------------------------------------
(* The client end.  What any step does to the requests, whatever packet or      *)
(* timer caused it, is one of five things; the invariant ClientInv says who     *)
(* holds which id, which makes the callbacks' part of it inductive.             *)

RequestStep ==
    \/ \E r \in Reqs, id \in Ids : Connect(r, id)
    \/ \E id \in Ids, result \in {"accepted", "failed"} :
          wait[id] # NoReq /\ Answer(id, result) /\ UNCHANGED alloc
    \/ \E id \in Ids : alloc[id] # NoReq /\ ClientCloseStream(id)
    \/ \E id \in Ids : StartRelay(id)
    \/ UNCHANGED <<alloc, wait, conn>>

LEMMA RequestCases == TypeOK /\ [Next]_vars => RequestStep
<1>. SUFFICES ASSUME TypeOK, [Next]_vars PROVE RequestStep
  OBVIOUS
<1>1. ASSUME NEW r \in Reqs, NEW id \in Ids, Connect(r, id) PROVE RequestStep
  BY <1>1 DEF RequestStep
<1>2. ASSUME NEW r \in Reqs, NEW id \in Ids, Timeout(id, r) PROVE RequestStep
  BY <1>2 DEF Timeout, RequestStep
<1>3. ASSUME NEW id \in Ids, AppClose(id) PROVE RequestStep
  BY <1>3 DEF AppClose, RequestStep
<1>4. ASSUME NEW id \in Ids, StartRelay(id) PROVE RequestStep
  BY <1>4 DEF RequestStep
<1>5. ASSUME ClientReceive PROVE RequestStep
  <2>. DEFINE id == Head(s2c).id
  <2>1. id \in Ids
    BY <1>5, HeadType DEF ClientReceive, TypeOK
  <2>2. CASE ClientAnswered(id, "accepted")
    BY <2>1, <2>2 DEF ClientAnswered, RequestStep
  <2>3. CASE ClientAnswered(id, "failed")
    BY <2>1, <2>3 DEF ClientAnswered, RequestStep
  <2>4. CASE ClientClosed(id)
    BY <2>1, <2>4 DEF ClientClosed, RequestStep
  <2>5. CASE UNCHANGED <<alloc, wait, timers, conn, c2s>>
    BY <2>5 DEF RequestStep
  <2>. QED
    BY <1>5, <2>2, <2>3, <2>4, <2>5 DEF ClientReceive
<1>6. ASSUME NEW id \in Ids, ClientClosesOne(id) PROVE RequestStep
  BY <1>6 DEF ClientClosesOne, RequestStep
<1>7. ASSUME NEW id \in Ids, \/ TargetConnected(id) \/ TargetRefused(id) \/ RelayClose(id)
                             \/ ServerForward(id) \/ ServerClosesOne(id) \/ ClientForward(id)
      PROVE  RequestStep
  BY <1>7 DEF TargetConnected, TargetRefused, RelayClose, ServerForward, ServerClosesOne,
              ClientForward, clientVars, RequestStep
<1>8. CASE ServerReceive \/ ClientFails \/ ClientGone \/ ServerFails \/ ServerGone
  BY <1>8 DEF ServerReceive, ClientFails, ClientGone, ServerFails, ServerGone, clientVars,
              RequestStep
<1>9. CASE UNCHANGED vars
  BY <1>9 DEF vars, RequestStep
<1>. QED
  BY <1>1, <1>2, <1>3, <1>4, <1>5, <1>6, <1>7, <1>8, <1>9
     DEF Next, ClientStep, ServerStep, EndStep, ClientSeesEnd, ServerSeesEnd

OneIdEach == \A i, j \in Ids : alloc[i] # NoReq /\ alloc[i] = alloc[j] => i = j
HoldersAreOpen == \A id \in Ids : alloc[id] # NoReq => conn[alloc[id]] \in Open
OpenHoldIds == \A r \in Reqs : conn[r] \in Open => \E id \in Ids : alloc[id] = r

ClientInv ==
    /\ CallbackHeldWhileWaiting
    /\ OneIdEach
    /\ HoldersAreOpen
    /\ OpenHoldIds

LEMMA ClientInvInit == Init => ClientInv
BY DEF Init, ClientInv, CallbackHeldWhileWaiting, OneIdEach, HoldersAreOpen, OpenHoldIds, Open

LEMMA ClientInvStep == TypeOK /\ TypeOK' /\ ClientInv /\ [Next]_vars => ClientInv'
<1>. SUFFICES ASSUME TypeOK, TypeOK', ClientInv, RequestStep PROVE ClientInv'
  BY RequestCases
<1>. USE MuxAssumption DEF TypeOK, ClientInv, CallbackHeldWhileWaiting, OneIdEach,
         HoldersAreOpen, OpenHoldIds, Open, ConnStates
<1>1. ASSUME NEW r \in Reqs, NEW id \in Ids, Connect(r, id) PROVE ClientInv'
  <2>. \A i \in Ids : alloc[i] # r
    BY <1>1 DEF Connect
  <2>1. CallbackHeldWhileWaiting'
    BY <1>1 DEF Connect
  <2>2. OneIdEach' /\ HoldersAreOpen' /\ OpenHoldIds'
    BY <1>1 DEF Connect
  <2>. QED
    BY <2>1, <2>2
<1>2. ASSUME NEW id \in Ids, NEW result \in {"accepted", "failed"},
             wait[id] # NoReq, Answer(id, result), UNCHANGED alloc
      PROVE  ClientInv'
  <2>. alloc[id] = wait[id] /\ wait[id] \in Reqs
    BY <1>2
  <2>. \A i \in Ids : wait[i] = wait[id] => i = id
    BY <1>2
  <2>1. CallbackHeldWhileWaiting'
    BY <1>2 DEF Answer
  <2>2. OneIdEach' /\ HoldersAreOpen' /\ OpenHoldIds'
    BY <1>2 DEF Answer
  <2>. QED
    BY <2>1, <2>2
<1>3. ASSUME NEW id \in Ids, alloc[id] # NoReq, ClientCloseStream(id) PROVE ClientInv'
  <2>. alloc[id] \in Reqs /\ \A i \in Ids : alloc[i] = alloc[id] => i = id
    BY <1>3
  <2>1. CallbackHeldWhileWaiting'
    BY <1>3 DEF ClientCloseStream
  <2>2. OneIdEach' /\ HoldersAreOpen' /\ OpenHoldIds'
    BY <1>3 DEF ClientCloseStream
  <2>. QED
    BY <2>1, <2>2
<1>4. ASSUME NEW id \in Ids, StartRelay(id) PROVE ClientInv'
  <2>1. CallbackHeldWhileWaiting'
    BY <1>4 DEF StartRelay
  <2>2. OneIdEach' /\ HoldersAreOpen' /\ OpenHoldIds'
    BY <1>4 DEF StartRelay
  <2>. QED
    BY <2>1, <2>2
<1>5. CASE UNCHANGED <<alloc, wait, conn>>
  BY <1>5
<1>. QED
  BY <1>1, <1>2, <1>3, <1>4, <1>5 DEF RequestStep

LEMMA ClientInvAlways == Spec => []ClientInv
<1>1. ServerInv => TypeOK
  BY DEF ServerInv
<1>. QED
  BY <1>1, ServerInvAlways, ClientInvInit, ClientInvStep, PTL DEF Spec

\* A callback is stored under an id exactly while the request that holds the id waits
\* for it: the assertion of connect() that the id has none (line 134) never fails.
THEOREM CallbackHolds == Spec => []CallbackHeldWhileWaiting
<1>1. ClientInv => CallbackHeldWhileWaiting
  BY DEF ClientInv
<1>. QED
  BY <1>1, ClientInvAlways, PTL

-----------------------------------------------------------------------------
(* The end of the connection: an end that is gone holds no id, and stays so.    *)

GoneIsEmpty ==
    /\ cmux = "closed" => timers = {} /\ \A id \in Ids : alloc[id] = NoReq
    /\ smux \in {"closed", "aborted"} => \A id \in Ids : salloc[id] = NoReq

LEMMA GoneIsEmptyStep == TypeOK /\ GoneIsEmpty /\ [Next]_vars => GoneIsEmpty'
<1>. SUFFICES ASSUME TypeOK, GoneIsEmpty, [Next]_vars PROVE GoneIsEmpty'
  OBVIOUS
<1>. USE DEF GoneIsEmpty, clientVars, serverVars, MuxStates
<1>1. ASSUME NEW r \in Reqs, NEW id \in Ids, Connect(r, id) \/ Timeout(id, r)
      PROVE  GoneIsEmpty'
  BY <1>1 DEF Connect, Timeout
<1>2. ASSUME NEW id \in Ids, AppClose(id) \/ StartRelay(id) \/ ClientForward(id)
      PROVE  GoneIsEmpty'
  BY <1>2 DEF AppClose, StartRelay, ClientForward
<1>3. ASSUME NEW id \in Ids, TargetConnected(id) \/ TargetRefused(id) \/ RelayClose(id)
                             \/ ServerForward(id)
      PROVE  GoneIsEmpty'
  BY <1>3 DEF TargetConnected, TargetRefused, RelayClose, ServerForward
<1>4. ASSUME NEW id \in Ids, ClientClosesOne(id) \/ ServerClosesOne(id)
      PROVE  GoneIsEmpty'
  BY <1>4 DEF ClientClosesOne, ServerClosesOne
<1>5. CASE ClientReceive
  BY <1>5 DEF ClientReceive
<1>6. CASE ServerReceive
  <2>1. UNCHANGED clientVars
    BY <1>6 DEF ServerReceive
  <2>2. smux' = "up" \/ \A id \in Ids : salloc'[id] = NoReq
    BY <1>6 DEF ServerReceive, CreateInUse, CreateNew, CreateTooShort, ServerClosed
  <2>. QED
    BY <2>1, <2>2
<1>7. CASE ClientFails \/ ServerFails
  BY <1>7 DEF ClientFails, ServerFails
<1>8. CASE ClientGone
  BY <1>8 DEF ClientGone, Allocated
<1>9. CASE ServerGone
  BY <1>9 DEF ServerGone
<1>10. CASE UNCHANGED vars
  BY <1>10 DEF vars
<1>. QED
  BY <1>1, <1>2, <1>3, <1>4, <1>5, <1>6, <1>7, <1>8, <1>9, <1>10
     DEF Next, ClientStep, ServerStep, EndStep, ClientSeesEnd, ServerSeesEnd

\* When close() of an end is done, nothing that hung on it is left: no open request,
\* callback or timer at the client, no id waiting and no relay at the server.
THEOREM NothingLeftBehindHolds == Spec => []NothingLeftBehind
<1>1. Init => GoneIsEmpty
  BY DEF Init, GoneIsEmpty
<1>2. ServerInv => TypeOK
  BY DEF ServerInv
<1>3. ServerInv /\ ClientInv /\ GoneIsEmpty => NothingLeftBehind
  <2>. SUFFICES ASSUME TypeOK, ServerWaitsWhileUnconnected, ClientInv, GoneIsEmpty
                PROVE  NothingLeftBehind
    BY DEF ServerInv
  <2>1. ASSUME cmux = "closed"
        PROVE  /\ \A r \in Reqs : conn[r] \notin Open
               /\ \A id \in Ids : wait[id] = NoReq
               /\ timers = {}
    BY <2>1, MuxAssumption DEF TypeOK, ClientInv, CallbackHeldWhileWaiting, OpenHoldIds, GoneIsEmpty
  <2>2. ASSUME smux \in {"closed", "aborted"}
        PROVE  swait = {} /\ \A id \in Ids : relay[id] = "none"
    BY <2>2 DEF TypeOK, ServerWaitsWhileUnconnected, Unconnected, GoneIsEmpty
  <2>. QED
    BY <2>1, <2>2 DEF NothingLeftBehind
<1>. QED
  BY <1>1, <1>2, <1>3, GoneIsEmptyStep, ServerInvAlways, ClientInvAlways, PTL DEF Spec

-----------------------------------------------------------------------------
(* The provider implements ConnectRequests.                                    *)

LEMMA RefinementInit == Init => CR!AbsInit
BY MuxAssumption DEF Init, CR!AbsInit

LEMMA RefinementStep ==
    TypeOK /\ TypeOK' /\ ClientInv /\ [Next]_vars => [CR!AbsNext]_(CR!absVars)
<1>. SUFFICES ASSUME TypeOK, TypeOK', ClientInv, RequestStep
              PROVE  [CR!AbsNext]_(CR!absVars)
  BY RequestCases
<1>. DEFINE held == {r \in Reqs : \E id \in Ids : wait[id] = r}
            told(s) == CASE s \in {"idle", "waiting"} -> "none"
                         [] s \in {"accepted", "relaying"} -> "ok"
                         [] s = "failed" -> "failed"
                         [] s = "closed" -> "dropped"
            outcome == [r \in Reqs |-> told(conn[r])]
<1>. USE MuxAssumption DEF TypeOK, ClientInv, CallbackHeldWhileWaiting, OneIdEach,
         HoldersAreOpen, OpenHoldIds, Open, ConnStates
<1>1. ASSUME NEW r \in Reqs, NEW id \in Ids, Connect(r, id) PROVE CR!AbsNext
  <2>1. r \notin held /\ outcome[r] = "none"
    BY <1>1 DEF Connect
  <2>2. held' = held \cup {r}
    BY <1>1, SMTT(30) DEF Connect
  <2>3. outcome' = outcome
    BY <1>1 DEF Connect
  <2>4. CR!Ask(r)
    BY <2>1, <2>2, <2>3 DEF CR!Ask
  <2>. QED
    BY <2>4 DEF CR!AbsNext
<1>2. ASSUME NEW id \in Ids, NEW result \in {"accepted", "failed"},
             wait[id] # NoReq, Answer(id, result), UNCHANGED alloc
      PROVE  CR!AbsNext
  <2>1. PICK r \in Reqs : r = wait[id]
    BY <1>2
  <2>2. r \in held /\ \A i \in Ids : wait[i] = r => i = id
    BY <1>2, <2>1
  <2>3. held' = held \ {r}
    BY <1>2, <2>1, <2>2 DEF Answer
  <2>4. outcome' = [outcome EXCEPT ![r] = told(result)]
    <3>1. conn \in [Reqs -> ConnStates] /\ conn' = [conn EXCEPT ![r] = result]
      BY <1>2, <2>1 DEF Answer
    <3>. HIDE DEF told, TypeOK, ClientInv
    <3>. QED
      BY <3>1
  <2>5. told(result) \in CR!Outcomes \ {"none"}
    BY <1>2 DEF CR!Outcomes
  <2>6. CR!Resolve(r, told(result))
    BY <2>2, <2>3, <2>4 DEF CR!Resolve
  <2>7. CR!Settle(r)
    <3>. HIDE DEF told, TypeOK, ClientInv
    <3>. QED
      BY <2>5, <2>6 DEF CR!Settle
  <2>. QED
    BY <2>7 DEF CR!AbsNext
<1>3. ASSUME NEW id \in Ids, alloc[id] # NoReq, ClientCloseStream(id) PROVE CR!AbsNext
  <2>1. PICK r \in Reqs : r = alloc[id]
    BY <1>3
  <2>2. \A i \in Ids : wait[i] = r => i = id
    BY <1>3, <2>1
  <2>3. outcome' = [outcome EXCEPT ![r] = "dropped"]
    <3>1. conn \in [Reqs -> ConnStates] /\ conn' = [conn EXCEPT ![r] = "closed"]
      BY <1>3, <2>1 DEF ClientCloseStream
    <3>2. told("closed") = "dropped"
      OBVIOUS
    <3>. HIDE DEF told, TypeOK, ClientInv
    <3>. QED
      BY <3>1, <3>2
  <2>4. CASE conn[r] = "waiting"
    <3>1. r \in held /\ held' = held \ {r}
      BY <1>3, <2>1, <2>2, <2>4 DEF ClientCloseStream
    <3>2. CR!Resolve(r, "dropped")
      BY <3>1, <2>3 DEF CR!Resolve
    <3>3. CR!Settle(r)
      BY <3>2 DEF CR!Settle, CR!Outcomes
    <3>. QED
      BY <3>3 DEF CR!AbsNext
  <2>5. CASE conn[r] # "waiting"
    <3>1. outcome[r] \in {"ok", "failed"}
      BY <1>3, <2>1, <2>5
    <3>2. held' = held
      BY <1>3, <2>1, <2>5 DEF ClientCloseStream
    <3>3. CR!Drop(r)
      BY <3>1, <3>2, <2>3 DEF CR!Drop
    <3>. QED
      BY <3>3 DEF CR!AbsNext
  <2>. QED
    BY <2>4, <2>5
<1>4. ASSUME NEW id \in Ids, StartRelay(id) PROVE UNCHANGED <<held, outcome>>
  <2>1. outcome' = outcome
    BY <1>4 DEF StartRelay
  <2>. QED
    BY <1>4, <2>1 DEF StartRelay
<1>5. CASE UNCHANGED <<alloc, wait, conn>>
  BY <1>5 DEF CR!absVars
<1>. QED
  BY <1>1, <1>2, <1>3, <1>4, <1>5, SMTT(30) DEF RequestStep, CR!absVars

\* Every connect() keeps its callback until it is resolved, and is resolved once: the
\* provider implements the safety part of ConnectRequests.
THEOREM ImplementsRequests == Spec => CR!AbsSafety
<1>1. ServerInv => TypeOK
  BY DEF ServerInv
<1>. QED
  BY <1>1, RefinementInit, RefinementStep, ServerInvAlways, ClientInvAlways, PTL
     DEF Spec, CR!AbsSafety

-----------------------------------------------------------------------------
(* The order of the packets in the two channels: how an id changes hands on   *)
(* the way to the server, and what the client may find in front of the answer  *)
(* to a request.                                                               *)

LEMMA AppendFacts ==
    \A s \in Seq(Packet), p \in Packet :
        /\ Len(s) \in Nat
        /\ Append(s, p) \in Seq(Packet)
        /\ Len(Append(s, p)) = Len(s) + 1
        /\ \A i \in 1 .. Len(s) : Append(s, p)[i] = s[i]
        /\ Append(s, p)[Len(s) + 1] = p
BY AppendProperties, LenProperties

LEMMA TailFacts ==
    \A s \in Seq(Packet) : s # <<>> =>
        /\ Len(s) \in Nat /\ Len(s) > 0
        /\ Head(s) = s[1]
        /\ Tail(s) \in Seq(Packet)
        /\ Len(Tail(s)) = Len(s) - 1
        /\ \A i \in 1 .. Len(s) - 1 : Tail(s)[i] = s[i + 1]
BY HeadTailProperties, EmptySeq, LenProperties

LEMMA TruncationFacts ==
    \A s \in Seq(Packet) : \A t \in Truncations(s) :
        /\ t \in Seq(Packet)
        /\ Len(t) \in Nat /\ Len(s) \in Nat /\ Len(t) <= Len(s)
        /\ \A i \in 1 .. Len(t) : t[i] = s[i]
<1>. SUFFICES ASSUME NEW s \in Seq(Packet), NEW n \in 0 .. Len(s)
              PROVE  LET t == SubSeq(s, 1, n) IN
                     /\ t \in Seq(Packet)
                     /\ Len(t) \in Nat /\ Len(s) \in Nat /\ Len(t) <= Len(s)
                     /\ \A i \in 1 .. Len(t) : t[i] = s[i]
  BY DEF Truncations
<1>1. Len(s) \in Nat /\ \A i \in 1 .. n : s[i] \in Packet
  BY LenProperties, ElementOfSeq
<1>. QED
  BY <1>1, SubSeqProperties

-----------------------------------------------------------------------------
(* On the way to the server.  Reuse is ReuseFollowsClose of a channel; Behind   *)
(* makes it inductive: a packet whose sender no longer holds its id has the     *)
(* sender's CLOSE behind it.                                                    *)

Reuse(s) ==
    \A j, k \in 1 .. Len(s) :
        j < k /\ s[j].id = s[k].id /\ s[j].req # s[k].req
            => \E m \in j .. k - 1 : s[m] = Pkt("CLOSE", s[j].id, s[j].req)

Behind(s, holder) ==
    \A k \in 1 .. Len(s) :
        s[k].req # holder[s[k].id]
            => \E m \in k .. Len(s) : s[m] = Pkt("CLOSE", s[k].id, s[k].req)

LEMMA AppendOrder ==
    ASSUME NEW s \in Seq(Packet), NEW p \in Packet,
           NEW a \in [Ids -> Reqs \cup {NoReq}], NEW b \in [Ids -> Reqs \cup {NoReq}],
           Reuse(s), Behind(s, a),
           a[p.id] \in {NoReq, p.req},
           \A i \in Ids \ {p.id} : b[i] = a[i],
           b[p.id] = p.req \/ p = Pkt("CLOSE", p.id, p.req)
    PROVE  Reuse(Append(s, p)) /\ Behind(Append(s, p), b)
<1>. DEFINE t == Append(s, p)
            n == Len(s)
<1>1. /\ n \in Nat /\ Len(t) = n + 1
      /\ \A i \in 1 .. n : t[i] = s[i]
      /\ t[n + 1] = p
  BY AppendFacts
<1>2. \A i \in 1 .. n : s[i].req \in Reqs /\ s[i].id \in Ids
  <2>1. \A i \in 1 .. n : s[i] \in Packet
    BY ElementOfSeq
  <2>2. \A q \in Packet : q.req \in Reqs /\ q.id \in Ids
    BY DEF Packet
  <2>. QED
    BY <2>1, <2>2
<1>3. ASSUME NEW k \in 1 .. n, s[k].id = p.id, s[k].req # p.req
      PROVE  \E m \in k .. n : s[m] = Pkt("CLOSE", s[k].id, s[k].req)
  <2>1. s[k].req # a[s[k].id]
    BY <1>2, <1>3, MuxAssumption
  <2>. QED
    BY <2>1 DEF Behind
<1>. HIDE DEF t
<1>4. Reuse(t)
  <2>. SUFFICES ASSUME NEW j \in 1 .. n + 1, NEW k \in 1 .. n + 1,
                       j < k, t[j].id = t[k].id, t[j].req # t[k].req
                PROVE  \E m \in j .. k - 1 : t[m] = Pkt("CLOSE", t[j].id, t[j].req)
    BY <1>1 DEF Reuse
  <2>1. CASE k \in 1 .. n
    <3>1. PICK m \in j .. k - 1 : s[m] = Pkt("CLOSE", s[j].id, s[j].req)
      BY <1>1, <2>1, SMTT(30) DEF Reuse
    <3>. QED
      BY <1>1, <2>1, <3>1
  <2>2. CASE k = n + 1
    <3>1. j \in 1 .. n /\ t[j] = s[j] /\ t[k] = p
      BY <1>1, <2>2
    <3>2. PICK m \in j .. n : s[m] = Pkt("CLOSE", s[j].id, s[j].req)
      BY <1>3, <3>1
    <3>. QED
      BY <1>1, <2>2, <3>1, <3>2
  <2>. QED
    BY <1>1, <2>1, <2>2
<1>5. Behind(t, b)
  <2>. SUFFICES ASSUME NEW k \in 1 .. n + 1, t[k].req # b[t[k].id]
                PROVE  \E m \in k .. n + 1 : t[m] = Pkt("CLOSE", t[k].id, t[k].req)
    BY <1>1 DEF Behind
  <2>1. CASE k = n + 1
    BY <1>1, <2>1
  <2>2. CASE k \in 1 .. n /\ s[k].id = p.id /\ s[k].req = p.req
    BY <1>1, <2>2
  <2>3. CASE k \in 1 .. n /\ s[k].id = p.id /\ s[k].req # p.req
    <3>1. PICK m \in k .. n : s[m] = Pkt("CLOSE", s[k].id, s[k].req)
      BY <1>3, <2>3
    <3>. QED
      BY <1>1, <2>3, <3>1
  <2>4. CASE k \in 1 .. n /\ s[k].id # p.id
    <3>1. s[k].req # a[s[k].id]
      BY <1>1, <1>2, <2>4
    <3>2. PICK m \in k .. n : s[m] = Pkt("CLOSE", s[k].id, s[k].req)
      BY <2>4, <3>1 DEF Behind
    <3>. QED
      BY <1>1, <2>4, <3>2
  <2>. QED
    BY <1>1, <2>1, <2>2, <2>3, <2>4
<1>. QED
  BY <1>4, <1>5 DEF t

LEMMA TailOrder ==
    ASSUME NEW s \in Seq(Packet), s # <<>>, NEW a, Reuse(s)
    PROVE  Reuse(Tail(s)) /\ (Behind(s, a) => Behind(Tail(s), a))
<1>. DEFINE t == Tail(s)
            n == Len(s)
<1>1. /\ n \in Nat /\ n > 0 /\ Len(t) = n - 1
      /\ \A i \in 1 .. n - 1 : t[i] = s[i + 1]
  BY TailFacts
<1>. HIDE DEF t, n
<1>2. Reuse(t)
  <2>. SUFFICES ASSUME NEW j \in 1 .. n - 1, NEW k \in 1 .. n - 1,
                       j < k, t[j].id = t[k].id, t[j].req # t[k].req
                PROVE  \E m \in j .. k - 1 : t[m] = Pkt("CLOSE", t[j].id, t[j].req)
    BY <1>1 DEF Reuse
  <2>1. j + 1 \in 1 .. n /\ k + 1 \in 1 .. n /\ t[j] = s[j + 1] /\ t[k] = s[k + 1]
    BY <1>1
  <2>2. PICK m \in j + 1 .. k : s[m] = Pkt("CLOSE", t[j].id, t[j].req)
    BY <1>1, <2>1 DEF Reuse, n
  <2>3. m - 1 \in j .. k - 1 /\ t[m - 1] = s[m]
    BY <1>1, <2>1, <2>2
  <2>. QED
    BY <2>2, <2>3
<1>3. ASSUME Behind(s, a) PROVE Behind(t, a)
  <2>. SUFFICES ASSUME NEW k \in 1 .. n - 1, t[k].req # a[t[k].id]
                PROVE  \E m \in k .. n - 1 : t[m] = Pkt("CLOSE", t[k].id, t[k].req)
    BY <1>1 DEF Behind
  <2>1. k + 1 \in 1 .. n /\ t[k] = s[k + 1]
    BY <1>1
  <2>2. PICK m \in k + 1 .. n : s[m] = Pkt("CLOSE", t[k].id, t[k].req)
    BY <1>3, <2>1 DEF Behind, n
  <2>3. m - 1 \in k .. n - 1 /\ t[m - 1] = s[m]
    BY <1>1, <2>2
  <2>. QED
    BY <2>2, <2>3
<1>. QED
  BY <1>2, <1>3 DEF t

LEMMA TruncationOrder ==
    ASSUME NEW s \in Seq(Packet), NEW t \in Truncations(s), Reuse(s)
    PROVE  Reuse(t)
<1>1. /\ Len(t) \in Nat /\ Len(s) \in Nat /\ Len(t) <= Len(s)
      /\ \A i \in 1 .. Len(t) : t[i] = s[i]
  BY TruncationFacts
<1>. SUFFICES ASSUME NEW j \in 1 .. Len(t), NEW k \in 1 .. Len(t),
                     j < k, t[j].id = t[k].id, t[j].req # t[k].req
              PROVE  \E m \in j .. k - 1 : t[m] = Pkt("CLOSE", t[j].id, t[j].req)
  BY DEF Reuse
<1>2. PICK m \in j .. k - 1 : s[m] = Pkt("CLOSE", s[j].id, s[j].req)
  BY <1>1 DEF Reuse
<1>. QED
  BY <1>1, <1>2

\* A packet's sender holds the packet's id, or the packet is the CLOSE with which it
\* gives the id up.
SentByHolder(p) ==
    /\ p \in Packet
    /\ c2s' = Append(c2s, p)
    /\ p.req \in {alloc[p.id], alloc'[p.id]}
    /\ alloc[p.id] \in {NoReq, p.req}
    /\ \A i \in Ids \ {p.id} : alloc'[i] = alloc[i]
    /\ alloc'[p.id] = p.req \/ p = Pkt("CLOSE", p.id, p.req)
    /\ cmux # "closed"

\* What any step does to the channel to the server.
ToServerStep ==
    \/ \E p \in Packet : SentByHolder(p)
    \/ c2s # <<>> /\ c2s' = Tail(c2s) /\ alloc' = alloc /\ cmux' = cmux
    \/ c2s' \in Truncations(c2s) /\ cmux' = "closed"
    \/ c2s' = c2s /\ alloc' = alloc /\ (cmux' # "closed" => cmux # "closed")

LEMMA PktFields ==
    \A op \in {"CREATE", "ACCEPT", "REJECT", "CLOSE", "FORWARD"}, id \in Ids, r \in Reqs :
        /\ Pkt(op, id, r) \in Packet
        /\ Pkt(op, id, r).op = op /\ Pkt(op, id, r).id = id /\ Pkt(op, id, r).req = r
BY DEF Pkt, Packet, Ops

LEMMA CloseSent ==
    ASSUME TypeOK, NEW id \in Ids, alloc[id] # NoReq, ClientCloseStream(id), cmux # "closed"
    PROVE  ToServerStep
<1>. DEFINE p == Pkt("CLOSE", id, alloc[id])
<1>1. alloc[id] \in Reqs /\ alloc \in [Ids -> Reqs \cup {NoReq}]
  BY DEF TypeOK
<1>2. p \in Packet /\ p.id = id /\ p.req = alloc[id]
  BY <1>1, PktFields
<1>3. c2s' = Append(c2s, p) /\ \A i \in Ids \ {id} : alloc'[i] = alloc[i]
  BY <1>1 DEF ClientCloseStream
<1>. HIDE DEF p
<1>4. p = Pkt("CLOSE", p.id, p.req)
  BY <1>2 DEF p
<1>. QED
  BY <1>2, <1>3, <1>4 DEF ToServerStep, SentByHolder

LEMMA ForwardSent ==
    ASSUME TypeOK, NEW id \in Ids, alloc[id] # NoReq, UNCHANGED alloc, cmux # "closed",
           c2s' = Append(c2s, Pkt("FORWARD", id, alloc[id]))
    PROVE  ToServerStep
<1>. DEFINE p == Pkt("FORWARD", id, alloc[id])
<1>1. p \in Packet /\ p.id = id /\ p.req = alloc[id]
  BY PktFields DEF TypeOK
<1>. HIDE DEF p
<1>2. c2s' = Append(c2s, p)
  BY DEF p
<1>. QED
  BY <1>1, <1>2 DEF ToServerStep, SentByHolder

LEMMA ToServerCases == TypeOK /\ [Next]_vars => ToServerStep
<1>. SUFFICES ASSUME TypeOK, [Next]_vars PROVE ToServerStep
  OBVIOUS
<1>1. ASSUME NEW r \in Reqs, NEW id \in Ids, Connect(r, id) PROVE ToServerStep
  <2>. DEFINE p == Pkt("CREATE", id, r)
  <2>1. p \in Packet /\ p.id = id /\ p.req = r
    BY PktFields
  <2>2. /\ c2s' = Append(c2s, p)
        /\ alloc[id] = NoReq /\ alloc'[id] = r /\ \A i \in Ids \ {id} : alloc'[i] = alloc[i]
        /\ cmux # "closed"
    BY <1>1 DEF Connect, TypeOK
  <2>. HIDE DEF p
  <2>. QED
    BY <2>1, <2>2 DEF ToServerStep, SentByHolder
<1>2. ASSUME NEW id \in Ids, AppClose(id) PROVE ToServerStep
  BY <1>2, CloseSent DEF AppClose
<1>3. ASSUME NEW id \in Ids, ClientClosesOne(id) PROVE ToServerStep
  BY <1>3, CloseSent DEF ClientClosesOne
<1>4. ASSUME NEW id \in Ids, StartRelay(id) PROVE ToServerStep
  BY <1>4, ForwardSent DEF StartRelay
<1>5. ASSUME NEW id \in Ids, ClientForward(id) PROVE ToServerStep
  BY <1>5, ForwardSent DEF ClientForward, clientVars
<1>6. CASE ClientReceive
  <2>. DEFINE id == Head(s2c).id
  <2>1. id \in Ids /\ cmux # "closed" /\ cmux' = cmux
    BY <1>6, HeadType DEF ClientReceive, TypeOK
  <2>2. CASE ClientAnswered(id, "accepted") \/ ClientAnswered(id, "failed")
    BY <2>1, <2>2 DEF ClientAnswered, ToServerStep
  <2>3. CASE ClientClosed(id)
    BY <2>1, <2>3, CloseSent DEF ClientClosed, ToServerStep
  <2>4. CASE UNCHANGED <<alloc, wait, timers, conn, c2s>>
    BY <2>1, <2>4 DEF ToServerStep
  <2>. QED
    BY <1>6, <2>2, <2>3, <2>4 DEF ClientReceive
<1>7. CASE ServerReceive
  BY <1>7 DEF ServerReceive, clientVars, ToServerStep
<1>8. CASE ClientGone
  BY <1>8 DEF ClientGone, ToServerStep
<1>9. ASSUME NEW id \in Ids, \/ TargetConnected(id) \/ TargetRefused(id) \/ RelayClose(id)
                             \/ ServerForward(id) \/ ServerClosesOne(id)
      PROVE  ToServerStep
  BY <1>9 DEF TargetConnected, TargetRefused, RelayClose, ServerForward, ServerClosesOne,
              clientVars, ToServerStep
<1>10. ASSUME NEW r \in Reqs, NEW id \in Ids, Timeout(id, r) PROVE ToServerStep
  BY <1>10 DEF Timeout, ToServerStep
<1>11. CASE ClientFails \/ ServerFails \/ ServerGone
  BY <1>11 DEF ClientFails, ServerFails, ServerGone, clientVars, ToServerStep
<1>12. CASE UNCHANGED vars
  BY <1>12 DEF vars, ToServerStep
<1>. QED
  BY <1>1, <1>2, <1>3, <1>4, <1>5, <1>6, <1>7, <1>8, <1>9, <1>10, <1>11, <1>12
     DEF Next, ClientStep, ServerStep, EndStep, ClientSeesEnd, ServerSeesEnd

OrderInv == Reuse(c2s) /\ (cmux # "closed" => Behind(c2s, alloc))

LEMMA OrderInvStep == TypeOK /\ TypeOK' /\ OrderInv /\ [Next]_vars => OrderInv'
<1>. SUFFICES ASSUME TypeOK, TypeOK', OrderInv, ToServerStep PROVE OrderInv'
  BY ToServerCases
<1>0. /\ c2s \in Seq(Packet)
      /\ alloc \in [Ids -> Reqs \cup {NoReq}] /\ alloc' \in [Ids -> Reqs \cup {NoReq}]
  BY DEF TypeOK
<1>1. ASSUME NEW p \in Packet, SentByHolder(p) PROVE OrderInv'
  <2>1. Reuse(Append(c2s, p)) /\ Behind(Append(c2s, p), alloc')
    BY <1>0, <1>1, AppendOrder DEF SentByHolder, OrderInv
  <2>. QED
    BY <1>1, <2>1, SMTT(30) DEF SentByHolder, OrderInv, Reuse, Behind
<1>2. CASE c2s # <<>> /\ c2s' = Tail(c2s) /\ alloc' = alloc /\ cmux' = cmux
  <2>1. Reuse(Tail(c2s)) /\ (Behind(c2s, alloc) => Behind(Tail(c2s), alloc))
    BY <1>0, <1>2, TailOrder DEF OrderInv
  <2>. QED
    BY <1>2, <2>1 DEF OrderInv, Reuse, Behind
<1>3. CASE c2s' \in Truncations(c2s) /\ cmux' = "closed"
  <2>1. Reuse(c2s')
    BY <1>0, <1>3, TruncationOrder DEF OrderInv
  <2>. QED
    BY <1>3, <2>1 DEF OrderInv, Reuse
<1>4. CASE c2s' = c2s /\ alloc' = alloc /\ (cmux' # "closed" => cmux # "closed")
  BY <1>4 DEF OrderInv, Reuse, Behind
<1>. QED
  BY <1>1, <1>2, <1>3, <1>4 DEF ToServerStep

\* The server never finds packets of two requests on one id without the CLOSE of the
\* first between them: closeStream frees the id only once it has written CLOSE.
THEOREM ReuseHolds == Spec => []ReuseFollowsClose
<1>1. Init => OrderInv
  BY EmptySeq DEF Init, OrderInv, Reuse, Behind
<1>2. ServerInv => TypeOK
  BY DEF ServerInv
<1>3. TypeOK /\ OrderInv => ReuseFollowsClose
  BY LenProperties DEF TypeOK, OrderInv, Reuse, ReuseFollowsClose
<1>. QED
  BY <1>1, <1>2, <1>3, OrderInvStep, ServerInvAlways, PTL DEF Spec

-----------------------------------------------------------------------------
(* On the way to the client.  A pair of an id and a request is known when a     *)
(* packet or a stream of the server names it.  What is known of a request is    *)
(* the id it holds, if any: requests that draw the same id are never confused.  *)

Known(i, r) ==
    \/ \E k \in 1 .. Len(c2s) : c2s[k].id = i /\ c2s[k].req = r
    \/ \E k \in 1 .. Len(s2c) : s2c[k].id = i /\ s2c[k].req = r
    \/ salloc[i] = r

KnownInv ==
    \A i \in Ids, r \in Reqs :
        Known(i, r) => conn[r] # "idle" /\ \A j \in Ids : alloc[j] = r => j = i

In(s, i, r) == \E k \in 1 .. Len(s) : s[k].id = i /\ s[k].req = r

LEMMA InAppend ==
    ASSUME NEW s \in Seq(Packet), NEW p \in Packet, NEW i, NEW r, In(Append(s, p), i, r)
    PROVE  In(s, i, r) \/ (p.id = i /\ p.req = r)
BY AppendFacts DEF In

LEMMA InTail ==
    ASSUME NEW s \in Seq(Packet), s # <<>>, NEW i, NEW r, In(Tail(s), i, r)
    PROVE  In(s, i, r)
<1>1. PICK k \in 1 .. Len(s) - 1 : Tail(s)[k].id = i /\ Tail(s)[k].req = r
  BY TailFacts DEF In
<1>2. k + 1 \in 1 .. Len(s) /\ s[k + 1] = Tail(s)[k]
  BY TailFacts
<1>. QED
  BY <1>1, <1>2 DEF In

LEMMA InHead ==
    ASSUME NEW s \in Seq(Packet), s # <<>>
    PROVE  In(s, Head(s).id, Head(s).req)
<1>1. 1 \in 1 .. Len(s) /\ Head(s) = s[1]
  BY TailFacts
<1>. QED
  BY <1>1 DEF In

LEMMA InTruncation ==
    ASSUME NEW s \in Seq(Packet), NEW t \in Truncations(s), NEW i, NEW r, In(t, i, r)
    PROVE  In(s, i, r)
BY TruncationFacts DEF In

LEMMA TwoAppends ==
    \A s \in Seq(Packet), p \in Packet, q \in Packet : s \o <<p, q>> = Append(Append(s, p), q)
<1>. SUFFICES ASSUME NEW s \in Seq(Packet), NEW p \in Packet, NEW q \in Packet
              PROVE  s \o <<p, q>> = Append(Append(s, p), q)
  OBVIOUS
<1>. DEFINE t == Append(Append(s, p), q)
            u == s \o <<p, q>>
            n == Len(s)
<1>1. <<p, q>> \in Seq(Packet) /\ Len(<<p, q>>) = 2
  OBVIOUS
<1>2. n \in Nat /\ t \in Seq(Packet) /\ Len(t) = n + 2
      /\ (\A i \in 1 .. n : t[i] = s[i]) /\ t[n + 1] = p /\ t[n + 2] = q
  BY AppendFacts
<1>3. u \in Seq(Packet) /\ Len(u) = n + 2
      /\ \A i \in 1 .. n + 2 : u[i] = IF i <= n THEN s[i] ELSE <<p, q>>[i - n]
  BY <1>1, <1>2, ConcatProperties
<1>. HIDE DEF t, u, n
<1>4. \A i \in 1 .. n + 2 : u[i] = t[i]
  <2>. SUFFICES ASSUME NEW i \in 1 .. n + 2 PROVE u[i] = t[i]
    OBVIOUS
  <2>1. CASE i \in 1 .. n
    BY <1>2, <1>3, <2>1
  <2>2. CASE i = n + 1
    BY <1>2, <1>3, <2>2
  <2>3. CASE i = n + 2
    BY <1>2, <1>3, <2>3
  <2>. QED
    BY <1>2, <2>1, <2>2, <2>3
<1>5. u = t
  BY <1>2, <1>3, <1>4, SeqEqual
<1>. QED
  BY <1>5 DEF u, t

\* No relay starts to run, and a stream the step leaves behind was there before or
\* comes from a packet of the client.
KeepsRelays ==
    \A id \in Ids :
        /\ relay'[id] = "relaying" => relay[id] = "relaying" /\ salloc'[id] = salloc[id]
        /\ salloc'[id] \in {NoReq, salloc[id]} \/ In(c2s, id, salloc'[id])

\* The server answers or closes: packets for pairs it knows, none of them relayed data.
Answers(p) == p \in Packet /\ p.op # "FORWARD" /\ Known(p.id, p.req)

\* What any step does to the channel to the client and to the server's streams.
ToClientStep ==
    \/ ClientReceive
    \/ \E p \in Packet : Answers(p) /\ s2c' = Append(s2c, p) /\ KeepsRelays
    \/ \E p, q \in Packet :
          Answers(p) /\ Answers(q) /\ s2c' = Append(Append(s2c, p), q) /\ KeepsRelays
    \/ \E id \in Ids : TargetConnected(id)
    \/ \E id \in Ids : ServerForward(id)
    \/ s2c' \in Truncations(s2c) /\ salloc' = salloc /\ \A id \in Ids : relay'[id] # "relaying"
    \/ s2c' = s2c /\ KeepsRelays

LEMMA AnswersPkt ==
    ASSUME NEW op \in {"REJECT", "CLOSE"}, NEW id \in Ids, NEW r \in Reqs, Known(id, r)
    PROVE  Answers(Pkt(op, id, r)) /\ Pkt(op, id, r) \in Packet
<1>. DEFINE p == Pkt(op, id, r)
<1>1. p \in Packet /\ p.op = op /\ p.id = id /\ p.req = r
  BY PktFields
<1>. HIDE DEF p
<1>2. Answers(p)
  BY <1>1 DEF Answers
<1>. QED
  BY <1>1, <1>2 DEF p

LEMMA KnownStream == ASSUME NEW id, salloc[id] # NoReq PROVE Known(id, salloc[id])
BY DEF Known

LEMMA ToClientReceive == ServerInv /\ ServerReceive => ToClientStep
<1>. SUFFICES ASSUME ServerInv, ServerReceive PROVE ToClientStep
  OBVIOUS
<1>. DEFINE p == Head(c2s)
<1>0. /\ c2s \in Seq(Packet) /\ s2c \in Seq(Packet)
      /\ salloc \in [Ids -> Reqs \cup {NoReq}] /\ relay \in [Ids -> RelayStates]
  BY DEF ServerInv, TypeOK
<1>1. p.id \in Ids /\ p.req \in Reqs /\ In(c2s, p.id, p.req)
  BY <1>0, HeadType, InHead DEF ServerReceive
<1>2. Known(p.id, p.req)
  BY <1>1 DEF Known, In
<1>. HIDE DEF p
<1>3. CASE CreateInUse(p)
  <2>1. salloc[p.id] \in Reqs /\ Known(p.id, salloc[p.id])
    BY <1>0, <1>1, <1>3, KnownStream DEF CreateInUse
  <2>2. PICK x \in Packet : x = Pkt("REJECT", p.id, p.req) /\ Answers(x)
    BY <1>1, <1>2, AnswersPkt
  <2>3. PICK y \in Packet : y = Pkt("CLOSE", p.id, salloc[p.id]) /\ Answers(y)
    BY <1>1, <2>1, AnswersPkt
  <2>4. CASE relay[p.id] = "relaying"
    <3>1. s2c' = s2c \o <<x, y>> /\ ServerCloseStream(p.id)
      BY <1>3, <2>2, <2>3, <2>4 DEF CreateInUse
    <3>2. KeepsRelays
      BY <1>0, <1>1, <3>1 DEF ServerCloseStream, KeepsRelays
    <3>3. s2c' = Append(Append(s2c, x), y)
      BY <1>0, <3>1, TwoAppends
    <3>. QED
      BY <2>2, <2>3, <3>2, <3>3 DEF ToClientStep
  <2>5. CASE relay[p.id] # "relaying"
    <3>1. s2c' = Append(s2c, x) /\ KeepsRelays
      BY <1>3, <2>2, <2>5 DEF CreateInUse, KeepsRelays
    <3>. QED
      BY <2>2, <3>1 DEF ToClientStep
  <2>. QED
    BY <2>4, <2>5
<1>4. CASE CreateNew(p)
  <2>1. s2c' = s2c /\ KeepsRelays
    BY <1>0, <1>1, <1>4 DEF CreateNew, KeepsRelays
  <2>. QED
    BY <2>1 DEF ToClientStep
<1>5. CASE CreateTooShort(p)
  <2>1. s2c' = s2c /\ KeepsRelays
    BY <1>5 DEF CreateTooShort, KeepsRelays
  <2>. QED
    BY <2>1 DEF ToClientStep
<1>6. CASE ServerClosed(p.id)
  <2>1. CASE relay[p.id] = "relaying"
    <3>1. salloc[p.id] \in Reqs /\ Known(p.id, salloc[p.id])
      BY <1>0, <1>1, <2>1, KnownStream DEF ServerInv, ServerWaitsWhileUnconnected
    <3>2. PICK y \in Packet : y = Pkt("CLOSE", p.id, salloc[p.id]) /\ Answers(y)
      BY <1>1, <3>1, AnswersPkt
    <3>3. s2c' = Append(s2c, y) /\ ServerCloseStream(p.id)
      BY <1>6, <2>1, <3>2 DEF ServerClosed
    <3>4. KeepsRelays
      BY <1>0, <1>1, <3>3 DEF ServerCloseStream, KeepsRelays
    <3>. QED
      BY <3>2, <3>3, <3>4 DEF ToClientStep
  <2>2. CASE relay[p.id] # "relaying"
    <3>1. s2c' = s2c /\ KeepsRelays
      BY <1>6, <2>2 DEF ServerClosed, KeepsRelays
    <3>. QED
      BY <3>1 DEF ToClientStep
  <2>. QED
    BY <2>1, <2>2
<1>7. CASE UNCHANGED <<serverVars, s2c>>
  <2>1. s2c' = s2c /\ KeepsRelays
    BY <1>7 DEF serverVars, KeepsRelays
  <2>. QED
    BY <2>1 DEF ToClientStep
<1>. QED
  BY <1>3, <1>4, <1>5, <1>6, <1>7 DEF ServerReceive, p

LEMMA ToClientCases == ServerInv /\ [Next]_vars => ToClientStep
<1>. SUFFICES ASSUME ServerInv, [Next]_vars PROVE ToClientStep
  OBVIOUS
<1>0. /\ s2c \in Seq(Packet)
      /\ salloc \in [Ids -> Reqs \cup {NoReq}] /\ relay \in [Ids -> RelayStates]
  BY DEF ServerInv, TypeOK
<1>1. ASSUME s2c' = s2c, salloc' = salloc, relay' = relay PROVE ToClientStep
  BY <1>1 DEF ToClientStep, KeepsRelays
<1>2. ASSUME NEW id \in Ids, RelayClose(id) \/ ServerClosesOne(id) PROVE ToClientStep
  <2>1. salloc[id] \in Reqs /\ Known(id, salloc[id]) /\ ServerCloseStream(id)
    BY <1>0, <1>2, KnownStream
       DEF RelayClose, ServerClosesOne, ServerInv, ServerWaitsWhileUnconnected
  <2>2. KeepsRelays
    BY <1>0, <2>1 DEF ServerCloseStream, KeepsRelays
  <2>3. PICK x \in Packet : x = Pkt("REJECT", id, salloc[id]) /\ Answers(x)
    BY <2>1, AnswersPkt
  <2>4. PICK y \in Packet : y = Pkt("CLOSE", id, salloc[id]) /\ Answers(y)
    BY <2>1, AnswersPkt
  <2>5. s2c' = Append(s2c, y) \/ s2c' = s2c \o <<y>> \/ s2c' = s2c \o <<x, y>>
    BY <1>2, <2>3, <2>4 DEF RelayClose, ServerClosesOne
  <2>6. s2c' = Append(s2c, y) \/ s2c' = Append(Append(s2c, x), y)
    BY <1>0, <2>5, TwoAppends, AppendIsConcat
  <2>. QED
    BY <2>2, <2>3, <2>4, <2>6 DEF ToClientStep
<1>3. ASSUME NEW id \in Ids, TargetConnected(id) \/ ServerForward(id) PROVE ToClientStep
  BY <1>3 DEF ToClientStep
<1>4. ASSUME NEW id \in Ids, TargetRefused(id) PROVE ToClientStep
  <2>1. s2c' = s2c /\ KeepsRelays
    BY <1>0, <1>4 DEF TargetRefused, KeepsRelays
  <2>. QED
    BY <2>1 DEF ToClientStep
<1>5. CASE ServerGone
  <2>1. \A id \in Ids : relay[id] = "none"
    BY <1>5 DEF ServerGone, ServerInv, ServerWaitsWhileUnconnected
  <2>. QED
    BY <1>5, <2>1 DEF ServerGone, ToClientStep
<1>6. CASE ClientReceive
  BY <1>6 DEF ToClientStep
<1>7. CASE ServerReceive
  BY <1>7, ToClientReceive
<1>8. ASSUME NEW r \in Reqs, NEW id \in Ids, Connect(r, id) \/ Timeout(id, r)
      PROVE  ToClientStep
  BY <1>1, <1>8 DEF Connect, Timeout, serverVars
<1>9. ASSUME NEW id \in Ids,
             AppClose(id) \/ StartRelay(id) \/ ClientForward(id) \/ ClientClosesOne(id)
      PROVE  ToClientStep
  BY <1>1, <1>9 DEF AppClose, StartRelay, ClientForward, ClientClosesOne, serverVars
<1>10. CASE ClientFails \/ ClientGone \/ ServerFails
  BY <1>1, <1>10 DEF ClientFails, ClientGone, ServerFails, serverVars
<1>11. CASE UNCHANGED vars
  BY <1>1, <1>11 DEF vars
<1>. QED
  BY <1>2, <1>3, <1>4, <1>5, <1>6, <1>7, <1>8, <1>9, <1>10, <1>11
     DEF Next, ClientStep, ServerStep, EndStep, ClientSeesEnd, ServerSeesEnd

LEMMA KnownStep ==
    ASSUME ServerInv, ToServerStep, ToClientStep, NEW i \in Ids, NEW r \in Reqs, Known(i, r)'
    PROVE  Known(i, r) \/ alloc[i] = r \/ alloc'[i] = r
<1>0. /\ c2s \in Seq(Packet) /\ s2c \in Seq(Packet)
      /\ salloc \in [Ids -> Reqs \cup {NoReq}]
      /\ r # NoReq
  BY MuxAssumption DEF ServerInv, TypeOK
<1>1. Known(i, r) <=> In(c2s, i, r) \/ In(s2c, i, r) \/ salloc[i] = r
  BY DEF Known, In
<1>2. In(c2s', i, r) \/ In(s2c', i, r) \/ salloc'[i] = r
  BY DEF Known, In
<1>3. ASSUME In(c2s', i, r) PROVE In(c2s, i, r) \/ alloc[i] = r \/ alloc'[i] = r
  <2>1. CASE c2s' = c2s
    BY <1>3, <2>1
  <2>2. CASE c2s # <<>> /\ c2s' = Tail(c2s)
    BY <1>0, <1>3, <2>2, InTail
  <2>3. CASE c2s' \in Truncations(c2s)
    BY <1>0, <1>3, <2>3, InTruncation
  <2>4. ASSUME NEW p \in Packet, SentByHolder(p) PROVE In(c2s, i, r) \/ alloc[i] = r \/ alloc'[i] = r
    BY <1>0, <1>3, <2>4, InAppend DEF SentByHolder
  <2>. QED
    BY <2>1, <2>2, <2>3, <2>4 DEF ToServerStep
<1>4. ASSUME KeepsRelays PROVE salloc'[i] = r => Known(i, r)
  BY <1>0, <1>1, <1>4 DEF KeepsRelays
<1>5. ASSUME In(s2c', i, r) \/ salloc'[i] = r PROVE Known(i, r)
  <2>1. CASE ClientReceive
    BY <1>0, <1>1, <1>5, <2>1, InTail DEF ClientReceive, serverVars
  <2>2. ASSUME NEW p \in Packet, Answers(p), s2c' = Append(s2c, p), KeepsRelays PROVE Known(i, r)
    BY <1>0, <1>1, <1>5, <1>4, <2>2, InAppend DEF Answers
  <2>3. ASSUME NEW p \in Packet, NEW q \in Packet, Answers(p), Answers(q),
               s2c' = Append(Append(s2c, p), q), KeepsRelays
        PROVE  Known(i, r)
    <3>1. Append(s2c, p) \in Seq(Packet)
      BY <1>0, AppendFacts
    <3>2. In(s2c', i, r) => In(Append(s2c, p), i, r) \/ (q.id = i /\ q.req = r)
      BY <2>3, <3>1, InAppend
    <3>3. In(Append(s2c, p), i, r) => In(s2c, i, r) \/ (p.id = i /\ p.req = r)
      BY <1>0, InAppend
    <3>. QED
      BY <1>1, <1>5, <1>4, <2>3, <3>2, <3>3 DEF Answers
  <2>4. ASSUME NEW id \in Ids, TargetConnected(id) PROVE Known(i, r)
    <3>1. salloc[id] \in Reqs
      BY <1>0, <2>4 DEF TargetConnected, ServerInv, ServerWaitsWhileUnconnected
    <3>2. PICK p \in Packet : p = Pkt("ACCEPT", id, salloc[id]) /\ p.id = id /\ p.req = salloc[id]
      BY <3>1, PktFields
    <3>3. PICK q \in Packet : q = Pkt("FORWARD", id, salloc[id]) /\ q.id = id /\ q.req = salloc[id]
      BY <3>1, PktFields
    <3>4. s2c' = Append(Append(s2c, p), q) /\ salloc' = salloc
      BY <1>0, <2>4, <3>2, <3>3, TwoAppends DEF TargetConnected
    <3>5. Append(s2c, p) \in Seq(Packet)
      BY <1>0, AppendFacts
    <3>6. In(s2c', i, r) => In(Append(s2c, p), i, r) \/ (q.id = i /\ q.req = r)
      BY <3>4, <3>5, InAppend
    <3>7. In(Append(s2c, p), i, r) => In(s2c, i, r) \/ (p.id = i /\ p.req = r)
      BY <1>0, InAppend
    <3>. QED
      BY <1>1, <1>5, <3>2, <3>3, <3>4, <3>6, <3>7
  <2>5. ASSUME NEW id \in Ids, ServerForward(id) PROVE Known(i, r)
    <3>1. salloc[id] \in Reqs
      BY <1>0, <2>5 DEF ServerForward, ServerInv, ServerWaitsWhileUnconnected
    <3>2. PICK p \in Packet : p = Pkt("FORWARD", id, salloc[id]) /\ p.id = id /\ p.req = salloc[id]
      BY <3>1, PktFields
    <3>3. s2c' = Append(s2c, p) /\ salloc' = salloc
      BY <2>5, <3>2 DEF ServerForward, serverVars
    <3>. QED
      BY <1>0, <1>1, <1>5, <3>2, <3>3, InAppend
  <2>6. CASE s2c' \in Truncations(s2c) /\ salloc' = salloc
    BY <1>0, <1>1, <1>5, <2>6, InTruncation
  <2>7. CASE s2c' = s2c /\ KeepsRelays
    BY <1>1, <1>5, <1>4, <2>7
  <2>. QED
    BY <2>1, <2>2, <2>3, <2>4, <2>5, <2>6, <2>7 DEF ToClientStep
<1>. QED
  BY <1>1, <1>2, <1>3, <1>5

LEMMA KnownInvStep ==
    ServerInv /\ TypeOK' /\ ClientInv /\ ClientInv' /\ KnownInv /\ [Next]_vars => KnownInv'
<1>. SUFFICES ASSUME ServerInv, TypeOK', ClientInv, ClientInv', KnownInv,
                     RequestStep, ToServerStep, ToClientStep
              PROVE  KnownInv'
  BY RequestCases, ToServerCases, ToClientCases DEF ServerInv
<1>. SUFFICES ASSUME NEW i \in Ids, NEW r \in Reqs, Known(i, r)'
              PROVE  conn'[r] # "idle" /\ \A j \in Ids : alloc'[j] = r => j = i
  BY DEF KnownInv
<1>1. Known(i, r) \/ alloc[i] = r \/ alloc'[i] = r
  BY KnownStep
<1>2. \A j \in Ids : alloc'[j] = r => alloc[j] = r \/ conn[r] = "idle"
  BY MuxAssumption DEF RequestStep, Connect, ClientCloseStream, StartRelay, ServerInv, TypeOK
<1>3. conn'[r] = "idle" => conn[r] = "idle"
  BY DEF RequestStep, Connect, Answer, ClientCloseStream, StartRelay, ServerInv, TypeOK
<1>4. CASE Known(i, r)
  BY <1>2, <1>3, <1>4 DEF KnownInv
<1>5. CASE alloc[i] = r
  <2>1. conn[r] # "idle" /\ \A j \in Ids : alloc[j] = r => j = i
    BY <1>5, MuxAssumption DEF ClientInv, OneIdEach, HoldersAreOpen, Open
  <2>. QED
    BY <1>2, <1>3, <2>1
<1>6. CASE alloc'[i] = r
  BY <1>6, MuxAssumption DEF ClientInv, OneIdEach, HoldersAreOpen, Open
<1>. QED
  BY <1>1, <1>4, <1>5, <1>6

-----------------------------------------------------------------------------
(* The answer comes first.  InFront(s, w) is NoDataBeforeAnswer of the whole    *)
(* channel s for the set w of waiting requests.                                 *)

Waiting == {r \in Reqs : conn[r] = "waiting"}

Coming(s, i, r) == \E j \in 1 .. Len(s) : s[j] = Pkt("ACCEPT", i, r)

InFront(s, w) ==
    \A k \in 1 .. Len(s) :
        s[k].op = "FORWARD" /\ s[k].req \in w
            => \E j \in 1 .. k - 1 : s[j] = Pkt("ACCEPT", s[k].id, s[k].req)

AnswerInv ==
    /\ InFront(s2c, Waiting)
    /\ \A id \in Ids : relay[id] = "relaying" /\ salloc[id] \in Waiting
                           => Coming(s2c, id, salloc[id])

LEMMA InFrontAppend ==
    ASSUME NEW s \in Seq(Packet), NEW p \in Packet, NEW w, InFront(s, w),
           p.op = "FORWARD" /\ p.req \in w => Coming(s, p.id, p.req)
    PROVE  InFront(Append(s, p), w)
<1>. DEFINE t == Append(s, p)
            n == Len(s)
<1>1. n \in Nat /\ Len(t) = n + 1 /\ (\A i \in 1 .. n : t[i] = s[i]) /\ t[n + 1] = p
  BY AppendFacts
<1>. HIDE DEF t
<1>. SUFFICES ASSUME NEW k \in 1 .. n + 1, t[k].op = "FORWARD", t[k].req \in w
              PROVE  \E j \in 1 .. k - 1 : t[j] = Pkt("ACCEPT", t[k].id, t[k].req)
  BY <1>1 DEF InFront, t
<1>2. CASE k \in 1 .. n
  <2>1. PICK j \in 1 .. k - 1 : s[j] = Pkt("ACCEPT", s[k].id, s[k].req)
    BY <1>1, <1>2 DEF InFront
  <2>. QED
    BY <1>1, <1>2, <2>1
<1>3. CASE k = n + 1
  <2>1. PICK j \in 1 .. n : s[j] = Pkt("ACCEPT", p.id, p.req)
    BY <1>1, <1>3 DEF Coming
  <2>. QED
    BY <1>1, <1>3, <2>1
<1>. QED
  BY <1>1, <1>2, <1>3

LEMMA InFrontTail ==
    ASSUME NEW s \in Seq(Packet), s # <<>>, NEW w, InFront(s, w),
           \A i \in Ids, r \in w : Head(s) # Pkt("ACCEPT", i, r)
    PROVE  /\ InFront(Tail(s), w)
           /\ \A i \in Ids, r \in w : Coming(s, i, r) => Coming(Tail(s), i, r)
<1>. DEFINE t == Tail(s)
            n == Len(s)
<1>1. /\ n \in Nat /\ n > 0 /\ Head(s) = s[1]
      /\ Len(t) = n - 1 /\ \A i \in 1 .. n - 1 : t[i] = s[i + 1]
      /\ t \in Seq(Packet)
  BY TailFacts
<1>2. \A j \in 1 .. n - 1 : t[j].id \in Ids
  <2>1. \A j \in 1 .. n - 1 : t[j] \in Packet
    BY <1>1, ElementOfSeq
  <2>2. \A q \in Packet : q.id \in Ids
    BY DEF Packet
  <2>. QED
    BY <2>1, <2>2
<1>. HIDE DEF t, n
<1>3. ASSUME NEW k \in 1 .. n - 1, t[k].op = "FORWARD", t[k].req \in w
      PROVE  \E j \in 1 .. k - 1 : t[j] = Pkt("ACCEPT", t[k].id, t[k].req)
  <2>1. k + 1 \in 1 .. n /\ t[k] = s[k + 1]
    BY <1>1
  <2>2. PICK j \in 1 .. k : s[j] = Pkt("ACCEPT", t[k].id, t[k].req)
    BY <1>1, <1>3, <2>1 DEF InFront, n
  <2>3. j # 1
    BY <1>1, <1>2, <1>3, <2>2
  <2>4. j - 1 \in 1 .. k - 1 /\ t[j - 1] = s[j]
    BY <1>1, <2>2, <2>3
  <2>. QED
    BY <2>2, <2>4
<1>4. ASSUME NEW i \in Ids, NEW r \in w, Coming(s, i, r) PROVE Coming(t, i, r)
  <2>1. PICK j \in 1 .. n : s[j] = Pkt("ACCEPT", i, r)
    BY <1>4 DEF Coming, n
  <2>2. j # 1
    BY <1>1, <2>1
  <2>3. j - 1 \in 1 .. n - 1 /\ t[j - 1] = s[j]
    BY <1>1, <2>1, <2>2
  <2>. QED
    BY <1>1, <2>1, <2>3 DEF Coming
<1>. QED
  BY <1>1, <1>3, <1>4 DEF InFront, t

LEMMA InFrontTruncation ==
    ASSUME NEW s \in Seq(Packet), NEW t \in Truncations(s), NEW w, InFront(s, w)
    PROVE  InFront(t, w)
<1>1. /\ Len(t) \in Nat /\ Len(s) \in Nat /\ Len(t) <= Len(s)
      /\ \A i \in 1 .. Len(t) : t[i] = s[i]
  BY TruncationFacts
<1>. SUFFICES ASSUME NEW k \in 1 .. Len(t), t[k].op = "FORWARD", t[k].req \in w
              PROVE  \E j \in 1 .. k - 1 : t[j] = Pkt("ACCEPT", t[k].id, t[k].req)
  BY DEF InFront
<1>2. PICK j \in 1 .. k - 1 : s[j] = Pkt("ACCEPT", s[k].id, s[k].req)
  BY <1>1 DEF InFront
<1>. QED
  BY <1>1, <1>2

LEMMA ComingAppend ==
    ASSUME NEW s \in Seq(Packet), NEW p \in Packet, NEW i, NEW r
    PROVE  /\ Coming(s, i, r) => Coming(Append(s, p), i, r)
           /\ p = Pkt("ACCEPT", i, r) => Coming(Append(s, p), i, r)
BY AppendFacts DEF Coming

\* A request that an ACCEPT names waits no longer once the client has read it: the id
\* of the packet is the one it holds, so the callback found there is its own.
LEMMA AcceptedWaitsNoLonger ==
    ASSUME ServerInv, ClientInv, KnownInv, ClientReceive, NEW i \in Ids, NEW r \in Reqs,
           Head(s2c) = Pkt("ACCEPT", i, r)
    PROVE  conn'[r] # "waiting"
<1>1. s2c \in Seq(Packet) /\ s2c # <<>> /\ Head(s2c).op = "ACCEPT"
      /\ Head(s2c).id = i /\ Head(s2c).req = r
  BY PktFields DEF ClientReceive, ServerInv, TypeOK
<1>2. Known(i, r)
  BY <1>1, InHead DEF Known, In
<1>3. ClientAnswered(i, "accepted")
  BY <1>1 DEF ClientReceive
<1>4. conn \in [Reqs -> ConnStates] /\ wait \in [Ids -> Reqs \cup {NoReq}]
  BY DEF ServerInv, TypeOK
<1>5. CASE conn[r] = "waiting"
  <2>1. PICK j \in Ids : wait[j] = r /\ alloc[j] = r
    BY <1>5, MuxAssumption DEF ClientInv, CallbackHeldWhileWaiting
  <2>2. j = i
    BY <1>2, <2>1 DEF KnownInv
  <2>. QED
    BY <1>3, <1>4, <2>1, <2>2, MuxAssumption DEF ClientAnswered, Answer
<1>6. CASE conn[r] # "waiting"
  BY <1>3, <1>4, <1>6 DEF ClientAnswered, Answer
<1>. QED
  BY <1>5, <1>6

LEMMA AnswerInvStep ==
    ServerInv /\ ServerInv' /\ ClientInv /\ KnownInv /\ AnswerInv /\ [Next]_vars => AnswerInv'
<1>. SUFFICES ASSUME ServerInv, ServerInv', ClientInv, KnownInv, AnswerInv,
                     RequestStep, ToClientStep
              PROVE  AnswerInv'
  BY RequestCases, ToClientCases DEF ServerInv
<1>. DEFINE w == Waiting'
<1>0. /\ s2c \in Seq(Packet) /\ w \subseteq Reqs
      /\ salloc \in [Ids -> Reqs \cup {NoReq}] /\ relay \in [Ids -> RelayStates]
  BY DEF ServerInv, TypeOK, Waiting
<1>1. \A r \in w : r \in Waiting \/ conn[r] = "idle"
  BY DEF RequestStep, Connect, Answer, ClientCloseStream, StartRelay, ServerInv, TypeOK, Waiting
<1>2. InFront(s2c, w)
  <2>. SUFFICES ASSUME NEW k \in 1 .. Len(s2c), s2c[k].op = "FORWARD", s2c[k].req \in w
                PROVE  \E j \in 1 .. k - 1 : s2c[j] = Pkt("ACCEPT", s2c[k].id, s2c[k].req)
    BY DEF InFront
  <2>1. s2c[k].id \in Ids /\ s2c[k].req \in Reqs
    <3>1. s2c[k] \in Packet
      BY <1>0, ElementOfSeq
    <3>. QED
      BY <3>1 DEF Packet
  <2>2. conn[s2c[k].req] # "idle"
    BY <2>1 DEF KnownInv, Known
  <2>. QED
    BY <1>1, <2>2 DEF AnswerInv, InFront
<1>3. \A id \in Ids : relay[id] = "relaying" /\ salloc[id] \in w => Coming(s2c, id, salloc[id])
  BY <1>0, <1>1 DEF KnownInv, Known, AnswerInv
<1>. HIDE DEF w
<1>. SUFFICES /\ InFront(s2c', w)
              /\ \A id \in Ids : relay'[id] = "relaying" /\ salloc'[id] \in w
                                     => Coming(s2c', id, salloc'[id])
  BY DEF AnswerInv, w, InFront, Coming
<1>4. CASE ClientReceive
  <2>1. \A i \in Ids, r \in w : Head(s2c) # Pkt("ACCEPT", i, r)
    BY <1>0, <1>4, AcceptedWaitsNoLonger DEF w, Waiting
  <2>2. s2c # <<>> /\ s2c' = Tail(s2c) /\ relay' = relay /\ salloc' = salloc
    BY <1>4 DEF ClientReceive, serverVars
  <2>. QED
    BY <1>0, <1>2, <1>3, <2>1, <2>2, InFrontTail
<1>5. ASSUME NEW p \in Packet, Answers(p), s2c' = Append(s2c, p), KeepsRelays
      PROVE  /\ InFront(s2c', w)
             /\ \A id \in Ids : relay'[id] = "relaying" /\ salloc'[id] \in w
                                    => Coming(s2c', id, salloc'[id])
  BY <1>0, <1>2, <1>3, <1>5, InFrontAppend, ComingAppend DEF Answers, KeepsRelays
<1>6. ASSUME NEW p \in Packet, NEW q \in Packet, Answers(p), Answers(q),
             s2c' = Append(Append(s2c, p), q), KeepsRelays
      PROVE  /\ InFront(s2c', w)
             /\ \A id \in Ids : relay'[id] = "relaying" /\ salloc'[id] \in w
                                    => Coming(s2c', id, salloc'[id])
  <2>1. Append(s2c, p) \in Seq(Packet) /\ InFront(Append(s2c, p), w)
    BY <1>0, <1>2, <1>6, InFrontAppend, AppendFacts DEF Answers
  <2>2. InFront(s2c', w)
    BY <1>6, <2>1, InFrontAppend DEF Answers
  <2>. QED
    BY <1>0, <1>3, <1>6, <2>1, <2>2, ComingAppend DEF KeepsRelays
<1>7. ASSUME NEW id \in Ids, TargetConnected(id)
      PROVE  /\ InFront(s2c', w)
             /\ \A i \in Ids : relay'[i] = "relaying" /\ salloc'[i] \in w
                                    => Coming(s2c', i, salloc'[i])
  <2>1. salloc[id] \in Reqs
    BY <1>0, <1>7 DEF TargetConnected, ServerInv, ServerWaitsWhileUnconnected
  <2>2. PICK p \in Packet : p = Pkt("ACCEPT", id, salloc[id]) /\ p.op = "ACCEPT"
    BY <2>1, PktFields
  <2>3. PICK q \in Packet : /\ q = Pkt("FORWARD", id, salloc[id])
                            /\ q.id = id /\ q.req = salloc[id]
    BY <2>1, PktFields
  <2>4. s2c' = Append(Append(s2c, p), q) /\ salloc' = salloc
    BY <1>0, <1>7, <2>2, <2>3, TwoAppends DEF TargetConnected
  <2>5. /\ Append(s2c, p) \in Seq(Packet) /\ InFront(Append(s2c, p), w)
        /\ Coming(Append(s2c, p), id, salloc[id])
    BY <1>0, <1>2, <2>2, InFrontAppend, ComingAppend, AppendFacts
  <2>6. InFront(s2c', w) /\ Coming(s2c', id, salloc[id])
    BY <2>3, <2>4, <2>5, InFrontAppend, ComingAppend
  <2>7. \A i \in Ids \ {id} : relay'[i] = relay[i]
    BY <1>0, <1>7 DEF TargetConnected
  <2>. QED
    BY <1>0, <1>3, <2>2, <2>4, <2>5, <2>6, <2>7, ComingAppend
<1>8. ASSUME NEW id \in Ids, ServerForward(id)
      PROVE  /\ InFront(s2c', w)
             /\ \A i \in Ids : relay'[i] = "relaying" /\ salloc'[i] \in w
                                    => Coming(s2c', i, salloc'[i])
  <2>1. salloc[id] \in Reqs /\ relay[id] = "relaying"
    BY <1>0, <1>8 DEF ServerForward, ServerInv, ServerWaitsWhileUnconnected
  <2>2. PICK p \in Packet : /\ p = Pkt("FORWARD", id, salloc[id])
                            /\ p.id = id /\ p.req = salloc[id]
    BY <2>1, PktFields
  <2>3. s2c' = Append(s2c, p) /\ salloc' = salloc /\ relay' = relay
    BY <1>8, <2>2 DEF ServerForward, serverVars
  <2>. QED
    BY <1>0, <1>2, <1>3, <2>1, <2>2, <2>3, InFrontAppend, ComingAppend
<1>9. CASE s2c' \in Truncations(s2c) /\ salloc' = salloc /\ \A id \in Ids : relay'[id] # "relaying"
  BY <1>0, <1>2, <1>9, InFrontTruncation
<1>10. CASE s2c' = s2c /\ KeepsRelays
  BY <1>2, <1>3, <1>10 DEF KeepsRelays
<1>. QED
  BY <1>4, <1>5, <1>6, <1>7, <1>8, <1>9, <1>10 DEF ToClientStep

\* The client never finds what the server relayed for a request in front of the answer
\* to its CREATE: start_relay comes after CreateConnectionSuccess, and no other
\* request's packets pass for the request's own.
THEOREM NoDataBeforeAnswerHolds == Spec => []NoDataBeforeAnswer
<1>1. Init => KnownInv /\ AnswerInv
  BY EmptySeq, MuxAssumption DEF Init, KnownInv, Known, AnswerInv, InFront, Waiting
<1>2. ServerInv => TypeOK
  BY DEF ServerInv
<1>3. TypeOK /\ AnswerInv => NoDataBeforeAnswer
  <2>. SUFFICES ASSUME TypeOK, AnswerInv, s2c # <<>>, Head(s2c).op = "FORWARD"
                PROVE  conn[Head(s2c).req] # "waiting"
    BY DEF NoDataBeforeAnswer
  <2>1. Head(s2c).req \in Reqs /\ Head(s2c) = s2c[1] /\ 1 \in 1 .. Len(s2c)
    BY HeadType, TailFacts DEF TypeOK
  <2>2. ~ \E j \in 1 .. 1 - 1 : TRUE
    OBVIOUS
  <2>. QED
    BY <2>1, <2>2 DEF AnswerInv, InFront, Waiting
<1>. QED
  BY <1>1, <1>2, <1>3, KnownInvStep, AnswerInvStep, ServerInvAlways, ClientInvAlways, PTL
     DEF Spec
==============================================================================
