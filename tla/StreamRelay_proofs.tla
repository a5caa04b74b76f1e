-------------------------- MODULE StreamRelay_proofs --------------------------
(***************************************************************************)
(* Proofs of the safety properties of StreamRelay, for every buffer limit  *)
(* and every amount of data.                                               *)
(***************************************************************************)
EXTENDS StreamRelay, SequenceTheorems, TLAPS

LEMMA EndsFacts ==
    /\ "client" \in Ends /\ "server" \in Ends
    /\ "A" \in Streams /\ "B" \in Streams
    /\ \A n \in Ends : Peer(n) \in Ends /\ Peer(n) # n /\ Peer(Peer(n)) = n
BY DEF Ends, Streams, Peer

LEMMA PacketSeqs ==
    ASSUME NEW s \in Seq(Packets), NEW p \in Packets
    PROVE  /\ Append(s, p) \in Seq(Packets)
           /\ s \o <<p>> = Append(s, p)
           /\ s \o <<>> = s
           /\ s # <<>> => Head(s) \in Packets /\ Tail(s) \in Seq(Packets)
<1>1. s \o <<p>> = Append(s, p)
  BY AppendIsConcat, ConcatProperties
<1>2. s \o <<>> = s
  BY ConcatEmptySeq
<1>3. s # <<>> => Head(s) \in Packets /\ Tail(s) \in Seq(Packets)
  BY HeadTailProperties
<1>. QED
  BY <1>1, <1>2, <1>3, AppendProperties

-----------------------------------------------------------------------------
(* Types *)

LEMMA TypeOKInit == Init => TypeOK
<1>. USE EndsFacts, RelayAssumption
<1>1. <<"START">> \in Seq(Packets) /\ <<>> \in Seq(Packets)
  BY DEF Packets, Words
<1>. QED
  BY <1>1 DEF Init, TypeOK, OnlyServer, Both, Words, Ends

\* Changing one stream of one end.
LEMMA UpdateType ==
    ASSUME NEW S, NEW f \in [Ends -> [Streams -> S]], NEW n \in Ends, NEW v \in S
    PROVE  /\ f[n].A \in S /\ f[n].B \in S
           /\ [f EXCEPT ![n].A = v] \in [Ends -> [Streams -> S]]
           /\ [f EXCEPT ![n].B = v] \in [Ends -> [Streams -> S]]
<1>1. f[n] \in [Streams -> S]
  OBVIOUS
<1>2. [f[n] EXCEPT !["A"] = v] \in [Streams -> S] /\ [f[n] EXCEPT !["B"] = v] \in [Streams -> S]
  BY <1>1
<1>3. f[n].A \in S /\ f[n].B \in S
  BY <1>1, EndsFacts
<1>. QED
  BY <1>2, <1>3

LEMMA QueuedUpdate ==
    ASSUME TypeOK, NEW n \in Ends
    PROVE  /\ queued[n].A \in Nat /\ queued[n].B \in Nat
           /\ [queued EXCEPT ![n].A = @ + 1] \in [Ends -> [Streams -> Nat]]
           /\ [queued EXCEPT ![n].B = @ + 1] \in [Ends -> [Streams -> Nat]]
           /\ queued[n].A > 0 => [queued EXCEPT ![n].A = @ - 1] \in [Ends -> [Streams -> Nat]]
           /\ queued[n].B > 0 => [queued EXCEPT ![n].B = @ - 1] \in [Ends -> [Streams -> Nat]]
<1>1. queued \in [Ends -> [Streams -> Nat]]
  BY DEF TypeOK
<1>2. /\ queued[n].A \in Nat /\ queued[n].B \in Nat
      /\ \A v \in Nat : /\ [queued EXCEPT ![n].A = v] \in [Ends -> [Streams -> Nat]]
                        /\ [queued EXCEPT ![n].B = v] \in [Ends -> [Streams -> Nat]]
  BY <1>1, UpdateType
<1>3. queued[n].A + 1 \in Nat /\ queued[n].B + 1 \in Nat
  BY <1>2
<1>4. queued[n].A > 0 => queued[n].A - 1 \in Nat
  BY <1>2
<1>5. queued[n].B > 0 => queued[n].B - 1 \in Nat
  BY <1>2
<1>. QED
  BY <1>2, <1>3, <1>4, <1>5

LEMMA ReadingUpdate ==
    ASSUME TypeOK, NEW n \in Ends
    PROVE  /\ [reading EXCEPT ![n].A = TRUE] \in [Ends -> [Streams -> BOOLEAN]]
           /\ [reading EXCEPT ![n].A = FALSE] \in [Ends -> [Streams -> BOOLEAN]]
           /\ reading \in [Ends -> [Streams -> BOOLEAN]]
           /\ \A v \in BOOLEAN : [reading EXCEPT ![n].B = v] \in [Ends -> [Streams -> BOOLEAN]]
<1>1. reading \in [Ends -> [Streams -> BOOLEAN]]
  BY DEF TypeOK
<1>2. TRUE \in BOOLEAN /\ FALSE \in BOOLEAN
  OBVIOUS
<1>. QED
  BY <1>1, <1>2, UpdateType

LEMMA ReadLocalType ==
    ASSUME TypeOK, NEW n \in Ends, NEW b \in BOOLEAN, ReadLocal(n, b)
    PROVE  reading' \in [Ends -> [Streams -> BOOLEAN]] /\ stamp' \in [Ends -> Nat]
<1>1. stamp \in [Ends -> Nat]
  BY DEF TypeOK
<1>2. reading' = [reading EXCEPT ![n].B = b]
  BY DEF ReadLocal
<1>3. stamp' \in [Ends -> Nat]
  BY <1>1 DEF ReadLocal
<1>. QED
  BY <1>2, <1>3, ReadingUpdate

\* A relay that closes keeps every variable in its type.
LEMMA ClosedType ==
    ASSUME TypeOK, NEW n \in Ends, phase' = [phase EXCEPT ![n] = "closed"],
           Cleared(n), UNCHANGED stamp
    PROVE  /\ phase' \in [Ends -> {"before", "running", "closed"}]
           /\ reading' \in [Ends -> [Streams -> BOOLEAN]]
           /\ stamp' \in [Ends -> Nat]
           /\ timers' \in [Ends -> SUBSET Nat]
           /\ queued' \in [Ends -> [Streams -> Nat]]
BY DEF TypeOK, Cleared, Both

LEMMA WireType ==
    ASSUME TypeOK, NEW n \in Ends
    PROVE  /\ \A p \in Packets : Sent(n, p) \in [Ends -> Seq(Packets)]
           /\ [wire EXCEPT ![n] = @ \o <<"CLOSE">>] \in [Ends -> Seq(Packets)]
           /\ [wire EXCEPT ![n] = @ \o <<"END", "CLOSE">>] \in [Ends -> Seq(Packets)]
           /\ wire[Peer(n)] # <<>> =>
                /\ Taken(n, <<>>) \in [Ends -> Seq(Packets)]
                /\ Taken(n, <<"STOP">>) \in [Ends -> Seq(Packets)]
                /\ Taken(n, <<"CLOSE">>) \in [Ends -> Seq(Packets)]
<1>. USE EndsFacts
<1>1. wire \in [Ends -> Seq(Packets)]
  BY DEF TypeOK
<1>2. /\ <<>> \in Seq(Packets) /\ <<"STOP">> \in Seq(Packets)
      /\ <<"CLOSE">> \in Seq(Packets) /\ <<"END", "CLOSE">> \in Seq(Packets)
  BY DEF Packets, Words
<1>3. \A s \in Seq(Packets), t \in Seq(Packets) : s \o t \in Seq(Packets)
  BY ConcatProperties
<1>4. \A s \in Seq(Packets), p \in Packets : Append(s, p) \in Seq(Packets)
  BY AppendProperties
<1>5. \A s \in Seq(Packets) : s # <<>> => Tail(s) \in Seq(Packets)
  BY HeadTailProperties
<1>6. \A p \in Packets : Sent(n, p) \in [Ends -> Seq(Packets)]
  BY <1>1, <1>4 DEF Sent
<1>7. \A t \in Seq(Packets) : [wire EXCEPT ![n] = @ \o t] \in [Ends -> Seq(Packets)]
  BY <1>1, <1>3
<1>8. ASSUME wire[Peer(n)] # <<>>
      PROVE  \A t \in Seq(Packets) : Taken(n, t) \in [Ends -> Seq(Packets)]
  BY <1>1, <1>3, <1>5, <1>8 DEF Taken
<1>. QED
  BY <1>2, <1>6, <1>7, <1>8

LEMMA ReceiveType == ASSUME TypeOK, NEW n \in Ends, Receive(n) PROVE TypeOK'
<1>. DEFINE packet == Head(wire[Peer(n)])
<1>1. /\ wire[Peer(n)] # <<>> /\ UNCHANGED left
      /\ told' = IF packet \in Words THEN [told EXCEPT ![n] = packet] ELSE told
  BY DEF Receive
<1>2. left' \in [Ends -> 0 .. Data] /\ told' \in [Ends -> Words]
  BY <1>1 DEF TypeOK
<1>3. /\ Taken(n, <<>>) \in [Ends -> Seq(Packets)]
      /\ Taken(n, <<"STOP">>) \in [Ends -> Seq(Packets)]
      /\ Taken(n, <<"CLOSE">>) \in [Ends -> Seq(Packets)]
  BY <1>1, WireType
<1>4. CASE ~Running(n)
  BY <1>1, <1>2, <1>3, <1>4 DEF Receive, TypeOK
<1>5. CASE Running(n) /\ packet = "DATA" /\ PeerData(n)
  <2>1. /\ queued' \in [Ends -> [Streams -> Nat]]
        /\ reading' \in [Ends -> [Streams -> BOOLEAN]]
    <3>1. queued' \in [Ends -> [Streams -> Nat]]
      BY <1>5, QueuedUpdate DEF PeerData
    <3>2. reading' = reading \/ reading' = [reading EXCEPT ![n].A = FALSE]
      BY <1>5 DEF PeerData
    <3>3. reading' \in [Ends -> [Streams -> BOOLEAN]]
      BY <3>2, ReadingUpdate, ZenonT(30)
    <3>. QED
      BY <3>1, <3>3
  <2>. QED
    BY <1>2, <1>3, <1>5, <2>1 DEF PeerData, TypeOK
<1>6. CASE Running(n) /\ packet = "END" /\ PeerEnd(n)
  <2>1. ended' \in [Ends -> [Streams -> BOOLEAN]]
    BY <1>6 DEF PeerEnd, TypeOK, Streams
  <2>2. CASE PeerCloses(n)
    <3>1. /\ phase' = [phase EXCEPT ![n] = "closed"]
          /\ Cleared(n) /\ UNCHANGED stamp /\ wire' = Taken(n, <<"CLOSE">>)
      BY <2>2 DEF PeerCloses
    <3>. QED
      BY <1>2, <1>3, <2>1, <3>1, ClosedType DEF TypeOK
  <2>3. CASE wire' = Taken(n, <<>>) /\ UNCHANGED <<phase, reading, stamp, timers, queued>>
    BY <1>2, <1>3, <2>1, <2>3 DEF TypeOK
  <2>. QED
    BY <1>6, <2>2, <2>3 DEF PeerEnd
<1>7. CASE Running(n) /\ packet = "CLOSE" /\ PeerCloses(n) /\ UNCHANGED ended
  BY <1>1, <1>2, <1>3, <1>7, ClosedType DEF PeerCloses, TypeOK
<1>8. CASE Running(n) /\ packet = "START" /\ PeerStart(n) /\ wire' = Taken(n, <<>>)
           /\ UNCHANGED <<phase, ended, queued>>
  <2>1. /\ reading' \in [Ends -> [Streams -> BOOLEAN]]
        /\ stamp' \in [Ends -> Nat] /\ timers' \in [Ends -> SUBSET Nat]
    BY <1>8, ReadLocalType DEF PeerStart, TypeOK
  <2>. QED
    BY <1>2, <1>3, <1>8, <2>1 DEF TypeOK
<1>9. CASE Running(n) /\ packet = "STOP" /\ PeerStop(n) /\ wire' = Taken(n, <<>>)
           /\ UNCHANGED <<phase, ended, queued>>
  <2>1. /\ reading' \in [Ends -> [Streams -> BOOLEAN]]
        /\ stamp' \in [Ends -> Nat] /\ timers' \in [Ends -> SUBSET Nat]
    <3>1. CASE /\ ReadLocal(n, FALSE)
               /\ timers' = [timers EXCEPT ![n] = @ \cup {stamp'[n]}]
      <4>1. stamp'[n] \in Nat
        BY <3>1, ReadLocalType
      <4>2. timers' \in [Ends -> SUBSET Nat]
        BY <3>1, <4>1 DEF TypeOK
      <4>. QED
        BY <3>1, <4>2, ReadLocalType
    <3>2. CASE UNCHANGED <<reading, stamp, timers>>
      BY <3>2 DEF TypeOK
    <3>. QED
      BY <1>9, <3>1, <3>2 DEF PeerStop
  <2>. QED
    BY <1>2, <1>3, <1>9, <2>1 DEF TypeOK
<1>. QED
  BY <1>4, <1>5, <1>6, <1>7, <1>8, <1>9 DEF Receive

LEMMA CloseType ==
    ASSUME TypeOK, NEW n \in Ends, NEW ps \in {<<"CLOSE">>, <<"END", "CLOSE">>}, Close(n, ps)
    PROVE  /\ phase' \in [Ends -> {"before", "running", "closed"}]
           /\ reading' \in [Ends -> [Streams -> BOOLEAN]]
           /\ stamp' \in [Ends -> Nat]
           /\ timers' \in [Ends -> SUBSET Nat]
           /\ queued' \in [Ends -> [Streams -> Nat]]
           /\ wire' \in [Ends -> Seq(Packets)]
<1>1. /\ phase' = [phase EXCEPT ![n] = "closed"] /\ Cleared(n) /\ UNCHANGED stamp
      /\ wire' = [wire EXCEPT ![n] = @ \o ps]
  BY DEF Close
<1>2. wire' \in [Ends -> Seq(Packets)]
  BY <1>1, WireType
<1>. QED
  BY <1>1, <1>2, ClosedType

LEMMA TypeOKStep == TypeOK /\ [Next]_vars => TypeOK'
<1>. SUFFICES ASSUME TypeOK, [Next]_vars PROVE TypeOK'
  OBVIOUS
<1>0. "DATA" \in Packets /\ "END" \in Packets /\ "START" \in Packets
  BY DEF Packets, Words
<1>1. CASE UNCHANGED vars
  BY <1>1 DEF vars, TypeOK
<1>2. CASE StartRelay
  <2>1. wire' \in [Ends -> Seq(Packets)]
    BY <1>0, <1>2, EndsFacts, WireType DEF StartRelay
  <2>2. /\ reading' \in [Ends -> [Streams -> BOOLEAN]]
        /\ stamp' \in [Ends -> Nat]
        /\ phase' \in [Ends -> {"before", "running", "closed"}]
    BY <1>2 DEF StartRelay, TypeOK, Both, Ends
  <2>. QED
    BY <1>2, <2>1, <2>2 DEF StartRelay, TypeOK
<1>3. ASSUME NEW n \in Ends, LocalData(n) PROVE TypeOK'
  <2>1. wire' \in [Ends -> Seq(Packets)]
    BY <1>0, <1>3, WireType DEF LocalData
  <2>2. left' \in [Ends -> 0 .. Data]
    <3>1. left[n] \in 0 .. Data /\ left[n] > 0 /\ left' = [left EXCEPT ![n] = left[n] - 1]
      BY <1>3 DEF LocalData, TypeOK
    <3>2. left[n] - 1 \in 0 .. Data
      BY <3>1, RelayAssumption
    <3>. QED
      BY <3>1, <3>2 DEF TypeOK
  <2>3. queued' \in [Ends -> [Streams -> Nat]]
    BY <1>3, QueuedUpdate DEF LocalData
  <2>4. reading' \in [Ends -> [Streams -> BOOLEAN]] /\ stamp' \in [Ends -> Nat]
    BY <1>3, ReadLocalType DEF LocalData, TypeOK
  <2>. QED
    BY <1>3, <2>1, <2>2, <2>3, <2>4 DEF LocalData, TypeOK
<1>4. ASSUME NEW n \in Ends, LocalEnd(n) PROVE TypeOK'
  <2>1. ended' \in [Ends -> [Streams -> BOOLEAN]] /\ UNCHANGED <<left, told>>
    BY <1>4 DEF LocalEnd, TypeOK
  <2>2. CASE Close(n, <<"END", "CLOSE">>)
    BY <2>1, <2>2, CloseType DEF TypeOK
  <2>3. CASE wire' = Sent(n, "END") /\ UNCHANGED <<phase, reading, stamp, timers, queued>>
    <3>1. wire' \in [Ends -> Seq(Packets)]
      BY <1>0, <2>3, WireType
    <3>. QED
      BY <2>1, <2>3, <3>1 DEF TypeOK
  <2>. QED
    BY <1>4, <2>2, <2>3 DEF LocalEnd
<1>5. ASSUME NEW n \in Ends, Fail(n) PROVE TypeOK'
  BY <1>5, CloseType DEF Fail, TypeOK
<1>6. ASSUME NEW n \in Ends, FlushA(n) PROVE TypeOK'
  <2>1. queued' \in [Ends -> [Streams -> Nat]]
    BY <1>6, QueuedUpdate DEF FlushA
  <2>2. reading' \in [Ends -> [Streams -> BOOLEAN]] /\ stamp' \in [Ends -> Nat]
    BY <1>6, ReadLocalType DEF FlushA, TypeOK
  <2>. QED
    BY <1>6, <2>1, <2>2 DEF FlushA, TypeOK
<1>7. ASSUME NEW n \in Ends, FlushB(n) PROVE TypeOK'
  <2>1. wire' \in [Ends -> Seq(Packets)]
    BY <1>0, <1>7, WireType DEF FlushB, TypeOK
  <2>2. queued' \in [Ends -> [Streams -> Nat]] /\ reading' \in [Ends -> [Streams -> BOOLEAN]]
    <3>1. queued' \in [Ends -> [Streams -> Nat]]
      BY <1>7, QueuedUpdate DEF FlushB
    <3>2. reading' = reading \/ reading' = [reading EXCEPT ![n].A = TRUE]
      BY <1>7 DEF FlushB
    <3>3. reading' \in [Ends -> [Streams -> BOOLEAN]]
      <4>1. [reading EXCEPT ![n].A = TRUE] \in [Ends -> [Streams -> BOOLEAN]]
        BY ReadingUpdate
      <4>2. reading \in [Ends -> [Streams -> BOOLEAN]]
        BY DEF TypeOK
      <4>. QED
        BY <3>2, <4>1, <4>2
    <3>. QED
      BY <3>1, <3>3
  <2>. QED
    BY <1>7, <2>1, <2>2 DEF FlushB, TypeOK
<1>8. ASSUME NEW n \in Ends, NEW g \in timers[n], WaitExpires(n, g) PROVE TypeOK'
  <2>1. CASE Close(n, <<"CLOSE">>)
    BY <1>8, <2>1, CloseType DEF WaitExpires, TypeOK
  <2>2. CASE /\ timers' = [timers EXCEPT ![n] = @ \ {g}]
             /\ UNCHANGED <<phase, reading, stamp, queued, wire>>
    BY <1>8, <2>2 DEF WaitExpires, TypeOK
  <2>. QED
    BY <1>8, <2>1, <2>2 DEF WaitExpires
<1>9. ASSUME NEW n \in Ends, Receive(n) PROVE TypeOK'
  BY <1>9, ReceiveType
<1>. QED
  BY <1>1, <1>2, <1>3, <1>4, <1>5, <1>6, <1>7, <1>8, <1>9 DEF Next, Step

\* Every variable keeps its type, the write queues never fall below empty.
THEOREM RelayTypeCorrect == Spec => []TypeOK
<1>. QED
  BY TypeOKInit, TypeOKStep, PTL DEF Spec

-----------------------------------------------------------------------------
(* What a step does to one relay: who reads, the stamp, the timers and the      *)
(* queues, each at the end n.                                                   *)

Same(n) == phase'[n] = phase[n] /\ timers'[n] = timers[n]
SameA(n) == reading'[n].A = reading[n].A /\ queued'[n].B = queued[n].B
SameB(n) == reading'[n].B = reading[n].B /\ stamp'[n] = stamp[n] /\ queued'[n].A = queued[n].A
Turns(n, b) == reading'[n].B = b /\ stamp'[n] = stamp[n] + 1

Quiet(n) == Same(n) /\ SameA(n) /\ SameB(n)
Starts(n) == /\ phase'[n] = "running" /\ reading'[n].A /\ Turns(n, TRUE)
             /\ timers'[n] = timers[n]
Closes(n) == phase'[n] = "closed" /\ timers'[n] = {}
Says(n) == /\ Same(n) /\ SameA(n)
           /\ queued'[n].A = queued[n].A + 1
           /\ IF queued[n].A + 1 > Limit
              THEN Turns(n, FALSE)
              ELSE reading'[n].B = reading[n].B /\ stamp'[n] = stamp[n]
DrainsA(n) == /\ Same(n) /\ SameA(n)
              /\ queued'[n].A = queued[n].A - 1
              /\ IF queued[n].A = Limit + 1 /\ ~reading[n].B
                 THEN Turns(n, TRUE)
                 ELSE reading'[n].B = reading[n].B /\ stamp'[n] = stamp[n]
DrainsB(n) == /\ Same(n) /\ SameB(n)
              /\ queued'[n].B = queued[n].B - 1
              /\ reading'[n].A <=> (queued[n].B = Limit + 1 \/ reading[n].A)
Forgets(n) == /\ phase'[n] = phase[n] /\ SameA(n) /\ SameB(n)
              /\ \E g \in timers[n] \ {stamp[n]} : timers'[n] = timers[n] \ {g}
Hears(n) == /\ Same(n) /\ SameB(n)
            /\ queued'[n].B = queued[n].B + 1
            /\ reading'[n].A <=> (reading[n].A /\ queued[n].B + 1 <= Limit)
MayWrite(n) == /\ Same(n) /\ SameA(n)
               /\ queued'[n].A = queued[n].A
               /\ ~reading[n].B /\ Turns(n, TRUE)
MustStop(n) == /\ phase'[n] = phase[n] /\ SameA(n)
               /\ queued'[n].A = queued[n].A
               /\ reading[n].B /\ Turns(n, FALSE)
               /\ timers'[n] = timers[n] \cup {stamp[n] + 1}

RelayStep(n) ==
    \/ Quiet(n) \/ Starts(n) \/ Closes(n) \/ Says(n) \/ DrainsA(n) \/ DrainsB(n)
    \/ Forgets(n) \/ Hears(n) \/ MayWrite(n) \/ MustStop(n)

\* The part of the invariant that speaks of one relay.  The first conjunct makes the
\* others inductive: no timer carries a stamp that is still to come.
Ok(n) ==
    /\ \A g \in timers[n] : g <= stamp[n]
    /\ stamp[n] \in timers[n] => ~reading[n].B
    /\ Running(n) => /\ ~reading[n].B => Over(n, "A") \/ stamp[n] \in timers[n]
                     /\ ~reading[n].A => Over(n, "B")

LEMMA RelayTypes ==
    ASSUME TypeOK, NEW n \in Ends
    PROVE  /\ stamp[n] \in Nat /\ timers[n] \in SUBSET Nat
           /\ queued[n].A \in Nat /\ queued[n].B \in Nat
           /\ reading[n].A \in BOOLEAN /\ reading[n].B \in BOOLEAN
<1>1. reading \in [Ends -> [Streams -> BOOLEAN]] /\ stamp \in [Ends -> Nat]
      /\ timers \in [Ends -> SUBSET Nat]
  BY DEF TypeOK
<1>. QED
  BY <1>1, QueuedUpdate, UpdateType

LEMMA OkStep == ASSUME TypeOK, NEW n \in Ends, Ok(n), RelayStep(n) PROVE Ok(n)'
<1>. USE RelayTypes, RelayAssumption DEF Ok, Over, Running
<1>1. CASE Quiet(n)
  BY <1>1 DEF Quiet, Same, SameA, SameB
<1>2. CASE Starts(n)
  BY <1>2 DEF Starts, Turns
<1>3. CASE Closes(n)
  BY <1>3 DEF Closes
<1>4. CASE Says(n)
  BY <1>4 DEF Says, Same, SameA, Turns
<1>5. CASE DrainsA(n)
  BY <1>5 DEF DrainsA, Same, SameA, Turns
<1>6. CASE DrainsB(n)
  BY <1>6 DEF DrainsB, Same, SameB
<1>7. CASE Forgets(n)
  BY <1>7 DEF Forgets, SameA, SameB
<1>8. CASE Hears(n)
  BY <1>8 DEF Hears, Same, SameB
<1>9. CASE MayWrite(n)
  BY <1>9 DEF MayWrite, Same, SameA, Turns
<1>10. CASE MustStop(n)
  BY <1>10 DEF MustStop, SameA, Turns
<1>. QED
  BY <1>1, <1>2, <1>3, <1>4, <1>5, <1>6, <1>7, <1>8, <1>9, <1>10 DEF RelayStep

\* Changing one stream of one end leaves the other stream and the other end alone.
LEMMA UpdateOne ==
    ASSUME NEW S, NEW f \in [Ends -> [Streams -> S]], NEW m \in Ends, NEW v
    PROVE  /\ [f EXCEPT ![m].A = v][m].A = v /\ [f EXCEPT ![m].A = v][m].B = f[m].B
           /\ [f EXCEPT ![m].B = v][m].B = v /\ [f EXCEPT ![m].B = v][m].A = f[m].A
           /\ \A n \in Ends \ {m} : /\ [f EXCEPT ![m].A = v][n] = f[n]
                                    /\ [f EXCEPT ![m].B = v][n] = f[n]
<1>1. f[m] \in [Streams -> S]
  OBVIOUS
<1>2. /\ [f[m] EXCEPT !["A"] = v]["A"] = v /\ [f[m] EXCEPT !["A"] = v]["B"] = f[m]["B"]
      /\ [f[m] EXCEPT !["B"] = v]["B"] = v /\ [f[m] EXCEPT !["B"] = v]["A"] = f[m]["A"]
  BY <1>1, EndsFacts
<1>. QED
  BY <1>2

LEMMA Types == 
    TypeOK => /\ reading \in [Ends -> [Streams -> BOOLEAN]]
              /\ queued \in [Ends -> [Streams -> Nat]]
              /\ stamp \in [Ends -> Nat]
              /\ timers \in [Ends -> SUBSET Nat]
              /\ phase \in [Ends -> {"before", "running", "closed"}]
BY DEF TypeOK

LEMMA ReadLocalOne ==
    ASSUME TypeOK, NEW m \in Ends, NEW b \in BOOLEAN, ReadLocal(m, b)
    PROVE  /\ Turns(m, b) /\ reading'[m].A = reading[m].A
           /\ \A n \in Ends \ {m} : reading'[n] = reading[n] /\ stamp'[n] = stamp[n]
<1>1. /\ reading' = [reading EXCEPT ![m].B = b]
      /\ stamp' = [stamp EXCEPT ![m] = stamp[m] + 1]
  BY DEF ReadLocal
<1>2. /\ reading'[m].B = b /\ reading'[m].A = reading[m].A
      /\ \A n \in Ends \ {m} : reading'[n] = reading[n]
  BY <1>1, Types, UpdateOne
<1>3. stamp'[m] = stamp[m] + 1 /\ \A n \in Ends \ {m} : stamp'[n] = stamp[n]
  BY <1>1, Types
<1>. QED
  BY <1>2, <1>3 DEF Turns

Apart(n) == /\ phase'[n] = phase[n] /\ reading'[n] = reading[n] /\ stamp'[n] = stamp[n]
            /\ timers'[n] = timers[n] /\ queued'[n] = queued[n]

LEMMA CloseOne ==
    ASSUME TypeOK, NEW m \in Ends, phase' = [phase EXCEPT ![m] = "closed"],
           Cleared(m), UNCHANGED stamp
    PROVE  Closes(m) /\ \A n \in Ends \ {m} : Apart(n)
BY DEF TypeOK, Cleared, Closes, Apart

\* What each action does to its own end m, and that it leaves the other alone.
LEMMA StepOne ==
    ASSUME TypeOK, NEW m \in Ends, Step(m)
    PROVE  RelayStep(m) /\ \A n \in Ends \ {m} : Apart(n)
<1>. USE Types
<1>0. ASSUME UNCHANGED <<phase, reading, stamp, timers, queued>>
      PROVE  Quiet(m) /\ \A n \in Ends \ {m} : Apart(n)
  BY <1>0 DEF Quiet, Same, SameA, SameB, Apart
<1>1. CASE LocalData(m)
  <2>1. queued' = [queued EXCEPT ![m].A = queued[m].A + 1] /\ UNCHANGED <<phase, timers>>
    BY <1>1 DEF LocalData
  <2>2. /\ queued'[m].A = queued[m].A + 1 /\ queued'[m].B = queued[m].B
        /\ \A n \in Ends \ {m} : queued'[n] = queued[n]
    BY <2>1, UpdateOne
  <2>3. CASE queued[m].A + 1 > Limit
    <3>1. ReadLocal(m, FALSE)
      BY <1>1, <2>3 DEF LocalData
    <3>. QED
      BY <2>1, <2>2, <2>3, <3>1, ReadLocalOne DEF RelayStep, Says, Same, SameA, Apart
  <2>4. CASE ~(queued[m].A + 1 > Limit)
    <3>1. UNCHANGED <<reading, stamp>>
      BY <1>1, <2>4 DEF LocalData
    <3>. QED
      BY <2>1, <2>2, <2>4, <3>1 DEF RelayStep, Says, Same, SameA, Apart
  <2>. QED
    BY <2>3, <2>4
<1>2. CASE LocalEnd(m)
  BY <1>0, <1>2, CloseOne DEF LocalEnd, Close, RelayStep
<1>3. CASE Fail(m)
  BY <1>3, CloseOne DEF Fail, Close, RelayStep
<1>4. CASE FlushA(m)
  <2>1. queued' = [queued EXCEPT ![m].A = queued[m].A - 1] /\ UNCHANGED <<phase, timers>>
    BY <1>4 DEF FlushA
  <2>2. /\ queued'[m].A = queued[m].A - 1 /\ queued'[m].B = queued[m].B
        /\ \A n \in Ends \ {m} : queued'[n] = queued[n]
    BY <2>1, UpdateOne
  <2>3. CASE queued[m].A = Limit + 1 /\ ~reading[m].B
    <3>1. ReadLocal(m, TRUE)
      BY <1>4, <2>3 DEF FlushA
    <3>. QED
      BY <2>1, <2>2, <2>3, <3>1, ReadLocalOne DEF RelayStep, DrainsA, Same, SameA, Apart
  <2>4. CASE ~(queued[m].A = Limit + 1 /\ ~reading[m].B)
    <3>1. UNCHANGED <<reading, stamp>>
      BY <1>4, <2>4 DEF FlushA
    <3>. QED
      BY <2>1, <2>2, <2>4, <3>1 DEF RelayStep, DrainsA, Same, SameA, Apart
  <2>. QED
    BY <2>3, <2>4
<1>5. CASE FlushB(m)
  <2>1. /\ queued' = [queued EXCEPT ![m].B = queued[m].B - 1]
        /\ UNCHANGED <<phase, timers, stamp>>
    BY <1>5 DEF FlushB
  <2>2. /\ queued'[m].B = queued[m].B - 1 /\ queued'[m].A = queued[m].A
        /\ \A n \in Ends \ {m} : queued'[n] = queued[n]
    BY <2>1, UpdateOne
  <2>3. CASE queued[m].B = Limit + 1 /\ ~reading[m].A
    <3>1. reading' = [reading EXCEPT ![m].A = TRUE]
      BY <1>5, <2>3 DEF FlushB
    <3>2. /\ reading'[m].A /\ reading'[m].B = reading[m].B
          /\ \A n \in Ends \ {m} : reading'[n] = reading[n]
      BY <3>1, UpdateOne
    <3>. QED
      BY <2>1, <2>2, <2>3, <3>2 DEF RelayStep, DrainsB, Same, SameB, Apart
  <2>4. CASE ~(queued[m].B = Limit + 1 /\ ~reading[m].A)
    <3>1. UNCHANGED reading
      BY <1>5, <2>4 DEF FlushB
    <3>. QED
      BY <2>1, <2>2, <2>4, <3>1 DEF RelayStep, DrainsB, Same, SameB, Apart
  <2>. QED
    BY <2>3, <2>4
<1>6. ASSUME NEW g \in timers[m], WaitExpires(m, g)
      PROVE  RelayStep(m) /\ \A n \in Ends \ {m} : Apart(n)
  <2>1. CASE stamp[m] = g
    BY <1>6, <2>1, CloseOne DEF WaitExpires, Close, RelayStep
  <2>2. CASE stamp[m] # g
    <3>1. /\ timers' = [timers EXCEPT ![m] = timers[m] \ {g}]
          /\ UNCHANGED <<phase, reading, stamp, queued>>
      BY <1>6, <2>2 DEF WaitExpires
    <3>. QED
      BY <2>2, <3>1 DEF RelayStep, Forgets, SameA, SameB, Apart
  <2>. QED
    BY <2>1, <2>2
<1>7. CASE Receive(m)
  <2>1. CASE UNCHANGED <<phase, reading, stamp, timers, queued>>
    BY <1>0, <2>1 DEF RelayStep
  <2>2. CASE PeerData(m)
    <3>1. /\ queued' = [queued EXCEPT ![m].B = queued[m].B + 1]
          /\ UNCHANGED <<phase, timers, stamp>>
      BY <2>2 DEF PeerData
    <3>2. /\ queued'[m].B = queued[m].B + 1 /\ queued'[m].A = queued[m].A
          /\ \A n \in Ends \ {m} : queued'[n] = queued[n]
      BY <3>1, UpdateOne
    <3>3. queued[m].B \in Nat /\ Limit \in Nat
      BY RelayTypes, RelayAssumption
    <3>4. CASE queued[m].B + 1 > Limit /\ reading[m].A
      <4>1. reading' = [reading EXCEPT ![m].A = FALSE]
        BY <2>2, <3>4 DEF PeerData
      <4>2. /\ ~reading'[m].A /\ reading'[m].B = reading[m].B
            /\ \A n \in Ends \ {m} : reading'[n] = reading[n]
        BY <4>1, UpdateOne
      <4>. QED
        BY <3>1, <3>2, <3>3, <3>4, <4>2 DEF RelayStep, Hears, Same, SameB, Apart
    <3>5. CASE ~(queued[m].B + 1 > Limit /\ reading[m].A)
      <4>1. UNCHANGED reading
        BY <2>2, <3>5 DEF PeerData
      <4>. QED
        BY <3>1, <3>2, <3>3, <3>5, <4>1 DEF RelayStep, Hears, Same, SameB, Apart
    <3>. QED
      BY <3>4, <3>5
  <2>3. CASE PeerCloses(m)
    BY <2>3, CloseOne DEF PeerCloses, RelayStep
  <2>4. CASE PeerStart(m) /\ UNCHANGED <<phase, queued>>
    <3>1. CASE ~reading[m].B
      <4>1. ReadLocal(m, TRUE) /\ UNCHANGED <<phase, queued, timers>>
        BY <2>4, <3>1 DEF PeerStart
      <4>. QED
        BY <3>1, <4>1, ReadLocalOne DEF RelayStep, MayWrite, Same, SameA, Apart
    <3>2. CASE reading[m].B
      BY <1>0, <2>4, <3>2 DEF PeerStart, RelayStep
    <3>. QED
      BY <3>1, <3>2
  <2>5. CASE PeerStop(m) /\ UNCHANGED <<phase, queued>>
    <3>1. CASE reading[m].B
      <4>1. /\ ReadLocal(m, FALSE) /\ UNCHANGED <<phase, queued>>
            /\ timers' = [timers EXCEPT ![m] = timers[m] \cup {stamp'[m]}]
        BY <2>5, <3>1 DEF PeerStop
      <4>2. /\ timers'[m] = timers[m] \cup {stamp[m] + 1}
            /\ \A n \in Ends \ {m} : timers'[n] = timers[n]
        BY <4>1, ReadLocalOne DEF Turns
      <4>. QED
        BY <3>1, <4>1, <4>2, ReadLocalOne DEF RelayStep, MustStop, SameA, Apart
    <3>2. CASE ~reading[m].B
      BY <1>0, <2>5, <3>2 DEF PeerStop, RelayStep
    <3>. QED
      BY <3>1, <3>2
  <2>. QED
    BY <1>7, <2>1, <2>2, <2>3, <2>4, <2>5 DEF Receive, PeerEnd
<1>. QED
  BY <1>1, <1>2, <1>3, <1>4, <1>5, <1>6, <1>7 DEF Step

LEMMA RelayCases ==
    ASSUME TypeOK, [Next]_vars, NEW n \in Ends
    PROVE  RelayStep(n)
<1>1. ASSUME Apart(n) PROVE Quiet(n)
  BY <1>1 DEF Apart, Quiet, Same, SameA, SameB
<1>2. CASE UNCHANGED vars
  BY <1>1, <1>2 DEF vars, Apart, RelayStep
<1>3. CASE StartRelay
  <2>1. CASE n = "client"
    BY <1>3, <2>1, Types, EndsFacts DEF StartRelay, Both, RelayStep, Starts, Turns
  <2>2. CASE n # "client"
    BY <1>1, <1>3, <2>2, Types DEF StartRelay, Apart, RelayStep
  <2>. QED
    BY <2>1, <2>2
<1>4. ASSUME NEW m \in Ends, Step(m) PROVE RelayStep(n)
  BY <1>1, <1>4, StepOne DEF RelayStep
<1>. QED
  BY <1>2, <1>3, <1>4 DEF Next

RelayInv == TypeOK /\ \A n \in Ends : Ok(n)

LEMMA RelayInvAlways == Spec => []RelayInv
<1>1. Init => RelayInv
  <2>. SUFFICES ASSUME Init PROVE \A n \in Ends : Ok(n)
    BY TypeOKInit DEF RelayInv
  <2>. QED
    BY DEF Init, Ok, OnlyServer, Both, Running, Ends, Streams
<1>2. RelayInv /\ [Next]_vars => RelayInv'
  BY TypeOKStep, RelayCases, OkStep DEF RelayInv
<1>. QED
  BY <1>1, <1>2, PTL DEF Spec

\* A running relay that does not read a stream has a reason that will be undone.
THEOREM StoppedHolds == Spec => []StoppedForAReason
<1>1. RelayInv => StoppedForAReason
  BY DEF RelayInv, Ok, StoppedForAReason
<1>. QED
  BY <1>1, RelayInvAlways, PTL

\* A timer that can still close the relay belongs to the stop in force.
THEOREM LiveTimerHolds == Spec => []LiveTimerMeansStopped
<1>1. RelayInv => LiveTimerMeansStopped
  BY DEF RelayInv, Ok, LiveTimerMeansStopped
<1>. QED
  BY <1>1, RelayInvAlways, PTL

-----------------------------------------------------------------------------
(* What the peer has been told *)

Word(b) == IF b THEN "START" ELSE "STOP"

LEMMA LastSpoken ==
    ASSUME NEW s \in Seq(Packets), NEW p \in Packets \cap Words, NEW t
    PROVE  LastWord(t, Append(s, p), p)
<1>. DEFINE u == Append(s, p)
<1>1. /\ Len(s) \in Nat /\ Len(u) = Len(s) + 1
      /\ \A i \in 1 .. Len(s) : u[i] = s[i]
      /\ u[Len(s) + 1] = p
      /\ DOMAIN s = 1 .. Len(s) /\ DOMAIN u = 1 .. Len(u)
  BY AppendProperties, LenProperties
<1>. HIDE DEF u
<1>2. Len(u) \in DOMAIN u /\ u[Len(u)] = p /\ \A j \in Len(u) + 1 .. Len(u) : FALSE
  BY <1>1
<1>. QED
  BY <1>2 DEF LastWord, u

LEMMA LastAppend ==
    ASSUME NEW s \in Seq(Packets), NEW p \in Packets \ Words, NEW t, NEW w, LastWord(t, s, w)
    PROVE  LastWord(t, Append(s, p), w)
<1>. DEFINE u == Append(s, p)
<1>1. /\ Len(s) \in Nat /\ Len(u) = Len(s) + 1
      /\ \A i \in 1 .. Len(s) : u[i] = s[i]
      /\ u[Len(s) + 1] = p
      /\ DOMAIN s = 1 .. Len(s) /\ DOMAIN u = 1 .. Len(u)
  BY AppendProperties, LenProperties
<1>. HIDE DEF u
<1>2. CASE \E k \in DOMAIN s : s[k] = w /\ \A j \in k + 1 .. Len(s) : s[j] \notin Words
  <2>1. PICK k \in DOMAIN s : s[k] = w /\ \A j \in k + 1 .. Len(s) : s[j] \notin Words
    BY <1>2
  <2>2. k \in DOMAIN u /\ u[k] = w /\ \A j \in k + 1 .. Len(u) : u[j] \notin Words
    BY <1>1, <2>1
  <2>. QED
    BY <2>2 DEF LastWord, u
<1>3. CASE t = w /\ \A j \in DOMAIN s : s[j] \notin Words
  <2>1. \A j \in DOMAIN u : u[j] \notin Words
    BY <1>1, <1>3
  <2>. QED
    BY <1>3, <2>1 DEF LastWord, u
<1>. QED
  BY <1>2, <1>3 DEF LastWord

LEMMA LastTail ==
    ASSUME NEW s \in Seq(Packets), s # <<>>, NEW t, NEW w \in Words, LastWord(t, s, w)
    PROVE  LastWord(IF Head(s) \in Words THEN Head(s) ELSE t, Tail(s), w)
<1>. DEFINE u == Tail(s)
            v == IF Head(s) \in Words THEN Head(s) ELSE t
<1>1. /\ Len(s) \in Nat /\ Len(s) > 0 /\ Len(u) = Len(s) - 1
      /\ \A i \in 1 .. Len(u) : u[i] = s[i + 1]
      /\ Head(s) = s[1]
      /\ DOMAIN s = 1 .. Len(s) /\ DOMAIN u = 1 .. Len(u)
  BY HeadTailProperties, LenProperties, EmptySeq
<1>. HIDE DEF u
<1>2. CASE \E k \in DOMAIN s : s[k] = w /\ \A j \in k + 1 .. Len(s) : s[j] \notin Words
  <2>1. PICK k \in DOMAIN s : s[k] = w /\ \A j \in k + 1 .. Len(s) : s[j] \notin Words
    BY <1>2
  <2>2. CASE k = 1
    <3>1. \A j \in DOMAIN u : u[j] \notin Words
      BY <1>1, <2>1, <2>2
    <3>2. v = w
      BY <1>1, <2>1, <2>2
    <3>. QED
      BY <3>1, <3>2 DEF LastWord, u
  <2>3. CASE k # 1
    <3>1. /\ k - 1 \in DOMAIN u /\ u[k - 1] = w
          /\ \A j \in (k - 1) + 1 .. Len(u) : u[j] \notin Words
      BY <1>1, <2>1, <2>3
    <3>. QED
      BY <3>1 DEF LastWord, u
  <2>. QED
    BY <2>2, <2>3
<1>3. CASE t = w /\ \A j \in DOMAIN s : s[j] \notin Words
  <2>1. v = w /\ \A j \in DOMAIN u : u[j] \notin Words
    BY <1>1, <1>3
  <2>. QED
    BY <2>1 DEF LastWord, u
<1>. QED
  BY <1>2, <1>3 DEF LastWord

\* What a step does to the words on their way from a running relay n: nothing; one more
\* packet, a word only if it says what n now does; or the first packet is taken.
Silent(n) == /\ Running(n) /\ reading'[n].A = reading[n].A
             /\ wire'[n] = wire[n] /\ told'[Peer(n)] = told[Peer(n)]
Speaks(n) == /\ told'[Peer(n)] = told[Peer(n)]
             /\ \E p \in Packets :
                   /\ wire'[n] = Append(wire[n], p)
                   /\ \/ p \notin Words /\ Running(n) /\ reading'[n].A = reading[n].A
                      \/ p \in Words /\ p = Word(reading'[n].A)
IsHeard(n) == /\ Running(n) /\ reading'[n].A = reading[n].A
              /\ wire[n] # <<>> /\ wire'[n] = Tail(wire[n])
              /\ told'[Peer(n)] = IF Head(wire[n]) \in Words THEN Head(wire[n])
                                  ELSE told[Peer(n)]

WordStep(n) == Silent(n) \/ Speaks(n) \/ IsHeard(n)

LEMMA WordOk ==
    ASSUME TypeOK, NEW n \in Ends, WordStep(n),
           Running(n) => LastWord(told[Peer(n)], wire[n], Word(reading[n].A))
    PROVE  LastWord(told'[Peer(n)], wire'[n], Word(reading'[n].A))
<1>1. wire[n] \in Seq(Packets) /\ Word(reading[n].A) \in Words
  BY DEF TypeOK, Word, Words
<1>2. CASE Silent(n)
  BY <1>2 DEF Silent
<1>3. CASE Speaks(n)
  <2>1. PICK p \in Packets :
           /\ wire'[n] = Append(wire[n], p)
           /\ \/ p \notin Words /\ Running(n) /\ reading'[n].A = reading[n].A
              \/ p \in Words /\ p = Word(reading'[n].A)
    BY <1>3 DEF Speaks
  <2>2. told'[Peer(n)] = told[Peer(n)]
    BY <1>3 DEF Speaks
  <2>3. CASE p \notin Words /\ Running(n) /\ reading'[n].A = reading[n].A
    <3>1. LastWord(told[Peer(n)], wire[n], Word(reading'[n].A))
      BY <2>3 DEF Word
    <3>2. LastWord(told[Peer(n)], Append(wire[n], p), Word(reading'[n].A))
      BY <1>1, <2>3, <3>1, LastAppend
    <3>. QED
      BY <2>1, <2>2, <3>2
  <2>4. CASE p \in Words /\ p = Word(reading'[n].A)
    <3>1. LastWord(told[Peer(n)], Append(wire[n], p), p)
      BY <1>1, <2>4, LastSpoken
    <3>. QED
      BY <2>1, <2>2, <2>4, <3>1
  <2>. QED
    BY <2>1, <2>3, <2>4
<1>4. CASE IsHeard(n)
  BY <1>1, <1>4, LastTail DEF IsHeard
<1>. QED
  BY <1>2, <1>3, <1>4 DEF WordStep

LEMMA WordReceive ==
    ASSUME TypeOK, NEW m \in Ends, Receive(m), NEW n \in Ends, Running(n)'
    PROVE  WordStep(n)
<1>. DEFINE packet == Head(wire[Peer(m)])
<1>1. /\ wire[Peer(m)] # <<>>
      /\ told' = IF packet \in Words THEN [told EXCEPT ![m] = packet] ELSE told
  BY DEF Receive
<1>2. told \in [Ends -> Words] /\ wire \in [Ends -> Seq(Packets)]
  BY DEF TypeOK
<1>3. Step(m) /\ Peer(m) \in Ends /\ Peer(m) # m /\ Peer(Peer(m)) = m /\ Ends = {m, Peer(m)}
  BY EndsFacts DEF Step, Ends, Peer
<1>4. \E ps \in {<<>>, <<"STOP">>, <<"CLOSE">>} : wire' = Taken(m, ps)
  BY DEF Receive, PeerData, PeerEnd, PeerCloses
<1>5. CASE n = Peer(m)
  <2>1. Apart(n)
    BY <1>3, <1>5, StepOne
  <2>2. wire'[n] = Tail(wire[n])
    BY <1>2, <1>3, <1>4, <1>5 DEF Taken
  <2>3. told'[m] = IF packet \in Words THEN packet ELSE told[m]
    BY <1>1, <1>2
  <2>. QED
    BY <1>1, <1>3, <1>5, <2>1, <2>2, <2>3 DEF Apart, WordStep, IsHeard, Running
<1>6. CASE n = m
  <2>1. told'[Peer(n)] = told[Peer(n)]
    BY <1>1, <1>2, <1>3, <1>6
  <2>2. \A ps : wire' = Taken(m, ps) => wire'[n] = wire[n] \o ps
    BY <1>2, <1>3, <1>6 DEF Taken
  <2>3. /\ wire[n] \o <<>> = wire[n]
        /\ wire[n] \o <<"STOP">> = Append(wire[n], "STOP")
    <3>1. wire[n] \in Seq(Packets) /\ "STOP" \in Packets
      BY <1>2 DEF Packets, Words
    <3>. QED
      BY <3>1, PacketSeqs
  <2>4. phase'[n] # "closed"
    BY DEF Running
  <2>5. ASSUME Running(n), wire' = Taken(m, <<>>), reading'[n].A = reading[n].A
        PROVE  WordStep(n)
    BY <2>1, <2>2, <2>3, <2>5 DEF WordStep, Silent
  <2>6. phase \in [Ends -> {"before", "running", "closed"}]
    BY Types
  <2>7. ~PeerCloses(m)
    BY <1>6, <2>4, <2>6 DEF PeerCloses
  <2>8. Running(m) /\ UNCHANGED phase
    BY <1>6, <2>6, <2>7 DEF Receive, Running, PeerData, PeerEnd
  <2>9. CASE PeerData(m)
    <3>1. CASE queued[n].B + 1 > Limit /\ reading[n].A
      <4>1. /\ reading' = [reading EXCEPT ![n].A = FALSE]
            /\ wire' = Taken(m, <<"STOP">>)
        BY <1>6, <2>9, <3>1 DEF PeerData
      <4>2. ~reading'[n].A
        BY <4>1, Types, UpdateOne
      <4>3. wire'[n] = Append(wire[n], "STOP") /\ "STOP" = Word(reading'[n].A)
        BY <2>2, <2>3, <4>1, <4>2 DEF Word
      <4>4. "STOP" \in Packets /\ "STOP" \in Words
        BY DEF Packets, Words
      <4>. QED
        BY <2>1, <4>3, <4>4 DEF WordStep, Speaks
    <3>2. CASE ~(queued[n].B + 1 > Limit /\ reading[n].A)
      BY <1>6, <2>5, <2>8, <2>9, <3>2 DEF PeerData
    <3>. QED
      BY <3>1, <3>2
  <2>10. CASE PeerEnd(m)
    BY <1>6, <2>5, <2>7, <2>8, <2>10 DEF PeerEnd
  <2>11. CASE PeerStart(m) /\ wire' = Taken(m, <<>>)
    <3>1. reading'[n].A = reading[n].A
      BY <1>6, <2>11, ReadLocalOne DEF PeerStart
    <3>. QED
      BY <1>6, <2>5, <2>8, <2>11, <3>1
  <2>12. CASE PeerStop(m) /\ wire' = Taken(m, <<>>)
    <3>1. reading'[n].A = reading[n].A
      BY <1>6, <2>12, ReadLocalOne DEF PeerStop
    <3>. QED
      BY <1>6, <2>5, <2>8, <2>12, <3>1
  <2>. QED
    BY <2>7, <2>8, <2>9, <2>10, <2>11, <2>12 DEF Receive
<1>. QED
  BY <1>3, <1>5, <1>6

LEMMA WordCases ==
    ASSUME TypeOK, [Next]_vars, NEW n \in Ends, Running(n)'
    PROVE  WordStep(n)
<1>. USE EndsFacts
<1>1. /\ told \in [Ends -> Words] /\ wire \in [Ends -> Seq(Packets)]
      /\ phase \in [Ends -> {"before", "running", "closed"}]
      /\ reading \in [Ends -> [Streams -> BOOLEAN]]
  BY DEF TypeOK
<1>2. CASE UNCHANGED vars
  BY <1>2 DEF vars, WordStep, Silent, Running
<1>3. CASE StartRelay
  <2>1. CASE n = "client"
    <3>1. reading'[n].A /\ "START" \in Packets /\ "START" \in Words
      BY <1>1, <1>3, <2>1 DEF StartRelay, Both, Packets, Words
    <3>2. wire'[n] = Append(wire[n], "START") /\ UNCHANGED told
      BY <1>1, <1>3, <2>1 DEF StartRelay, Sent
    <3>. QED
      BY <3>1, <3>2 DEF WordStep, Speaks, Word
  <2>2. CASE n # "client"
    BY <1>1, <1>3, <2>2 DEF StartRelay, Sent, WordStep, Silent, Running
  <2>. QED
    BY <2>1, <2>2
<1>4. ASSUME NEW m \in Ends, Receive(m) PROVE WordStep(n)
  BY <1>4, WordReceive
<1>5. ASSUME NEW m \in Ends, Step(m), ~Receive(m) PROVE WordStep(n)
  <2>1. UNCHANGED told
    BY <1>5 DEF Step, LocalData, LocalEnd, Fail, FlushA, FlushB, WaitExpires
  <2>2. /\ \A p : [wire EXCEPT ![m] = Append(@, p)][m] = Append(wire[m], p)
        /\ \A p : Sent(m, p)[m] = Append(wire[m], p)
    BY <1>1 DEF Sent
  <2>3. CASE n # m
    <3>1. Apart(n)
      BY <1>5, <2>3, StepOne
    <3>2. wire'[n] = wire[n]
      BY <1>1, <1>5, <2>3 DEF Step, LocalData, LocalEnd, Fail, FlushA, FlushB, WaitExpires, Close, Sent
    <3>. QED
      BY <2>1, <3>1, <3>2 DEF Apart, WordStep, Silent, Running
  <2>4. CASE n = m
    <3>0. \A ps : ~Close(m, ps)
      BY <1>1, <2>4 DEF Close, Running
    <3>1. CASE LocalData(m)
      <4>1. wire'[n] = Append(wire[n], "DATA") /\ "DATA" \in Packets /\ "DATA" \notin Words
        BY <2>2, <2>4, <3>1 DEF LocalData, Packets, Words
      <4>2. Running(n) /\ reading'[n].A = reading[n].A
        BY <2>4, <3>1, ReadLocalOne DEF LocalData
      <4>. QED
        BY <2>1, <4>1, <4>2 DEF WordStep, Speaks
    <3>2. CASE LocalEnd(m)
      <4>1. wire'[n] = Append(wire[n], "END") /\ UNCHANGED reading /\ Running(n)
        BY <2>2, <2>4, <3>0, <3>2 DEF LocalEnd
      <4>2. "END" \in Packets /\ "END" \notin Words
        BY DEF Packets, Words
      <4>. QED
        BY <2>1, <4>1, <4>2 DEF WordStep, Speaks
    <3>3. CASE FlushA(m)
      <4>1. Running(n) /\ reading'[n].A = reading[n].A /\ wire' = wire
        BY <2>4, <3>3, ReadLocalOne DEF FlushA
      <4>. QED
        BY <2>1, <4>1 DEF WordStep, Silent
    <3>4. CASE FlushB(m)
      <4>1. CASE queued[n].B = Limit + 1 /\ ~reading[n].A
        <5>1. reading' = [reading EXCEPT ![n].A = TRUE] /\ wire' = Sent(n, "START")
          BY <2>4, <3>4, <4>1 DEF FlushB
        <5>2. reading'[n].A
          BY <1>1, <5>1, UpdateOne
        <5>3. wire'[n] = Append(wire[n], "START")
          BY <2>2, <2>4, <5>1
        <5>4. "START" \in Packets /\ "START" \in Words
          BY DEF Packets, Words
        <5>. QED
          BY <2>1, <5>2, <5>3, <5>4 DEF WordStep, Speaks, Word
      <4>2. CASE ~(queued[n].B = Limit + 1 /\ ~reading[n].A)
        BY <2>1, <2>4, <3>4, <4>2 DEF FlushB, WordStep, Silent
      <4>. QED
        BY <4>1, <4>2
    <3>5. ASSUME NEW g \in timers[m], WaitExpires(m, g) PROVE WordStep(n)
      BY <2>1, <2>4, <3>0, <3>5 DEF WaitExpires, WordStep, Silent
    <3>. QED
      BY <1>5, <3>0, <3>1, <3>2, <3>3, <3>4, <3>5 DEF Step, Fail
  <2>. QED
    BY <2>3, <2>4
<1>. QED
  BY <1>2, <1>3, <1>4, <1>5 DEF Next

\* The two ends agree, up to the packets in flight, on who may write.
THEOREM ToldHolds == Spec => []PeerHasBeenTold
<1>1. Init => PeerHasBeenTold
  <2>. SUFFICES ASSUME Init, NEW n \in Ends, Running(n)
                PROVE  LastWord(told[Peer(n)], wire[n], Word(reading[n].A))
    BY DEF PeerHasBeenTold, Word
  <2>1. n = "server" /\ wire[n] = <<"START">> /\ reading[n].A
    BY DEF Init, Running, OnlyServer, Both, Ends, Streams
  <2>2. <<>> \in Seq(Packets) /\ "START" \in Packets /\ "START" \in Words
    BY DEF Packets, Words
  <2>3. LastWord(told[Peer(n)], Append(<<>>, "START"), "START")
    BY <2>2, LastSpoken
  <2>4. Append(<<>>, "START") = <<"START">>
    OBVIOUS
  <2>. QED
    BY <2>1, <2>3, <2>4 DEF Word
<1>2. TypeOK /\ PeerHasBeenTold /\ [Next]_vars => PeerHasBeenTold'
  <2>. SUFFICES ASSUME TypeOK, PeerHasBeenTold, [Next]_vars, NEW n \in Ends, Running(n)'
                PROVE  LastWord(told'[Peer(n)], wire'[n], Word(reading'[n].A))
    BY DEF PeerHasBeenTold, Word
  <2>1. Running(n) => LastWord(told[Peer(n)], wire[n], Word(reading[n].A))
    BY DEF PeerHasBeenTold, Word
  <2>2. WordStep(n)
    BY WordCases
  <2>. QED
    BY <2>1, <2>2, WordOk
<1>. QED
  BY <1>1, <1>2, RelayTypeCorrect, PTL DEF Spec
==============================================================================
