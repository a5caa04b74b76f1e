--------------------------- MODULE WebSocketEnds ---------------------------
(***************************************************************************)
(* The two ends of a WebSocket (lib/websocket.cpp): frames cut into reads  *)
(* in any way and put together again, fragmented messages, and the closing *)
(* handshake, with the owners that the repository gives an end: the        *)
(* ResourceManager (lib/manager.cpp) and the ends of tests/test-ws.cpp.    *)
(*                                                                         *)
(* A byte is known by its frame and its place in it; a client's header is  *)
(* longer by its mask, one byte here.  The two writes of a frame, header   *)
(* and payload, reach the wire in order; an end that is deleted takes the  *)
(* writes with it that the system has not sent.  EBStreamUV and TCP are    *)
(* external.                                                               *)
(***************************************************************************)
EXTENDS Integers, Sequences, SequencesExt

CONSTANTS
    Frames,       \* what owners send: [op, fin, len]
    MaxFrames,    \* bound: frames that the connection has carried when an owner sends one
    PayloadCuts   \* whether a read may end inside a payload

ASSUME WebSocketEndsAssumption ==
    /\ Frames \subseteq [op: {"Text", "Binary", "Continue", "Ping"}, fin: BOOLEAN, len: Nat]
    /\ MaxFrames \in Nat
    /\ PayloadCuts \in BOOLEAN

VARIABLES
    ws,    \* the WebSocketCommon at each end, with what it sent and reported
    wire,  \* the bytes under way to each end
    owner  \* who owns each end: "manager" or "test"

vars == <<ws, wire, owner>>

Ends == {"client", "server"}
Peer(e) == IF e = "client" THEN "server" ELSE "client"

\* sizeof(WSHeaderPartial) and, from a client, the mask.
Offset(e) == IF e = "client" THEN 3 ELSE 2

Frame == [op: {"Text", "Binary", "Continue", "Ping", "Close"}, fin: BOOLEAN, len: Nat,
          off: {2, 3}, id: Nat]
Byte == [frame: Frame, at: Nat]

End ==
    [state: {"OPEN", "CLOSING", "CLOSED"}, recieveEnd: BOOLEAN,
     saveFragment: BOOLEAN,
     remain: Seq(Byte),      \* m_remain
     fragments: Seq(Frame),  \* m_fragments: the frames whose payloads it holds
     saveBinary: BOOLEAN,
     writeSize: Int,         \* m_write_buffer_size
     writes: Seq(Seq(Byte)), \* given to _write, not reported
     life: {"alive", "deleted", "aborted", "touched", "garbled"},
     ended: BOOLEAN,         \* the stream has reported its end
     failed: Nat,            \* history: how often "error" was emitted
     sent: Seq(Frame),       \* history: frames sent
     heard: Seq([event: {"message", "textMessage", "ping", "end"}, ids: Seq(Nat)])]

\* The constructor of WebSocketCommon.
NewEnd(save) ==
    [state |-> "OPEN", recieveEnd |-> FALSE, saveFragment |-> save, remain |-> <<>>,
     fragments |-> <<>>, saveBinary |-> FALSE, writeSize |-> 0, writes |-> <<>>,
     life |-> "alive", ended |-> FALSE, failed |-> 0, sent |-> <<>>, heard |-> <<>>]

Init ==
    /\ owner \in [Ends -> {"manager", "test"}] /\ owner["client"] = "test"
    /\ \E save \in BOOLEAN:
           ws = [e \in Ends |-> NewEnd(save /\ owner[e] = "test")]
    /\ wire = [e \in Ends |-> <<>>]

-----------------------------------------------------------------------------
(* Taking frames out of what was read *)

Whole(remain, income) ==
    LET all == remain \o income
    IN  Len(all) >= 2 /\ Len(all) >= Head(all).frame.off + Head(all).frame.len

\* Variant: the rest is counted from the start of what this read brought.
RestOfIncome(remain, income) ==
    LET frame == Head(remain \o income).frame
    IN  SubSeq(income, frame.off + frame.len + 1, Len(income))

\* When the payload began in remain, all of income is kept, also the bytes of it that the
\* payload took.
Rest(remain, income) ==
    LET all == remain \o income
        frame == Head(all).frame
        size == frame.off + frame.len
    IN  IF frame.off < Len(remain)
        THEN SubSeq(remain, size + 1, Len(remain)) \o income
        ELSE SubSeq(all, size + 1, Len(all))

\* extractMultiFrameFromData: extractFrameFromData takes one frame after the other, the first
\* out of what an earlier read left and what this one brought, then out of the rest.  A header
\* taken from the middle of a payload ends it, since what it would be depends on bytes that are
\* not modelled.
Extraction == [frames: Seq(Frame), remain: Seq(Byte), income: Seq(Byte), garbled: BOOLEAN]
After[x \in Extraction] ==
    LET first == Head(x.remain \o x.income)
    IN  IF ~Whole(x.remain, x.income) THEN x
        ELSE IF first.at # 1 THEN [x EXCEPT !.remain = <<>>, !.income = <<>>, !.garbled = TRUE]
        ELSE After[[x EXCEPT !.frames = Append(@, first.frame),
                             !.remain = Rest(x.remain, x.income), !.income = <<>>]]
ExtractMulti(remain, income) ==
    After[[frames |-> <<>>, remain |-> remain, income |-> income, garbled |-> FALSE]]

-----------------------------------------------------------------------------
(* Operations of an end; s is its state within one callback *)

Bytes(frame, from, to) == [k \in 1 .. to - from + 1 |-> [frame |-> frame, at |-> from + k - 1]]

\* Variant: the header is not counted.
SendFragmentUncounted(s, e, f) ==
    LET frame == [op |-> f.op, fin |-> f.fin, len |-> f.len, off |-> Offset(e),
                  id |-> Len(s.sent) + 1]
    IN  [s EXCEPT !.sent = Append(@, frame), !.writeSize = @ + f.len,
                  !.writes = Append(@, Bytes(frame, 1, frame.off + f.len))]

\* sendFragment and write_wrapper: the header and the payload are written one by one.
SendFragment(s, e, f) ==
    LET frame == [op |-> f.op, fin |-> f.fin, len |-> f.len, off |-> Offset(e),
                  id |-> Len(s.sent) + 1]
    IN  [s EXCEPT !.sent = Append(@, frame),
                  !.writes = @ \o << Bytes(frame, 1, frame.off),
                                     Bytes(frame, frame.off + 1, frame.off + f.len) >>,
                  !.writeSize = @ + frame.off + f.len]

Abort(s) == [s EXCEPT !.life = "aborted"]
\* clean_ws, or the owner's own delete.
Delete(s) ==
    IF s.life = "aborted" THEN s
    ELSE [s EXCEPT !.life = "deleted", !.remain = <<>>, !.fragments = <<>>]

\* send, sendText and ping, with their assertion.
MaySend(s) == s.state = "OPEN" \/ (s.state = "CLOSED" /\ s.recieveEnd)
Send(s, e, f) == IF MaySend(s) THEN SendFragment(s, e, f) ELSE Abort(s)

CloseFrame == [op |-> "Close", fin |-> TRUE, len |-> 2]

\* end, with its assertions.
SendEnd(s, e) ==
    IF s.state = "CLOSED" \/ (s.state # "OPEN" /\ ~s.recieveEnd) THEN Abort(s)
    ELSE SendFragment([s EXCEPT !.state = IF @ = "OPEN" THEN "CLOSING" ELSE "CLOSED"],
                      e, CloseFrame)

\* The owner's listeners.  The manager answers a "message" with an error (Response, a
\* text), listens to "messageText" and not to "textMessage", replies to "end" with its own
\* and deletes the end; the tests' owner deletes it.
Answer == [op |-> "Text", fin |-> TRUE, len |-> 1]
Hear(s, e, event, frames) ==
    LET told == [s EXCEPT !.heard = Append(@, [event |-> event,
                                               ids |-> [k \in DOMAIN frames |-> frames[k].id]])]
    IN  CASE owner[e] = "manager" /\ event = "message" -> Send(told, e, Answer)
          [] owner[e] = "manager" /\ event = "end" -> Delete(SendEnd(told, e))
          [] owner[e] = "test" /\ event = "end" -> Delete(told)
          [] OTHER -> told

\* emit("error"): ws_error_listener; the tests' owner has no listener for it.
Fail(s, e) ==
    LET failed == [s EXCEPT !.failed = @ + 1]
    IN  IF owner[e] = "manager" THEN Delete(failed) ELSE failed

Weight(frames) == FoldLeft(LAMBDA n, f: n + f.len, 0, frames)

\* Variant: the state changes when the answer is sent, not when the close frame came.
TakeCloseLate(s, e, frame) ==
    IF s.recieveEnd THEN Fail(s, e)
    ELSE Hear([s EXCEPT !.state = "CLOSING"], e, "end", <<frame>>)

\* Variant: a close frame changes the state and is not reported.
TakeCloseSilently(s, e, frame) ==
    IF s.recieveEnd THEN Fail(s, e)
    ELSE [s EXCEPT !.recieveEnd = TRUE, !.state = "CLOSING"]

TakeClose(s, e, frame) ==
    IF s.recieveEnd \/ frame.len < 2 THEN Fail(s, e)
    ELSE Hear([s EXCEPT !.recieveEnd = TRUE, !.state = "CLOSING"], e, "end", <<frame>>)

\* A first fragment is refused when the read held more than whole frames.
TakeData(s, e, frame) ==
    IF frame.fin
    THEN Hear(s, e, IF frame.op = "Binary" THEN "message" ELSE "textMessage", <<frame>>)
    ELSE IF ~s.saveFragment THEN s
    ELSE IF s.remain # <<>> THEN Fail(s, e)
    ELSE [s EXCEPT !.fragments = Append(@, frame), !.saveBinary = (frame.op = "Binary")]

TakeContinue(s, e, frame) ==
    LET whole == Append(s.fragments, frame)
    IN  IF ~s.saveFragment THEN s
        ELSE IF Weight(s.fragments) = 0 THEN Fail(s, e)
        ELSE IF frame.fin
             THEN [Hear(s, e, IF s.saveBinary THEN "message" ELSE "textMessage", whole)
                       EXCEPT !.fragments = <<>>]
             ELSE [s EXCEPT !.fragments = whole]

Take(s, e, frame) ==
    CASE frame.op \in {"Binary", "Text"} -> TakeData(s, e, frame)
      [] frame.op = "Close" -> TakeClose(s, e, frame)
      [] frame.op = "Ping" -> Hear(s, e, "ping", <<frame>>)
      [] frame.op = "Continue" -> TakeContinue(s, e, frame)

\* The loop of read_callback returns after an error and goes on after an "end" whose
\* listener deleted the end: what it then touches is gone.
TakeAll(s, e, frames) ==
    LET from[x \in [end: End, left: Seq(Frame)]] ==
            LET t == Take(x.end, e, Head(x.left))
            IN  IF x.left = <<>> \/ x.end.life = "aborted" THEN x.end
                ELSE IF x.end.life = "deleted" THEN [x.end EXCEPT !.life = "touched"]
                ELSE IF t.failed > x.end.failed THEN t
                ELSE from[[end |-> t, left |-> Tail(x.left)]]
    IN  from[[end |-> s, left |-> frames]]

-----------------------------------------------------------------------------
(* Steps *)

Alive(e) == ws[e].life = "alive"

\* s is the end e after a callback, left what it did not read.  What a deleted end had
\* given to libuv and libuv had sent may still arrive.
Leave(e, s, left) ==
    \E n \in 0 .. Len(s.writes):
        LET gone == s.life # "alive"
        IN  /\ n > 0 => gone
            /\ ws' = [ws EXCEPT ![e] = IF gone THEN [s EXCEPT !.writes = <<>>] ELSE s]
            /\ wire' = [wire EXCEPT ![e] = left,
                                    ![Peer(e)] = @ \o FlattenSeq(SubSeq(s.writes, 1, n))]

\* The first k frames leave a message unfinished.
Unfinished(sent, k) ==
    \E j \in 1 .. k: /\ sent[j].op # "Ping" /\ ~sent[j].fin
                    /\ \A i \in j + 1 .. k: sent[i].op = "Ping"

\* The tests' owner sends what it likes while the connection is open, fragments in order,
\* and pings where they could do harm, between fragments.
OwnerSends(e) ==
    \E f \in Frames:
        /\ Alive(e) /\ owner[e] = "test" /\ ws[e].state = "OPEN"
        /\ Len(ws["client"].sent) + Len(ws["server"].sent) < MaxFrames
        /\ f.op \in {"Continue", "Ping"} <=> Unfinished(ws[e].sent, Len(ws[e].sent))
        /\ ws' = [ws EXCEPT ![e] = Send(@, e, f)]
        /\ UNCHANGED <<wire, owner>>

OwnerEnds(e) ==
    /\ Alive(e) /\ owner[e] = "test" /\ ws[e].state = "OPEN"
    /\ ws' = [ws EXCEPT ![e] = SendEnd(@, e)]
    /\ UNCHANGED <<wire, owner>>

\* ResourceManager::close.
OwnerCloses(e) ==
    /\ Alive(e) /\ owner[e] = "manager"
    /\ Leave(e, Delete(ws[e]), wire[e])
    /\ UNCHANGED owner

\* write_callback: the oldest write reached the system, or failed as the peer is gone.
Flush(e) ==
    /\ Alive(e) /\ ws[e].writes # <<>>
    /\ LET write == Head(ws[e].writes)
           done == [ws[e] EXCEPT !.writes = Tail(@), !.writeSize = @ - Len(write)]
       IN  \/ /\ ws' = [ws EXCEPT ![e] = done]
              /\ wire' = [wire EXCEPT ![Peer(e)] = @ \o write]
           \/ /\ ~Alive(Peer(e))
              /\ Leave(e, Fail(done, e), wire[e])
    /\ UNCHANGED owner

\* The byte follows another of the same payload.
InPayload(byte) == byte.at > byte.frame.off + 1

\* read_callback, of the first n bytes that have arrived.
AfterRead(e, n) ==
    LET got == ExtractMulti(ws[e].remain, SubSeq(wire[e], 1, n))
        s == TakeAll([ws[e] EXCEPT !.remain = got.remain \o got.income], e, got.frames)
    IN  IF got.garbled /\ s.life = "alive" THEN [s EXCEPT !.life = "garbled"] ELSE s

\* A read ends inside a payload only where PayloadCuts allows it.
Read(e, n) ==
    /\ Alive(e) /\ n <= Len(wire[e])
    /\ ~PayloadCuts /\ n < Len(wire[e]) => ~InPayload(wire[e][n + 1])
    /\ \E s \in {AfterRead(e, n)}: Leave(e, s, SubSeq(wire[e], n + 1, Len(wire[e])))
    /\ UNCHANGED owner

\* The stream reports its end, as an error, when the peer is gone and all is read.
ReadEnds(e) ==
    /\ Alive(e) /\ ~Alive(Peer(e)) /\ wire[e] = <<>> /\ ~ws[e].ended
    /\ Leave(e, Fail([ws[e] EXCEPT !.ended = TRUE], e), <<>>)
    /\ UNCHANGED owner

Next ==
    \E e \in Ends:
        \/ OwnerSends(e)
        \/ OwnerEnds(e)
        \/ OwnerCloses(e)
        \/ Flush(e)
        \/ \E n \in 1 .. Len(wire[e]): Read(e, n)
        \/ ReadEnds(e)

\* libuv writes what it was given and reads what has arrived.
Reading(e) == \E n \in 1 .. Len(wire[e]): Read(e, n)
Fairness == \A e \in Ends: WF_vars(Flush(e)) /\ WF_vars(Reading(e)) /\ WF_vars(ReadEnds(e))
Spec == Init /\ [][Next]_vars /\ Fairness

-----------------------------------------------------------------------------
(* Properties *)

\* m_write_buffer_size is a size_t and counts what the system has not taken.
TypeOK ==
    /\ ws \in [Ends -> End]
    /\ wire \in [Ends -> Seq(Byte)]
    /\ \A e \in Ends: Alive(e) => ws[e].writeSize = Len(FlattenSeq(ws[e].writes))

\* The frames of the message that frame i begins or goes on with, or that came last before it.
Run(sent, i) ==
    LET run[k \in 0 .. i] ==
            IF k = 0 THEN <<>>
            ELSE IF sent[k].op \in {"Binary", "Text"} THEN <<k>>
            ELSE IF sent[k].op = "Continue" THEN Append(run[k - 1], k) ELSE run[k - 1]
    IN  run[i]

\* What the frames mean: a message for each whole one and for each run of fragments that
\* the receiver keeps, whatever pings came between.
Event(sent, save, i) ==
    LET frame == sent[i]
        run == Run(sent, i)
        message == [event |-> IF sent[Head(run)].op = "Binary" THEN "message" ELSE "textMessage",
                    ids |-> run]
    IN  CASE frame.op = "Ping" -> <<[event |-> "ping", ids |-> <<i>>]>>
          [] frame.op = "Close" -> <<[event |-> "end", ids |-> <<i>>]>>
          [] frame.op \notin {"Ping", "Close"} /\ (~frame.fin \/ (frame.op = "Continue" /\ ~save)) -> <<>>
          [] OTHER -> <<message>>
Meaning(sent, save) == FlattenSeq([i \in DOMAIN sent |-> Event(sent, save, i)])

\* However the stream was cut (extractFrameFromData), an end reports the messages that the
\* peer sent, each whole and in order (read_callback), until it reports an error, and never
\* takes a header from the middle of a payload.
MessagesIntact ==
    \A e \in Ends:
        /\ ws[e].life # "garbled"
        /\ ws[e].failed > 0 \/ IsPrefix(ws[e].heard, Meaning(ws[Peer(e)].sent, ws[e].saveFragment))

\* The assertions of send and end hold whatever crosses on the way, also when both ends
\* close, and no frame is taken for an end that its owner deleted on "end".
AssertionsHold == \A e \in Ends: ws[e].life \notin {"aborted", "touched"}

\* A close frame ends the peer, with its owner's answer or, when both ends closed, with
\* the error or the end of the stream: the manager keeps no session whose client has
\* closed it.
CloseReachesManager ==
    (ws["client"].state # "OPEN" /\ Alive("client")) ~>
        (owner["server"] = "manager" => ~Alive("server"))

=============================================================================
