------------------------ MODULE WebSocketEnds_proofs ------------------------
(***************************************************************************)
(* The types of the two ends and the assertions of send, end and the       *)
(* frame loop, for every set of frames, every bound and every cut; and,    *)
(* where no read ends inside a payload, the messages.                      *)
(*                                                                         *)
(* That nobody sends after a close frame is what the first part is about:  *)
(* a byte is marked by whether it belongs to a close frame and whether it  *)
(* begins a frame, and the bytes between the two ends, those that a reader *)
(* keeps, those on the wire and those not yet written, never have a        *)
(* beginning behind a close frame.  The rest of a read keeps their order,  *)
(* even where extractFrameFromData drops or repeats some.                  *)
(*                                                                         *)
(* The second part says which bytes they are: those of the frames that     *)
(* were sent and not yet taken, and that what was reported is what the     *)
(* frames taken before them mean.                                          *)
(***************************************************************************)
EXTENDS WebSocketEnds, DataLemmas

HasClose(b) == \E i \in 1 .. Len(b) : b[i].frame.op = "Close"
HasStart(b) == \E i \in 1 .. Len(b) : b[i].at = 1

\* No frame begins behind a close frame.
Clean(b) == \A i \in 1 .. Len(b), j \in 1 .. Len(b) :
                i < j /\ b[i].frame.op = "Close" => b[j].at # 1

Unwritten(s) == FlattenSeq(s.writes)

\* What e has sent and its peer has not taken as frames.
Ahead(e) == ws[Peer(e)].remain \o wire[Peer(e)]

\* Nothing begins behind a close frame that s has sent, and an open end has sent none.
Sound(s, ahead) ==
    /\ Clean(ahead) /\ Clean(Unwritten(s))
    /\ HasClose(ahead) => ~HasStart(Unwritten(s))
    /\ s.state = "OPEN" => ~HasClose(ahead) /\ ~HasClose(Unwritten(s))

\* The manager leaves an end that has taken or sent a close frame.
Owned(s, e) == s.life = "alive" /\ owner[e] = "manager" => s.state = "OPEN" /\ ~s.recieveEnd

Counted(s) == s.writeSize = Len(Unwritten(s))

IInv ==
    /\ TypeOK
    /\ owner \in [Ends -> {"manager", "test"}]
    /\ \A e \in Ends :
           /\ ws[e].life \in {"alive", "deleted", "garbled"}
           /\ ws[e].life # "alive" => ws[e].writes = <<>>
           /\ Owned(ws[e], e)
           /\ Sound(ws[e], Ahead(e))

-----------------------------------------------------------------------------
(* Marks of bytes                                                              *)

LEMMA MarksOfParts ==
    ASSUME NEW x \in Seq(Byte), NEW y \in Seq(Byte)
    PROVE  /\ x \o y \in Seq(Byte)
           /\ HasClose(x \o y) <=> HasClose(x) \/ HasClose(y)
           /\ HasStart(x \o y) <=> HasStart(x) \/ HasStart(y)
           /\ Clean(x \o y) <=> Clean(x) /\ Clean(y) /\ ~(HasClose(x) /\ HasStart(y))
<1>1. PICK z \in Seq(Byte), m \in Nat, n \in Nat :
          /\ z = x \o y /\ m = Len(x) /\ n = Len(y) /\ Len(z) = m + n
          /\ \A i \in 1 .. m : z[i] = x[i]
          /\ \A i \in 1 .. n : z[m + i] = y[i]
  <2>1. Len(x) \in Nat /\ Len(y) \in Nat /\ x \o y \in Seq(Byte) /\ Len(x \o y) = Len(x) + Len(y)
    BY ConcatProperties, LenProperties
  <2>2. \A i \in 1 .. Len(x) : (x \o y)[i] = x[i]
    BY ConcatProperties, LenProperties
  <2>3. \A i \in 1 .. Len(y) : (x \o y)[Len(x) + i] = y[i]
    BY ConcatProperties, LenProperties
  <2>. QED
    BY <2>1, <2>2, <2>3
<1>2. \A k \in 1 .. Len(z) : \/ k \in 1 .. m /\ z[k] = x[k]
                             \/ k > m /\ k - m \in 1 .. n /\ z[k] = y[k - m]
  <2>1. ASSUME NEW k \in 1 .. Len(z), k > m PROVE k - m \in 1 .. n /\ m + (k - m) = k
    BY <1>1, <2>1
  <2>2. ASSUME NEW k \in 1 .. Len(z), k <= m PROVE k \in 1 .. m
    BY <1>1, <2>2
  <2>3. ASSUME NEW k \in 1 .. Len(z) PROVE k <= m \/ k > m
    BY <1>1
  <2>. QED
    BY <1>1, <2>1, <2>2, <2>3
<1>3. /\ \A i \in 1 .. m : i \in 1 .. Len(z) /\ z[i] = x[i]
      /\ \A i \in 1 .. n : m + i \in 1 .. Len(z) /\ z[m + i] = y[i]
  BY <1>1
<1>4. HasClose(z) <=> HasClose(x) \/ HasClose(y)
  <2>1. ASSUME NEW k \in 1 .. Len(z), z[k].frame.op = "Close" PROVE HasClose(x) \/ HasClose(y)
    BY <1>1, <1>2, <2>1 DEF HasClose
  <2>2. ASSUME NEW i \in 1 .. m, x[i].frame.op = "Close" PROVE HasClose(z)
    BY <1>3, <2>2 DEF HasClose
  <2>3. ASSUME NEW i \in 1 .. n, y[i].frame.op = "Close" PROVE HasClose(z)
    BY <1>3, <2>3 DEF HasClose
  <2>. QED
    BY <1>1, <2>1, <2>2, <2>3 DEF HasClose
<1>5. HasStart(z) <=> HasStart(x) \/ HasStart(y)
  <2>1. ASSUME NEW k \in 1 .. Len(z), z[k].at = 1 PROVE HasStart(x) \/ HasStart(y)
    BY <1>1, <1>2, <2>1 DEF HasStart
  <2>2. ASSUME NEW i \in 1 .. m, x[i].at = 1 PROVE HasStart(z)
    BY <1>3, <2>2 DEF HasStart
  <2>3. ASSUME NEW i \in 1 .. n, y[i].at = 1 PROVE HasStart(z)
    BY <1>3, <2>3 DEF HasStart
  <2>. QED
    BY <1>1, <2>1, <2>2, <2>3 DEF HasStart
<1>6. ASSUME Clean(z) PROVE Clean(x) /\ Clean(y) /\ ~(HasClose(x) /\ HasStart(y))
  <2>1. Clean(x)
    BY <1>1, <1>3, <1>6 DEF Clean
  <2>2. ASSUME NEW i \in 1 .. n, NEW j \in 1 .. n, i < j, y[i].frame.op = "Close" PROVE y[j].at # 1
    <3>1. m + i < m + j
      BY <2>2, <1>1
    <3>. QED
      BY <1>3, <1>6, <2>2, <3>1 DEF Clean
  <2>3. ASSUME NEW i \in 1 .. m, NEW j \in 1 .. n, x[i].frame.op = "Close" PROVE y[j].at # 1
    <3>1. i < m + j
      BY <1>1
    <3>. QED
      BY <1>3, <1>6, <2>3, <3>1 DEF Clean
  <2>. QED
    BY <1>1, <2>1, <2>2, <2>3 DEF Clean, HasClose, HasStart
<1>7. ASSUME Clean(x), Clean(y), ~(HasClose(x) /\ HasStart(y)) PROVE Clean(z)
  <2>1. SUFFICES ASSUME NEW i \in 1 .. Len(z), NEW j \in 1 .. Len(z), i < j, z[i].frame.op = "Close"
                 PROVE  z[j].at # 1
    BY DEF Clean
  <2>2. CASE j \in 1 .. m /\ z[j] = x[j]
    <3>1. i \in 1 .. m
      BY <1>1, <2>1, <2>2
    <3>. QED
      BY <1>1, <1>3, <1>7, <2>1, <2>2, <3>1 DEF Clean
  <2>3. CASE j > m /\ j - m \in 1 .. n /\ z[j] = y[j - m]
    <3>1. CASE i \in 1 .. m /\ z[i] = x[i]
      BY <1>1, <1>7, <2>1, <2>3, <3>1 DEF HasClose, HasStart
    <3>2. CASE i > m /\ i - m \in 1 .. n /\ z[i] = y[i - m]
      <4>1. i - m < j - m
        BY <1>1, <2>1
      <4>. QED
        BY <1>1, <1>7, <2>1, <2>3, <3>2, <4>1 DEF Clean
    <3>. QED
      BY <1>2, <3>1, <3>2
  <2>. QED
    BY <1>2, <2>2, <2>3
<1>. QED
  BY <1>1, <1>4, <1>5, <1>6, <1>7

\* y has no mark that b has not, and its bytes are in no worse order.
Within(y, b) ==
    /\ HasClose(y) => HasClose(b)
    /\ HasStart(y) => HasStart(b)
    /\ Clean(b) => Clean(y)

LEMMA MarksOfNothing == Clean(<<>>) /\ ~HasClose(<<>>) /\ ~HasStart(<<>>)
BY DEF Clean, HasClose, HasStart

\* What is behind the first bytes.
LEMMA MarksBehind ==
    ASSUME NEW b \in Seq(Byte), NEW n \in Nat
    PROVE  /\ SubSeq(b, n + 1, Len(b)) \in Seq(Byte)
           /\ Within(SubSeq(b, n + 1, Len(b)), b)
           /\ Len(SubSeq(b, n + 1, Len(b))) = IF n < Len(b) THEN Len(b) - n ELSE 0
           /\ n > 0 /\ b # <<>> /\ b[1].frame.op = "Close" /\ Clean(b)
                  => ~HasStart(SubSeq(b, n + 1, Len(b)))
<1>1. PICK m \in Nat : m = Len(b) /\ \A i \in 1 .. m : b[i] \in Byte
  BY LenProperties, ElementOfSeq
<1>. DEFINE y == SubSeq(b, n + 1, m)
<1>2. CASE n < m
  <2>1. /\ y \in Seq(Byte) /\ Len(y) = m - n
        /\ \A i \in 1 .. m - n : y[i] = b[n + i]
    <3>1. n + 1 \in 1 .. Len(b) + 1 /\ m \in n + 1 - 1 .. Len(b)
      BY <1>1, <1>2
    <3>2. Len(y) = m - (n + 1) + 1 /\ \A i \in 1 .. m - (n + 1) + 1 : y[i] = b[(n + 1) + i - 1]
      BY <1>1, <1>2, SubSeqProperties
    <3>3. m - (n + 1) + 1 = m - n /\ \A i \in 1 .. m - n : (n + 1) + i - 1 = n + i
      BY <1>1, <1>2
    <3>4. y \in Seq(Byte)
      BY <1>1, <1>2, SubSeqProperties
    <3>. QED
      BY <3>2, <3>3, <3>4
  <2>2. \A i \in 1 .. m - n : n + i \in 1 .. m
    BY <1>1, <1>2
  <2>3. Within(y, b)
    <3>1. (HasClose(y) => HasClose(b)) /\ (HasStart(y) => HasStart(b))
      BY <1>1, <2>1, <2>2 DEF HasClose, HasStart
    <3>2. ASSUME Clean(b), NEW i \in 1 .. m - n, NEW j \in 1 .. m - n, i < j,
                 y[i].frame.op = "Close"
          PROVE  y[j].at # 1
      <4>1. n + i < n + j
        BY <3>2
      <4>. QED
        BY <1>1, <2>1, <2>2, <3>2, <4>1 DEF Clean
    <3>. QED
      BY <2>1, <3>1, <3>2 DEF Within, Clean
  <2>4. ASSUME n > 0, b[1].frame.op = "Close", Clean(b), NEW i \in 1 .. m - n PROVE y[i].at # 1
    <3>1. 1 < n + i /\ 1 \in 1 .. m
      BY <1>1, <1>2, <2>4
    <3>. QED
      BY <1>1, <2>1, <2>2, <2>4, <3>1 DEF Clean
  <2>. QED
    BY <1>1, <1>2, <2>1, <2>3, <2>4 DEF HasStart
<1>3. CASE n >= m
  <2>1. y = <<>>
    BY <1>1, <1>3, SubSeqEmpty
  <2>2. <<>> \in Seq(Byte) /\ Len(<<>>) = 0
    BY EmptySeq
  <2>3. Within(y, b) /\ ~HasStart(y)
    BY <2>1, MarksOfNothing DEF Within
  <2>. HIDE DEF y
  <2>4. y \in Seq(Byte) /\ Len(y) = 0 /\ y = SubSeq(b, n + 1, Len(b)) /\ ~(n < Len(b))
    BY <1>1, <1>3, <2>1, <2>2 DEF y
  <2>. QED
    BY <2>3, <2>4
<1>. QED
  BY <1>1, <1>2, <1>3

\* Behind the first bytes of one sequence, a second one.
LEMMA WithinParts ==
    ASSUME NEW x \in Seq(Byte), NEW y \in Seq(Byte), NEW z \in Seq(Byte), Within(x, z)
    PROVE  Within(x \o y, z \o y)
BY MarksOfParts DEF Within

LEMMA WithinTransitive ==
    ASSUME NEW x, NEW y, NEW z, Within(x, y), Within(y, z)
    PROVE  Within(x, z)
BY DEF Within

\* The first bytes and those behind them.
LEMMA MarksBefore ==
    ASSUME NEW b \in Seq(Byte), NEW n \in 0 .. Len(b)
    PROVE  /\ SubSeq(b, 1, n) \in Seq(Byte) /\ SubSeq(b, n + 1, Len(b)) \in Seq(Byte)
           /\ SubSeq(b, 1, n) \o SubSeq(b, n + 1, Len(b)) = b
<1>1. Len(b) \in Nat
  BY LenProperties
<1>2. SubSeq(b, 1, n) \o SubSeq(b, n + 1, Len(b)) = SubSeq(b, 1, Len(b))
  <2>1. 1 \in 1 .. Len(b) + 1 /\ n \in 1 - 1 .. Len(b) /\ Len(b) \in n .. Len(b)
    BY <1>1
  <2>. QED
    BY <2>1, ConcatAdjacentSubSeq
<1>3. \A i \in 1 .. Len(b) : b[i] \in Byte
  BY ElementOfSeq
<1>4. SubSeq(b, 1, n) \in Seq(Byte)
  <2>1. \A i \in 1 .. n : b[i] \in Byte
    BY <1>1, <1>3
  <2>. QED
    BY <1>1, <2>1, SubSeqProperties
<1>5. SubSeq(b, n + 1, Len(b)) \in Seq(Byte)
  BY <1>1, MarksBehind
<1>. QED
  BY <1>2, <1>4, <1>5, SubSeqFull

-----------------------------------------------------------------------------
(* What is written                                                             *)

LEMMA UnwrittenType ==
    ASSUME NEW s \in End
    PROVE  Unwritten(s) \in Seq(Byte)
<1>1. s.writes \in Seq(Seq(Byte))
  BY DEF End
<1>. QED
  BY <1>1, FlattenAppend DEF Unwritten

LEMMA UnwrittenNone ==
    ASSUME NEW s, s.writes = <<>>
    PROVE  Unwritten(s) = <<>>
BY FlattenEmpty DEF Unwritten

\* The oldest write and the others.
LEMMA UnwrittenFirst ==
    ASSUME NEW writes \in Seq(Seq(Byte)), writes # <<>>
    PROVE  /\ Head(writes) \in Seq(Byte) /\ Tail(writes) \in Seq(Seq(Byte))
           /\ FlattenSeq(Tail(writes)) \in Seq(Byte)
           /\ FlattenSeq(writes) = Head(writes) \o FlattenSeq(Tail(writes))
<1>1. PICK T : T = Seq(Byte)
  OBVIOUS
<1>2. PICK w \in Seq(T) : w = writes /\ w # <<>> /\ Len(w) \in Nat \ {0}
  BY <1>1, EmptySeq
<1>3. Head(w) \in T /\ Tail(w) \in Seq(T)
  BY <1>2, HeadTailProperties
<1>4. w = <<Head(w)>> \o Tail(w)
  <2>1. SubSeq(w, 1, Len(w)) = <<w[1]>> \o SubSeq(w, 1 + 1, Len(w))
    <3>1. 1 \in 1 .. Len(w) /\ Len(w) \in 1 .. Len(w)
      BY <1>2
    <3>. QED
      BY <3>1, SubSeqRecursiveFirst
  <2>2. SubSeq(w, 1, Len(w)) = w /\ Tail(w) = SubSeq(w, 2, Len(w)) /\ 1 + 1 = 2
    BY <1>2, SubSeqFull, TailIsSubSeq
  <2>3. Head(w) = w[1]
    OBVIOUS
  <2>. QED
    BY <2>1, <2>2, <2>3
<1>5. PICK h \in T, r \in Seq(T) : h = Head(w) /\ r = Tail(w) /\ <<h>> \in Seq(T) /\ w = <<h>> \o r
  <2>1. \A h \in T : <<h>> \in Seq(T)
    OBVIOUS
  <2>. QED
    BY <1>3, <1>4, <2>1
<1>6. FlattenSeq(<<h>> \o r) = FlattenSeq(<<h>>) \o FlattenSeq(r)
  BY <1>1, <1>5, FlattenConcat
<1>7. FlattenSeq(<<h>>) = h /\ FlattenSeq(r) \in Seq(Byte)
  BY <1>1, FlattenOne, FlattenAppend
<1>. QED
  BY <1>1, <1>2, <1>5, <1>6, <1>7

\* The first writes and the others.
LEMMA UnwrittenParts ==
    ASSUME NEW writes \in Seq(Seq(Byte)), NEW n \in 0 .. Len(writes)
    PROVE  \E rest \in Seq(Byte) :
              /\ FlattenSeq(SubSeq(writes, 1, n)) \in Seq(Byte)
              /\ FlattenSeq(writes) = FlattenSeq(SubSeq(writes, 1, n)) \o rest
<1>1. PICK T : T = Seq(Byte)
  OBVIOUS
<1>2. PICK w \in Seq(T), m \in Nat : w = writes /\ m = Len(w) /\ n \in 0 .. m
  BY <1>1, LenProperties
<1>3. SubSeq(w, 1, n) \o SubSeq(w, n + 1, m) = w
  <2>1. 1 \in 1 .. Len(w) + 1 /\ n \in 1 - 1 .. Len(w) /\ m \in n .. Len(w)
    BY <1>2
  <2>2. SubSeq(w, 1, n) \o SubSeq(w, n + 1, m) = SubSeq(w, 1, m)
    BY <2>1, ConcatAdjacentSubSeq
  <2>. QED
    BY <1>2, <2>2, SubSeqFull
<1>4. SubSeq(w, 1, n) \in Seq(T) /\ SubSeq(w, n + 1, m) \in Seq(T)
  <2>1. \A i \in 1 .. m : w[i] \in T
    BY <1>2, ElementOfSeq
  <2>2. (\A i \in 1 .. n : w[i] \in T) /\ (\A i \in n + 1 .. m : w[i] \in T)
    BY <1>2, <2>1
  <2>3. SubSeq(w, 1, n) \in Seq(T)
    BY <2>2, SubSeqProperties
  <2>4. SubSeq(w, n + 1, m) \in Seq(T)
    BY <1>2, <2>2, SubSeqProperties
  <2>. QED
    BY <2>3, <2>4
<1>5. PICK a \in Seq(T), b \in Seq(T) : a = SubSeq(w, 1, n) /\ b = SubSeq(w, n + 1, m) /\ w = a \o b
  BY <1>3, <1>4
<1>6. FlattenSeq(a \o b) = FlattenSeq(a) \o FlattenSeq(b)
  BY <1>1, <1>5, FlattenConcat
<1>7. FlattenSeq(a) \in Seq(Byte) /\ FlattenSeq(b) \in Seq(Byte)
  BY <1>1, FlattenAppend
<1>. QED
  BY <1>2, <1>5, <1>6, <1>7

\* A frame's bytes carry its marks.
LEMMA BytesOfFrame ==
    ASSUME NEW frame \in Frame, NEW from \in Nat \ {0}, NEW size \in Nat
    PROVE  /\ Bytes(frame, from, from + size - 1) \in Seq(Byte)
           /\ Len(Bytes(frame, from, from + size - 1)) = size
           /\ HasClose(Bytes(frame, from, from + size - 1)) => frame.op = "Close"
           /\ from > 1 => ~HasStart(Bytes(frame, from, from + size - 1))
           /\ Clean(Bytes(frame, from, from + size - 1))
<1>. DEFINE b == Bytes(frame, from, from + size - 1)
<1>1. (from + size - 1) - from + 1 = size
  OBVIOUS
<1>2. b = [k \in 1 .. size |-> [frame |-> frame, at |-> from + k - 1]]
  BY <1>1 DEF Bytes
<1>3. \A k \in 1 .. size : [frame |-> frame, at |-> from + k - 1] \in Byte
  BY DEF Byte
<1>4. b \in Seq(Byte) /\ Len(b) = size
  <2>1. b \in [1 .. size -> Byte]
    BY <1>2, <1>3
  <2>. HIDE DEF b
  <2>2. b \in Seq(Byte)
    BY <2>1, SeqDef
  <2>3. Len(b) \in Nat /\ 1 .. Len(b) = 1 .. size
    BY <2>1, <2>2, LenProperties
  <2>. QED
    BY <2>2, <2>3
<1>5. \A k \in 1 .. size : b[k].frame = frame /\ b[k].at = from + k - 1
  BY <1>2
<1>6. \A k \in 1 .. size : from + k - 1 = 1 => k = 1 /\ from = 1
  OBVIOUS
<1>. HIDE DEF b
<1>7. HasClose(b) => frame.op = "Close"
  BY <1>4, <1>5 DEF HasClose
<1>8. from > 1 => ~HasStart(b)
  BY <1>4, <1>5, <1>6 DEF HasStart
<1>9. Clean(b)
  <2>1. ASSUME NEW i \in 1 .. size, NEW j \in 1 .. size, i < j PROVE b[j].at # 1
    <3>1. j # 1
      BY <2>1
    <3>. QED
      BY <1>5, <1>6, <3>1
  <2>. QED
    BY <1>4, <2>1 DEF Clean
<1>. QED
  BY <1>4, <1>7, <1>8, <1>9 DEF b

-----------------------------------------------------------------------------
(* The operations of an end                                                    *)

Message == [op: {"Text", "Binary", "Continue", "Ping", "Close"}, fin: BOOLEAN, len: Nat]
Events == {"message", "textMessage", "ping", "end"}

LEMMA OwnMessages == Answer \in Message /\ CloseFrame \in Message /\ Answer.op # "Close"
BY DEF Answer, CloseFrame, Message

\* What the operations change of an end keeps its type.
LEMMA EndChanges ==
    ASSUME NEW s \in End
    PROVE  /\ \A life \in {"alive", "deleted", "aborted", "touched", "garbled"} :
                  [s EXCEPT !.life = life] \in End
           /\ [s EXCEPT !.life = "deleted", !.remain = <<>>, !.fragments = <<>>] \in End
           /\ \A state \in {"OPEN", "CLOSING", "CLOSED"} : [s EXCEPT !.state = state] \in End
           /\ [s EXCEPT !.recieveEnd = TRUE, !.state = "CLOSING"] \in End
           /\ [s EXCEPT !.failed = s.failed + 1] \in End
           /\ [s EXCEPT !.fragments = <<>>] \in End
           /\ [s EXCEPT !.ended = TRUE] \in End
           /\ \A remain \in Seq(Byte) : [s EXCEPT !.remain = remain] \in End
<1>1. <<>> \in Seq(Byte) /\ <<>> \in Seq(Frame) /\ s.failed + 1 \in Nat
  BY EmptySeq DEF End
<1>2. \A life \in {"alive", "deleted", "aborted", "touched", "garbled"} :
          [s EXCEPT !.life = life] \in End
  BY DEF End
<1>3. [s EXCEPT !.life = "deleted", !.remain = <<>>, !.fragments = <<>>] \in End
  BY <1>1 DEF End
<1>4. \A state \in {"OPEN", "CLOSING", "CLOSED"} : [s EXCEPT !.state = state] \in End
  BY DEF End
<1>5. [s EXCEPT !.recieveEnd = TRUE, !.state = "CLOSING"] \in End
  BY DEF End
<1>6. [s EXCEPT !.failed = s.failed + 1] \in End
  BY <1>1 DEF End
<1>7. [s EXCEPT !.fragments = <<>>] \in End
  BY <1>1 DEF End
<1>8. [s EXCEPT !.ended = TRUE] \in End
  BY DEF End
<1>9. \A remain \in Seq(Byte) : [s EXCEPT !.remain = remain] \in End
  BY DEF End
<1>. QED
  BY <1>2, <1>3, <1>4, <1>5, <1>6, <1>7, <1>8, <1>9

\* t is s with the header and the payload of f to write.
Added(s, t, f) ==
    \E first \in Seq(Byte), second \in Seq(Byte) :
        /\ t.writeSize = s.writeSize + Len(first) + Len(second)
        /\ Unwritten(t) = (Unwritten(s) \o first) \o second
        /\ HasClose(first) \/ HasClose(second) => f.op = "Close"
        /\ ~HasStart(second) /\ Clean(first) /\ Clean(second)

LEMMA SendFragmentFields ==
    ASSUME NEW s \in End, NEW e \in Ends, NEW f \in Message
    PROVE  /\ SendFragment(s, e, f) \in End
           /\ SendFragment(s, e, f).state = s.state
           /\ SendFragment(s, e, f).recieveEnd = s.recieveEnd
           /\ SendFragment(s, e, f).life = s.life
           /\ SendFragment(s, e, f).failed = s.failed
           /\ SendFragment(s, e, f).remain = s.remain
           /\ Added(s, SendFragment(s, e, f), f)
<1>. DEFINE frame == [op |-> f.op, fin |-> f.fin, len |-> f.len, off |-> Offset(e),
                      id |-> Len(s.sent) + 1]
<1>1. s.sent \in Seq(Frame) /\ s.writes \in Seq(Seq(Byte)) /\ s.writeSize \in Int
  BY DEF End
<1>2. frame \in Frame /\ frame.off \in {2, 3} /\ frame.len \in Nat /\ frame.op = f.op
  <2>1. Len(s.sent) + 1 \in Nat /\ Offset(e) \in {2, 3}
    BY <1>1, LenProperties DEF Offset
  <2>. QED
    BY <2>1 DEF Frame, Message
<1>3. PICK first \in Seq(Byte) :
          /\ first = Bytes(frame, 1, frame.off) /\ Len(first) = frame.off
          /\ HasClose(first) => f.op = "Close"
          /\ Clean(first)
  <2>1. PICK g \in Frame, n \in Nat : g = frame /\ n = frame.off
    BY <1>2
  <2>2. 1 + n - 1 = n
    OBVIOUS
  <2>3. /\ Bytes(g, 1, 1 + n - 1) \in Seq(Byte)
        /\ Len(Bytes(g, 1, 1 + n - 1)) = n
        /\ HasClose(Bytes(g, 1, 1 + n - 1)) => g.op = "Close"
        /\ Clean(Bytes(g, 1, 1 + n - 1))
    BY BytesOfFrame
  <2>. HIDE DEF frame
  <2>. QED
    BY <1>2, <2>1, <2>2, <2>3
<1>4. PICK second \in Seq(Byte) :
          /\ second = Bytes(frame, frame.off + 1, frame.off + f.len) /\ Len(second) = f.len
          /\ HasClose(second) => f.op = "Close"
          /\ Clean(second) /\ ~HasStart(second)
  <2>1. PICK g \in Frame, from \in Nat \ {0}, n \in Nat :
            /\ g = frame /\ from = frame.off + 1 /\ n = f.len
            /\ from > 1 /\ from + n - 1 = frame.off + f.len
    BY <1>2
  <2>3. /\ Bytes(g, from, from + n - 1) \in Seq(Byte)
        /\ Len(Bytes(g, from, from + n - 1)) = n
        /\ HasClose(Bytes(g, from, from + n - 1)) => g.op = "Close"
        /\ from > 1 => ~HasStart(Bytes(g, from, from + n - 1))
        /\ Clean(Bytes(g, from, from + n - 1))
    BY BytesOfFrame
  <2>. HIDE DEF frame
  <2>. QED
    BY <1>2, <2>1, <2>3
<1>. DEFINE t == [s EXCEPT !.sent = Append(s.sent, frame), !.writes = s.writes \o <<first, second>>,
                           !.writeSize = s.writeSize + frame.off + f.len]
<1>5. SendFragment(s, e, f) = t
  BY <1>3, <1>4 DEF SendFragment
<1>6. Append(s.sent, frame) \in Seq(Frame)
  <2>. HIDE DEF frame
  <2>. QED
    BY <1>1, <1>2, AppendProperties
<1>7. /\ s.writes \o <<first, second>> \in Seq(Seq(Byte))
      /\ FlattenSeq(s.writes \o <<first, second>>) = (FlattenSeq(s.writes) \o first) \o second
  <2>1. PICK T : T = Seq(Byte)
    OBVIOUS
  <2>2. PICK w \in Seq(T), a \in T, b \in T : w = s.writes /\ a = first /\ b = second
    BY <1>1, <2>1
  <2>3. Append(w, a) \in Seq(T) /\ Append(Append(w, a), b) \in Seq(T)
    BY <2>2, AppendProperties
  <2>4. w \o <<a, b>> = Append(Append(w, a), b)
    BY <2>2
  <2>5. PICK v \in Seq(T) : v = Append(w, a)
    BY <2>3
  <2>6. FlattenSeq(Append(v, b)) = FlattenSeq(v) \o b
    BY <2>1, <2>2, FlattenAppend
  <2>7. FlattenSeq(Append(w, a)) = FlattenSeq(w) \o a
    BY <2>1, <2>2, FlattenAppend
  <2>. QED
    BY <2>1, <2>2, <2>3, <2>4, <2>5, <2>6, <2>7
<1>. HIDE DEF frame
<1>8. s.writeSize + frame.off + f.len \in Int
  BY <1>1, <1>2 DEF Message
<1>9. t \in End
  BY <1>6, <1>7, <1>8 DEF End
<1>10. /\ t.state = s.state /\ t.recieveEnd = s.recieveEnd /\ t.life = s.life
       /\ t.failed = s.failed /\ t.remain = s.remain
       /\ t.writes = s.writes \o <<first, second>>
       /\ t.writeSize = s.writeSize + frame.off + f.len
  BY DEF End
<1>. HIDE DEF t
<1>11. /\ Unwritten(t) = (Unwritten(s) \o first) \o second
       /\ t.writeSize = s.writeSize + Len(first) + Len(second)
  BY <1>3, <1>4, <1>7, <1>10 DEF Unwritten
<1>. QED
  BY <1>3, <1>4, <1>5, <1>9, <1>10, <1>11 DEF Added

\* Nothing that s has sent and its peer has not taken belongs to a close frame.
Free(s, ahead) ==
    /\ Clean(ahead) /\ Clean(Unwritten(s))
    /\ ~HasClose(ahead) /\ ~HasClose(Unwritten(s))

LEMMA SendFragmentKeeps ==
    ASSUME NEW s \in End, NEW e \in Ends, NEW f \in Message, NEW ahead
    PROVE  /\ Counted(s) => Counted(SendFragment(s, e, f))
           /\ Free(s, ahead) => /\ Clean(Unwritten(SendFragment(s, e, f)))
                                /\ f.op # "Close" => Free(SendFragment(s, e, f), ahead)
<1>. DEFINE t == SendFragment(s, e, f)
<1>. HIDE DEF t
<1>1. PICK first \in Seq(Byte), second \in Seq(Byte) :
          /\ t.writeSize = s.writeSize + Len(first) + Len(second)
          /\ Unwritten(t) = (Unwritten(s) \o first) \o second
          /\ HasClose(first) \/ HasClose(second) => f.op = "Close"
          /\ ~HasStart(second) /\ Clean(first) /\ Clean(second)
  <2>1. Added(s, t, f)
    BY SendFragmentFields DEF t
  <2>. QED
    BY <2>1 DEF Added
<1>2. PICK u \in Seq(Byte) : u = Unwritten(s)
  BY UnwrittenType
<1>3. PICK v \in Seq(Byte) : /\ v = u \o first
                             /\ HasClose(v) <=> HasClose(u) \/ HasClose(first)
                             /\ Clean(v) <=> /\ Clean(u) /\ Clean(first)
                                             /\ ~(HasClose(u) /\ HasStart(first))
  BY MarksOfParts
<1>4. PICK w \in Seq(Byte) : /\ w = v \o second
                             /\ HasClose(w) <=> HasClose(v) \/ HasClose(second)
                             /\ Clean(w) <=> /\ Clean(v) /\ Clean(second)
                                             /\ ~(HasClose(v) /\ HasStart(second))
  BY MarksOfParts
<1>5. Unwritten(t) = w
  BY <1>1, <1>2, <1>3, <1>4
<1>6. Len(w) = Len(u) + Len(first) + Len(second)
  <2>1. Len(v) = Len(u) + Len(first)
    BY <1>3, ConcatProperties
  <2>2. Len(w) = Len(v) + Len(second)
    BY <1>4, ConcatProperties
  <2>. QED
    BY <2>1, <2>2
<1>. QED
  BY <1>1, <1>2, <1>3, <1>4, <1>5, <1>6 DEF Counted, Free, t

LEMMA SendType ==
    ASSUME NEW s \in End, NEW e \in Ends, NEW f \in Message
    PROVE  Send(s, e, f) \in End
<1>1. SendFragment(s, e, f) \in End /\ [s EXCEPT !.life = "aborted"] \in End
  BY SendFragmentFields, EndChanges
<1>. QED
  BY <1>1 DEF Send, Abort

LEMMA SendEndType ==
    ASSUME NEW s \in End, NEW e \in Ends
    PROVE  SendEnd(s, e) \in End
<1>1. PICK t \in End : t = [s EXCEPT !.state = IF s.state = "OPEN" THEN "CLOSING" ELSE "CLOSED"]
  BY EndChanges
<1>2. SendFragment(t, e, CloseFrame) \in End /\ [s EXCEPT !.life = "aborted"] \in End
  BY SendFragmentFields, EndChanges, OwnMessages
<1>. QED
  BY <1>1, <1>2 DEF SendEnd, Abort

LEMMA DeleteType ==
    ASSUME NEW s \in End
    PROVE  Delete(s) \in End
BY EndChanges DEF Delete

LEMMA FailType ==
    ASSUME NEW s \in End, NEW e
    PROVE  Fail(s, e) \in End
<1>1. PICK t \in End : t = [s EXCEPT !.failed = s.failed + 1]
  BY EndChanges
<1>. QED
  BY <1>1, DeleteType DEF Fail

\* What an end is told is a record of its history.
Told(s, event, frames) ==
    [s EXCEPT !.heard = Append(@, [event |-> event,
                                   ids |-> [k \in DOMAIN frames |-> frames[k].id]])]

LEMMA ToldFields ==
    ASSUME NEW s \in End, NEW event \in Events, NEW frames \in Seq(Frame)
    PROVE  /\ Told(s, event, frames) \in End
           /\ Told(s, event, frames).state = s.state
           /\ Told(s, event, frames).recieveEnd = s.recieveEnd
           /\ Told(s, event, frames).life = s.life
           /\ Told(s, event, frames).failed = s.failed
           /\ Told(s, event, frames).remain = s.remain
           /\ Told(s, event, frames).writes = s.writes
           /\ Told(s, event, frames).writeSize = s.writeSize
<1>. DEFINE ids == [k \in DOMAIN frames |-> frames[k].id]
            Entry == [event: Events, ids: Seq(Nat)]
<1>1. ids \in Seq(Nat)
  <2>1. PICK n \in Nat : DOMAIN frames = 1 .. n /\ \A k \in 1 .. n : frames[k] \in Frame
    BY LenProperties, ElementOfSeq
  <2>2. ids \in [1 .. n -> Nat]
    BY <2>1 DEF Frame
  <2>. HIDE DEF ids
  <2>. QED
    BY <2>2, SeqDef
<1>. HIDE DEF ids
<1>2. [event |-> event, ids |-> ids] \in Entry /\ s.heard \in Seq(Entry)
  BY <1>1 DEF End, Events
<1>3. PICK h \in Seq(Entry) : h = Append(s.heard, [event |-> event, ids |-> ids])
  <2>. HIDE DEF Entry
  <2>. QED
    BY <1>2, AppendProperties
<1>4. Told(s, event, frames) = [s EXCEPT !.heard = h]
  BY <1>3 DEF Told, ids
<1>5. [s EXCEPT !.heard = h] \in End
  BY DEF End, Events
<1>. QED
  BY <1>4, <1>5 DEF End

LEMMA HearIs ==
    ASSUME NEW s, NEW e, NEW event, NEW frames, NEW told, told = Told(s, event, frames)
    PROVE  /\ owner[e] = "manager" /\ event = "message"
                  => Hear(s, e, event, frames) = Send(told, e, Answer)
           /\ owner[e] = "manager" /\ event = "end"
                  => Hear(s, e, event, frames) = Delete(SendEnd(told, e))
           /\ owner[e] = "test" /\ event = "end" => Hear(s, e, event, frames) = Delete(told)
           /\ <<owner[e], event>> \notin {<<"manager", "message">>, <<"manager", "end">>, <<"test", "end">>}
                  => Hear(s, e, event, frames) = told
BY DEF Hear, Told

LEMMA HearType ==
    ASSUME NEW s \in End, NEW e \in Ends, NEW event \in Events, NEW frames \in Seq(Frame)
    PROVE  Hear(s, e, event, frames) \in End
<1>1. PICK told \in End : told = Told(s, event, frames)
  BY ToldFields
<1>2. Send(told, e, Answer) \in End /\ SendEnd(told, e) \in End /\ Delete(told) \in End
  BY SendType, SendEndType, DeleteType, OwnMessages
<1>3. Delete(SendEnd(told, e)) \in End
  BY <1>2, DeleteType
<1>. QED
  BY <1>1, <1>2, <1>3, HearIs

\* Whatever an end takes, it stays an end.
LEMMA TakeType ==
    ASSUME NEW s \in End, NEW e \in Ends, NEW frame \in Frame
    PROVE  Take(s, e, frame) \in End
<1>1. /\ s.fragments \in Seq(Frame) /\ <<frame>> \in Seq(Frame)
      /\ \A f \in Seq(Frame) : Append(f, frame) \in Seq(Frame)
  BY AppendProperties DEF End
<1>2. PICK whole \in Seq(Frame) : whole = Append(s.fragments, frame)
  BY <1>1
<1>3. Fail(s, e) \in End
  BY FailType
<1>4. \A event \in Events, frames \in Seq(Frame) : Hear(s, e, event, frames) \in End
  BY HearType
<1>5. "message" \in Events /\ "textMessage" \in Events /\ "ping" \in Events /\ "end" \in Events
  BY DEF Events
<1>6. TakeData(s, e, frame) \in End
  <2>1. [s EXCEPT !.fragments = whole, !.saveBinary = (frame.op = "Binary")] \in End
    BY DEF End
  <2>2. Hear(s, e, IF frame.op = "Binary" THEN "message" ELSE "textMessage", <<frame>>) \in End
    BY <1>1, <1>4, <1>5
  <2>. QED
    BY <1>2, <1>3, <2>1, <2>2 DEF TakeData
<1>7. TakeClose(s, e, frame) \in End
  <2>1. PICK t \in End : t = [s EXCEPT !.recieveEnd = TRUE, !.state = "CLOSING"]
    BY EndChanges
  <2>2. Hear(t, e, "end", <<frame>>) \in End
    BY <1>1, <1>5, HearType
  <2>. QED
    BY <1>3, <2>1, <2>2 DEF TakeClose
<1>8. TakeContinue(s, e, frame) \in End
  <2>1. PICK t \in End : t = Hear(s, e, IF s.saveBinary THEN "message" ELSE "textMessage", whole)
    BY <1>4, <1>5
  <2>2. [t EXCEPT !.fragments = <<>>] \in End /\ [s EXCEPT !.fragments = whole] \in End
    <3>1. [t EXCEPT !.fragments = <<>>] \in End
      BY EndChanges
    <3>2. [s EXCEPT !.fragments = whole] \in End
      BY DEF End
    <3>. QED
      BY <3>1, <3>2
  <2>. QED
    BY <1>2, <1>3, <2>1, <2>2 DEF TakeContinue
<1>9. frame.op \in {"Text", "Binary", "Continue", "Ping", "Close"}
  BY DEF Frame
<1>. QED
  BY <1>1, <1>4, <1>5, <1>6, <1>7, <1>8, <1>9 DEF Take

-----------------------------------------------------------------------------
(* An end within a callback                                                    *)

InCallback(s, e, ahead) ==
    /\ s \in End /\ s.life \in {"alive", "deleted"}
    /\ Counted(s) /\ Owned(s, e) /\ Sound(s, ahead)

\* t is s after an operation.
FollowsOn(s, t) ==
    /\ t.failed >= s.failed /\ t.remain \in {s.remain, <<>>}
    /\ t.life = "alive" => t.remain = s.remain

\* Equal in what the invariant is about.
Alike(s, t) ==
    /\ t.state = s.state /\ t.recieveEnd = s.recieveEnd /\ t.life = s.life
    /\ t.writes = s.writes /\ t.writeSize = s.writeSize

LEMMA AlikeKeeps ==
    ASSUME NEW s, NEW t \in End, NEW e, NEW ahead, Alike(s, t)
    PROVE  /\ InCallback(s, e, ahead) => InCallback(t, e, ahead)
           /\ Counted(s) => Counted(t)
           /\ Sound(s, ahead) => Sound(t, ahead)
           /\ Free(s, ahead) => Free(t, ahead)
<1>1. Unwritten(s) = Unwritten(t)
  BY DEF Alike, Unwritten
<1>. QED
  BY <1>1 DEF Alike, InCallback, Counted, Owned, Sound, Free

LEMMA DeleteKeeps ==
    ASSUME NEW s \in End, NEW e, NEW ahead, s.life # "aborted", Counted(s), Sound(s, ahead)
    PROVE  /\ InCallback(Delete(s), e, ahead)
           /\ Delete(s).life = "deleted" /\ Delete(s).failed = s.failed /\ Delete(s).remain = <<>>
           /\ Delete(s).writes = s.writes
<1>. DEFINE t == [s EXCEPT !.life = "deleted", !.remain = <<>>, !.fragments = <<>>]
<1>1. Delete(s) = t
  BY DEF Delete
<1>2. t \in End
  BY EndChanges
<1>3. /\ t.life = "deleted" /\ t.failed = s.failed /\ t.remain = <<>>
      /\ t.state = s.state /\ t.writes = s.writes /\ t.writeSize = s.writeSize
  BY DEF End
<1>. HIDE DEF t
<1>4. Unwritten(s) = Unwritten(t)
  BY <1>3 DEF Unwritten
<1>. QED
  BY <1>1, <1>2, <1>3, <1>4 DEF InCallback, Counted, Owned, Sound

LEMMA FailKeeps ==
    ASSUME NEW s \in End, NEW e, NEW ahead, s.life = "alive", InCallback(s, e, ahead)
    PROVE  /\ InCallback(Fail(s, e), e, ahead) /\ FollowsOn(s, Fail(s, e))
           /\ Fail(s, e).failed > s.failed
           /\ Fail(s, e).writes = s.writes
<1>1. PICK t \in End : t = [s EXCEPT !.failed = s.failed + 1]
  BY EndChanges
<1>2. Alike(s, t) /\ t.failed = s.failed + 1 /\ t.remain = s.remain
  BY <1>1 DEF End, Alike
<1>3. InCallback(t, e, ahead)
  BY <1>2, AlikeKeeps
<1>4. s.failed \in Nat /\ s.failed + 1 > s.failed /\ t.failed >= s.failed
  <2>1. s.failed \in Nat
    BY DEF End
  <2>. QED
    BY <1>2, <2>1
<1>5. CASE owner[e] = "manager"
  <2>1. Fail(s, e) = Delete(t)
    BY <1>1, <1>5 DEF Fail
  <2>2. /\ InCallback(Delete(t), e, ahead)
        /\ Delete(t).life = "deleted"
        /\ Delete(t).failed = t.failed /\ Delete(t).remain = <<>> /\ Delete(t).writes = t.writes
    BY <1>3, DeleteKeeps DEF InCallback
  <2>. QED
    BY <1>2, <1>4, <2>1, <2>2 DEF FollowsOn, Alike
<1>6. CASE owner[e] # "manager"
  <2>1. Fail(s, e) = t
    BY <1>1, <1>6 DEF Fail
  <2>. QED
    BY <1>2, <1>3, <1>4, <2>1 DEF FollowsOn, Alike
<1>. QED
  BY <1>5, <1>6

\* A message or a ping: the manager, which is open, may answer.
LEMMA HearKeeps ==
    ASSUME NEW s \in End, NEW e \in Ends, NEW ahead, s.life = "alive", InCallback(s, e, ahead),
           NEW event \in Events, event # "end", NEW frames \in Seq(Frame)
    PROVE  /\ InCallback(Hear(s, e, event, frames), e, ahead)
           /\ Hear(s, e, event, frames).life = "alive"
           /\ Hear(s, e, event, frames).failed = s.failed
           /\ Hear(s, e, event, frames).remain = s.remain
<1>1. PICK told \in End : /\ told = Told(s, event, frames)
                          /\ Alike(s, told) /\ told.failed = s.failed /\ told.remain = s.remain
  BY ToldFields DEF Alike
<1>2. InCallback(told, e, ahead) /\ told.life = "alive"
  BY <1>1, AlikeKeeps DEF Alike
<1>3. CASE owner[e] = "manager" /\ event = "message"
  <2>1. told.state = "OPEN" /\ ~told.recieveEnd
    BY <1>2, <1>3 DEF InCallback, Owned
  <2>2. Hear(s, e, event, frames) = SendFragment(told, e, Answer)
    BY <1>1, <1>3, <2>1, HearIs DEF Send, MaySend
  <2>3. Free(told, ahead) /\ Counted(told)
    BY <1>2, <2>1 DEF InCallback, Sound, Free
  <2>. DEFINE t == SendFragment(told, e, Answer)
  <2>. HIDE DEF t
  <2>4. Free(t, ahead) /\ Counted(t)
    BY <2>3, SendFragmentKeeps, OwnMessages DEF t
  <2>5. /\ t \in End /\ t.state = told.state /\ t.recieveEnd = told.recieveEnd
        /\ t.life = told.life /\ t.failed = told.failed /\ t.remain = told.remain
    BY SendFragmentFields, OwnMessages DEF t
  <2>6. InCallback(t, e, ahead)
    BY <1>2, <2>1, <2>4, <2>5 DEF InCallback, Owned, Sound, Free
  <2>. QED
    BY <1>1, <1>2, <2>2, <2>5, <2>6 DEF t
<1>4. CASE ~(owner[e] = "manager" /\ event = "message")
  <2>1. Hear(s, e, event, frames) = told
    BY <1>1, <1>4, HearIs
  <2>. QED
    BY <1>1, <1>2, <2>1
<1>. QED
  BY <1>3, <1>4

\* A close frame has come: the owner deletes the end, the manager after its own close frame.
Closing(s, e, ahead) ==
    /\ s.life = "alive" /\ s.state = "CLOSING" /\ s.recieveEnd = TRUE
    /\ Counted(s) /\ Sound(s, ahead)
    /\ owner[e] \in {"manager", "test"}
    /\ owner[e] = "manager" => Free(s, ahead)

LEMMA HearEndKeeps ==
    ASSUME NEW s \in End, NEW e \in Ends, NEW ahead, Closing(s, e, ahead), NEW frames \in Seq(Frame)
    PROVE  /\ InCallback(Hear(s, e, "end", frames), e, ahead)
           /\ Hear(s, e, "end", frames).life = "deleted"
           /\ Hear(s, e, "end", frames).failed = s.failed
           /\ Hear(s, e, "end", frames).remain = <<>>
<1>1. PICK told \in End : /\ told = Told(s, "end", frames)
                          /\ Alike(s, told) /\ told.failed = s.failed /\ told.remain = s.remain
  BY ToldFields DEF Alike, Events
<1>2. /\ Counted(told) /\ Sound(told, ahead)
      /\ told.life = "alive" /\ told.state = "CLOSING" /\ told.recieveEnd
  BY <1>1, AlikeKeeps DEF Alike, Closing
<1>3. CASE owner[e] = "test"
  <2>1. Hear(s, e, "end", frames) = Delete(told)
    BY <1>1, <1>3, HearIs
  <2>. QED
    BY <1>1, <1>2, <2>1, DeleteKeeps
<1>4. CASE owner[e] = "manager"
  <2>1. PICK u \in End : u = [told EXCEPT !.state = "CLOSED"]
    BY EndChanges
  <2>2. /\ u.state = "CLOSED" /\ u.life = "alive" /\ u.failed = s.failed
        /\ u.writes = told.writes /\ u.writeSize = told.writeSize
    BY <1>1, <1>2, <2>1 DEF End
  <2>3. Free(u, ahead) /\ Counted(u)
    <3>1. Free(told, ahead)
      BY <1>1, <1>4, AlikeKeeps DEF Closing
    <3>2. Unwritten(u) = Unwritten(told)
      BY <2>2 DEF Unwritten
    <3>. QED
      BY <1>2, <2>2, <3>1, <3>2 DEF Free, Counted
  <2>. DEFINE t == SendFragment(u, e, CloseFrame)
  <2>4. SendEnd(told, e) = t
    BY <1>2, <2>1 DEF SendEnd
  <2>. HIDE DEF t
  <2>5. Clean(Unwritten(t)) /\ Counted(t)
    BY <2>3, SendFragmentKeeps, OwnMessages DEF t
  <2>6. t \in End /\ t.state = "CLOSED" /\ t.life = "alive" /\ t.failed = s.failed
    BY <2>2, SendFragmentFields, OwnMessages DEF t
  <2>7. Sound(t, ahead)
    BY <2>3, <2>5, <2>6 DEF Sound, Free
  <2>8. Hear(s, e, "end", frames) = Delete(t)
    BY <1>1, <1>4, <2>4, HearIs
  <2>9. /\ InCallback(Delete(t), e, ahead)
        /\ Delete(t).life = "deleted" /\ Delete(t).failed = t.failed /\ Delete(t).remain = <<>>
    BY <2>5, <2>6, <2>7, DeleteKeeps
  <2>. QED
    BY <2>6, <2>8, <2>9
<1>. QED
  BY <1>3, <1>4 DEF Closing

\* Only a close frame or an error deletes an end that takes a frame.
LEMMA TakeKeeps ==
    ASSUME NEW s \in End, NEW e \in Ends, NEW ahead, owner[e] \in {"manager", "test"},
           s.life = "alive", InCallback(s, e, ahead), NEW frame \in Frame
    PROVE  /\ InCallback(Take(s, e, frame), e, ahead) /\ FollowsOn(s, Take(s, e, frame))
           /\ Take(s, e, frame).life = "deleted"
                  => frame.op = "Close" \/ Take(s, e, frame).failed > s.failed
<1>. DEFINE Good(t) == /\ InCallback(t, e, ahead) /\ FollowsOn(s, t)
                       /\ t.life = "deleted" => frame.op = "Close" \/ t.failed > s.failed
<1>1. <<frame>> \in Seq(Frame) /\ Append(s.fragments, frame) \in Seq(Frame) /\ s.failed \in Nat
  BY AppendProperties DEF End
<1>2. PICK whole \in Seq(Frame) : whole = Append(s.fragments, frame)
  BY <1>1
<1>3. Good(Fail(s, e))
  BY FailKeeps
<1>4. ASSUME NEW event \in Events, event # "end", NEW frames \in Seq(Frame)
      PROVE  Good(Hear(s, e, event, frames)) /\ Hear(s, e, event, frames).life = "alive"
  <2>1. PICK t : t = Hear(s, e, event, frames)
    OBVIOUS
  <2>2. InCallback(t, e, ahead) /\ t.life = "alive" /\ t.failed = s.failed /\ t.remain = s.remain
    BY <1>4, <2>1, HearKeeps
  <2>. QED
    BY <1>1, <2>1, <2>2 DEF FollowsOn
<1>5. "message" \in Events /\ "textMessage" \in Events /\ "ping" \in Events
  BY DEF Events
<1>6. Good(s)
  BY <1>1 DEF FollowsOn
<1>7. ASSUME NEW t \in End, NEW fragments \in Seq(Frame), NEW binary \in BOOLEAN, Good(t)
      PROVE  /\ Good([t EXCEPT !.fragments = fragments])
             /\ Good([t EXCEPT !.fragments = fragments, !.saveBinary = binary])
  <2>1. ASSUME NEW v, \/ v = [t EXCEPT !.fragments = fragments]
                      \/ v = [t EXCEPT !.fragments = fragments, !.saveBinary = binary]
        PROVE  Good(v)
    <3>1. v \in End /\ Alike(t, v) /\ v.failed = t.failed /\ v.remain = t.remain
      BY <2>1, ZenonT(30) DEF End, Alike
    <3>2. InCallback(v, e, ahead)
      BY <1>7, <3>1, AlikeKeeps
    <3>. QED
      BY <1>7, <3>1, <3>2 DEF FollowsOn, Alike
  <2>. QED
    BY <2>1
<1>. HIDE DEF Good
<1>8. Good(TakeData(s, e, frame))
  <2>1. Good([s EXCEPT !.fragments = whole, !.saveBinary = (frame.op = "Binary")])
    <3>1. PICK binary \in BOOLEAN : binary = (frame.op = "Binary")
      OBVIOUS
    <3>. QED
      BY <1>6, <1>7, <3>1
  <2>2. Good(Hear(s, e, IF frame.op = "Binary" THEN "message" ELSE "textMessage", <<frame>>))
    BY <1>1, <1>4, <1>5
  <2>. QED
    BY <1>2, <1>3, <1>6, <2>1, <2>2 DEF TakeData
<1>9. Good(TakeContinue(s, e, frame))
  <2>1. PICK t : t = Hear(s, e, IF s.saveBinary THEN "message" ELSE "textMessage", whole)
    OBVIOUS
  <2>2. t \in End /\ Good(t)
    BY <1>4, <1>5, <2>1, HearType
  <2>3. Good([t EXCEPT !.fragments = <<>>]) /\ Good([s EXCEPT !.fragments = whole])
    <3>1. <<>> \in Seq(Frame)
      BY EmptySeq
    <3>. QED
      BY <1>6, <1>7, <2>2, <3>1
  <2>. QED
    BY <1>2, <1>3, <1>6, <2>1, <2>3 DEF TakeContinue
<1>10. ASSUME frame.op = "Close" PROVE Good(TakeClose(s, e, frame))
  <2>1. CASE s.recieveEnd \/ frame.len < 2
    BY <1>3, <2>1 DEF TakeClose
  <2>2. CASE ~(s.recieveEnd \/ frame.len < 2)
    <3>1. PICK t \in End : t = [s EXCEPT !.recieveEnd = TRUE, !.state = "CLOSING"]
      BY EndChanges
    <3>2. /\ t.life = "alive" /\ t.state = "CLOSING" /\ t.recieveEnd = TRUE /\ t.failed = s.failed
          /\ t.writes = s.writes /\ t.writeSize = s.writeSize
      BY <3>1 DEF End
    <3>3. Unwritten(t) = Unwritten(s)
      BY <3>2 DEF Unwritten
    <3>4. Closing(t, e, ahead)
      BY <3>2, <3>3 DEF InCallback, Counted, Owned, Sound, Free, Closing
    <3>5. PICK frames \in Seq(Frame), u \in {Hear(t, e, "end", <<frame>>)} :
              frames = <<frame>> /\ u = Hear(t, e, "end", frames)
      BY <1>1
    <3>6. InCallback(u, e, ahead) /\ u.life = "deleted" /\ u.failed = t.failed /\ u.remain = <<>>
      BY <3>4, <3>5, HearEndKeeps
    <3>7. Good(u)
      BY <1>1, <1>10, <3>2, <3>6 DEF Good, FollowsOn
    <3>. QED
      BY <2>2, <3>1, <3>5, <3>7 DEF TakeClose
  <2>. QED
    BY <2>1, <2>2
<1>11. frame.op \in {"Text", "Binary", "Continue", "Ping", "Close"}
  BY DEF Frame
<1>12. Good(Take(s, e, frame))
  BY <1>1, <1>4, <1>5, <1>8, <1>9, <1>10, <1>11 DEF Take
<1>. QED
  BY <1>12 DEF Good

-----------------------------------------------------------------------------
(* Taking frames out of a read                                                 *)

LEMMA FirstByte ==
    ASSUME NEW remain \in Seq(Byte), NEW income \in Seq(Byte), remain \o income # <<>>
    PROVE  /\ Head(remain \o income) \in Byte /\ Head(remain \o income) = (remain \o income)[1]
           /\ Len(remain) > 0 => (remain \o income)[1] = remain[1]
           /\ Len(remain \o income) \in Nat \ {0}
           /\ Len(remain \o income) = Len(remain) + Len(income)
<1>1. PICK all \in Seq(Byte) : /\ all = remain \o income /\ Len(all) = Len(remain) + Len(income)
                               /\ Len(remain) > 0 => all[1] = remain[1]
  <2>1. /\ remain \o income \in Seq(Byte) /\ Len(remain \o income) = Len(remain) + Len(income)
        /\ \A i \in 1 .. Len(remain) + Len(income) :
              (remain \o income)[i] = IF i <= Len(remain) THEN remain[i] ELSE income[i - Len(remain)]
        /\ Len(remain) \in Nat /\ Len(income) \in Nat
    BY ConcatProperties, LenProperties
  <2>2. Len(remain) > 0 => 1 \in 1 .. Len(remain) + Len(income) /\ 1 <= Len(remain)
    BY <2>1
  <2>. QED
    BY <2>1, <2>2
<1>2. Head(all) \in Byte /\ Head(all) = all[1] /\ Len(all) \in Nat \ {0}
  BY <1>1, HeadTailProperties, EmptySeq
<1>. QED
  BY <1>1, <1>2

\* What the rest of a read has of the bytes that were read.
LEMMA RestKeeps ==
    ASSUME NEW remain \in Seq(Byte), NEW income \in Seq(Byte), Whole(remain, income)
    PROVE  /\ remain \o income # <<>> /\ Head(remain \o income) \in Byte
           /\ Rest(remain, income) \in Seq(Byte)
           /\ Len(Rest(remain, income)) < Len(remain) + Len(income)
           /\ Within(Rest(remain, income), remain \o income)
           /\ Head(remain \o income).at = 1 => HasStart(remain \o income)
           /\ Head(remain \o income).frame.op = "Close" /\ Clean(remain \o income)
                  => ~HasStart(Rest(remain, income))
<1>1. PICK all \in Seq(Byte), r \in Nat, n \in Nat :
          /\ all = remain \o income /\ r = Len(remain) /\ n = Len(income)
          /\ Len(all) = r + n /\ r + n >= 2 /\ all # <<>>
  <2>1. remain \o income \in Seq(Byte) /\ Len(remain \o income) = Len(remain) + Len(income)
        /\ Len(remain) \in Nat /\ Len(income) \in Nat
    BY ConcatProperties, LenProperties
  <2>2. Len(remain \o income) >= 2
    BY DEF Whole
  <2>3. remain \o income # <<>>
    BY <2>1, <2>2, EmptySeq
  <2>. QED
    BY <2>1, <2>2, <2>3
<1>2. /\ Head(all) \in Byte /\ Head(all) = all[1]
      /\ r > 0 => all[1] = remain[1]
  BY <1>1, FirstByte
<1>3. PICK frame \in Frame, size \in Nat \ {0} :
          frame = Head(all).frame /\ size = frame.off + frame.len /\ frame.off \in Nat \ {0}
  <2>1. Head(all).frame \in Frame
    BY <1>2 DEF Byte
  <2>2. PICK frame \in Frame : frame = Head(all).frame
    BY <2>1
  <2>3. frame.off \in {2, 3} /\ frame.len \in Nat
    BY DEF Frame
  <2>4. frame.off + frame.len \in Nat \ {0} /\ frame.off \in Nat \ {0}
    BY <2>3
  <2>. QED
    BY <2>2, <2>4
<1>4. Head(all).at = 1 => HasStart(all)
  BY <1>1, <1>2 DEF HasStart
<1>5. CASE frame.off < r
  <2>1. PICK y \in Seq(Byte) : /\ y = SubSeq(remain, size + 1, Len(remain))
                               /\ Within(y, remain) /\ Len(y) < r
                               /\ remain[1].frame.op = "Close" /\ Clean(remain) => ~HasStart(y)
    <3>1. /\ SubSeq(remain, size + 1, Len(remain)) \in Seq(Byte)
          /\ Within(SubSeq(remain, size + 1, Len(remain)), remain)
          /\ Len(SubSeq(remain, size + 1, Len(remain)))
                 = IF size < Len(remain) THEN Len(remain) - size ELSE 0
          /\ size > 0 /\ remain # <<>> /\ remain[1].frame.op = "Close" /\ Clean(remain)
                 => ~HasStart(SubSeq(remain, size + 1, Len(remain)))
      BY MarksBehind
    <3>2. PICK y \in Seq(Byte) : y = SubSeq(remain, size + 1, Len(remain))
      BY <3>1
    <3>3. remain # <<>> /\ size > 0 /\ Len(remain) = r /\ r > 0
      BY <1>1, <1>3, <1>5, EmptySeq
    <3>4. Len(y) = IF size < r THEN r - size ELSE 0
      BY <3>1, <3>2, <3>3
    <3>5. Len(y) < r
      BY <1>3, <3>3, <3>4
    <3>6. Within(y, remain) /\ (remain[1].frame.op = "Close" /\ Clean(remain) => ~HasStart(y))
      BY <3>1, <3>2, <3>3
    <3>. QED
      BY <3>2, <3>5, <3>6
  <2>2. Rest(remain, income) = y \o income
    BY <1>1, <1>3, <1>5, <2>1 DEF Rest
  <2>3. Within(y \o income, remain \o income)
    BY <2>1, WithinParts
  <2>4. y \o income \in Seq(Byte) /\ Len(y \o income) = Len(y) + Len(income) /\ Len(y) \in Nat
    BY ConcatProperties, LenProperties
  <2>5. Len(y \o income) < Len(remain) + Len(income)
    BY <1>1, <2>1, <2>4
  <2>6. ASSUME all[1].frame.op = "Close", Clean(all) PROVE ~HasStart(y \o income)
    <3>1. remain[1].frame.op = "Close" /\ HasClose(remain)
      <4>1. r > 0 /\ all[1] = remain[1] /\ 1 \in 1 .. Len(remain)
        BY <1>1, <1>2, <1>3, <1>5
      <4>. QED
        BY <2>6, <4>1 DEF HasClose
    <3>2. Clean(remain) /\ ~HasStart(income)
      BY <1>1, <2>6, <3>1, MarksOfParts
    <3>3. ~HasStart(y)
      BY <2>1, <3>1, <3>2
    <3>. QED
      BY <3>2, <3>3, MarksOfParts
  <2>. QED
    BY <1>1, <1>2, <1>4, <2>2, <2>3, <2>4, <2>5, <2>6
<1>6. CASE ~(frame.off < r)
  <2>1. PICK y \in Seq(Byte) : /\ y = SubSeq(all, size + 1, Len(all))
                               /\ Within(y, all) /\ Len(y) < Len(all)
                               /\ all[1].frame.op = "Close" /\ Clean(all) => ~HasStart(y)
    <3>1. /\ SubSeq(all, size + 1, Len(all)) \in Seq(Byte)
          /\ Within(SubSeq(all, size + 1, Len(all)), all)
          /\ Len(SubSeq(all, size + 1, Len(all))) = IF size < Len(all) THEN Len(all) - size ELSE 0
          /\ size > 0 /\ all # <<>> /\ all[1].frame.op = "Close" /\ Clean(all)
                 => ~HasStart(SubSeq(all, size + 1, Len(all)))
      BY MarksBehind
    <3>2. PICK y \in Seq(Byte) : y = SubSeq(all, size + 1, Len(all))
      BY <3>1
    <3>3. all # <<>> /\ size > 0 /\ Len(all) \in Nat \ {0}
      BY <1>1, <1>3, EmptySeq, SMTT(30)
    <3>4. Len(y) = IF size < Len(all) THEN Len(all) - size ELSE 0
      BY <3>1, <3>2
    <3>5. Len(y) < Len(all)
      BY <1>3, <3>3, <3>4
    <3>6. Within(y, all) /\ (all[1].frame.op = "Close" /\ Clean(all) => ~HasStart(y))
      BY <3>1, <3>2, <3>3
    <3>. QED
      BY <3>2, <3>5, <3>6
  <2>2. Rest(remain, income) = y
    BY <1>1, <1>3, <1>6, <2>1 DEF Rest
  <2>. QED
    BY <1>1, <1>2, <1>4, <2>1, <2>2
<1>. QED
  BY <1>5, <1>6

\* A close frame is the last one, and nothing begins in the rest.
CloseIsLast(frames) ==
    \A i \in 1 .. Len(frames) : frames[i].op = "Close" => i = Len(frames)
NoCloseTaken(frames) == \A i \in 1 .. Len(frames) : frames[i].op # "Close"

LEMMA CloseIsLastAppend ==
    ASSUME NEW frames \in Seq(Frame), NEW frame \in Frame, NoCloseTaken(frames)
    PROVE  /\ CloseIsLast(Append(frames, frame))
           /\ frame.op # "Close" => NoCloseTaken(Append(frames, frame))
<1>1. PICK f \in Seq(Frame), n \in Nat :
          /\ f = Append(frames, frame) /\ n = Len(frames) /\ Len(f) = n + 1
          /\ \A i \in 1 .. n : f[i] = frames[i]
          /\ f[n + 1] = frame
  <2>1. /\ Append(frames, frame) \in Seq(Frame) /\ Len(Append(frames, frame)) = Len(frames) + 1
        /\ \A i \in 1 .. Len(frames) : Append(frames, frame)[i] = frames[i]
        /\ Append(frames, frame)[Len(frames) + 1] = frame
    BY AppendProperties
  <2>2. Len(frames) \in Nat
    BY LenProperties
  <2>. QED
    BY <2>1, <2>2
<1>2. \A i \in 1 .. n : f[i].op # "Close"
  BY <1>1 DEF NoCloseTaken
<1>3. \A i \in 1 .. n + 1 : i \in 1 .. n \/ i = n + 1
  OBVIOUS
<1>. QED
  BY <1>1, <1>2, <1>3 DEF CloseIsLast, NoCloseTaken

\* x has taken frames out of b.
TakenFrom(x, b) ==
    /\ x \in Extraction
    /\ Within(x.remain \o x.income, b)
    /\ CloseIsLast(x.frames)
    /\ NoCloseTaken(x.frames) \/ ~HasStart(x.remain \o x.income)

\* The loop of extractMultiFrameFromData: where it begins, the frame that comes first, and
\* what it goes on with.
ReadOf(remain, income) ==
    [frames |-> <<>>, remain |-> remain, income |-> income, garbled |-> FALSE]
FirstOf(x) == Head(x.remain \o x.income)
TurnOf(x) == [x EXCEPT !.frames = Append(@, FirstOf(x).frame),
                       !.remain = Rest(x.remain, x.income), !.income = <<>>]
GarbledOf(x) == [x EXCEPT !.remain = <<>>, !.income = <<>>, !.garbled = TRUE]

LEMMA TurnFields ==
    ASSUME NEW x \in Extraction
    PROVE  /\ x.remain \in Seq(Byte) /\ x.income \in Seq(Byte) /\ x.frames \in Seq(Frame)
           /\ GarbledOf(x) \in Extraction /\ GarbledOf(x).remain = <<>>
           /\ GarbledOf(x).income = <<>> /\ GarbledOf(x).frames = x.frames
           /\ Whole(x.remain, x.income) =>
                 /\ TurnOf(x) \in Extraction
                 /\ TurnOf(x).remain = Rest(x.remain, x.income) /\ TurnOf(x).income = <<>>
                 /\ TurnOf(x).frames = Append(x.frames, FirstOf(x).frame)
                 /\ TurnOf(x).garbled = x.garbled
                 /\ FirstOf(x).frame \in Frame
                 /\ Len(TurnOf(x).remain) + Len(TurnOf(x).income) < Len(x.remain) + Len(x.income)
<1>1. <<>> \in Seq(Byte) /\ <<>> \in Seq(Frame) /\ Len(<<>>) = 0
  BY EmptySeq
<1>2. /\ x.remain \in Seq(Byte) /\ x.income \in Seq(Byte) /\ x.frames \in Seq(Frame)
      /\ GarbledOf(x) \in Extraction /\ GarbledOf(x).remain = <<>>
      /\ GarbledOf(x).income = <<>> /\ GarbledOf(x).frames = x.frames
  BY <1>1 DEF Extraction, GarbledOf
<1>3. ASSUME Whole(x.remain, x.income)
      PROVE  /\ TurnOf(x) \in Extraction
             /\ TurnOf(x).remain = Rest(x.remain, x.income) /\ TurnOf(x).income = <<>>
             /\ TurnOf(x).frames = Append(x.frames, FirstOf(x).frame)
             /\ TurnOf(x).garbled = x.garbled
             /\ FirstOf(x).frame \in Frame
             /\ Len(TurnOf(x).remain) + Len(TurnOf(x).income) < Len(x.remain) + Len(x.income)
  <2>1. PICK rest \in Seq(Byte), first \in Byte :
            /\ rest = Rest(x.remain, x.income) /\ Len(rest) < Len(x.remain) + Len(x.income)
            /\ first = FirstOf(x)
    BY <1>2, <1>3, RestKeeps DEF FirstOf
  <2>2. first.frame \in Frame
    BY DEF Byte
  <2>3. PICK frames \in Seq(Frame) : frames = Append(x.frames, first.frame)
    BY <1>2, <2>2, AppendProperties
  <2>4. TurnOf(x) = [x EXCEPT !.frames = frames, !.remain = rest, !.income = <<>>]
    BY <2>1, <2>3 DEF TurnOf
  <2>5. /\ TurnOf(x) \in Extraction
        /\ TurnOf(x).remain = rest /\ TurnOf(x).income = <<>> /\ TurnOf(x).frames = frames
        /\ TurnOf(x).garbled = x.garbled
    BY <1>1, <2>4 DEF Extraction
  <2>6. Len(rest) + 0 < Len(x.remain) + Len(x.income)
    <3>1. PICK n \in Nat : n = Len(rest) /\ n + 0 = n
      BY LenProperties
    <3>2. n < Len(x.remain) + Len(x.income)
      BY <2>1, <3>1
    <3>. QED
      BY <3>1, <3>2, Zenon
  <2>. QED
    BY <1>1, <2>1, <2>2, <2>3, <2>5, <2>6
<1>. QED
  BY <1>2, <1>3

\* What holds of a read and is kept by each frame that is taken holds where the loop ends.
LEMMA ExtractInvariant ==
    ASSUME NEW remain, NEW income, NEW P \in SUBSET Extraction, ReadOf(remain, income) \in P,
           \A x \in P : Whole(x.remain, x.income) /\ FirstOf(x).at = 1 => TurnOf(x) \in P
    PROVE  \E x \in P :
              \/ ~Whole(x.remain, x.income) /\ ExtractMulti(remain, income) = x
              \/ /\ Whole(x.remain, x.income) /\ FirstOf(x).at # 1
                 /\ ExtractMulti(remain, income) = GarbledOf(x)
<1>. DEFINE Value(f, x) == IF ~Whole(x.remain, x.income) THEN x
                           ELSE IF FirstOf(x).at # 1 THEN GarbledOf(x) ELSE f[TurnOf(x)]
            Solves(f) == f = [x \in Extraction |-> Value(f, x)]
            Stop == {x \in Extraction : ~Whole(x.remain, x.income) \/ FirstOf(x).at # 1}
            out == [x \in Extraction |-> IF ~Whole(x.remain, x.income) THEN x ELSE GarbledOf(x)]
            next == [x \in Extraction |-> IF x \in Stop THEN x ELSE TurnOf(x)]
            measure == [x \in Extraction |-> Len(x.remain) + Len(x.income)]
            start == ReadOf(remain, income)
<1>1. Looping(Extraction, Extraction, measure, Stop, out, next)
  <2>1. measure \in [Extraction -> Nat]
    <3>1. ASSUME NEW x \in Extraction PROVE Len(x.remain) + Len(x.income) \in Nat
      <4>1. PICK u \in Seq(Byte), v \in Seq(Byte) : u = x.remain /\ v = x.income
        BY TurnFields
      <4>2. Len(u) \in Nat /\ Len(v) \in Nat
        BY LenProperties
      <4>3. Len(u) + Len(v) \in Nat
        BY <4>2
      <4>. QED
        BY <4>1, <4>3, Zenon
    <3>. QED
      BY <3>1
  <2>2. Stop \in SUBSET Extraction
    OBVIOUS
  <2>3. out \in [Extraction -> Extraction]
    BY TurnFields
  <2>4. \A x \in Extraction \ Stop : TurnOf(x) \in Extraction
    BY TurnFields
  <2>5. next \in [Extraction -> Extraction]
    <3>. HIDE DEF Stop
    <3>. QED
      BY <2>4
  <2>6. ASSUME NEW x \in Extraction \ Stop PROVE measure[next[x]] < measure[x]
    <3>1. Whole(x.remain, x.income) /\ TurnOf(x) \in Extraction /\ next[x] = TurnOf(x)
      BY <2>4
    <3>2. Len(TurnOf(x).remain) + Len(TurnOf(x).income) < Len(x.remain) + Len(x.income)
      BY TurnFields, <3>1
    <3>. HIDE DEF Stop, next
    <3>. QED
      BY <3>1, <3>2
  <2>. HIDE DEF measure, Stop, out, next
  <2>. QED
    BY <2>1, <2>2, <2>3, <2>5, <2>6 DEF Looping
<1>2. \E f : Solves(f)
  <2>1. PICK f \in [Extraction -> Extraction] : Looped(Extraction, Stop, out, next, f)
    <3>. HIDE DEF measure, Stop, out, next
    <3>. QED
      BY <1>1, LoopExists
  <2>2. ASSUME NEW x \in Extraction PROVE f[x] = Value(f, x)
    <3>1. f[x] = IF x \in Stop THEN out[x] ELSE f[next[x]]
      <4>. HIDE DEF Stop, out, next
      <4>. QED
        BY <2>1 DEF Looped
    <3>. QED
      BY <3>1
  <2>. HIDE DEF Value
  <2>. QED
    BY <2>2
<1>3. After = CHOOSE f : Solves(f)
  BY Zenon DEF After, FirstOf, TurnOf, GarbledOf
<1>4. Solves(After)
  <2>. HIDE DEF Solves
  <2>. QED
    BY <1>2, <1>3
<1>5. Looped(Extraction, Stop, out, next, After)
  <2>1. ASSUME NEW x \in Extraction PROVE After[x] = IF x \in Stop THEN out[x] ELSE After[next[x]]
    <3>1. After[x] = Value(After, x)
      <4>. HIDE DEF Value
      <4>. QED
        BY <1>4
    <3>. QED
      BY <3>1
  <2>. HIDE DEF Stop, out, next
  <2>. QED
    BY <2>1 DEF Looped
<1>6. PICK x \in P \cap Stop : After[start] = out[x]
  <2>1. P \subseteq Extraction /\ \A x \in P \ Stop : next[x] \in P
    OBVIOUS
  <2>2. start \in P
    OBVIOUS
  <2>. HIDE DEF measure, Stop, out, next, start
  <2>. QED
    BY <1>1, <1>5, <2>1, <2>2, LoopInvariant
<1>7. ExtractMulti(remain, income) = After[start]
  BY DEF ExtractMulti, ReadOf
<1>. HIDE DEF start
<1>. QED
  BY <1>6, <1>7

LEMMA ExtractKeeps ==
    ASSUME NEW remain \in Seq(Byte), NEW income \in Seq(Byte), Clean(remain \o income)
    PROVE  TakenFrom(ExtractMulti(remain, income), remain \o income)
<1>. DEFINE b == remain \o income
            P == {x \in Extraction : TakenFrom(x, b)}
<1>1. <<>> \in Seq(Byte) /\ <<>> \in Seq(Frame) /\ Len(<<>>) = 0
  BY EmptySeq
<1>2. ReadOf(remain, income) \in P
  <2>1. ReadOf(remain, income) \in Extraction
    BY <1>1 DEF Extraction, ReadOf
  <2>2. CloseIsLast(<<>>) /\ NoCloseTaken(<<>>)
    BY <1>1 DEF CloseIsLast, NoCloseTaken
  <2>3. Within(b, b)
    BY DEF Within
  <2>. QED
    BY <2>1, <2>2, <2>3 DEF TakenFrom, ReadOf
<1>3. ASSUME NEW x \in P, Whole(x.remain, x.income), FirstOf(x).at = 1 PROVE TurnOf(x) \in P
  <2>1. x \in Extraction /\ TakenFrom(x, b)
    OBVIOUS
  <2>2. PICK u \in Seq(Byte), v \in Seq(Byte) : u = x.remain /\ v = x.income
    BY <2>1, TurnFields
  <2>3. /\ Head(u \o v) \in Byte /\ Rest(u, v) \in Seq(Byte) /\ u \o v \in Seq(Byte)
        /\ Within(Rest(u, v), u \o v)
        /\ Head(u \o v).at = 1 => HasStart(u \o v)
        /\ Head(u \o v).frame.op = "Close" /\ Clean(u \o v) => ~HasStart(Rest(u, v))
    BY <1>3, <2>2, RestKeeps, ConcatProperties
  <2>4. PICK w \in Seq(Byte), first \in Byte, rest \in Seq(Byte) :
            w = u \o v /\ first = Head(w) /\ rest = Rest(u, v)
    BY <2>3
  <2>5. first = FirstOf(x) /\ w = x.remain \o x.income /\ rest = Rest(x.remain, x.income)
    BY <2>2, <2>4 DEF FirstOf
  <2>6. /\ Within(rest, w)
        /\ first.at = 1 => HasStart(w)
        /\ first.frame.op = "Close" /\ Clean(w) => ~HasStart(rest)
    BY <2>3, <2>4
  <2>7. Within(w, b) /\ NoCloseTaken(x.frames)
    <3>1. TakenFrom(x, b) /\ HasStart(w)
      BY <1>3, <2>1, <2>6, <2>5
    <3>. QED
      BY <2>5, <3>1 DEF TakenFrom
  <2>8. Within(rest, b) /\ Clean(w)
    BY <2>6, <2>7 DEF Within
  <2>9. PICK y : /\ y = TurnOf(x) /\ y \in Extraction /\ y.remain = rest /\ y.income = <<>>
                 /\ y.frames = Append(x.frames, first.frame) /\ first.frame \in Frame
    <3>1. PICK y : y = TurnOf(x)
      OBVIOUS
    <3>2. /\ y \in Extraction /\ y.remain = Rest(x.remain, x.income) /\ y.income = <<>>
          /\ y.frames = Append(x.frames, FirstOf(x).frame) /\ FirstOf(x).frame \in Frame
      BY <1>3, <2>1, <3>1, TurnFields
    <3>. QED
      BY <2>5, <3>1, <3>2
  <2>10. CloseIsLast(y.frames) /\ (first.frame.op # "Close" => NoCloseTaken(y.frames))
    <3>1. PICK f \in Seq(Frame), g \in Frame : f = x.frames /\ g = first.frame /\ NoCloseTaken(f)
      BY <2>1, <2>7, <2>9, TurnFields
    <3>2. CloseIsLast(Append(f, g)) /\ (g.op # "Close" => NoCloseTaken(Append(f, g)))
      BY <3>1, CloseIsLastAppend
    <3>. QED
      BY <2>9, <3>1, <3>2
  <2>11. y.remain \o y.income = rest
    BY <2>9, ConcatEmptySeq
  <2>12. TakenFrom(y, b)
    BY <2>6, <2>8, <2>9, <2>10, <2>11 DEF TakenFrom
  <2>. QED
    BY <2>9, <2>12
<1>4. ASSUME NEW x \in P PROVE TakenFrom(GarbledOf(x), b)
  <2>1. PICK y : /\ y = GarbledOf(x) /\ y \in Extraction /\ y.remain = <<>> /\ y.income = <<>>
                 /\ y.frames = x.frames
    BY TurnFields
  <2>2. y.remain \o y.income = <<>>
    BY <1>1, <2>1, ConcatEmptySeq
  <2>3. Within(<<>>, b) /\ ~HasStart(<<>>)
    BY MarksOfNothing DEF Within
  <2>4. CloseIsLast(y.frames)
    BY <2>1 DEF TakenFrom
  <2>. QED
    BY <2>1, <2>2, <2>3, <2>4 DEF TakenFrom
<1>5. PICK x \in P : ExtractMulti(remain, income) \in {x, GarbledOf(x)}
  <2>1. P \in SUBSET Extraction
    OBVIOUS
  <2>. HIDE DEF P
  <2>. QED
    BY <1>2, <1>3, <2>1, ExtractInvariant
<1>6. TakenFrom(x, b)
  OBVIOUS
<1>. QED
  BY <1>4, <1>5, <1>6

-----------------------------------------------------------------------------
(* The loop of a read                                                          *)

\* What holds of an end and of the frames to take, and is kept by each, holds where the loop
\* of read_callback returns.
Taking == [end: End, left: Seq(Frame)]
TakenBy(e, x) == Take(x.end, e, Head(x.left))
GoesOn(e, x) ==
    /\ x.left # <<>> /\ x.end.life \notin {"aborted", "deleted"}
    /\ ~(TakenBy(e, x).failed > x.end.failed)
NextOf(e, x) == [end |-> TakenBy(e, x), left |-> Tail(x.left)]
ResultOf(e, x) == IF x.left = <<>> \/ x.end.life = "aborted" THEN x.end
                  ELSE IF x.end.life = "deleted" THEN [x.end EXCEPT !.life = "touched"]
                  ELSE TakenBy(e, x)

LEMMA NextFields ==
    ASSUME NEW e \in Ends, NEW x \in Taking, x.left # <<>>
    PROVE  /\ x.end \in End /\ x.left \in Seq(Frame)
           /\ TakenBy(e, x) \in End /\ Head(x.left) \in Frame /\ Tail(x.left) \in Seq(Frame)
           /\ NextOf(e, x) \in Taking /\ NextOf(e, x).end = TakenBy(e, x)
           /\ NextOf(e, x).left = Tail(x.left) /\ Len(Tail(x.left)) < Len(x.left)
<1>1. x.end \in End /\ x.left \in Seq(Frame)
  BY DEF Taking
<1>2. PICK left \in Seq(Frame), n \in Nat \ {0} : left = x.left /\ left # <<>> /\ n = Len(left)
  <2>1. \A q \in Seq(Frame) : q # <<>> => Len(q) \in Nat \ {0}
    BY EmptySeq
  <2>. QED
    BY <1>1, <2>1
<1>3. Head(left) \in Frame /\ Tail(left) \in Seq(Frame) /\ Len(Tail(left)) = n - 1
  BY <1>2, HeadTailProperties
<1>4. TakenBy(e, x) \in End
  BY <1>1, <1>2, <1>3, TakeType DEF TakenBy
<1>5. NextOf(e, x).end = TakenBy(e, x) /\ NextOf(e, x).left = Tail(x.left)
  BY DEF NextOf
<1>6. NextOf(e, x) \in Taking
  BY <1>2, <1>3, <1>4 DEF NextOf, Taking
<1>. QED
  BY <1>1, <1>2, <1>3, <1>4, <1>5, <1>6

LEMMA ResultType ==
    ASSUME NEW e \in Ends, NEW x \in Taking
    PROVE  ResultOf(e, x) \in End
<1>1. x.end \in End
  BY DEF Taking
<1>2. PICK t \in End : t = x.end /\ [t EXCEPT !.life = "touched"] \in End
  BY <1>1, EndChanges
<1>3. x.left # <<>> => TakenBy(e, x) \in End
  BY NextFields
<1>. QED
  BY <1>1, <1>2, <1>3 DEF ResultOf

LEMMA TakeAllInvariant ==
    ASSUME NEW s, NEW e \in Ends, NEW frames, NEW P \in SUBSET Taking,
           [end |-> s, left |-> frames] \in P,
           \A x \in P : GoesOn(e, x) => NextOf(e, x) \in P
    PROVE  \E x \in P : ~GoesOn(e, x) /\ TakeAll(s, e, frames) = ResultOf(e, x)
<1>. DEFINE Value(f, x) == IF x.left = <<>> \/ x.end.life = "aborted" THEN x.end
                           ELSE IF x.end.life = "deleted" THEN [x.end EXCEPT !.life = "touched"]
                           ELSE IF TakenBy(e, x).failed > x.end.failed THEN TakenBy(e, x)
                           ELSE f[NextOf(e, x)]
            Solves(f) == f = [x \in Taking |-> Value(f, x)]
            Stop == {x \in Taking : ~GoesOn(e, x)}
            out == [x \in Taking |-> IF GoesOn(e, x) THEN x.end ELSE ResultOf(e, x)]
            next == [x \in Taking |-> IF GoesOn(e, x) THEN NextOf(e, x) ELSE x]
            measure == [x \in Taking |-> Len(x.left)]
            start == [end |-> s, left |-> frames]
<1>1. \A x \in Taking : x.end \in End /\ x.left \in Seq(Frame)
  BY DEF Taking
<1>2. \A f, x : Value(f, x) = IF GoesOn(e, x) THEN f[NextOf(e, x)] ELSE ResultOf(e, x)
  BY DEF GoesOn, ResultOf
<1>. HIDE DEF Value
<1>3. Looping(Taking, End, measure, Stop, out, next)
  <2>1. measure \in [Taking -> Nat]
    <3>1. \A x \in Taking : Len(x.left) \in Nat
      BY <1>1, LenProperties
    <3>. QED
      BY <3>1
  <2>2. Stop \in SUBSET Taking
    OBVIOUS
  <2>3. out \in [Taking -> End]
    BY <1>1, ResultType
  <2>4. \A x \in Taking : GoesOn(e, x) => /\ NextOf(e, x) \in Taking
                                         /\ NextOf(e, x).left = Tail(x.left)
                                         /\ Len(Tail(x.left)) < Len(x.left)
    <3>1. \A x \in Taking : GoesOn(e, x) => x.left # <<>>
      BY DEF GoesOn
    <3>. QED
      BY <3>1, NextFields
  <2>5. next \in [Taking -> Taking]
    BY <2>4
  <2>6. \A x \in Taking \ Stop : measure[next[x]] < measure[x]
    BY <2>4
  <2>. HIDE DEF measure, Stop, out, next
  <2>. QED
    BY <2>1, <2>2, <2>3, <2>5, <2>6 DEF Looping
<1>4. \E f : Solves(f)
  <2>1. PICK f \in [Taking -> End] : Looped(Taking, Stop, out, next, f)
    <3>. HIDE DEF measure, Stop, out, next
    <3>. QED
      BY <1>3, LoopExists
  <2>2. ASSUME NEW x \in Taking PROVE f[x] = Value(f, x)
    <3>1. f[x] = IF x \in Stop THEN out[x] ELSE f[next[x]]
      <4>. HIDE DEF Stop, out, next
      <4>. QED
        BY <2>1 DEF Looped
    <3>2. f[x] = IF GoesOn(e, x) THEN f[NextOf(e, x)] ELSE ResultOf(e, x)
      BY <3>1
    <3>. QED
      BY <1>2, <3>2
  <2>. QED
    BY <2>1, <2>2
<1>5. TakeAll(s, e, frames) = (CHOOSE f : Solves(f))[start]
  BY Zenon DEF TakeAll, TakenBy, NextOf, Value, Taking
<1>6. PICK f : Solves(f) /\ TakeAll(s, e, frames) = f[start]
  <2>. HIDE DEF Solves
  <2>. QED
    BY <1>4, <1>5
<1>7. Looped(Taking, Stop, out, next, f)
  <2>1. ASSUME NEW x \in Taking PROVE f[x] = IF x \in Stop THEN out[x] ELSE f[next[x]]
    <3>1. f[x] = Value(f, x)
      BY <1>6
    <3>2. f[x] = IF GoesOn(e, x) THEN f[NextOf(e, x)] ELSE ResultOf(e, x)
      BY <1>2, <3>1
    <3>. QED
      BY <3>2
  <2>. HIDE DEF Stop, out, next
  <2>. QED
    BY <2>1 DEF Looped
<1>8. PICK x \in P \cap Stop : f[start] = out[x]
  <2>1. P \subseteq Taking /\ (\A x \in P \ Stop : next[x] \in P) /\ start \in P
    OBVIOUS
  <2>. HIDE DEF measure, Stop, out, next, start, Solves
  <2>. QED
    BY <1>3, <1>7, <2>1, LoopInvariant
<1>9. out[x] = ResultOf(e, x) /\ ~GoesOn(e, x)
  OBVIOUS
<1>. HIDE DEF out, start, Stop, Solves
<1>. QED
  BY <1>6, <1>8, <1>9

\* The close frame is the last of the read, so no frame is left when the owner has deleted the
\* end; an end that lives has still what the read left.
Between(e, ahead, remain, x) ==
    /\ InCallback(x.end, e, ahead)
    /\ x.end.life = "deleted" => x.left = <<>>
    /\ CloseIsLast(x.left)
    /\ x.end.remain \in {remain, <<>>}
    /\ x.end.life = "alive" => x.end.remain = remain

LEMMA BetweenTaken ==
    ASSUME NEW e \in Ends, NEW ahead, NEW remain, owner[e] \in {"manager", "test"},
           NEW x \in Taking, Between(e, ahead, remain, x), x.left # <<>>
    PROVE  /\ x.end.life = "alive"
           /\ InCallback(TakenBy(e, x), e, ahead)
           /\ TakenBy(e, x).remain \in {remain, <<>>}
           /\ TakenBy(e, x).life = "alive" => TakenBy(e, x).remain = remain
           /\ TakenBy(e, x).failed >= x.end.failed
           /\ TakenBy(e, x).failed \in Nat /\ x.end.failed \in Nat
           /\ TakenBy(e, x).life = "deleted"
                  => Head(x.left).op = "Close" \/ TakenBy(e, x).failed > x.end.failed
<1>1. /\ x.end \in End /\ Head(x.left) \in Frame
      /\ InCallback(x.end, e, ahead) /\ x.end.life = "alive" /\ x.end.remain = remain
  <2>1. x.end \in End /\ Head(x.left) \in Frame
    BY NextFields
  <2>. QED
    BY <2>1 DEF Between, InCallback
<1>2. PICK u \in End, frame \in Frame :
          /\ u = x.end /\ frame = Head(x.left) /\ u.life = "alive" /\ InCallback(u, e, ahead)
          /\ u.remain = remain
  BY <1>1
<1>3. PICK t : t = Take(u, e, frame)
  OBVIOUS
<1>4. /\ InCallback(t, e, ahead) /\ FollowsOn(u, t)
      /\ t.life = "deleted" => frame.op = "Close" \/ t.failed > u.failed
  BY <1>2, <1>3, TakeKeeps
<1>5. t.failed \in Nat /\ u.failed \in Nat
  BY <1>4 DEF InCallback, End
<1>6. TakenBy(e, x) = t
  BY <1>2, <1>3 DEF TakenBy
<1>. QED
  BY <1>1, <1>2, <1>4, <1>5, <1>6 DEF FollowsOn

\* The frame that comes first and the others.
LEMMA LeftParts ==
    ASSUME NEW left \in Seq(Frame), left # <<>>
    PROVE  /\ Len(left) \in Nat \ {0} /\ Head(left) = left[1] /\ Tail(left) \in Seq(Frame)
           /\ Len(Tail(left)) = Len(left) - 1
           /\ \A i \in 1 .. Len(left) - 1 : Tail(left)[i] = left[i + 1]
<1>1. PICK n \in Nat \ {0} : n = Len(left)
  BY EmptySeq
<1>2. /\ Tail(left) \in Seq(Frame) /\ Len(Tail(left)) = n - 1
      /\ \A i \in 1 .. n - 1 : Tail(left)[i] = left[i + 1]
  <2>1. /\ Tail(left) \in Seq(Frame) /\ Len(Tail(left)) = Len(left) - 1
        /\ \A i \in 1 .. Len(Tail(left)) : Tail(left)[i] = left[i + 1]
    BY HeadTailProperties
  <2>. QED
    BY <1>1, <2>1
<1>3. Head(left) = left[1]
  OBVIOUS
<1>. QED
  BY <1>1, <1>2, <1>3

LEMMA BetweenNext ==
    ASSUME NEW e \in Ends, NEW ahead, NEW remain, owner[e] \in {"manager", "test"},
           NEW x \in Taking, Between(e, ahead, remain, x), GoesOn(e, x)
    PROVE  NextOf(e, x) \in Taking /\ Between(e, ahead, remain, NextOf(e, x))
<1>1. x.left \in Seq(Frame) /\ x.left # <<>> /\ ~(TakenBy(e, x).failed > x.end.failed)
  BY DEF GoesOn, Taking
<1>2. /\ InCallback(TakenBy(e, x), e, ahead) /\ TakenBy(e, x).remain \in {remain, <<>>}
      /\ TakenBy(e, x).life = "alive" => TakenBy(e, x).remain = remain
      /\ TakenBy(e, x).life = "deleted" => Head(x.left).op = "Close"
  BY <1>1, BetweenTaken
<1>3. PICK left \in Seq(Frame), n \in Nat \ {0} :
          /\ left = x.left /\ n = Len(left) /\ Head(left) = left[1] /\ Tail(left) \in Seq(Frame)
          /\ Len(Tail(left)) = n - 1 /\ \A i \in 1 .. n - 1 : Tail(left)[i] = left[i + 1]
          /\ CloseIsLast(left)
  <2>1. PICK left \in Seq(Frame) : left = x.left /\ left # <<>> /\ CloseIsLast(left)
    BY <1>1 DEF Between
  <2>2. /\ Len(left) \in Nat \ {0} /\ Head(left) = left[1] /\ Tail(left) \in Seq(Frame)
        /\ Len(Tail(left)) = Len(left) - 1
        /\ \A i \in 1 .. Len(left) - 1 : Tail(left)[i] = left[i + 1]
    BY <2>1, LeftParts
  <2>. QED
    BY <2>1, <2>2
<1>4. TakenBy(e, x).life = "deleted" => Tail(x.left) = <<>>
  <2>1. ASSUME TakenBy(e, x).life = "deleted" PROVE Len(Tail(left)) = 0
    <3>1. left[1].op = "Close" /\ 1 \in 1 .. n
      BY <1>2, <1>3, <2>1
    <3>2. CloseIsLast(left) /\ Len(left) = n /\ Len(Tail(left)) = n - 1
      BY <1>3
    <3>3. n = 1
      BY <3>1, <3>2 DEF CloseIsLast
    <3>. QED
      BY <3>2, <3>3
  <2>2. Len(Tail(left)) = 0 => Tail(left) = <<>>
    <3>1. \A q \in Seq(Frame) : q # <<>> => Len(q) \in Nat \ {0}
      BY EmptySeq
    <3>. QED
      BY <1>3, <3>1
  <2>. QED
    BY <1>3, <2>1, <2>2
<1>5. CloseIsLast(Tail(left))
  <2>1. ASSUME NEW i \in 1 .. n - 1, left[i + 1].op = "Close" PROVE i = n - 1
    <3>1. i + 1 \in 1 .. n
      OBVIOUS
    <3>. QED
      BY <1>3, <2>1, <3>1 DEF CloseIsLast
  <2>. QED
    BY <1>3, <2>1 DEF CloseIsLast
<1>6. NextOf(e, x) \in Taking /\ NextOf(e, x).end = TakenBy(e, x) /\ NextOf(e, x).left = Tail(x.left)
  BY <1>1, NextFields
<1>. QED
  BY <1>2, <1>3, <1>4, <1>5, <1>6 DEF Between

\* The loop ends behind the last frame or with an error.
LEMMA BetweenResult ==
    ASSUME NEW e \in Ends, NEW ahead, NEW remain, owner[e] \in {"manager", "test"},
           NEW x \in Taking, Between(e, ahead, remain, x), ~GoesOn(e, x)
    PROVE  /\ InCallback(ResultOf(e, x), e, ahead) /\ ResultOf(e, x).remain \in {remain, <<>>}
           /\ ResultOf(e, x).life = "alive" => ResultOf(e, x).remain = remain
           /\ \/ x.left = <<>> /\ ResultOf(e, x) = x.end
              \/ x.left # <<>> /\ ResultOf(e, x) = TakenBy(e, x)
                  /\ TakenBy(e, x).failed > x.end.failed
<1>1. CASE x.left = <<>>
  <2>1. ResultOf(e, x) = x.end
    BY <1>1 DEF ResultOf
  <2>. QED
    BY <1>1, <2>1 DEF Between
<1>2. CASE x.left # <<>>
  <2>1. /\ x.end.life = "alive"
        /\ InCallback(TakenBy(e, x), e, ahead) /\ TakenBy(e, x).remain \in {remain, <<>>}
        /\ TakenBy(e, x).life = "alive" => TakenBy(e, x).remain = remain
    BY <1>2, BetweenTaken
  <2>2. ResultOf(e, x) = TakenBy(e, x) /\ TakenBy(e, x).failed > x.end.failed
    BY <1>2, <2>1 DEF ResultOf, GoesOn
  <2>. QED
    BY <1>2, <2>1, <2>2
<1>. QED
  BY <1>1, <1>2

LEMMA TakeAllKeeps ==
    ASSUME NEW s \in End, NEW e \in Ends, NEW ahead, owner[e] \in {"manager", "test"},
           s.life = "alive", InCallback(s, e, ahead),
           NEW frames \in Seq(Frame), CloseIsLast(frames)
    PROVE  /\ InCallback(TakeAll(s, e, frames), e, ahead)
           /\ TakeAll(s, e, frames).remain \in {s.remain, <<>>}
<1>. DEFINE P == {x \in Taking : Between(e, ahead, s.remain, x)}
<1>1. [end |-> s, left |-> frames] \in P
  BY DEF InCallback, Taking, Between
<1>2. ASSUME NEW x \in P, GoesOn(e, x) PROVE NextOf(e, x) \in P
  BY <1>2, BetweenNext
<1>3. PICK x \in P : ~GoesOn(e, x) /\ TakeAll(s, e, frames) = ResultOf(e, x)
  <2>1. P \in SUBSET Taking
    OBVIOUS
  <2>. HIDE DEF P
  <2>. QED
    BY <1>1, <1>2, <2>1, TakeAllInvariant
<1>4. InCallback(ResultOf(e, x), e, ahead) /\ ResultOf(e, x).remain \in {s.remain, <<>>}
  BY <1>3, BetweenResult
<1>. QED
  BY <1>3, <1>4

-----------------------------------------------------------------------------
(* What reaches the wire                                                       *)

LEMMA SoundWithin ==
    ASSUME NEW s, NEW a, NEW b, Sound(s, a), Within(b, a)
    PROVE  Sound(s, b)
BY DEF Sound, Within

\* The first part of what s has to write is sent; t keeps the others, or nothing.
Sends(s, t, part, rest) ==
    /\ part \in Seq(Byte) /\ rest \in Seq(Byte) /\ Unwritten(s) = part \o rest
    /\ Unwritten(t) = rest \/ Unwritten(t) = <<>>
    /\ t.state = s.state

LEMMA SoundSent ==
    ASSUME NEW s, NEW t, NEW remain \in Seq(Byte), NEW under \in Seq(Byte),
           NEW part, NEW rest, Sends(s, t, part, rest), Sound(s, remain \o under)
    PROVE  Sound(t, remain \o (under \o part)) /\ Sound(t, remain \o under)
<1>1. part \in Seq(Byte) /\ rest \in Seq(Byte) /\ Unwritten(s) = part \o rest /\ t.state = s.state
  BY DEF Sends
<1>2. /\ HasClose(Unwritten(s)) <=> HasClose(part) \/ HasClose(rest)
      /\ HasStart(Unwritten(s)) <=> HasStart(part) \/ HasStart(rest)
      /\ Clean(Unwritten(s)) => Clean(part) /\ Clean(rest) /\ ~(HasClose(part) /\ HasStart(rest))
  BY <1>1, MarksOfParts
<1>3. /\ HasClose(remain \o under) <=> HasClose(remain) \/ HasClose(under)
      /\ Clean(remain \o under) => Clean(remain) /\ Clean(under) /\ ~(HasClose(remain) /\ HasStart(under))
  BY MarksOfParts
<1>4. PICK w \in Seq(Byte) :
          /\ w = under \o part
          /\ HasClose(w) <=> HasClose(under) \/ HasClose(part)
          /\ HasStart(w) <=> HasStart(under) \/ HasStart(part)
          /\ Clean(w) <=> Clean(under) /\ Clean(part) /\ ~(HasClose(under) /\ HasStart(part))
  BY <1>1, MarksOfParts
<1>5. /\ HasClose(remain \o w) <=> HasClose(remain) \/ HasClose(w)
      /\ Clean(remain \o w) <=> Clean(remain) /\ Clean(w) /\ ~(HasClose(remain) /\ HasStart(w))
  BY MarksOfParts
<1>6. /\ Clean(remain \o under) /\ Clean(Unwritten(s))
      /\ HasClose(remain \o under) => ~HasStart(Unwritten(s))
      /\ s.state = "OPEN" => ~HasClose(remain \o under) /\ ~HasClose(Unwritten(s))
  BY DEF Sound
<1>7. Clean(remain \o w)
  BY <1>2, <1>3, <1>4, <1>5, <1>6
<1>8. CASE Unwritten(t) = rest
  <2>1. Sound(t, remain \o w)
    BY <1>1, <1>2, <1>3, <1>4, <1>5, <1>6, <1>7, <1>8 DEF Sound
  <2>2. Sound(t, remain \o under)
    BY <1>1, <1>2, <1>6, <1>8 DEF Sound
  <2>. QED
    BY <1>4, <2>1, <2>2
<1>9. CASE Unwritten(t) = <<>>
  <2>1. Sound(t, remain \o w)
    BY <1>1, <1>2, <1>3, <1>4, <1>5, <1>6, <1>7, <1>9, MarksOfNothing DEF Sound
  <2>2. Sound(t, remain \o under)
    BY <1>1, <1>6, <1>9, MarksOfNothing DEF Sound
  <2>. QED
    BY <1>4, <2>1, <2>2
<1>. QED
  BY <1>8, <1>9 DEF Sends

-----------------------------------------------------------------------------
(* Steps                                                                       *)

LEMMA TwoEnds ==
    ASSUME NEW e \in Ends
    PROVE  /\ Peer(e) \in Ends /\ Peer(e) # e /\ Peer(Peer(e)) = e
           /\ \A d \in Ends : d = e \/ d = Peer(e)
BY DEF Ends, Peer

\* e becomes t, with left on the way to it and right on the way to its peer.
Becomes(e, t, left, right) ==
    /\ ws' = [ws EXCEPT ![e] = t]
    /\ wire' = [wire EXCEPT ![e] = left, ![Peer(e)] = right]
    /\ owner' = owner

Allowed(e, t, left, right) ==
    /\ t \in End /\ left \in Seq(Byte) /\ right \in Seq(Byte)
    /\ t.life \in {"alive", "deleted", "garbled"}
    /\ t.life # "alive" => t.writes = <<>>
    /\ t.life = "alive" => Counted(t)
    /\ Owned(t, e)
    /\ Sound(t, ws[Peer(e)].remain \o right)
    /\ Within(t.remain \o left, ws[e].remain \o wire[e])

LEMMA BecomesKeeps ==
    ASSUME IInv, NEW e \in Ends, NEW t, NEW left, NEW right,
           Becomes(e, t, left, right), Allowed(e, t, left, right)
    PROVE  IInv'
<1>1. PICK p \in Ends : /\ p = Peer(e) /\ p # e /\ Peer(p) = e
                        /\ \A d \in Ends : d = e \/ d = p
  BY TwoEnds
<1>2. /\ ws \in [Ends -> End] /\ wire \in [Ends -> Seq(Byte)]
      /\ owner \in [Ends -> {"manager", "test"}]
      /\ \A d \in Ends : ws[d].life = "alive" => ws[d].writeSize = Len(FlattenSeq(ws[d].writes))
  BY DEF IInv, TypeOK, Alive
<1>3. /\ ws' \in [Ends -> End] /\ wire' \in [Ends -> Seq(Byte)]
      /\ ws'[e] = t /\ ws'[p] = ws[p] /\ wire'[e] = left /\ wire'[p] = right
  BY <1>1, <1>2 DEF Becomes, Allowed
<1>4. TypeOK'
  <2>1. (ws'[e].life = "alive" => ws'[e].writeSize = Len(FlattenSeq(ws'[e].writes)))
    BY <1>3 DEF Allowed, Counted, Unwritten
  <2>2. (ws'[p].life = "alive" => ws'[p].writeSize = Len(FlattenSeq(ws'[p].writes)))
    BY <1>2, <1>3
  <2>. QED
    BY <1>1, <1>3, <2>1, <2>2 DEF TypeOK, Alive
<1>5. /\ ws'[e].life \in {"alive", "deleted", "garbled"}
      /\ ws'[e].life # "alive" => ws'[e].writes = <<>>
      /\ Owned(ws[e], e)'
      /\ Sound(ws'[e], ws'[p].remain \o wire'[p])
  BY <1>1, <1>3 DEF Allowed, Becomes, Owned
<1>6. /\ ws'[p].life \in {"alive", "deleted", "garbled"}
      /\ ws'[p].life # "alive" => ws'[p].writes = <<>>
      /\ Owned(ws[p], p)'
      /\ Sound(ws'[p], ws'[e].remain \o wire'[e])
  <2>1. /\ ws[p].life \in {"alive", "deleted", "garbled"}
        /\ ws[p].life # "alive" => ws[p].writes = <<>>
        /\ Owned(ws[p], p)
        /\ Sound(ws[p], ws[e].remain \o wire[e])
    BY <1>1 DEF IInv, Ahead
  <2>2. Within(ws'[e].remain \o wire'[e], ws[e].remain \o wire[e])
    BY <1>3 DEF Allowed
  <2>3. Sound(ws[p], ws'[e].remain \o wire'[e])
    BY <2>1, <2>2, SoundWithin
  <2>. QED
    BY <1>3, <2>1, <2>3 DEF Owned, Becomes
<1>7. owner' \in [Ends -> {"manager", "test"}]
  BY <1>2 DEF Becomes
<1>8. ASSUME NEW d \in Ends
      PROVE  /\ ws'[d].life \in {"alive", "deleted", "garbled"}
             /\ ws'[d].life # "alive" => ws'[d].writes = <<>>
             /\ Owned(ws[d], d)'
             /\ Sound(ws'[d], Ahead(d)')
  <2>1. CASE d = e
    BY <1>1, <1>5, <2>1 DEF Ahead, Owned
  <2>2. CASE d = p
    BY <1>1, <1>6, <2>2 DEF Ahead, Owned
  <2>. QED
    BY <1>1, <2>1, <2>2
<1>. QED
  BY <1>4, <1>7, <1>8 DEF IInv

\* s is what a callback made of e: it may stay as it is, or it is gone and a part of what it had
\* to write has been sent.
Returns(e, s, left) ==
    /\ s \in End /\ left \in Seq(Byte)
    /\ s.life \in {"alive", "deleted", "garbled"}
    /\ s.life = "alive" => Counted(s)
    /\ Owned(s, e)
    /\ Sound(s, Ahead(e))
    /\ Within(s.remain \o left, ws[e].remain \o wire[e])

LEMMA LeaveKeeps ==
    ASSUME IInv, NEW e \in Ends, NEW s, NEW left, Returns(e, s, left),
           Leave(e, s, left), owner' = owner
    PROVE  IInv'
<1>1. PICK n \in 0 .. Len(s.writes) :
          /\ n > 0 => s.life # "alive"
          /\ ws' = [ws EXCEPT ![e] = IF s.life # "alive" THEN [s EXCEPT !.writes = <<>>] ELSE s]
          /\ wire' = [wire EXCEPT ![e] = left,
                                  ![Peer(e)] = wire[Peer(e)] \o FlattenSeq(SubSeq(s.writes, 1, n))]
  <2>1. wire \in [Ends -> Seq(Byte)] /\ Peer(e) \in Ends /\ Peer(e) # e
    BY TwoEnds DEF IInv, TypeOK
  <2>. QED
    BY <2>1 DEF Leave
<1>2. /\ s \in End /\ s.writes \in Seq(Seq(Byte)) /\ left \in Seq(Byte)
      /\ ws \in [Ends -> End] /\ wire \in [Ends -> Seq(Byte)]
  BY DEF Returns, End, IInv, TypeOK
<1>3. PICK p \in Ends, remain \in Seq(Byte), under \in Seq(Byte) :
          p = Peer(e) /\ remain = ws[p].remain /\ under = wire[p]
  <2>1. Peer(e) \in Ends /\ ws[Peer(e)].remain \in Seq(Byte) /\ wire[Peer(e)] \in Seq(Byte)
    BY <1>2, TwoEnds DEF End
  <2>. QED
    BY <2>1
<1>4. PICK part \in Seq(Byte), rest \in Seq(Byte) :
          part = FlattenSeq(SubSeq(s.writes, 1, n)) /\ Unwritten(s) = part \o rest
  BY <1>2, UnwrittenParts DEF Unwritten
<1>5. Sound(s, remain \o under)
  BY <1>3 DEF Returns, Ahead
<1>6. under \o part \in Seq(Byte)
  BY MarksOfParts
<1>7. CASE s.life # "alive"
  <2>1. PICK t : t = [s EXCEPT !.writes = <<>>]
    OBVIOUS
  <2>2. /\ t \in End /\ t.writes = <<>> /\ t.life = s.life /\ t.state = s.state
        /\ t.recieveEnd = s.recieveEnd /\ t.remain = s.remain
    <3>1. <<>> \in Seq(Seq(Byte))
      BY EmptySeq
    <3>. QED
      BY <1>2, <2>1, <3>1 DEF End
  <2>3. Sound(t, remain \o (under \o part))
    <3>1. Unwritten(t) = <<>>
      BY <2>2, UnwrittenNone
    <3>2. Sends(s, t, part, rest)
      BY <1>4, <2>2, <3>1 DEF Sends
    <3>. QED
      BY <1>5, <3>2, SoundSent
  <2>4. Allowed(e, t, left, under \o part)
    BY <1>3, <1>6, <1>7, <2>2, <2>3 DEF Allowed, Returns, Owned
  <2>5. Becomes(e, t, left, under \o part)
    BY <1>1, <1>3, <1>4, <1>7, <2>1 DEF Becomes
  <2>. QED
    BY <2>4, <2>5, BecomesKeeps
<1>8. CASE s.life = "alive"
  <2>1. n = 0
    BY <1>1, <1>8
  <2>2. part = <<>>
    <3>1. SubSeq(s.writes, 1, 0) = <<>>
      BY SubSeqEmpty
    <3>. QED
      BY <1>4, <2>1, <3>1, FlattenEmpty
  <2>3. under \o part = under
    BY <2>2, ConcatEmptySeq
  <2>4. Allowed(e, s, left, under)
    BY <1>2, <1>3, <1>5, <1>8 DEF Allowed, Returns
  <2>5. Becomes(e, s, left, under)
    BY <1>1, <1>3, <1>4, <1>8, <2>3 DEF Becomes
  <2>. QED
    BY <2>4, <2>5, BecomesKeeps
<1>. QED
  BY <1>7, <1>8

\* An end between two callbacks.
LEMMA AliveInCallback ==
    ASSUME IInv, NEW e \in Ends, Alive(e)
    PROVE  /\ InCallback(ws[e], e, Ahead(e)) /\ ws[e] \in End /\ ws[e].life = "alive"
           /\ owner[e] \in {"manager", "test"}
           /\ ws[e].remain \in Seq(Byte) /\ wire[e] \in Seq(Byte)
BY DEF IInv, TypeOK, Alive, InCallback, Counted, Unwritten, End

\* An end that keeps its rest of a read, or gives it up, leaves the marks as they are.
LEMMA WithinKept ==
    ASSUME NEW r \in Seq(Byte), NEW x \in Seq(Byte), NEW s, s.remain = r \/ s.remain = <<>>
    PROVE  Within(s.remain \o x, r \o x)
<1>1. CASE s.remain = r
  BY <1>1 DEF Within
<1>2. CASE s.remain = <<>>
  <2>1. Within(<<>>, r) /\ <<>> \in Seq(Byte)
    BY MarksOfNothing, EmptySeq DEF Within
  <2>. QED
    BY <1>2, <2>1, WithinParts
<1>. QED
  BY <1>1, <1>2

LEMMA CallbackReturns ==
    ASSUME IInv, NEW e \in Ends, Alive(e), NEW s, InCallback(s, e, Ahead(e)),
           s.remain = ws[e].remain \/ s.remain = <<>>
    PROVE  Returns(e, s, wire[e])
<1>1. PICK r \in Seq(Byte), x \in Seq(Byte) : r = ws[e].remain /\ x = wire[e]
  BY AliveInCallback
<1>2. Within(s.remain \o x, r \o x)
  BY <1>1, WithinKept
<1>. QED
  BY <1>1, <1>2 DEF Returns, InCallback

LEMMA InitKeeps == Init => IInv
<1>. SUFFICES ASSUME Init PROVE IInv
  OBVIOUS
<1>1. /\ <<>> \in Seq(Byte) /\ <<>> \in Seq(Frame) /\ <<>> \in Seq(Seq(Byte)) /\ Len(<<>>) = 0
      /\ <<>> \in Seq([event: {"message", "textMessage", "ping", "end"}, ids: Seq(Nat)])
  BY EmptySeq
<1>2. ASSUME NEW save \in BOOLEAN
      PROVE  /\ NewEnd(save) \in End
             /\ NewEnd(save).writes = <<>> /\ NewEnd(save).writeSize = 0 /\ NewEnd(save).life = "alive"
             /\ NewEnd(save).state = "OPEN" /\ NewEnd(save).recieveEnd = FALSE
             /\ NewEnd(save).remain = <<>>
  BY <1>1 DEF NewEnd, End
<1>3. ASSUME NEW e \in Ends
      PROVE  \E save \in BOOLEAN : ws[e] = NewEnd(save)
  BY <1>3 DEF Init
<1>4. wire = [e \in Ends |-> <<>>] /\ owner \in [Ends -> {"manager", "test"}]
  BY DEF Init
<1>5. ws \in [Ends -> End]
  BY <1>2 DEF Init
<1>6. ASSUME NEW e \in Ends
      PROVE  /\ ws[e].life = "alive" /\ ws[e].state = "OPEN" /\ ws[e].recieveEnd = FALSE
             /\ ws[e].writeSize = 0 /\ Unwritten(ws[e]) = <<>> /\ FlattenSeq(ws[e].writes) = <<>>
             /\ ws[e].remain = <<>>
  BY <1>2, <1>3, FlattenEmpty DEF Unwritten
<1>7. TypeOK
  BY <1>1, <1>4, <1>5, <1>6 DEF TypeOK
<1>8. ASSUME NEW e \in Ends PROVE Sound(ws[e], Ahead(e))
  <2>1. Ahead(e) = <<>>
    <3>1. Peer(e) \in Ends
      BY TwoEnds
    <3>2. ws[Peer(e)].remain = <<>> /\ wire[Peer(e)] = <<>>
      BY <1>4, <1>6, <3>1
    <3>. QED
      BY <1>1, <3>2, ConcatEmptySeq DEF Ahead
  <2>. QED
    BY <1>6, <2>1, MarksOfNothing DEF Sound
<1>. QED
  BY <1>4, <1>6, <1>7, <1>8 DEF IInv, Owned

LEMMA OwnerSendsKeeps ==
    ASSUME IInv, NEW e \in Ends, OwnerSends(e)
    PROVE  IInv'
<1>1. PICK f \in Frames : /\ Alive(e) /\ owner[e] = "test" /\ ws[e].state = "OPEN"
                          /\ ws' = [ws EXCEPT ![e] = Send(ws[e], e, f)]
                          /\ UNCHANGED <<wire, owner>>
  <2>1. ws \in [Ends -> End]
    BY DEF IInv, TypeOK
  <2>. QED
    BY <2>1 DEF OwnerSends
<1>2. f \in Message /\ f.op # "Close"
  BY WebSocketEndsAssumption DEF Message
<1>3. PICK s \in End, ahead \in {Ahead(e)} : /\ s = ws[e] /\ ahead = Ahead(e) /\ InCallback(s, e, ahead)
                              /\ s.state = "OPEN" /\ s.life = "alive"
  BY <1>1, AliveInCallback
<1>4. PICK t : t = SendFragment(s, e, f)
  OBVIOUS
<1>5. t \in End /\ t.life = "alive" /\ t.state = "OPEN" /\ t.remain = s.remain
  BY <1>2, <1>3, <1>4, SendFragmentFields
<1>6. Counted(t) /\ Free(t, ahead)
  <2>1. Counted(s) /\ Free(s, ahead)
    BY <1>3 DEF InCallback, Sound, Free
  <2>. QED
    BY <1>2, <1>4, <2>1, SendFragmentKeeps
<1>7. PICK p \in Ends : p = Peer(e) /\ p # e
  BY TwoEnds
<1>8. wire \in [Ends -> Seq(Byte)]
  BY DEF IInv, TypeOK
<1>9. Becomes(e, t, wire[e], wire[p])
  <2>1. Send(s, e, f) = t
    BY <1>3, <1>4 DEF Send, MaySend
  <2>2. wire = [wire EXCEPT ![e] = wire[e], ![Peer(e)] = wire[p]]
    BY <1>7, <1>8
  <2>. QED
    BY <1>1, <1>3, <2>1, <2>2 DEF Becomes
<1>10. Allowed(e, t, wire[e], wire[p])
  <2>1. Sound(t, ws[Peer(e)].remain \o wire[p])
    BY <1>3, <1>6, <1>7 DEF Ahead, Sound, Free
  <2>2. Within(t.remain \o wire[e], ws[e].remain \o wire[e])
    BY <1>3, <1>5 DEF Within
  <2>. QED
    BY <1>1, <1>5, <1>6, <1>7, <1>8, <2>1, <2>2 DEF Allowed, Owned
<1>. QED
  BY <1>9, <1>10, BecomesKeeps

LEMMA OwnerEndsKeeps ==
    ASSUME IInv, NEW e \in Ends, OwnerEnds(e)
    PROVE  IInv'
<1>1. /\ Alive(e) /\ owner[e] = "test" /\ ws[e].state = "OPEN"
      /\ ws' = [ws EXCEPT ![e] = SendEnd(ws[e], e)]
      /\ UNCHANGED <<wire, owner>>
  <2>1. ws \in [Ends -> End]
    BY DEF IInv, TypeOK
  <2>. QED
    BY <2>1 DEF OwnerEnds
<1>2. PICK s \in End, ahead \in {Ahead(e)} : /\ s = ws[e] /\ ahead = Ahead(e) /\ InCallback(s, e, ahead)
                              /\ s.state = "OPEN" /\ s.life = "alive"
  BY <1>1, AliveInCallback
<1>3. PICK u \in End : u = [s EXCEPT !.state = "CLOSING"]
  BY EndChanges
<1>4. /\ u.life = "alive" /\ u.state = "CLOSING" /\ u.remain = s.remain
      /\ u.writes = s.writes /\ u.writeSize = s.writeSize
  BY <1>2, <1>3 DEF End
<1>5. Counted(u) /\ Free(u, ahead)
  <2>1. Unwritten(u) = Unwritten(s)
    BY <1>4 DEF Unwritten
  <2>. QED
    BY <1>2, <1>4, <2>1 DEF InCallback, Sound, Free, Counted
<1>6. PICK t : t = SendFragment(u, e, CloseFrame)
  OBVIOUS
<1>7. t \in End /\ t.life = "alive" /\ t.state = "CLOSING" /\ t.remain = s.remain
  BY <1>4, <1>6, OwnMessages, SendFragmentFields
<1>8. Counted(t) /\ Clean(Unwritten(t))
  BY <1>5, <1>6, OwnMessages, SendFragmentKeeps
<1>9. PICK p \in Ends : p = Peer(e) /\ p # e
  BY TwoEnds
<1>10. wire \in [Ends -> Seq(Byte)]
  BY DEF IInv, TypeOK
<1>11. Becomes(e, t, wire[e], wire[p])
  <2>1. SendEnd(s, e) = t
    BY <1>2, <1>3, <1>6 DEF SendEnd
  <2>2. wire = [wire EXCEPT ![e] = wire[e], ![Peer(e)] = wire[p]]
    BY <1>9, <1>10
  <2>. QED
    BY <1>1, <1>2, <2>1, <2>2 DEF Becomes
<1>12. Allowed(e, t, wire[e], wire[p])
  <2>1. Sound(t, ws[Peer(e)].remain \o wire[p])
    BY <1>2, <1>5, <1>7, <1>8, <1>9 DEF Ahead, Sound, Free
  <2>2. Within(t.remain \o wire[e], ws[e].remain \o wire[e])
    BY <1>2, <1>7 DEF Within
  <2>. QED
    BY <1>1, <1>7, <1>8, <1>9, <1>10, <2>1, <2>2 DEF Allowed, Owned
<1>. QED
  BY <1>11, <1>12, BecomesKeeps

LEMMA OwnerClosesKeeps ==
    ASSUME IInv, NEW e \in Ends, OwnerCloses(e)
    PROVE  IInv'
<1>1. Alive(e) /\ Leave(e, Delete(ws[e]), wire[e]) /\ owner' = owner
  BY DEF OwnerCloses
<1>2. PICK s : s = Delete(ws[e])
  OBVIOUS
<1>3. InCallback(s, e, Ahead(e)) /\ s.remain = <<>>
  <2>1. PICK r \in End, ahead \in {Ahead(e)} :
            r = ws[e] /\ ahead = Ahead(e) /\ InCallback(r, e, ahead) /\ r.life = "alive"
    BY <1>1, AliveInCallback
  <2>2. InCallback(Delete(r), e, ahead) /\ Delete(r).remain = <<>>
    BY <2>1, DeleteKeeps DEF InCallback
  <2>. QED
    BY <1>2, <2>1, <2>2
<1>4. Returns(e, s, wire[e])
  BY <1>1, <1>3, CallbackReturns
<1>. QED
  BY <1>1, <1>2, <1>4, LeaveKeeps

\* An error of the stream.
LEMMA FailReturns ==
    ASSUME IInv, NEW e \in Ends, Alive(e), NEW s \in End, s.life = "alive",
           InCallback(s, e, Ahead(e)), s.remain = ws[e].remain
    PROVE  Returns(e, Fail(s, e), wire[e])
<1>1. PICK ahead, t : ahead = Ahead(e) /\ t = Fail(s, e)
  OBVIOUS
<1>2. InCallback(t, e, ahead) /\ FollowsOn(s, t)
  BY <1>1, FailKeeps
<1>. QED
  BY <1>1, <1>2, CallbackReturns DEF FollowsOn

LEMMA FlushKeeps ==
    ASSUME IInv, NEW e \in Ends, Flush(e)
    PROVE  IInv'
<1>1. Alive(e) /\ ws[e].writes # <<>> /\ owner' = owner
  BY DEF Flush
<1>2. PICK s \in End, ahead \in {Ahead(e)} : /\ s = ws[e] /\ ahead = Ahead(e) /\ InCallback(s, e, ahead)
                               /\ s.life = "alive"
  BY <1>1, AliveInCallback
<1>3. PICK writes \in Seq(Seq(Byte)) : writes = s.writes
  BY DEF End
<1>4. /\ s = ws[e] /\ ahead = Ahead(e) /\ InCallback(s, e, ahead) /\ s.life = "alive"
      /\ writes = s.writes /\ writes # <<>>
  BY <1>1, <1>2, <1>3
<1>5. PICK write \in Seq(Byte), rest \in Seq(Byte) :
          /\ write = Head(writes) /\ Tail(writes) \in Seq(Seq(Byte)) /\ rest = FlattenSeq(Tail(writes))
          /\ FlattenSeq(writes) = write \o rest
  BY <1>4, UnwrittenFirst
<1>6. PICK done : done = [s EXCEPT !.writes = Tail(writes), !.writeSize = s.writeSize - Len(write)]
  OBVIOUS
<1>7. s.writeSize \in Int /\ Len(write) \in Nat
  BY LenProperties DEF End
<1>8. /\ done \in End /\ done.life = "alive" /\ done.state = s.state /\ done.recieveEnd = s.recieveEnd
      /\ done.remain = s.remain /\ done.writes = Tail(writes)
      /\ done.writeSize = s.writeSize - Len(write)
  <2>1. s.writeSize - Len(write) \in Int
    BY <1>7
  <2>. QED
    BY <1>4, <1>5, <1>6, <2>1 DEF End
<1>9. Unwritten(done) = rest /\ Unwritten(s) = write \o rest
  BY <1>4, <1>5, <1>8 DEF Unwritten
<1>10. Counted(done)
  <2>1. s.writeSize = Len(write \o rest)
    BY <1>4, <1>9 DEF InCallback, Counted
  <2>2. Len(write \o rest) = Len(write) + Len(rest)
    BY ConcatProperties
  <2>3. PICK n \in Nat : n = Len(rest)
    BY LenProperties
  <2>4. done.writeSize = n
    BY <1>7, <1>8, <2>1, <2>2, <2>3
  <2>. QED
    BY <1>9, <2>3, <2>4 DEF Counted
<1>11. PICK p \in Ends, remain \in Seq(Byte), under \in Seq(Byte) :
          p = Peer(e) /\ p # e /\ remain = ws[p].remain /\ under = wire[p]
  <2>1. ws \in [Ends -> End] /\ wire \in [Ends -> Seq(Byte)]
    BY DEF IInv, TypeOK
  <2>2. /\ Peer(e) \in Ends /\ Peer(e) # e
        /\ ws[Peer(e)].remain \in Seq(Byte) /\ wire[Peer(e)] \in Seq(Byte)
    BY <2>1, TwoEnds DEF End
  <2>. QED
    BY <2>2
<1>12. Sound(done, remain \o (under \o write)) /\ Sound(done, remain \o under)
  <2>1. Sound(s, remain \o under)
    BY <1>4, <1>11 DEF InCallback, Ahead
  <2>2. Sends(s, done, write, rest)
    BY <1>8, <1>9 DEF Sends
  <2>. QED
    BY <2>1, <2>2, SoundSent
<1>13. Owned(done, e)
  BY <1>4, <1>8 DEF InCallback, Owned
<1>14. \/ /\ ws' = [ws EXCEPT ![e] = done]
          /\ wire' = [wire EXCEPT ![Peer(e)] = wire[Peer(e)] \o write]
       \/ Leave(e, Fail(done, e), wire[e])
  <2>1. /\ ws \in [Ends -> End] /\ wire \in [Ends -> Seq(Byte)] /\ Peer(e) \in Ends
    BY TwoEnds DEF IInv, TypeOK
  <2>2. done = [ws[e] EXCEPT !.writes = Tail(ws[e].writes),
                             !.writeSize = ws[e].writeSize - Len(Head(ws[e].writes))]
    BY <1>4, <1>5, <1>6
  <2>3. write = Head(ws[e].writes)
    BY <1>4, <1>5
  <2>. QED
    BY <2>1, <2>2, <2>3 DEF Flush
<1>15. CASE /\ ws' = [ws EXCEPT ![e] = done]
            /\ wire' = [wire EXCEPT ![Peer(e)] = wire[Peer(e)] \o write]
  <2>1. wire \in [Ends -> Seq(Byte)]
    BY DEF IInv, TypeOK
  <2>2. Becomes(e, done, wire[e], under \o write)
    <3>1. wire' = [wire EXCEPT ![e] = wire[e], ![Peer(e)] = under \o write]
      BY <1>11, <1>15, <2>1
    <3>. QED
      BY <1>1, <1>15, <3>1 DEF Becomes
  <2>3. Within(done.remain \o wire[e], ws[e].remain \o wire[e])
    BY <1>4, <1>8 DEF Within
  <2>4. under \o write \in Seq(Byte)
    BY MarksOfParts
  <2>5. Allowed(e, done, wire[e], under \o write)
    BY <1>8, <1>10, <1>11, <1>12, <1>13, <2>1, <2>3, <2>4 DEF Allowed
  <2>. QED
    BY <2>2, <2>5, BecomesKeeps
<1>16. CASE Leave(e, Fail(done, e), wire[e])
  <2>1. InCallback(done, e, Ahead(e))
    BY <1>8, <1>10, <1>11, <1>12, <1>13 DEF InCallback, Ahead
  <2>2. done.remain = ws[e].remain
    BY <1>4, <1>8
  <2>3. Returns(e, Fail(done, e), wire[e])
    BY <1>1, <1>8, <2>1, <2>2, FailReturns
  <2>4. PICK t : t = Fail(done, e)
    OBVIOUS
  <2>. QED
    BY <1>1, <1>16, <2>3, <2>4, LeaveKeeps
<1>. QED
  BY <1>14, <1>15, <1>16

LEMMA ReadEndsKeeps ==
    ASSUME IInv, NEW e \in Ends, ReadEnds(e)
    PROVE  IInv'
<1>1. /\ Alive(e) /\ wire[e] = <<>> /\ owner' = owner
      /\ Leave(e, Fail([ws[e] EXCEPT !.ended = TRUE], e), <<>>)
  BY DEF ReadEnds
<1>2. PICK r \in End, ahead \in {Ahead(e)} :
          r = ws[e] /\ ahead = Ahead(e) /\ InCallback(r, e, ahead) /\ r.life = "alive"
  BY <1>1, AliveInCallback
<1>3. PICK s \in End : s = [r EXCEPT !.ended = TRUE]
  BY EndChanges
<1>4. Alike(r, s) /\ s.life = "alive" /\ s.remain = r.remain
  BY <1>2, <1>3 DEF End, Alike
<1>5. InCallback(s, e, ahead)
  BY <1>2, <1>4, AlikeKeeps
<1>6. PICK t : t = Fail(s, e)
  OBVIOUS
<1>7. Returns(e, t, wire[e])
  BY <1>1, <1>2, <1>4, <1>5, <1>6, FailReturns
<1>8. Leave(e, t, wire[e])
  BY <1>1, <1>2, <1>3, <1>6
<1>. QED
  BY <1>1, <1>7, <1>8, LeaveKeeps

LEMMA ReadKeeps ==
    ASSUME IInv, NEW e \in Ends, NEW n \in 1 .. Len(wire[e]), Read(e, n)
    PROVE  IInv'
<1>1. /\ Alive(e) /\ owner' = owner
      /\ Leave(e, AfterRead(e, n), SubSeq(wire[e], n + 1, Len(wire[e])))
  BY DEF Read
<1>2. PICK r \in End, ahead \in {Ahead(e)} : /\ r = ws[e] /\ ahead = Ahead(e) /\ InCallback(r, e, ahead)
                               /\ r.life = "alive"
  BY <1>1, AliveInCallback
<1>3. PICK b \in Seq(Byte), x \in Seq(Byte) : b = ws[e].remain /\ x = wire[e]
  BY <1>1, AliveInCallback
<1>4. /\ r = ws[e] /\ ahead = Ahead(e) /\ InCallback(r, e, ahead) /\ r.life = "alive"
      /\ b = r.remain /\ x = wire[e]
  BY <1>2, <1>3
<1>5. PICK front \in Seq(Byte), back \in Seq(Byte) :
          front = SubSeq(x, 1, n) /\ back = SubSeq(x, n + 1, Len(x)) /\ front \o back = x
  <2>1. n \in 0 .. Len(x)
    BY <1>4
  <2>. QED
    BY <2>1, MarksBefore, ZenonT(30)
<1>6. PICK all \in Seq(Byte) : all = b \o front /\ b \o x = all \o back
  <2>1. (b \o front) \o back = b \o (front \o back)
    BY ConcatAssociative, SMTT(60)
  <2>2. b \o front \in Seq(Byte)
    BY ConcatProperties
  <2>. QED
    BY <1>5, <2>1, <2>2
<1>7. Clean(all)
  <2>1. Clean(b \o x)
    <3>1. PICK p \in Ends : p = Peer(e) /\ Peer(p) = e
      BY TwoEnds
    <3>2. Sound(ws[p], Ahead(p))
      BY DEF IInv
    <3>. QED
      BY <1>4, <3>1, <3>2 DEF Sound, Ahead
  <2>. QED
    BY <1>6, <2>1, MarksOfParts
<1>8. PICK got : got = ExtractMulti(b, front) /\ TakenFrom(got, all)
  BY <1>6, <1>7, ExtractKeeps
<1>9. PICK kept \in Seq(Byte) : /\ kept = got.remain \o got.income /\ Within(kept, all)
                                /\ got.frames \in Seq(Frame) /\ CloseIsLast(got.frames)
  <2>1. got.remain \in Seq(Byte) /\ got.income \in Seq(Byte) /\ got.frames \in Seq(Frame)
    BY <1>8 DEF TakenFrom, Extraction
  <2>2. got.remain \o got.income \in Seq(Byte)
    BY <2>1, ConcatProperties
  <2>. QED
    BY <1>8, <2>1, <2>2 DEF TakenFrom
<1>10. PICK u \in End : u = [r EXCEPT !.remain = kept]
  BY EndChanges
<1>11. InCallback(u, e, ahead) /\ u.life = "alive" /\ u.remain = kept
  <2>1. Alike(r, u) /\ u.life = "alive" /\ u.remain = kept
    BY <1>4, <1>10 DEF End, Alike
  <2>. QED
    BY <1>4, <2>1, AlikeKeeps
<1>12. PICK frames \in Seq(Frame) : frames = got.frames /\ CloseIsLast(frames)
  BY <1>9
<1>13. PICK s : s = TakeAll(u, e, frames)
  OBVIOUS
<1>14. /\ frames = got.frames /\ s = TakeAll(u, e, frames)
       /\ InCallback(s, e, ahead) /\ s.remain \in {kept, <<>>}
  <2>1. owner[e] \in {"manager", "test"}
    BY DEF IInv
  <2>2. InCallback(TakeAll(u, e, frames), e, ahead) /\ TakeAll(u, e, frames).remain \in {u.remain, <<>>}
    BY <1>11, <1>12, <2>1, TakeAllKeeps
  <2>. QED
    BY <1>11, <1>12, <1>13, <2>2
<1>15. PICK t : t = IF got.garbled /\ s.life = "alive" THEN [s EXCEPT !.life = "garbled"] ELSE s
  OBVIOUS
<1>16. AfterRead(e, n) = t
  BY <1>4, <1>5, <1>8, <1>9, <1>10, <1>14, <1>15 DEF AfterRead
<1>17. Returns(e, t, back)
  <2>1. Within(s.remain \o back, b \o x)
    <3>1. Within(kept \o back, all \o back)
      BY <1>9, WithinParts
    <3>2. Within(s.remain \o back, kept \o back)
      BY <1>14, WithinKept
    <3>3. Within(s.remain \o back, all \o back)
      BY <3>1, <3>2, WithinTransitive
    <3>. QED
      BY <1>6, <3>3
  <2>2. CASE t = s
    BY <1>4, <1>14, <2>1, <2>2 DEF Returns, InCallback
  <2>3. CASE t = [s EXCEPT !.life = "garbled"]
    <3>1. s \in End
      BY <1>14 DEF InCallback
    <3>2. /\ t \in End /\ t.life = "garbled" /\ t.state = s.state /\ t.writes = s.writes
          /\ t.remain = s.remain
      BY <2>3, <3>1 DEF End
    <3>3. Unwritten(t) = Unwritten(s)
      BY <3>2 DEF Unwritten
    <3>4. Sound(t, ahead)
      BY <1>14, <3>2, <3>3 DEF InCallback, Sound
    <3>. QED
      BY <1>4, <2>1, <3>2, <3>4 DEF Returns, Owned
  <2>. QED
    BY <1>15, <2>2, <2>3
<1>18. Leave(e, t, back)
  BY <1>1, <1>4, <1>5, <1>16
<1>. QED
  BY <1>1, <1>17, <1>18, LeaveKeeps

LEMMA StepKeeps == IInv /\ [Next]_vars => IInv'
<1>. SUFFICES ASSUME IInv, [Next]_vars PROVE IInv'
  OBVIOUS
<1>1. ASSUME NEW e \in Ends, OwnerSends(e) PROVE IInv'
  BY <1>1, OwnerSendsKeeps
<1>2. ASSUME NEW e \in Ends, OwnerEnds(e) PROVE IInv'
  BY <1>2, OwnerEndsKeeps
<1>3. ASSUME NEW e \in Ends, OwnerCloses(e) PROVE IInv'
  BY <1>3, OwnerClosesKeeps
<1>4. ASSUME NEW e \in Ends, Flush(e) PROVE IInv'
  BY <1>4, FlushKeeps
<1>5. ASSUME NEW e \in Ends, NEW n \in 1 .. Len(wire[e]), Read(e, n) PROVE IInv'
  BY <1>5, ReadKeeps
<1>6. ASSUME NEW e \in Ends, ReadEnds(e) PROVE IInv'
  BY <1>6, ReadEndsKeeps
<1>7. CASE UNCHANGED vars
  BY <1>7 DEF vars, IInv, TypeOK, Alive, Ahead, Owned, Sound, Unwritten
<1>. QED
  BY <1>1, <1>2, <1>3, <1>4, <1>5, <1>6, <1>7 DEF Next

\* An end keeps its types, and m_write_buffer_size, which is a size_t, is what it has given to
\* the system and the system has not reported: it never falls below zero.
THEOREM WebSocketTypes == Spec => []TypeOK
<1>1. IInv => TypeOK
  BY DEF IInv
<1>. QED
  BY <1>1, InitKeeps, StepKeeps, PTL DEF Spec

\* The assertions of send and end hold, and no frame is taken for an end that its owner has
\* deleted on "end", however the reads cut the frames and whoever closes first.
THEOREM AssertionsHoldAlways == Spec => []AssertionsHold
<1>1. IInv => AssertionsHold
  BY DEF IInv, AssertionsHold
<1>. QED
  BY <1>1, InitKeeps, StepKeeps, PTL DEF Spec

-----------------------------------------------------------------------------
(* Messages: the bytes between the ends are those of the frames that were sent *)
(* and not yet taken, where reads end in front of a payload or behind a frame. *)

Size(frame) == frame.off + frame.len

\* y is a byte of a frame that was sent, and z is the one behind it.
SentByte(y, sent) ==
    /\ y.frame.id \in 1 .. Len(sent) /\ y.frame = sent[y.frame.id]
    /\ y.at \in 1 .. Size(y.frame)
Follows(y, z) ==
    IF y.at < Size(y.frame) THEN z.frame = y.frame /\ z.at = y.at + 1
    ELSE z.frame.id = y.frame.id + 1 /\ z.at = 1

\* b has the bytes of the frames behind the first k, up to the last one if b is complete.
Carries(b, sent, k) ==
    /\ \A i \in 1 .. Len(b) : SentByte(b[i], sent)
    /\ Len(b) > 0 => b[1].frame.id = k + 1 /\ b[1].at = 1
    /\ \A i \in 1 .. Len(b) - 1 : Follows(b[i], b[i + 1])
Complete(b, sent, k) ==
    IF Len(b) = 0 THEN k = Len(sent)
    ELSE b[Len(b)].frame.id = Len(sent) /\ b[Len(b)].at = Size(b[Len(b)].frame)

\* Less than a frame, and what may be behind it.
Short(b) == Len(b) > 0 => Len(b) < Size(b[1].frame)
Cut(b) == Len(b) > 0 => ~InPayload(b[1])

\* The order in which an end sends its frames, and where it divides them.
Ordered(sent, e) ==
    \A i \in 1 .. Len(sent) :
        /\ sent[i].id = i
        /\ sent[i].op \in {"Binary", "Text"} => ~Unfinished(sent, i - 1)
        /\ sent[i].op = "Continue" => Unfinished(sent, i - 1)
        /\ sent[i].op = "Close" \/ owner[e] = "manager" => sent[i].fin
Divided(writes) == \A i \in 1 .. Len(writes) : Cut(writes[i])
Writes(s, e) == Ordered(s.sent, e) /\ Divided(s.writes)

\* What the first k frames mean, and what is kept of a message that they leave unfinished.
Heard(sent, save, k) == FlattenSeq([i \in 1 .. k |-> Event(sent, save, i)])
Kept(sent, k) == [j \in 1 .. Len(Run(sent, k)) |-> sent[Run(sent, k)[j]]]
Gathered(r, sent, k) ==
    r.saveFragment =>
        IF Unfinished(sent, k)
        THEN /\ r.fragments = Kept(sent, k)
             /\ r.saveBinary = (sent[Head(Run(sent, k))].op = "Binary")
        ELSE r.fragments = <<>>

\* r has taken the first k frames.
Listened(r, sent, k) ==
    r.failed = 0 => /\ r.heard = Heard(sent, r.saveFragment, k)
                    /\ r.life = "alive" => Gathered(r, sent, k)

\* r reads what w writes, with c on the way.
Under(w, r, c, k) ==
    /\ Carries((r.remain \o c) \o Unwritten(w), w.sent, k)
    /\ w.life = "alive" => Complete((r.remain \o c) \o Unwritten(w), w.sent, k)
    /\ Short(r.remain) /\ Cut(c \o Unwritten(w))
Delivers(w, r, c) ==
    /\ r.life # "garbled"
    /\ \E k \in 0 .. Len(w.sent) :
           Listened(r, w.sent, k) /\ (r.life = "alive" => Under(w, r, c, k))

Conversation ==
    /\ \A e \in Ends : Writes(ws[e], e)
    /\ \A e \in Ends : Delivers(ws[Peer(e)], ws[e], wire[e])

-----------------------------------------------------------------------------
(* The frames on the way                                                       *)

LEMMA BytePlaces ==
    ASSUME NEW x \in Seq(Byte), NEW y \in Seq(Byte)
    PROVE  /\ x \o y \in Seq(Byte) /\ Len(x \o y) = Len(x) + Len(y)
           /\ Len(x) \in Nat /\ Len(y) \in Nat
           /\ \A i \in 1 .. Len(x) : (x \o y)[i] = x[i]
           /\ \A i \in 1 .. Len(y) : (x \o y)[Len(x) + i] = y[i]
<1>1. /\ x \o y \in Seq(Byte) /\ Len(x \o y) = Len(x) + Len(y)
      /\ \A i \in 1 .. Len(x) + Len(y) :
            (x \o y)[i] = IF i <= Len(x) THEN x[i] ELSE y[i - Len(x)]
  BY ConcatProperties
<1>2. PICK m \in Nat, n \in Nat : m = Len(x) /\ n = Len(y)
  BY LenProperties
<1>3. \A i \in 1 .. m : i \in 1 .. m + n /\ i <= m
  OBVIOUS
<1>4. \A i \in 1 .. n : m + i \in 1 .. m + n /\ ~(m + i <= m) /\ (m + i) - m = i
  OBVIOUS
<1>. QED
  BY <1>1, <1>2, <1>3, <1>4

Regroups(x, y, z) == (x \o y) \o z = x \o (y \o z)

LEMMA Reassociated ==
    ASSUME NEW x \in Seq(Byte), NEW y \in Seq(Byte), NEW z \in Seq(Byte)
    PROVE  Regroups(x, y, z)
<1>1. (x \o y) \o z = x \o (y \o z)
  BY ConcatAssociative, SMTT(60)
<1>. QED
  BY <1>1 DEF Regroups

\* The bytes behind the first n.
LEMMA BehindPlaces ==
    ASSUME NEW b \in Seq(Byte), NEW n \in Nat, n <= Len(b)
    PROVE  /\ SubSeq(b, n + 1, Len(b)) \in Seq(Byte)
           /\ Len(SubSeq(b, n + 1, Len(b))) = Len(b) - n
           /\ \A i \in 1 .. Len(b) - n : SubSeq(b, n + 1, Len(b))[i] = b[n + i]
<1>1. PICK m \in Nat : m = Len(b) /\ n <= m /\ \A i \in 1 .. m : b[i] \in Byte
  BY LenProperties, ElementOfSeq
<1>2. \A i \in n + 1 .. m : b[i] \in Byte
  BY <1>1
<1>3. /\ SubSeq(b, n + 1, m) \in Seq(Byte)
      /\ Len(SubSeq(b, n + 1, m)) = IF n + 1 <= m THEN m - (n + 1) + 1 ELSE 0
      /\ \A i \in 1 .. m - (n + 1) + 1 : SubSeq(b, n + 1, m)[i] = b[(n + 1) + i - 1]
  BY <1>2, SubSeqProperties
<1>4. /\ m - (n + 1) + 1 = m - n
      /\ ~(n + 1 <= m) => m - n = 0
      /\ \A i \in 1 .. m - n : (n + 1) + i - 1 = n + i
  BY <1>1
<1>. QED
  BY <1>1, <1>3, <1>4

LEMMA SizeType ==
    ASSUME NEW frame \in Frame
    PROVE  Size(frame) \in Nat /\ Size(frame) >= 2 /\ Size(frame) = frame.off + frame.len
           /\ frame.off \in {2, 3} /\ frame.len \in Nat /\ frame.id \in Nat
<1>1. frame.off \in {2, 3} /\ frame.len \in Nat /\ frame.id \in Nat
  BY DEF Frame
<1>. QED
  BY <1>1 DEF Size

LEMMA CarriesFirst ==
    ASSUME NEW b \in Seq(Byte), NEW sent \in Seq(Frame), NEW k \in Nat,
           Carries(b, sent, k), Len(b) > 0
    PROVE  /\ b[1] \in Byte /\ b[1].at = 1 /\ b[1].frame = sent[k + 1]
           /\ k + 1 \in 1 .. Len(sent) /\ b[1].frame \in Frame /\ b[1].frame.id = k + 1
<1>1. 1 \in 1 .. Len(b)
  BY LenProperties
<1>2. b[1] \in Byte
  BY <1>1, ElementOfSeq
<1>3. b[1].frame \in Frame
  BY <1>2 DEF Byte
<1>. QED
  BY <1>1, <1>2, <1>3 DEF Carries, SentByte

\* The bytes of the first frame lie in order, and the next frame begins behind them.
LEMMA FrameLies ==
    ASSUME NEW b \in Seq(Byte), NEW sent \in Seq(Frame), NEW k \in Nat,
           Carries(b, sent, k), Len(b) > 0
    PROVE  /\ \A j \in 1 .. Len(b) : j <= Size(b[1].frame) =>
                                        b[j].frame = b[1].frame /\ b[j].at = j
           /\ Len(b) > Size(b[1].frame) => /\ b[Size(b[1].frame) + 1].frame.id = k + 2
                                           /\ b[Size(b[1].frame) + 1].at = 1
<1>1. PICK frame \in Frame, n \in Nat, m \in Nat :
          /\ frame = b[1].frame /\ n = Size(frame) /\ n >= 2 /\ m = Len(b) /\ m > 0
          /\ b[1].at = 1 /\ frame.id = k + 1
  BY CarriesFirst, SizeType, LenProperties
<1>2. \A i \in 1 .. m - 1 : Follows(b[i], b[i + 1])
  BY <1>1 DEF Carries
<1>3. ASSUME NEW j \in 1 .. m, j <= n PROVE b[j].frame = frame /\ b[j].at = j
  <2>. DEFINE P == {i \in 0 .. j - 1 : b[i + 1].frame = frame /\ b[i + 1].at = i + 1}
  <2>1. 0 \in P
    BY <1>1
  <2>2. ASSUME NEW i \in 0 .. (j - 1) - 1, i \in P PROVE i + 1 \in P
    <3>1. i + 1 \in 1 .. m - 1 /\ i + 1 \in 0 .. j - 1 /\ i + 1 < n /\ (i + 1) + 1 = i + 2
      BY <1>1, <1>3
    <3>2. Follows(b[i + 1], b[i + 2])
      BY <1>2, <3>1
    <3>3. b[i + 1].frame = frame /\ b[i + 1].at = i + 1
      BY <2>2
    <3>4. b[i + 2].frame = frame /\ b[i + 2].at = i + 2
      BY <1>1, <3>1, <3>2, <3>3 DEF Follows
    <3>. QED
      BY <3>1, <3>4
  <2>3. j - 1 \in P
    <3>. HIDE DEF P
    <3>1. j - 1 \in Nat
      OBVIOUS
    <3>. QED
      BY <2>1, <2>2, <3>1, InductionTo
  <2>4. (j - 1) + 1 = j
    OBVIOUS
  <2>. QED
    BY <2>3, <2>4
<1>4. ASSUME m > n PROVE b[n + 1].frame.id = k + 2 /\ b[n + 1].at = 1
  <2>1. n \in 1 .. m /\ n <= n /\ n \in 1 .. m - 1
    BY <1>1, <1>4
  <2>2. b[n].frame = frame /\ b[n].at = n
    BY <1>3, <2>1
  <2>3. Follows(b[n], b[n + 1])
    BY <1>2, <2>1
  <2>4. ~(n < n) /\ (k + 1) + 1 = k + 2
    OBVIOUS
  <2>. QED
    BY <1>1, <2>2, <2>3, <2>4 DEF Follows
<1>. QED
  BY <1>1, <1>3, <1>4

\* A frame is taken.
LEMMA CarriesBehind ==
    ASSUME NEW b \in Seq(Byte), NEW sent \in Seq(Frame), NEW k \in Nat, Carries(b, sent, k),
           Len(b) > 0, Size(b[1].frame) <= Len(b)
    PROVE  /\ Carries(SubSeq(b, Size(b[1].frame) + 1, Len(b)), sent, k + 1)
           /\ Complete(b, sent, k) =>
                  Complete(SubSeq(b, Size(b[1].frame) + 1, Len(b)), sent, k + 1)
<1>1. PICK frame \in Frame, n \in Nat, m \in Nat :
          /\ frame = b[1].frame /\ n = Size(frame) /\ n >= 2 /\ m = Len(b) /\ m >= n
          /\ frame.id = k + 1
  BY CarriesFirst, SizeType, LenProperties
<1>2. PICK c \in Seq(Byte) : /\ c = SubSeq(b, n + 1, m) /\ Len(c) = m - n
                             /\ \A i \in 1 .. m - n : c[i] = b[n + i]
  BY <1>1, BehindPlaces
<1>3. \A i \in 1 .. m - n : SentByte(c[i], sent)
  <2>1. \A i \in 1 .. m - n : n + i \in 1 .. m
    BY <1>1
  <2>. QED
    BY <1>1, <1>2, <2>1 DEF Carries
<1>4. m - n > 0 => c[1].frame.id = (k + 1) + 1 /\ c[1].at = 1
  <2>1. m - n > 0 => m > n /\ 1 \in 1 .. m - n
    BY <1>1
  <2>2. m > n => b[n + 1].frame.id = k + 2 /\ b[n + 1].at = 1
    BY <1>1, FrameLies
  <2>3. (k + 1) + 1 = k + 2
    OBVIOUS
  <2>. QED
    BY <1>2, <2>1, <2>2, <2>3
<1>5. \A i \in 1 .. (m - n) - 1 : Follows(c[i], c[i + 1])
  <2>1. ASSUME NEW i \in 1 .. (m - n) - 1
        PROVE  /\ i \in 1 .. m - n /\ i + 1 \in 1 .. m - n
               /\ n + i \in 1 .. m - 1 /\ (n + i) + 1 = n + (i + 1)
    <3>1. n \in Nat /\ m \in Nat /\ n >= 2 /\ m >= n
      BY <1>1
    <3>. QED
      BY <3>1
  <2>2. \A j \in 1 .. m - 1 : Follows(b[j], b[j + 1])
    BY <1>1 DEF Carries
  <2>. QED
    BY <1>2, <2>1, <2>2
<1>6. Carries(c, sent, k + 1)
  BY <1>2, <1>3, <1>4, <1>5 DEF Carries
<1>7. ASSUME Complete(b, sent, k) PROVE Complete(c, sent, k + 1)
  <2>1. b[m].frame.id = Len(sent) /\ b[m].at = Size(b[m].frame)
    BY <1>1, <1>7 DEF Complete
  <2>2. CASE m = n
    <3>1. m \in 1 .. m /\ m <= n
      BY <1>1, <2>2
    <3>2. b[m].frame = frame
      BY <1>1, <3>1, FrameLies
    <3>3. Len(c) = 0
      BY <1>1, <1>2, <2>2
    <3>. QED
      BY <1>1, <2>1, <3>2, <3>3 DEF Complete
  <2>3. CASE m > n
    <3>1. m - n \in 1 .. m - n /\ n + (m - n) = m /\ m - n # 0
      BY <1>1, <2>3
    <3>2. c[m - n] = b[m]
      BY <1>2, <3>1
    <3>. QED
      BY <1>2, <2>1, <3>1, <3>2 DEF Complete
  <2>. QED
    BY <1>1, <2>2, <2>3
<1>. QED
  BY <1>1, <1>2, <1>6, <1>7

\* The first bytes.
LEMMA CarriesBefore ==
    ASSUME NEW x \in Seq(Byte), NEW y \in Seq(Byte), NEW sent, NEW k, Carries(x \o y, sent, k)
    PROVE  Carries(x, sent, k)
<1>1. PICK z \in Seq(Byte), m \in Nat, n \in Nat :
          /\ z = x \o y /\ m = Len(x) /\ n = Len(y) /\ Len(z) = m + n
          /\ \A i \in 1 .. m : z[i] = x[i]
  <2>1. /\ x \o y \in Seq(Byte) /\ Len(x \o y) = Len(x) + Len(y)
        /\ Len(x) \in Nat /\ Len(y) \in Nat
        /\ \A i \in 1 .. Len(x) : (x \o y)[i] = x[i]
    BY BytePlaces
  <2>. QED
    BY <2>1
<1>2. \A i \in 1 .. m : i \in 1 .. m + n
  OBVIOUS
<1>3. \A i \in 1 .. m - 1 : i \in 1 .. m /\ i + 1 \in 1 .. m /\ i \in 1 .. (m + n) - 1
  OBVIOUS
<1>4. m > 0 => m + n > 0 /\ 1 \in 1 .. m
  OBVIOUS
<1>5. Carries(z, sent, k)
  BY <1>1
<1>6. \A i \in 1 .. m : SentByte(x[i], sent)
  BY <1>1, <1>2, <1>5 DEF Carries
<1>7. \A i \in 1 .. m - 1 : Follows(x[i], x[i + 1])
  <2>1. \A i \in 1 .. (m + n) - 1 : Follows(z[i], z[i + 1])
    BY <1>1, <1>5 DEF Carries
  <2>. QED
    BY <1>1, <1>3, <2>1
<1>8. m > 0 => x[1].frame.id = k + 1 /\ x[1].at = 1
  BY <1>1, <1>4, <1>5 DEF Carries
<1>. QED
  BY <1>1, <1>6, <1>7, <1>8 DEF Carries

\* Bytes that come in order: those of frame, from its first one.
WholeFrame(c, frame) ==
    /\ c \in Seq(Byte) /\ Len(c) = Size(frame)
    /\ \A i \in 1 .. Size(frame) : c[i].frame = frame /\ c[i].at = i

\* A frame is sent.
LEMMA CarriesMore ==
    ASSUME NEW b \in Seq(Byte), NEW sent \in Seq(Frame), NEW k \in Nat,
           Carries(b, sent, k), Complete(b, sent, k),
           NEW frame \in Frame, frame.id = Len(sent) + 1, NEW c, WholeFrame(c, frame)
    PROVE  /\ Carries(b \o c, Append(sent, frame), k)
           /\ Complete(b \o c, Append(sent, frame), k)
<1>1. PICK n \in Nat, more \in Seq(Frame) :
          /\ n = Len(sent) /\ more = Append(sent, frame) /\ Len(more) = n + 1
          /\ \A i \in 1 .. n : more[i] = sent[i]
          /\ more[n + 1] = frame
  <2>1. /\ Append(sent, frame) \in Seq(Frame) /\ Len(Append(sent, frame)) = Len(sent) + 1
        /\ \A i \in 1 .. Len(sent) : Append(sent, frame)[i] = sent[i]
        /\ Append(sent, frame)[Len(sent) + 1] = frame
    BY AppendProperties
  <2>2. Len(sent) \in Nat
    BY LenProperties
  <2>. QED
    BY <2>1, <2>2
<1>2. PICK size \in Nat : /\ size = Size(frame) /\ size >= 2 /\ c \in Seq(Byte) /\ Len(c) = size
                          /\ \A i \in 1 .. size : c[i].frame = frame /\ c[i].at = i
  BY SizeType DEF WholeFrame
<1>3. PICK z \in Seq(Byte), m \in Nat :
          /\ z = b \o c /\ m = Len(b) /\ Len(z) = m + size
          /\ \A i \in 1 .. m : z[i] = b[i]
          /\ \A i \in 1 .. size : z[m + i] = c[i]
  <2>1. /\ b \o c \in Seq(Byte) /\ Len(b \o c) = Len(b) + Len(c)
        /\ Len(b) \in Nat
        /\ \A i \in 1 .. Len(b) : (b \o c)[i] = b[i]
        /\ \A i \in 1 .. Len(c) : (b \o c)[Len(b) + i] = c[i]
    BY <1>2, BytePlaces
  <2>2. Len(b \o c) = Len(b) + size /\ \A i \in 1 .. size : (b \o c)[Len(b) + i] = c[i]
    BY <1>2, <2>1
  <2>3. PICK z \in Seq(Byte), m \in Nat : z = b \o c /\ m = Len(b)
    BY <2>1
  <2>. QED
    BY <2>1, <2>2, <2>3
<1>4. frame.id = n + 1 /\ n + 1 \in 1 .. n + 1 /\ \A i \in 1 .. n : i \in 1 .. n + 1
  BY <1>1
<1>5. \A i \in 1 .. m + size : i \in 1 .. m \/ (i - m \in 1 .. size /\ m + (i - m) = i)
  OBVIOUS
<1>6. \A i \in 1 .. m + size : SentByte(z[i], more)
  <2>1. \A i \in 1 .. m : SentByte(z[i], more)
    <3>1. \A i \in 1 .. m : SentByte(b[i], sent)
      BY <1>3 DEF Carries
    <3>. QED
      BY <1>1, <1>3, <1>4, <3>1 DEF SentByte
  <2>2. ASSUME NEW i \in 1 .. size PROVE SentByte(z[m + i], more)
    <3>1. z[m + i] = c[i] /\ c[i].frame = frame /\ c[i].at = i
      BY <1>2, <1>3
    <3>2. more[n + 1] = frame /\ frame.id = n + 1 /\ n + 1 \in 1 .. Len(more)
      BY <1>1, <1>4
    <3>. QED
      BY <1>2, <3>1, <3>2 DEF SentByte
  <2>. QED
    BY <1>5, <2>1, <2>2
<1>7. c[1].frame = frame /\ c[1].at = 1 /\ z[m + 1] = c[1]
  <2>1. 1 \in 1 .. size
    BY <1>2
  <2>. QED
    BY <1>2, <1>3, <2>1
<1>8. m > 0 => b[m].frame.id = n /\ b[m].at = Size(b[m].frame) /\ z[m] = b[m]
  <2>1. m > 0 => m \in 1 .. m /\ ~(m = 0)
    OBVIOUS
  <2>. QED
    BY <1>1, <1>3, <2>1 DEF Complete
<1>9. m = 0 => k = n
  BY <1>1, <1>3 DEF Complete
<1>10. z[1].frame.id = k + 1 /\ z[1].at = 1
  <2>1. CASE m = 0
    <3>1. m + 1 = 1
      BY <2>1
    <3>. QED
      BY <1>4, <1>7, <1>9, <2>1, <3>1
  <2>2. CASE m > 0
    <3>1. 1 \in 1 .. m
      BY <2>2
    <3>. QED
      BY <1>3, <2>2, <3>1 DEF Carries
  <2>. QED
    BY <2>1, <2>2
<1>11. ASSUME NEW i \in 1 .. (m + size) - 1 PROVE Follows(z[i], z[i + 1])
  <2>1. CASE i < m
    <3>1. i \in 1 .. m - 1 /\ i \in 1 .. m /\ i + 1 \in 1 .. m
      BY <2>1
    <3>2. Follows(b[i], b[i + 1])
      BY <1>3, <3>1 DEF Carries
    <3>. QED
      BY <1>3, <3>1, <3>2
  <2>2. CASE i = m
    <3>1. m > 0 /\ ~(b[m].at < Size(b[m].frame))
      <4>1. m > 0
        BY <2>2
      <4>2. PICK y \in Byte : y = b[m]
        <5>1. m \in 1 .. Len(b)
          BY <1>3, <4>1
        <5>. QED
          BY <5>1, ElementOfSeq
      <4>3. y.at \in Nat
        BY DEF Byte
      <4>4. y.at = Size(y.frame)
        BY <1>8, <4>1, <4>2
      <4>. QED
        BY <4>1, <4>2, <4>3, <4>4
    <3>. QED
      BY <1>4, <1>7, <1>8, <2>2, <3>1 DEF Follows
  <2>3. CASE i > m
    <3>1. PICK j \in Nat : /\ j = i - m /\ j \in 1 .. size /\ j + 1 \in 1 .. size /\ j < size
                           /\ i = m + j /\ i + 1 = m + (j + 1)
      <4>1. i - m \in Nat /\ i - m \in 1 .. size /\ (i - m) + 1 \in 1 .. size /\ i - m < size
            /\ i = m + (i - m) /\ i + 1 = m + ((i - m) + 1)
        BY <2>3
      <4>. QED
        BY <4>1
    <3>2. /\ z[m + j].frame = frame /\ z[m + j].at = j
          /\ z[m + (j + 1)].frame = frame /\ z[m + (j + 1)].at = j + 1
      BY <1>2, <1>3, <3>1
    <3>. QED
      BY <1>2, <3>1, <3>2 DEF Follows
  <2>. QED
    BY <2>1, <2>2, <2>3
<1>12. Carries(z, more, k)
  BY <1>3, <1>6, <1>10, <1>11 DEF Carries
<1>13. Complete(z, more, k)
  <2>1. size \in 1 .. size /\ m + size # 0
    BY <1>2
  <2>2. z[m + size].frame = frame /\ z[m + size].at = size
    BY <1>2, <1>3, <2>1
  <2>. QED
    BY <1>1, <1>2, <1>3, <1>4, <2>1, <2>2 DEF Complete
<1>. QED
  BY <1>1, <1>3, <1>12, <1>13

\* Where a read may end.
LEMMA CutParts ==
    ASSUME NEW x \in Seq(Byte), NEW y \in Seq(Byte)
    PROVE  /\ Cut(x \o y) => Cut(x)
           /\ Len(x) > 0 /\ Cut(x) => Cut(x \o y)
           /\ Cut(x) /\ Cut(y) => Cut(x \o y)
<1>1. PICK m \in Nat, n \in Nat :
          /\ m = Len(x) /\ n = Len(y) /\ Len(x \o y) = m + n
          /\ \A i \in 1 .. m : (x \o y)[i] = x[i]
          /\ \A i \in 1 .. n : (x \o y)[m + i] = y[i]
  <2>1. /\ Len(x \o y) = Len(x) + Len(y)
        /\ Len(x) \in Nat /\ Len(y) \in Nat
        /\ \A i \in 1 .. Len(x) : (x \o y)[i] = x[i]
        /\ \A i \in 1 .. Len(y) : (x \o y)[Len(x) + i] = y[i]
    BY BytePlaces
  <2>. QED
    BY <2>1
<1>2. CASE m > 0
  <2>1. 1 \in 1 .. m /\ m + n > 0
    BY <1>2
  <2>2. (x \o y)[1] = x[1]
    BY <1>1, <2>1
  <2>. QED
    BY <1>1, <1>2, <2>1, <2>2 DEF Cut
<1>3. CASE m = 0
  <2>1. Cut(x) /\ ~(Len(x) > 0)
    BY <1>1, <1>3 DEF Cut
  <2>2. m + n > 0 => n > 0 /\ 1 \in 1 .. n /\ m + 1 = 1
    BY <1>3
  <2>3. n > 0 => (x \o y)[1] = y[1]
    BY <1>1, <1>3, <2>2
  <2>4. Cut(y) => Cut(x \o y)
    BY <1>1, <2>2, <2>3 DEF Cut
  <2>. QED
    BY <2>1, <2>4
<1>. QED
  BY <1>2, <1>3

LEMMA CutNothing == Cut(<<>>) /\ Short(<<>>)
<1>1. Len(<<>>) = 0
  BY EmptySeq
<1>. QED
  BY <1>1 DEF Cut, Short

\* Writes are divided where reads may end.
LEMMA DividedCut ==
    ASSUME NEW writes \in Seq(Seq(Byte)), Divided(writes)
    PROVE  FlattenSeq(writes) \in Seq(Byte) /\ Cut(FlattenSeq(writes))
<1>1. PICK m \in Nat : m = Len(writes) /\ \A i \in 1 .. m : Cut(writes[i]) /\ writes[i] \in Seq(Byte)
  BY LenProperties, ElementOfSeq DEF Divided
<1>. DEFINE P == {j \in 0 .. m : Cut(FlattenSeq(SubSeq(writes, 1, j)))}
<1>2. 0 \in P
  <2>1. SubSeq(writes, 1, 0) = <<>>
    BY SubSeqEmpty
  <2>2. FlattenSeq(SubSeq(writes, 1, 0)) = <<>>
    BY <2>1, FlattenEmpty
  <2>. QED
    BY <2>2, CutNothing
<1>3. ASSUME NEW j \in 0 .. m - 1, j \in P PROVE j + 1 \in P
  <2>1. PICK T : T = Seq(Byte)
    OBVIOUS
  <2>2. PICK w \in Seq(T) : w = writes /\ Len(w) = m /\ \A i \in 1 .. m : w[i] \in T
    BY <1>1, <2>1
  <2>3. j + 1 \in 1 .. m /\ j \in 0 .. m /\ 1 \in Nat /\ 1 <= j + 1 /\ j + 1 <= m
    OBVIOUS
  <2>4. SubSeq(w, 1, j) \in Seq(T)
    <3>1. \A i \in 1 .. j : w[i] \in T
      BY <2>2, <2>3
    <3>. QED
      BY <3>1, SubSeqProperties
  <2>5. PICK v \in Seq(T), x \in T : v = SubSeq(w, 1, j) /\ x = w[j + 1]
    BY <2>2, <2>3, <2>4
  <2>6. SubSeq(w, 1, j + 1) = Append(SubSeq(w, 1, j), w[j + 1])
    <3>1. 1 \in 1 .. Len(w) /\ j + 1 \in 1 .. Len(w) /\ (j + 1) - 1 = j
      BY <2>2, <2>3
    <3>2. SubSeq(w, 1, j + 1) = SubSeq(w, 1, (j + 1) - 1) \o <<w[j + 1]>>
      BY <3>1, SubSeqRecursiveSecond
    <3>. QED
      BY <2>4, <2>5, <3>1, <3>2, AppendIsConcat
  <2>7. FlattenSeq(v) \in Seq(Byte) /\ FlattenSeq(Append(v, x)) = FlattenSeq(v) \o x
    BY <2>1, <2>5, FlattenAppend
  <2>8. Cut(FlattenSeq(v)) /\ Cut(x)
    BY <1>1, <1>3, <2>2, <2>3, <2>5
  <2>9. Cut(FlattenSeq(v) \o x)
    BY <2>1, <2>5, <2>7, <2>8, CutParts
  <2>10. SubSeq(writes, 1, j + 1) = Append(v, x)
    BY <2>2, <2>5, <2>6
  <2>11. Cut(FlattenSeq(SubSeq(writes, 1, j + 1)))
    BY <2>7, <2>9, <2>10
  <2>12. j + 1 \in 0 .. m
    OBVIOUS
  <2>. QED
    BY <2>11, <2>12
<1>4. m \in P
  <2>. HIDE DEF P
  <2>. QED
    BY <1>2, <1>3, InductionTo
<1>5. SubSeq(writes, 1, m) = writes
  BY <1>1, SubSeqFull
<1>6. FlattenSeq(writes) \in Seq(Byte)
  <2>1. PICK x \in Seq(Byte) : x = <<>>
    BY EmptySeq
  <2>. QED
    BY <2>1, FlattenAppend
<1>. QED
  BY <1>4, <1>5, <1>6

-----------------------------------------------------------------------------
(* What the frames mean                                                        *)

\* f has the runs of the first n frames.
RunsOf(sent, n, f) ==
    f = [k \in 0 .. n |->
            IF k = 0 THEN <<>>
            ELSE IF sent[k].op \in {"Binary", "Text"} THEN <<k>>
            ELSE IF sent[k].op = "Continue" THEN Append(f[k - 1], k) ELSE f[k - 1]]

LEMMA RunsExist ==
    ASSUME NEW sent, NEW n \in Nat
    PROVE  \E f \in [0 .. n -> Seq(Nat)] : RunsOf(sent, n, f)
<1>. DEFINE S == 0 .. n
            R == Seq(Nat)
            id == [k \in S |-> k]
            out == [k \in S |-> <<>>]
            next == [k \in S |-> IF k = 0 THEN 0 ELSE k - 1]
            step == [k \in S |-> [r \in R |->
                        IF sent[k].op \in {"Binary", "Text"} THEN <<k>>
                        ELSE IF sent[k].op = "Continue" THEN Append(r, k) ELSE r]]
<1>1. \A k \in S : k # 0 => k \in 1 .. n /\ k - 1 \in S
  OBVIOUS
<1>2. \A k \in S : step[k] \in [R -> R]
  <2>1. ASSUME NEW k \in S, NEW r \in R PROVE <<k>> \in R /\ Append(r, k) \in R
    <3>1. k \in Nat
      OBVIOUS
    <3>. QED
      BY <3>1, AppendProperties
  <2>. HIDE DEF R
  <2>. QED
    BY <2>1
<1>3. Recursion(S, R, n, id, {0}, out, next, step)
  <2>1. next \in [S -> S] /\ \A k \in S \ {0} : id[next[k]] < id[k]
    BY <1>1
  <2>2. step \in [S -> [R -> R]]
    BY <1>2
  <2>3. id \in [S -> 0 .. n] /\ {0} \in SUBSET S
    OBVIOUS
  <2>4. out \in [S -> R]
    BY EmptySeq
  <2>. HIDE DEF S, R, id, out, next, step
  <2>. QED
    BY <2>1, <2>2, <2>3, <2>4 DEF Recursion
<1>4. PICK f \in [S -> R] : Solution(S, {0}, out, next, step, f)
  <2>. HIDE DEF S, R, id, out, next, step
  <2>. QED
    BY <1>3, BoundedRecursion
<1>5. ASSUME NEW k \in S
      PROVE  f[k] = IF k = 0 THEN <<>>
                    ELSE IF sent[k].op \in {"Binary", "Text"} THEN <<k>>
                    ELSE IF sent[k].op = "Continue" THEN Append(f[k - 1], k) ELSE f[k - 1]
  <2>1. f[k] = IF k \in {0} THEN out[k] ELSE step[k][f[next[k]]]
    BY <1>4 DEF Solution
  <2>2. CASE k = 0
    BY <2>1, <2>2
  <2>3. CASE k # 0
    <3>1. next[k] = k - 1 /\ k - 1 \in S /\ f[k - 1] \in R
      BY <1>1, <2>3
    <3>2. f[k] = step[k][f[k - 1]]
      <4>. HIDE DEF step, next
      <4>. QED
        BY <2>1, <2>3, <3>1
    <3>3. \A r \in R : step[k][r] = IF sent[k].op \in {"Binary", "Text"} THEN <<k>>
                                    ELSE IF sent[k].op = "Continue" THEN Append(r, k) ELSE r
      <4>. HIDE DEF R
      <4>. QED
        OBVIOUS
    <3>. HIDE DEF step, next, R
    <3>. QED
      BY <2>3, <3>1, <3>2, <3>3
  <2>. QED
    BY <2>2, <2>3
<1>. QED
  BY <1>5 DEF RunsOf

\* a and b have the same first m frames.
SameTo(a, b, m) == \A k \in 1 .. m : a[k] = b[k]

LEMMA RunsAgree ==
    ASSUME NEW m \in Nat, NEW n \in Nat, m <= n, NEW a, NEW b, NEW f, NEW g,
           RunsOf(a, m, f), RunsOf(b, n, g), SameTo(a, b, m)
    PROVE  f[m] = g[m]
<1>. DEFINE P == {k \in 0 .. m : f[k] = g[k]}
            Value(sent, r, k) == IF sent[k].op \in {"Binary", "Text"} THEN <<k>>
                                 ELSE IF sent[k].op = "Continue" THEN Append(r, k) ELSE r
<1>1. /\ \A k \in 0 .. m : f[k] = IF k = 0 THEN <<>> ELSE Value(a, f[k - 1], k)
      /\ \A k \in 0 .. n : g[k] = IF k = 0 THEN <<>> ELSE Value(b, g[k - 1], k)
  BY DEF RunsOf
<1>2. 0 \in P
  <2>1. 0 \in 0 .. m /\ 0 \in 0 .. n
    OBVIOUS
  <2>2. f[0] = <<>> /\ g[0] = <<>>
    BY <1>1, <2>1
  <2>. QED
    BY <2>1, <2>2
<1>3. ASSUME NEW k \in 0 .. m - 1, k \in P PROVE k + 1 \in P
  <2>1. k + 1 \in 0 .. m /\ k + 1 \in 0 .. n /\ k + 1 # 0 /\ (k + 1) - 1 = k /\ k + 1 \in 1 .. m
    OBVIOUS
  <2>2. Value(a, f[k], k + 1) = Value(b, g[k], k + 1)
    BY <1>3, <2>1 DEF SameTo
  <2>3. f[k + 1] = Value(a, f[k], k + 1) /\ g[k + 1] = Value(b, g[k], k + 1)
    <3>. HIDE DEF Value
    <3>. QED
      BY <1>1, <2>1
  <2>. HIDE DEF Value
  <2>. QED
    BY <2>1, <2>2, <2>3
<1>4. m \in P
  <2>. HIDE DEF P
  <2>. QED
    BY <1>2, <1>3, InductionTo
<1>. QED
  BY <1>4

LEMMA RunIs ==
    ASSUME NEW sent, NEW n \in Nat
    PROVE  \E f \in [0 .. n -> Seq(Nat)] : RunsOf(sent, n, f) /\ Run(sent, n) = f[n]
<1>1. PICK f \in [0 .. n -> Seq(Nat)] : RunsOf(sent, n, f)
  BY RunsExist
<1>2. Run(sent, n) = (CHOOSE g : RunsOf(sent, n, g))[n]
  BY Zenon DEF Run, RunsOf
<1>3. PICK g : RunsOf(sent, n, g) /\ Run(sent, n) = g[n]
  BY <1>1, <1>2
<1>4. f[n] = g[n]
  <2>1. n <= n /\ SameTo(sent, sent, n)
    BY DEF SameTo
  <2>. QED
    BY <1>1, <1>3, <2>1, RunsAgree
<1>. QED
  BY <1>1, <1>3, <1>4

\* A frame more.
LEMMA RunStep ==
    ASSUME NEW sent, NEW n \in Nat
    PROVE  /\ Run(sent, n) \in Seq(Nat) /\ Run(sent, 0) = <<>>
           /\ Run(sent, n + 1) =
                 IF sent[n + 1].op \in {"Binary", "Text"} THEN <<n + 1>>
                 ELSE IF sent[n + 1].op = "Continue" THEN Append(Run(sent, n), n + 1)
                 ELSE Run(sent, n)
<1>1. PICK f \in [0 .. n -> Seq(Nat)] : RunsOf(sent, n, f) /\ Run(sent, n) = f[n]
  BY RunIs
<1>2. PICK m \in Nat : m = n + 1
  OBVIOUS
<1>3. PICK g \in [0 .. m -> Seq(Nat)] : RunsOf(sent, m, g) /\ Run(sent, m) = g[m]
  BY RunIs
<1>4. f[n] = g[n]
  <2>1. n <= m /\ SameTo(sent, sent, n)
    BY <1>2 DEF SameTo
  <2>2. ASSUME NEW x, NEW y, RunsOf(sent, n, x), RunsOf(sent, m, y) PROVE x[n] = y[n]
    BY <2>1, <2>2, RunsAgree
  <2>. QED
    BY <1>1, <1>3, <2>2
<1>5. g[m] = IF sent[m].op \in {"Binary", "Text"} THEN <<m>>
             ELSE IF sent[m].op = "Continue" THEN Append(g[m - 1], m) ELSE g[m - 1]
  <2>1. m \in 0 .. m /\ m # 0
    BY <1>2
  <2>. QED
    BY <1>3, <2>1 DEF RunsOf
<1>6. m - 1 = n /\ n \in 0 .. n
  BY <1>2
<1>7. Run(sent, 0) = <<>>
  <2>1. PICK z \in Nat : z = 0
    OBVIOUS
  <2>2. PICK h \in [0 .. z -> Seq(Nat)] : RunsOf(sent, z, h) /\ Run(sent, z) = h[z]
    BY RunIs
  <2>3. 0 \in 0 .. z
    BY <2>1
  <2>4. h[0] = <<>>
    BY <2>2, <2>3 DEF RunsOf
  <2>. QED
    BY <2>1, <2>2, <2>4
<1>. QED
  BY <1>1, <1>2, <1>3, <1>4, <1>5, <1>6, <1>7

LEMMA RunSame ==
    ASSUME NEW a, NEW b, NEW n \in Nat, \A k \in 1 .. n : a[k] = b[k]
    PROVE  Run(a, n) = Run(b, n)
<1>1. PICK f \in [0 .. n -> Seq(Nat)] : RunsOf(a, n, f) /\ Run(a, n) = f[n]
  BY RunIs
<1>2. PICK g \in [0 .. n -> Seq(Nat)] : RunsOf(b, n, g) /\ Run(b, n) = g[n]
  BY RunIs
<1>3. f[n] = g[n]
  <2>1. n <= n /\ SameTo(a, b, n)
    BY DEF SameTo
  <2>2. ASSUME NEW x, NEW y, RunsOf(a, n, x), RunsOf(b, n, y) PROVE x[n] = y[n]
    BY <2>1, <2>2, RunsAgree
  <2>. QED
    BY <1>1, <1>2, <2>2
<1>. QED
  BY <1>1, <1>2, <1>3

\* A run names frames that were sent.
LEMMA RunPlaces ==
    ASSUME NEW sent, NEW n \in Nat
    PROVE  \A j \in 1 .. Len(Run(sent, n)) : Run(sent, n)[j] \in 1 .. n
<1>. DEFINE P == {k \in 0 .. n : \A j \in 1 .. Len(Run(sent, k)) : Run(sent, k)[j] \in 1 .. k}
<1>1. 0 \in P
  <2>1. Run(sent, 0) = <<>> /\ Len(<<>>) = 0
    BY RunStep, EmptySeq
  <2>2. 0 \in 0 .. n /\ 1 .. 0 = {}
    OBVIOUS
  <2>3. \A j \in 1 .. Len(Run(sent, 0)) : Run(sent, 0)[j] \in 1 .. 0
    BY <2>1, <2>2
  <2>. QED
    BY <2>2, <2>3
<1>2. ASSUME NEW k \in 0 .. n - 1, k \in P PROVE k + 1 \in P
  <2>1. k \in Nat /\ k + 1 \in 0 .. n /\ k + 1 \in 1 .. k + 1 /\ \A i \in 1 .. k : i \in 1 .. k + 1
    OBVIOUS
  <2>2. PICK q \in Seq(Nat), r \in Seq(Nat), m \in Nat :
            /\ r = Run(sent, k) /\ q = Run(sent, k + 1) /\ m = Len(r)
            /\ q = <<k + 1>> \/ q = Append(r, k + 1) \/ q = r
    <3>1. PICK r \in Seq(Nat) : r = Run(sent, k)
      BY <2>1, RunStep
    <3>2. PICK m \in Nat : m = Len(r)
      BY LenProperties
    <3>3. PICK q \in Seq(Nat) : q = Run(sent, k + 1)
      <4>1. k + 1 \in Nat
        OBVIOUS
      <4>. QED
        BY <4>1, RunStep
    <3>4. q = <<k + 1>> \/ q = Append(r, k + 1) \/ q = r
      BY <2>1, <3>1, <3>3, RunStep
    <3>. QED
      BY <3>1, <3>2, <3>3, <3>4
  <2>3. \A j \in 1 .. m : r[j] \in 1 .. k + 1
    BY <1>2, <2>1, <2>2
  <2>4. \A j \in 1 .. Len(q) : q[j] \in 1 .. k + 1
    <3>1. CASE q = <<k + 1>>
      BY <2>1, <3>1
    <3>2. CASE q = Append(r, k + 1)
      <4>1. /\ Len(q) = m + 1 /\ \A j \in 1 .. m : q[j] = r[j]
            /\ q[m + 1] = k + 1
        <5>1. PICK x \in Nat : x = k + 1
          BY <2>1
        <5>2. /\ Len(Append(r, x)) = Len(r) + 1 /\ Append(r, x)[Len(r) + 1] = x
              /\ \A j \in 1 .. Len(r) : Append(r, x)[j] = r[j]
          BY AppendProperties
        <5>. QED
          BY <2>2, <3>2, <5>1, <5>2
      <4>2. \A j \in 1 .. m + 1 : j \in 1 .. m \/ j = m + 1
        OBVIOUS
      <4>. QED
        BY <2>1, <2>3, <4>1, <4>2
    <3>3. CASE q = r
      BY <2>2, <2>3, <3>3
    <3>. QED
      BY <2>2, <3>1, <3>2, <3>3
  <2>. QED
    BY <2>1, <2>2, <2>4
<1>3. n \in P
  <2>. HIDE DEF P
  <2>. QED
    BY <1>1, <1>2, InductionTo
<1>. QED
  BY <1>3

\* A message that is unfinished depends on the frames so far, and what a frame makes of it.
LEMMA UnfinishedSame ==
    ASSUME NEW a, NEW b, NEW n \in Nat, \A k \in 1 .. n : a[k] = b[k]
    PROVE  Unfinished(a, n) <=> Unfinished(b, n)
<1>1. \A j \in 1 .. n : \A i \in j + 1 .. n : i \in 1 .. n
  OBVIOUS
<1>. QED
  BY <1>1 DEF Unfinished

LEMMA UnfinishedStep ==
    ASSUME NEW sent, NEW n \in Nat
    PROVE  /\ sent[n + 1].op = "Ping" => (Unfinished(sent, n + 1) <=> Unfinished(sent, n))
           /\ sent[n + 1].op # "Ping" => (Unfinished(sent, n + 1) <=> ~sent[n + 1].fin)
<1>1. n + 1 \in 1 .. n + 1 /\ \A i \in 1 .. n : i \in 1 .. n + 1 /\ n + 1 \in i + 1 .. n + 1
  OBVIOUS
<1>2. \A i \in 1 .. n + 1 : i \in 1 .. n \/ i = n + 1
  OBVIOUS
<1>3. \A j \in 1 .. n : \A i \in j + 1 .. n + 1 : i \in j + 1 .. n \/ i = n + 1
  OBVIOUS
<1>4. \A j \in 1 .. n : \A i \in j + 1 .. n : i \in j + 1 .. n + 1
  OBVIOUS
<1>5. ~ \E i \in (n + 1) + 1 .. n + 1 : TRUE
  OBVIOUS
<1>6. ASSUME sent[n + 1].op = "Ping" PROVE Unfinished(sent, n + 1) <=> Unfinished(sent, n)
  <2>1. ASSUME Unfinished(sent, n + 1) PROVE Unfinished(sent, n)
    <3>1. PICK j \in 1 .. n + 1 : /\ sent[j].op # "Ping" /\ ~sent[j].fin
                                  /\ \A i \in j + 1 .. n + 1 : sent[i].op = "Ping"
      BY <2>1 DEF Unfinished
    <3>2. j \in 1 .. n
      BY <1>2, <1>6, <3>1
    <3>. QED
      BY <1>4, <3>1, <3>2 DEF Unfinished
  <2>2. ASSUME Unfinished(sent, n) PROVE Unfinished(sent, n + 1)
    <3>1. PICK j \in 1 .. n : /\ sent[j].op # "Ping" /\ ~sent[j].fin
                              /\ \A i \in j + 1 .. n : sent[i].op = "Ping"
      BY <2>2 DEF Unfinished
    <3>. QED
      BY <1>1, <1>3, <1>6, <3>1 DEF Unfinished
  <2>. QED
    BY <2>1, <2>2
<1>7. ASSUME sent[n + 1].op # "Ping" PROVE Unfinished(sent, n + 1) <=> ~sent[n + 1].fin
  <2>1. ASSUME Unfinished(sent, n + 1) PROVE ~sent[n + 1].fin
    <3>1. PICK j \in 1 .. n + 1 : /\ sent[j].op # "Ping" /\ ~sent[j].fin
                                  /\ \A i \in j + 1 .. n + 1 : sent[i].op = "Ping"
      BY <2>1 DEF Unfinished
    <3>2. j = n + 1
      BY <1>1, <1>2, <1>7, <3>1
    <3>. QED
      BY <3>1, <3>2
  <2>2. ASSUME ~sent[n + 1].fin PROVE Unfinished(sent, n + 1)
    BY <1>1, <1>5, <1>7, <2>2 DEF Unfinished
  <2>. QED
    BY <2>1, <2>2
<1>. QED
  BY <1>6, <1>7

\* An unfinished message has its first frames.
LEMMA UnfinishedRun ==
    ASSUME NEW sent \in Seq(Frame), NEW e, Ordered(sent, e), NEW n \in 0 .. Len(sent),
           Unfinished(sent, n)
    PROVE  Run(sent, n) # <<>>
<1>1. PICK j \in 1 .. n : /\ sent[j].op # "Ping" /\ ~sent[j].fin
                          /\ \A i \in j + 1 .. n : sent[i].op = "Ping"
  BY DEF Unfinished
<1>2. PICK m \in Nat : m = Len(sent) /\ n \in 0 .. m
  BY LenProperties
<1>3. sent[j].op \in {"Text", "Binary", "Continue"}
  <2>1. j \in 1 .. m
    BY <1>2
  <2>2. sent[j] \in Frame
    BY <1>2, <2>1, ElementOfSeq
  <2>3. sent[j].op # "Close"
    BY <1>1, <1>2, <2>1 DEF Ordered
  <2>. QED
    BY <1>1, <2>2, <2>3 DEF Frame
<1>. DEFINE P == {k \in 0 .. n - j : Run(sent, j + k) # <<>>}
<1>4. 0 \in P
  <2>1. j - 1 \in Nat /\ (j - 1) + 1 = j /\ j + 0 = j /\ 0 \in 0 .. n - j
    OBVIOUS
  <2>2. PICK i \in Nat : i = j - 1 /\ i + 1 = j
    BY <2>1
  <2>3. Run(sent, i) \in Seq(Nat) /\ (Run(sent, j) = <<j>> \/ Run(sent, j) = Append(Run(sent, i), j))
    BY <1>3, <2>2, RunStep
  <2>4. \A r \in Seq(Nat) : Append(r, j) # <<>>
    BY AppendProperties, EmptySeq
  <2>5. <<j>> # <<>>
    OBVIOUS
  <2>. QED
    BY <2>1, <2>3, <2>4, <2>5
<1>5. ASSUME NEW k \in 0 .. (n - j) - 1, k \in P PROVE k + 1 \in P
  <2>1. j + k \in Nat /\ (j + k) + 1 = j + (k + 1) /\ j + (k + 1) \in j + 1 .. n /\ k + 1 \in 0 .. n - j
    BY <1>2
  <2>2. sent[(j + k) + 1].op = "Ping"
    BY <1>1, <2>1
  <2>3. Run(sent, (j + k) + 1) = Run(sent, j + k)
    BY <2>1, <2>2, RunStep
  <2>. QED
    BY <1>5, <2>1, <2>3
<1>6. n - j \in P
  <2>1. n - j \in Nat
    BY <1>2
  <2>. HIDE DEF P
  <2>. QED
    BY <1>4, <1>5, <2>1, InductionTo
<1>7. j + (n - j) = n
  BY <1>2
<1>. QED
  BY <1>6, <1>7

Entry == [event: Events, ids: Seq(Nat)]

LEMMA EventCases ==
    ASSUME NEW sent, NEW save, NEW i
    PROVE  /\ sent[i].op = "Ping" => Event(sent, save, i) = <<[event |-> "ping", ids |-> <<i>>]>>
           /\ sent[i].op = "Close" => Event(sent, save, i) = <<[event |-> "end", ids |-> <<i>>]>>
           /\ sent[i].op \notin {"Ping", "Close"} =>
                 IF ~sent[i].fin \/ (sent[i].op = "Continue" /\ ~save)
                 THEN Event(sent, save, i) = <<>>
                 ELSE Event(sent, save, i) =
                         <<[event |-> IF sent[Head(Run(sent, i))].op = "Binary" THEN "message"
                                      ELSE "textMessage",
                            ids |-> Run(sent, i)]>>
BY DEF Event

LEMMA EventType ==
    ASSUME NEW sent, NEW save, NEW i \in Nat
    PROVE  Event(sent, save, i) \in Seq(Entry)
<1>1. <<i>> \in Seq(Nat) /\ Run(sent, i) \in Seq(Nat)
  <2>1. <<i>> \in Seq(Nat)
    OBVIOUS
  <2>. QED
    BY <2>1, RunStep
<1>2. /\ "message" \in Events /\ "textMessage" \in Events /\ "ping" \in Events /\ "end" \in Events
  BY DEF Events
<1>3. \A event \in Events, ids \in Seq(Nat) : <<[event |-> event, ids |-> ids]>> \in Seq(Entry)
  <2>1. ASSUME NEW event \in Events, NEW ids \in Seq(Nat) PROVE [event |-> event, ids |-> ids] \in Entry
    BY DEF Entry
  <2>2. \A x \in Entry : <<x>> \in Seq(Entry)
    OBVIOUS
  <2>. QED
    BY <2>1, <2>2
<1>4. <<>> \in Seq(Entry)
  BY EmptySeq
<1>5. CASE sent[i].op = "Ping"
  <2>1. Event(sent, save, i) = <<[event |-> "ping", ids |-> <<i>>]>>
    BY <1>5 DEF Event
  <2>. QED
    BY <1>1, <1>2, <1>3, <2>1
<1>6. CASE sent[i].op = "Close"
  <2>1. Event(sent, save, i) = <<[event |-> "end", ids |-> <<i>>]>>
    BY <1>6 DEF Event
  <2>. QED
    BY <1>1, <1>2, <1>3, <2>1
<1>7. CASE sent[i].op \notin {"Ping", "Close"}
  <2>1. PICK event \in Events :
            event = IF sent[Head(Run(sent, i))].op = "Binary" THEN "message" ELSE "textMessage"
    BY <1>2
  <2>2. <<[event |-> event, ids |-> Run(sent, i)]>> \in Seq(Entry)
    BY <1>1, <1>3
  <2>3. Event(sent, save, i) = <<>> \/ Event(sent, save, i) = <<[event |-> event, ids |-> Run(sent, i)]>>
    BY <1>7, <2>1, EventCases
  <2>. QED
    BY <1>4, <2>2, <2>3
<1>. QED
  BY <1>5, <1>6, <1>7

\* The first frame of a run.
LEMMA RunFirst ==
    ASSUME NEW sent, NEW n \in Nat, Run(sent, n) # <<>>
    PROVE  /\ Head(Run(sent, n)) \in 1 .. n
           /\ \A x \in Nat : Head(Append(Run(sent, n), x)) = Head(Run(sent, n))
<1>1. PICK r \in Seq(Nat) : r = Run(sent, n) /\ r # <<>>
  BY RunStep
<1>2. Len(r) \in Nat \ {0} /\ Head(r) = r[1]
  BY <1>1, EmptySeq
<1>3. 1 \in 1 .. Len(r)
  BY <1>2
<1>4. r[1] \in 1 .. n
  BY <1>1, <1>3, RunPlaces
<1>5. ASSUME NEW x \in Nat PROVE Head(Append(r, x)) = Head(r)
  <2>1. Append(r, x) \in Seq(Nat) /\ Append(r, x)[1] = r[1]
    BY <1>3, AppendProperties
  <2>2. Head(Append(r, x)) = Append(r, x)[1]
    OBVIOUS
  <2>. QED
    BY <1>2, <2>1, <2>2
<1>. QED
  BY <1>1, <1>2, <1>4, <1>5

\* A frame of data belongs to its run.
LEMMA RunOfData ==
    ASSUME NEW sent, NEW n \in Nat, sent[n + 1].op \in {"Binary", "Text", "Continue"}
    PROVE  Run(sent, n + 1) # <<>>
<1>1. PICK r \in Seq(Nat) : r = Run(sent, n)
  BY RunStep
<1>2. Run(sent, n + 1) = <<n + 1>> \/ Run(sent, n + 1) = Append(r, n + 1)
  BY <1>1, RunStep
<1>3. Append(r, n + 1) # <<>> /\ <<n + 1>> # <<>>
  <2>1. Append(r, n + 1) \in Seq(Nat) /\ Len(Append(r, n + 1)) = Len(r) + 1 /\ Len(r) \in Nat
    BY AppendProperties, LenProperties
  <2>2. Len(<<>>) = 0
    BY EmptySeq
  <2>3. Len(r) + 1 # 0
    BY <2>1
  <2>. QED
    BY <2>1, <2>2, <2>3
<1>. QED
  BY <1>2, <1>3

LEMMA EventSame ==
    ASSUME NEW a, NEW b, NEW n \in Nat, \A k \in 1 .. n : a[k] = b[k] /\ a[k] \in Frame,
           NEW save, NEW i \in 1 .. n
    PROVE  Event(a, save, i) = Event(b, save, i)
<1>1. PICK m \in Nat : i = m + 1 /\ m + 1 \in Nat
  <2>1. i - 1 \in Nat /\ i = (i - 1) + 1
    OBVIOUS
  <2>. QED
    BY <2>1
<1>2. \A k \in 1 .. i : k \in 1 .. n
  OBVIOUS
<1>3. Run(a, i) = Run(b, i)
  <2>1. i \in Nat
    OBVIOUS
  <2>. QED
    BY <1>2, <2>1, RunSame
<1>4. a[i] = b[i] /\ a[i].op \in {"Text", "Binary", "Continue", "Ping", "Close"}
  BY DEF Frame
<1>5. CASE a[i].op \in {"Ping", "Close"}
  BY <1>4, <1>5, EventCases
<1>6. CASE a[i].op \notin {"Ping", "Close"}
  <2>1. Run(a, i) # <<>>
    BY <1>1, <1>4, <1>6, RunOfData
  <2>2. Head(Run(a, i)) \in 1 .. i
    <3>1. i \in Nat
      OBVIOUS
    <3>. QED
      BY <2>1, <3>1, RunFirst
  <2>3. a[Head(Run(a, i))] = b[Head(Run(b, i))]
    BY <1>2, <1>3, <2>2
  <2>4. CASE ~a[i].fin \/ (a[i].op = "Continue" /\ ~save)
    BY <1>4, <1>6, <2>4, EventCases
  <2>5. CASE ~(~a[i].fin \/ (a[i].op = "Continue" /\ ~save))
    BY <1>3, <1>4, <1>6, <2>3, <2>5, EventCases
  <2>. QED
    BY <2>4, <2>5
<1>. QED
  BY <1>5, <1>6

\* What has been heard grows with each frame.
LEMMA HeardStep ==
    ASSUME NEW sent, NEW save, NEW n \in Nat
    PROVE  /\ Heard(sent, save, n) \in Seq(Entry) /\ Heard(sent, save, 0) = <<>>
           /\ Event(sent, save, n + 1) \in Seq(Entry)
           /\ Heard(sent, save, n + 1) = Heard(sent, save, n) \o Event(sent, save, n + 1)
<1>1. PICK T : T = Seq(Entry)
  OBVIOUS
<1>. DEFINE list(m) == [i \in 1 .. m |-> Event(sent, save, i)]
<1>2. ASSUME NEW m \in Nat PROVE list(m) \in Seq(T) /\ Len(list(m)) = m
  <2>1. \A i \in 1 .. m : Event(sent, save, i) \in T
    BY <1>1, EventType
  <2>2. list(m) \in [1 .. m -> T]
    BY <2>1
  <2>. HIDE DEF list
  <2>3. list(m) \in Seq(T)
    BY <2>2, SeqDef
  <2>4. Len(list(m)) \in Nat /\ 1 .. Len(list(m)) = 1 .. m
    BY <2>2, <2>3, LenProperties
  <2>. QED
    BY <2>3, <2>4
<1>3. n + 1 \in Nat /\ Event(sent, save, n + 1) \in T
  BY <1>1, EventType
<1>4. /\ \A i \in 1 .. n : list(n)[i] = list(n + 1)[i]
      /\ list(n + 1)[n + 1] = Event(sent, save, n + 1)
  <2>1. \A i \in 1 .. n : i \in 1 .. n + 1
    OBVIOUS
  <2>2. n + 1 \in 1 .. n + 1
    OBVIOUS
  <2>. QED
    BY <2>1, <2>2
<1>5. /\ \A m \in Nat : Heard(sent, save, m) = FlattenSeq(list(m))
  BY DEF Heard
<1>6. list(0) = <<>>
  <2>1. list(0) \in Seq(T) /\ Len(list(0)) = 0
    BY <1>2
  <2>. HIDE DEF list
  <2>. QED
    BY <2>1, EmptySeq
<1>. HIDE DEF list
<1>7. PICK p \in Seq(T), q \in Seq(T), x \in T :
          p = list(n) /\ q = list(n + 1) /\ x = Event(sent, save, n + 1)
  BY <1>2, <1>3
<1>8. q = Append(p, x)
  <2>1. PICK r \in Seq(T) : /\ r = Append(p, x) /\ Len(r) = n + 1
                            /\ \A i \in 1 .. n : r[i] = p[i]
                            /\ r[n + 1] = x
    <3>1. /\ Append(p, x) \in Seq(T) /\ Len(Append(p, x)) = Len(p) + 1
          /\ \A i \in 1 .. Len(p) : Append(p, x)[i] = p[i]
          /\ Append(p, x)[Len(p) + 1] = x
      BY AppendProperties
    <3>2. Len(p) = n
      BY <1>2, <1>7
    <3>. QED
      BY <3>1, <3>2
  <2>2. Len(q) = n + 1
    BY <1>2, <1>3, <1>7
  <2>3. \A i \in 1 .. n + 1 : i \in 1 .. n \/ i = n + 1
    OBVIOUS
  <2>4. \A i \in 1 .. n + 1 : q[i] = r[i]
    BY <1>4, <1>7, <2>1, <2>3
  <2>. QED
    BY <2>1, <2>2, <2>4, SeqEqual
<1>9. FlattenSeq(p) \in Seq(Entry) /\ FlattenSeq(Append(p, x)) = FlattenSeq(p) \o x
  BY <1>1, <1>7, FlattenAppend
<1>. QED
  BY <1>1, <1>3, <1>5, <1>6, <1>7, <1>8, <1>9, FlattenEmpty

LEMMA HeardSame ==
    ASSUME NEW a, NEW b, NEW n \in Nat, \A k \in 1 .. n : a[k] = b[k] /\ a[k] \in Frame, NEW save
    PROVE  Heard(a, save, n) = Heard(b, save, n)
<1>1. \A i \in 1 .. n : Event(a, save, i) = Event(b, save, i)
  BY EventSame
<1>2. [i \in 1 .. n |-> Event(a, save, i)] = [i \in 1 .. n |-> Event(b, save, i)]
  BY <1>1
<1>. QED
  BY <1>2 DEF Heard

Longer(y, h) == \E x \in Seq(Entry) : y = h \o x

LEMMA HeardPrefix ==
    ASSUME NEW sent, NEW save, NEW k \in Nat, NEW z \in Nat, k <= z
    PROVE  Longer(Heard(sent, save, z), Heard(sent, save, k))
<1>0. PICK n \in Nat : z = k + n
  <2>1. z - k \in Nat /\ z = k + (z - k)
    OBVIOUS
  <2>. QED
    BY <2>1
<1>. DEFINE P == {m \in 0 .. n : \E x \in Seq(Entry) :
                                     Heard(sent, save, k + m) = Heard(sent, save, k) \o x}
<1>1. PICK h \in Seq(Entry) : h = Heard(sent, save, k)
  BY HeardStep
<1>2. 0 \in P
  <2>1. h \o <<>> = h /\ <<>> \in Seq(Entry)
    BY ConcatEmptySeq, EmptySeq
  <2>2. k + 0 = k /\ 0 \in 0 .. n
    OBVIOUS
  <2>. QED
    BY <1>1, <2>1, <2>2
<1>3. ASSUME NEW m \in 0 .. n - 1, m \in P PROVE m + 1 \in P
  <2>1. k + m \in Nat /\ (k + m) + 1 = k + (m + 1) /\ m + 1 \in 0 .. n
    OBVIOUS
  <2>2. PICK x \in Seq(Entry) : Heard(sent, save, k + m) = h \o x
    BY <1>1, <1>3
  <2>3. PICK y \in Seq(Entry) : /\ y = Event(sent, save, (k + m) + 1)
                                /\ Heard(sent, save, (k + m) + 1) = Heard(sent, save, k + m) \o y
    BY <2>1, HeardStep
  <2>4. (h \o x) \o y = h \o (x \o y) /\ x \o y \in Seq(Entry)
    BY ConcatAssociative, ConcatProperties, SMTT(60)
  <2>5. Heard(sent, save, k + (m + 1)) = h \o (x \o y)
    BY <2>1, <2>2, <2>3, <2>4
  <2>. QED
    BY <1>1, <2>1, <2>4, <2>5
<1>4. n \in P
  <2>. HIDE DEF P
  <2>. QED
    BY <1>2, <1>3, InductionTo
<1>. QED
  BY <1>0, <1>4 DEF Longer

LEMMA HeardMeans ==
    ASSUME NEW sent \in Seq(Frame), NEW save, NEW k \in 0 .. Len(sent)
    PROVE  IsPrefix(Heard(sent, save, k), Meaning(sent, save))
<1>1. PICK n \in Nat : n = Len(sent) /\ k <= n /\ k \in Nat /\ DOMAIN sent = 1 .. n
  <2>1. Len(sent) \in Nat /\ DOMAIN sent = 1 .. Len(sent)
    BY LenProperties
  <2>2. k <= Len(sent) /\ k \in Nat
    BY <2>1
  <2>. QED
    BY <2>1, <2>2
<1>2. Meaning(sent, save) = Heard(sent, save, n)
  BY <1>1 DEF Meaning, Heard
<1>3. PICK h \in Seq(Entry), x \in Seq(Entry) :
          h = Heard(sent, save, k) /\ Heard(sent, save, n) = h \o x
  <2>1. Heard(sent, save, k) \in Seq(Entry)
    BY <1>1, HeardStep
  <2>2. \E x \in Seq(Entry) : Heard(sent, save, n) = Heard(sent, save, k) \o x
    <3>1. PICK l \in Nat : l = k /\ l <= n
      BY <1>1
    <3>2. Longer(Heard(sent, save, n), Heard(sent, save, l))
      <4>1. l <= n
        BY <3>1
      <4>. QED
        BY <4>1, HeardPrefix
    <3>. QED
      BY <3>1, <3>2 DEF Longer
  <2>. QED
    BY <1>1, <2>1, <2>2
<1>4. PICK z \in Seq(Entry), l \in Nat :
          /\ z = h \o x /\ l = Len(h) /\ Len(h) <= Len(z)
          /\ \A i \in 1 .. l : z[i] = h[i]
  <2>1. /\ h \o x \in Seq(Entry) /\ Len(h \o x) = Len(h) + Len(x)
        /\ \A i \in 1 .. Len(h) + Len(x) :
              (h \o x)[i] = IF i <= Len(h) THEN h[i] ELSE x[i - Len(h)]
    BY ConcatProperties
  <2>2. Len(h) \in Nat /\ Len(x) \in Nat
    BY LenProperties
  <2>3. Len(h) <= Len(h) + Len(x) /\ \A i \in 1 .. Len(h) : i \in 1 .. Len(h) + Len(x) /\ i <= Len(h)
    BY <2>2
  <2>. QED
    BY <2>1, <2>2, <2>3
<1>5. SubSeq(h, 1, l) = SubSeq(z, 1, l)
  <2>1. \A i \in 1 .. l : h[i] \in Entry /\ z[i] \in Entry
    BY <1>4, ElementOfSeq
  <2>2. /\ SubSeq(h, 1, l) \in Seq(Entry) /\ SubSeq(z, 1, l) \in Seq(Entry)
        /\ Len(SubSeq(h, 1, l)) = IF 1 <= l THEN l - 1 + 1 ELSE 0
        /\ Len(SubSeq(z, 1, l)) = IF 1 <= l THEN l - 1 + 1 ELSE 0
        /\ \A i \in 1 .. l - 1 + 1 : SubSeq(h, 1, l)[i] = h[1 + i - 1] /\ SubSeq(z, 1, l)[i] = z[1 + i - 1]
    BY <2>1, SubSeqProperties
  <2>3. l - 1 + 1 = l /\ (\A i \in 1 .. l : 1 + i - 1 = i) /\ (~(1 <= l) => l = 0)
    OBVIOUS
  <2>4. Len(SubSeq(h, 1, l)) = l /\ Len(SubSeq(z, 1, l)) = l
    BY <2>2, <2>3
  <2>5. \A i \in 1 .. l : SubSeq(h, 1, l)[i] = SubSeq(z, 1, l)[i]
    BY <1>4, <2>2, <2>3
  <2>. QED
    BY <2>2, <2>4, <2>5, SeqEqual
<1>. QED
  BY <1>2, <1>3, <1>4, <1>5 DEF IsPrefix

\* What is kept of an unfinished message.
LEMMA KeptSame ==
    ASSUME NEW a, NEW b, NEW n \in Nat, \A k \in 1 .. n : a[k] = b[k]
    PROVE  Kept(a, n) = Kept(b, n)
<1>1. Run(a, n) = Run(b, n) /\ \A j \in 1 .. Len(Run(a, n)) : Run(a, n)[j] \in 1 .. n
  BY RunSame, RunPlaces
<1>2. \A j \in 1 .. Len(Run(a, n)) : a[Run(a, n)[j]] = b[Run(b, n)[j]]
  BY <1>1
<1>. QED
  BY <1>1, <1>2 DEF Kept

LEMMA ListenedLonger ==
    ASSUME NEW r, NEW sent \in Seq(Frame), NEW e, Ordered(sent, e), NEW frame \in Frame,
           NEW k \in 0 .. Len(sent), Listened(r, sent, k)
    PROVE  Listened(r, Append(sent, frame), k)
<1>1. PICK more : more = Append(sent, frame)
  OBVIOUS
<1>2. k \in Nat /\ \A i \in 1 .. k : sent[i] = more[i] /\ sent[i] \in Frame
  <2>1. PICK n \in Nat : n = Len(sent)
    BY LenProperties
  <2>2. k \in Nat /\ \A i \in 1 .. k : i \in 1 .. n
    BY <2>1
  <2>3. \A i \in 1 .. n : sent[i] = more[i] /\ sent[i] \in Frame
    BY <1>1, <2>1, AppendProperties, ElementOfSeq
  <2>. QED
    BY <2>2, <2>3
<1>3. Heard(sent, r.saveFragment, k) = Heard(more, r.saveFragment, k)
  BY <1>2, HeardSame
<1>4. /\ Unfinished(sent, k) <=> Unfinished(more, k)
      /\ Kept(sent, k) = Kept(more, k) /\ Run(sent, k) = Run(more, k)
  BY <1>2, UnfinishedSame, KeptSame, RunSame
<1>5. Unfinished(sent, k) => sent[Head(Run(sent, k))] = more[Head(Run(more, k))]
  <2>1. ASSUME Unfinished(sent, k) PROVE Head(Run(sent, k)) \in 1 .. k
    BY <1>2, <2>1, UnfinishedRun, RunFirst
  <2>. QED
    BY <1>2, <1>4, <2>1
<1>6. Gathered(r, sent, k) => Gathered(r, more, k)
  BY <1>4, <1>5 DEF Gathered
<1>. QED
  BY <1>1, <1>3, <1>6 DEF Listened

-----------------------------------------------------------------------------
(* An end that sends                                                           *)

\* frame may be the next one that e sends.
NextIn(sent, frame, e) ==
    /\ frame.id = Len(sent) + 1
    /\ frame.op \in {"Binary", "Text"} => ~Unfinished(sent, Len(sent))
    /\ frame.op = "Continue" => Unfinished(sent, Len(sent))
    /\ frame.op = "Close" \/ owner[e] = "manager" => frame.fin

\* t is s, or has sent a frame more.
Speaks(s, t, e) ==
    \/ t.sent = s.sent /\ t.writes = s.writes
    \/ \E frame \in Frame, first \in Seq(Byte), second \in Seq(Byte) :
          /\ NextIn(s.sent, frame, e) /\ t.sent = Append(s.sent, frame)
          /\ t.writes = s.writes \o <<first, second>>
          /\ WholeFrame(first \o second, frame) /\ Cut(first) /\ Cut(second)

\* The bytes of a frame from one of its places.
InPlace(b, frame, from, size) ==
    /\ b \in Seq(Byte) /\ Len(b) = size
    /\ \A i \in 1 .. size : b[i].frame = frame /\ b[i].at = from + i - 1

LEMMA BytesAre ==
    ASSUME NEW frame \in Frame, NEW from \in Nat, from > 0, NEW to \in Nat, from <= to + 1
    PROVE  InPlace(Bytes(frame, from, to), frame, from, to - from + 1)
<1>1. PICK size \in Nat : size = to - from + 1 /\ to = from + size - 1
  OBVIOUS
<1>2. Bytes(frame, from, to) = [k \in 1 .. size |-> [frame |-> frame, at |-> from + k - 1]]
  BY <1>1 DEF Bytes
<1>3. \A i \in 1 .. size : /\ Bytes(frame, from, to)[i].frame = frame
                           /\ Bytes(frame, from, to)[i].at = from + i - 1
  BY <1>2
<1>4. /\ Bytes(frame, from, from + size - 1) \in Seq(Byte)
      /\ Len(Bytes(frame, from, from + size - 1)) = size
  <2>1. from \in Nat \ {0}
    OBVIOUS
  <2>. QED
    BY <2>1, BytesOfFrame
<1>. QED
  BY <1>1, <1>3, <1>4 DEF InPlace

LEMMA SendFragmentSpeaks ==
    ASSUME NEW s \in End, NEW e \in Ends, NEW f \in Message,
           f.op \in {"Binary", "Text"} => ~Unfinished(s.sent, Len(s.sent)),
           f.op = "Continue" => Unfinished(s.sent, Len(s.sent)),
           f.op = "Close" \/ owner[e] = "manager" => f.fin
    PROVE  /\ Speaks(s, SendFragment(s, e, f), e)
           /\ SendFragment(s, e, f).heard = s.heard
           /\ SendFragment(s, e, f).saveFragment = s.saveFragment
           /\ SendFragment(s, e, f).fragments = s.fragments
           /\ SendFragment(s, e, f).saveBinary = s.saveBinary
           /\ SendFragment(s, e, f).failed = s.failed
           /\ SendFragment(s, e, f).life = s.life
           /\ SendFragment(s, e, f).remain = s.remain
<1>. DEFINE record == [op |-> f.op, fin |-> f.fin, len |-> f.len, off |-> Offset(e),
                       id |-> Len(s.sent) + 1]
<1>1. s.sent \in Seq(Frame) /\ s.writes \in Seq(Seq(Byte))
  BY DEF End
<1>2. PICK frame \in Frame, off \in {2, 3}, len \in Nat :
          /\ frame = record /\ frame.off = off /\ frame.len = len /\ f.len = len
          /\ frame.op = f.op /\ frame.fin = f.fin /\ frame.id = Len(s.sent) + 1
  <2>1. Len(s.sent) + 1 \in Nat /\ Offset(e) \in {2, 3}
    BY <1>1, LenProperties DEF Offset
  <2>2. record \in Frame /\ record.off \in {2, 3} /\ record.len \in Nat /\ record.len = f.len
    BY <2>1 DEF Frame, Message
  <2>. QED
    BY <2>2
<1>. HIDE DEF record
<1>3. PICK first \in Seq(Byte) :
          /\ first = Bytes(frame, 1, off) /\ Len(first) = off
          /\ \A i \in 1 .. off : first[i].frame = frame /\ first[i].at = i
  <2>1. PICK from \in Nat, to \in Nat :
            /\ from = 1 /\ to = off /\ from > 0 /\ from <= to + 1 /\ to - from + 1 = off
            /\ \A i \in 1 .. off : from + i - 1 = i
    OBVIOUS
  <2>2. InPlace(Bytes(frame, from, to), frame, from, to - from + 1)
    <3>1. from > 0 /\ from <= to + 1
      BY <2>1
    <3>. QED
      BY <3>1, BytesAre
  <2>3. PICK b \in Seq(Byte) : b = Bytes(frame, from, to)
    BY <2>2 DEF InPlace
  <2>4. Len(b) = off /\ \A i \in 1 .. off : b[i].frame = frame /\ b[i].at = from + i - 1
    BY <2>1, <2>2, <2>3 DEF InPlace
  <2>5. \A i \in 1 .. off : b[i].frame = frame /\ b[i].at = i
    BY <2>1, <2>4
  <2>. QED
    BY <2>1, <2>3, <2>4, <2>5
<1>4. PICK second \in Seq(Byte) :
          /\ second = Bytes(frame, off + 1, off + len) /\ Len(second) = len
          /\ \A i \in 1 .. len : second[i].frame = frame /\ second[i].at = off + i
  <2>1. PICK from \in Nat, to \in Nat :
            /\ from = off + 1 /\ to = off + len /\ from > 0 /\ from <= to + 1
            /\ to - from + 1 = len /\ \A i \in 1 .. len : from + i - 1 = off + i
    OBVIOUS
  <2>2. InPlace(Bytes(frame, from, to), frame, from, to - from + 1)
    <3>1. from > 0 /\ from <= to + 1
      BY <2>1
    <3>. QED
      BY <3>1, BytesAre
  <2>3. PICK b \in Seq(Byte) : b = Bytes(frame, from, to)
    BY <2>2 DEF InPlace
  <2>4. Len(b) = len /\ \A i \in 1 .. len : b[i].frame = frame /\ b[i].at = from + i - 1
    BY <2>1, <2>2, <2>3 DEF InPlace
  <2>5. \A i \in 1 .. len : b[i].frame = frame /\ b[i].at = off + i
    BY <2>1, <2>4
  <2>. QED
    BY <2>1, <2>3, <2>4, <2>5
<1>5. WholeFrame(first \o second, frame)
  <2>1. PICK z \in Seq(Byte) :
            /\ z = first \o second /\ Len(z) = off + len
            /\ \A i \in 1 .. off : z[i] = first[i]
            /\ \A i \in 1 .. len : z[off + i] = second[i]
    <3>1. /\ first \o second \in Seq(Byte) /\ Len(first \o second) = Len(first) + Len(second)
          /\ \A i \in 1 .. Len(first) : (first \o second)[i] = first[i]
          /\ \A i \in 1 .. Len(second) : (first \o second)[Len(first) + i] = second[i]
      BY BytePlaces
    <3>2. Len(first) = off /\ Len(second) = len
      BY <1>3, <1>4
    <3>3. PICK z \in Seq(Byte) : z = first \o second
      BY <3>1
    <3>. QED
      BY <3>1, <3>2, <3>3
  <2>2. \A i \in 1 .. off + len : i \in 1 .. off \/ (i - off \in 1 .. len /\ off + (i - off) = i)
    OBVIOUS
  <2>3. ASSUME NEW i \in 1 .. off + len PROVE z[i].frame = frame /\ z[i].at = i
    <3>1. CASE i \in 1 .. off
      BY <1>3, <2>1, <3>1
    <3>2. CASE i - off \in 1 .. len /\ off + (i - off) = i
      <4>1. PICK h \in 1 .. len : off + h = i
        BY <3>2
      <4>2. z[off + h] = second[h] /\ second[h].frame = frame /\ second[h].at = off + h
        BY <1>4, <2>1
      <4>. QED
        BY <4>1, <4>2
    <3>. QED
      BY <2>2, <3>1, <3>2
  <2>4. Size(frame) = off + len
    BY <1>2 DEF Size
  <2>. QED
    BY <2>1, <2>3, <2>4 DEF WholeFrame
<1>6. Cut(first) /\ Cut(second)
  <2>1. first[1].frame = frame /\ first[1].at = 1
    <3>1. 1 \in 1 .. off
      OBVIOUS
    <3>. QED
      BY <1>3, <3>1
  <2>2. len > 0 => second[1].frame = frame /\ second[1].at = off + 1
    <3>1. len > 0 => 1 \in 1 .. len
      OBVIOUS
    <3>. QED
      BY <1>4, <3>1
  <2>3. ~(1 > off + 1) /\ ~(off + 1 > off + 1)
    OBVIOUS
  <2>. QED
    BY <1>2, <1>3, <1>4, <2>1, <2>2, <2>3 DEF Cut, InPayload
<1>. DEFINE t == [s EXCEPT !.sent = Append(s.sent, frame), !.writes = s.writes \o <<first, second>>,
                           !.writeSize = s.writeSize + frame.off + f.len]
<1>7. SendFragment(s, e, f) = t
  BY <1>2, <1>3, <1>4 DEF SendFragment, record
<1>8. /\ t.sent = Append(s.sent, frame) /\ t.writes = s.writes \o <<first, second>>
      /\ t.heard = s.heard /\ t.saveFragment = s.saveFragment /\ t.fragments = s.fragments
      /\ t.saveBinary = s.saveBinary /\ t.failed = s.failed /\ t.life = s.life
      /\ t.remain = s.remain
  BY DEF End
<1>9. NextIn(s.sent, frame, e)
  BY <1>2 DEF NextIn
<1>. HIDE DEF t
<1>10. Speaks(s, t, e)
  BY <1>5, <1>6, <1>8, <1>9 DEF Speaks
<1>. QED
  BY <1>7, <1>8, <1>10

LEMMA OrderedMore ==
    ASSUME NEW sent \in Seq(Frame), NEW e, Ordered(sent, e), NEW frame \in Frame,
           NextIn(sent, frame, e)
    PROVE  Ordered(Append(sent, frame), e) /\ Append(sent, frame) \in Seq(Frame)
<1>1. PICK n \in Nat, more \in Seq(Frame) :
          /\ n = Len(sent) /\ more = Append(sent, frame) /\ Len(more) = n + 1
          /\ \A i \in 1 .. n : more[i] = sent[i]
          /\ more[n + 1] = frame
  <2>1. /\ Append(sent, frame) \in Seq(Frame) /\ Len(Append(sent, frame)) = Len(sent) + 1
        /\ \A i \in 1 .. Len(sent) : Append(sent, frame)[i] = sent[i]
        /\ Append(sent, frame)[Len(sent) + 1] = frame
    BY AppendProperties
  <2>2. Len(sent) \in Nat
    BY LenProperties
  <2>. QED
    BY <2>1, <2>2
<1>2. ASSUME NEW k \in 0 .. n PROVE Unfinished(more, k) <=> Unfinished(sent, k)
  <2>1. k \in Nat /\ \A i \in 1 .. k : more[i] = sent[i]
    BY <1>1
  <2>. QED
    BY <2>1, UnfinishedSame
<1>3. ASSUME NEW i \in 1 .. n
      PROVE  /\ more[i].id = i
             /\ more[i].op \in {"Binary", "Text"} => ~Unfinished(more, i - 1)
             /\ more[i].op = "Continue" => Unfinished(more, i - 1)
             /\ more[i].op = "Close" \/ owner[e] = "manager" => more[i].fin
  <2>1. i - 1 \in 0 .. n
    OBVIOUS
  <2>. QED
    BY <1>1, <1>2, <2>1 DEF Ordered
<1>4. /\ more[n + 1].id = n + 1
      /\ more[n + 1].op \in {"Binary", "Text"} => ~Unfinished(more, (n + 1) - 1)
      /\ more[n + 1].op = "Continue" => Unfinished(more, (n + 1) - 1)
      /\ more[n + 1].op = "Close" \/ owner[e] = "manager" => more[n + 1].fin
  <2>1. (n + 1) - 1 = n /\ n \in 0 .. n
    OBVIOUS
  <2>. QED
    BY <1>1, <1>2, <2>1 DEF NextIn
<1>5. \A i \in 1 .. n + 1 : i \in 1 .. n \/ i = n + 1
  OBVIOUS
<1>6. Ordered(more, e)
  BY <1>1, <1>3, <1>4, <1>5 DEF Ordered
<1>. QED
  BY <1>1, <1>6

LEMMA WritesMore ==
    ASSUME NEW writes \in Seq(Seq(Byte)), NEW first \in Seq(Byte), NEW second \in Seq(Byte)
    PROVE  /\ FlattenSeq(writes \o <<first, second>>) = FlattenSeq(writes) \o (first \o second)
           /\ Divided(writes) /\ Cut(first) /\ Cut(second) => Divided(writes \o <<first, second>>)
<1>1. PICK T : T = Seq(Byte)
  OBVIOUS
<1>2. PICK w \in Seq(T), a \in T, b \in T : w = writes /\ a = first /\ b = second
  BY <1>1
<1>3. PICK v \in Seq(T), n \in Nat : /\ v = Append(w, a) /\ n = Len(w) /\ Len(v) = n + 1
                                     /\ \A i \in 1 .. n : v[i] = w[i]
                                     /\ v[n + 1] = a
  <2>1. PICK n \in Nat : n = Len(w)
    BY LenProperties
  <2>2. /\ Append(w, a) \in Seq(T) /\ Len(Append(w, a)) = Len(w) + 1
        /\ \A i \in 1 .. Len(w) : Append(w, a)[i] = w[i]
        /\ Append(w, a)[Len(w) + 1] = a
    BY AppendProperties
  <2>. QED
    BY <2>1, <2>2 DEF InPlace
<1>4. PICK z \in Seq(T) : /\ z = Append(v, b) /\ Len(z) = n + 2
                          /\ \A i \in 1 .. n + 1 : z[i] = v[i]
                          /\ z[n + 2] = b
  <2>1. /\ Append(v, b) \in Seq(T) /\ Len(Append(v, b)) = Len(v) + 1
        /\ \A i \in 1 .. Len(v) : Append(v, b)[i] = v[i]
        /\ Append(v, b)[Len(v) + 1] = b
    BY AppendProperties
  <2>2. (n + 1) + 1 = n + 2
    OBVIOUS
  <2>. QED
    BY <1>3, <2>1, <2>2
<1>5. w \o <<a, b>> = Append(Append(w, a), b)
  BY <1>2
<1>6. writes \o <<first, second>> = z
  BY <1>2, <1>3, <1>4, <1>5
<1>7. /\ FlattenSeq(w) \in Seq(Byte) /\ FlattenSeq(v) = FlattenSeq(w) \o a
      /\ FlattenSeq(z) = FlattenSeq(v) \o b
  BY <1>1, <1>3, <1>4, FlattenAppend
<1>8. PICK u \in Seq(Byte) : u = FlattenSeq(w) /\ FlattenSeq(z) = (u \o first) \o second
  BY <1>2, <1>7
<1>9. (u \o first) \o second = u \o (first \o second)
  <2>1. Regroups(u, first, second)
    BY Reassociated
  <2>. QED
    BY <2>1 DEF Regroups
<1>10. ASSUME Divided(writes), Cut(first), Cut(second) PROVE Divided(z)
  <2>1. \A i \in 1 .. n : Cut(w[i])
    BY <1>2, <1>3, <1>10 DEF Divided
  <2>2. \A i \in 1 .. n + 2 : (i \in 1 .. n /\ i \in 1 .. n + 1) \/ (i = n + 1 /\ i \in 1 .. n + 1) \/ i = n + 2
    OBVIOUS
  <2>3. \A i \in 1 .. n + 2 : Cut(z[i])
    BY <1>2, <1>3, <1>4, <1>10, <2>1, <2>2
  <2>. QED
    BY <1>4, <2>3 DEF Divided
<1>. QED
  BY <1>2, <1>6, <1>8, <1>9, <1>10

\* Whoever listens hears what was sent before, and reads the frame behind it.
LEMMA SpeaksKeeps ==
    ASSUME NEW s \in End, NEW t, NEW e, Speaks(s, t, e), Writes(s, e)
    PROVE  /\ Writes(t, e) /\ t.sent \in Seq(Frame)
           /\ \A r \in End, c \in Seq(Byte) : s.life = "alive" /\ Delivers(s, r, c) => Delivers(t, r, c)
<1>1. PICK sent \in Seq(Frame), writes \in Seq(Seq(Byte)), n \in Nat :
          /\ sent = s.sent /\ writes = s.writes /\ n = Len(sent)
          /\ Ordered(sent, e) /\ Divided(writes)
  <2>1. s.sent \in Seq(Frame) /\ s.writes \in Seq(Seq(Byte)) /\ Ordered(s.sent, e) /\ Divided(s.writes)
    BY DEF End, Writes
  <2>. QED
    BY <2>1, LenProperties
<1>2. CASE t.sent = s.sent /\ t.writes = s.writes
  <2>1. Unwritten(t) = Unwritten(s)
    BY <1>2 DEF Unwritten
  <2>2. Writes(t, e)
    BY <1>2 DEF Writes
  <2>3. ASSUME NEW r \in End, NEW c \in Seq(Byte), s.life = "alive", Delivers(s, r, c)
        PROVE  Delivers(t, r, c)
    BY <1>2, <2>1, <2>3 DEF Delivers, Under
  <2>. QED
    BY <1>1, <1>2, <2>2, <2>3
<1>3. CASE \E frame \in Frame, first \in Seq(Byte), second \in Seq(Byte) :
              /\ NextIn(s.sent, frame, e) /\ t.sent = Append(s.sent, frame)
              /\ t.writes = s.writes \o <<first, second>>
              /\ WholeFrame(first \o second, frame) /\ Cut(first) /\ Cut(second)
  <2>1. PICK frame \in Frame, first \in Seq(Byte), second \in Seq(Byte) :
              /\ NextIn(s.sent, frame, e) /\ t.sent = Append(s.sent, frame)
              /\ t.writes = s.writes \o <<first, second>>
              /\ WholeFrame(first \o second, frame) /\ Cut(first) /\ Cut(second)
    BY <1>3
  <2>2. PICK d \in Seq(Byte) : d = first \o second /\ WholeFrame(d, frame) /\ Cut(d)
    <3>1. first \o second \in Seq(Byte)
      BY ConcatProperties
    <3>. QED
      BY <2>1, <3>1, CutParts
  <2>3. PICK u \in Seq(Byte) : u = Unwritten(s) /\ Unwritten(t) = u \o d
    <3>1. Unwritten(s) \in Seq(Byte)
      BY UnwrittenType
    <3>2. FlattenSeq(writes \o <<first, second>>) = FlattenSeq(writes) \o (first \o second)
      BY WritesMore
    <3>. QED
      BY <1>1, <2>1, <2>2, <3>1, <3>2 DEF Unwritten
  <2>4. /\ Ordered(t.sent, e) /\ t.sent \in Seq(Frame)
    BY <1>1, <2>1, OrderedMore
  <2>5. Divided(t.writes)
    BY <1>1, <2>1, WritesMore
  <2>6. ASSUME NEW r \in End, NEW c \in Seq(Byte), s.life = "alive", Delivers(s, r, c)
        PROVE  Delivers(t, r, c)
    <3>1. PICK k \in 0 .. n : /\ Listened(r, sent, k)
                              /\ r.life = "alive" => Under(s, r, c, k)
      BY <1>1, <2>6 DEF Delivers
    <3>2. Listened(r, t.sent, k)
      BY <1>1, <2>1, <3>1, ListenedLonger
    <3>3. k \in 0 .. Len(t.sent) /\ k \in Nat
      <4>1. Len(t.sent) = n + 1
        BY <1>1, <2>1, AppendProperties
      <4>. QED
        BY <4>1
    <3>4. ASSUME r.life = "alive" PROVE Under(t, r, c, k)
      <4>1. /\ Carries((r.remain \o c) \o u, sent, k)
            /\ Complete((r.remain \o c) \o u, sent, k)
            /\ Short(r.remain) /\ Cut(c \o u)
        BY <1>1, <2>3, <2>6, <3>1, <3>4 DEF Under
      <4>2. PICK b \in Seq(Byte), x \in Seq(Byte) : b = r.remain \o c /\ x = c \o u /\ b \o u \in Seq(Byte)
        <5>1. r.remain \in Seq(Byte)
          BY DEF End
        <5>2. r.remain \o c \in Seq(Byte) /\ c \o u \in Seq(Byte)
          BY <5>1, ConcatProperties
        <5>. QED
          BY <5>2, ConcatProperties
      <4>3. b \o (u \o d) = (b \o u) \o d /\ c \o (u \o d) = x \o d
        <5>1. Regroups(b, u, d) /\ Regroups(c, u, d)
          BY Reassociated
        <5>. QED
          BY <4>2, <5>1 DEF Regroups
      <4>4. frame.id = Len(sent) + 1
        BY <1>1, <2>1 DEF NextIn
      <4>5. /\ Carries((b \o u) \o d, Append(sent, frame), k)
            /\ Complete((b \o u) \o d, Append(sent, frame), k)
        BY <2>2, <3>3, <4>1, <4>2, <4>4, CarriesMore
      <4>6. Cut(x \o d)
        BY <2>2, <4>1, <4>2, CutParts
      <4>. QED
        BY <1>1, <2>1, <2>3, <4>1, <4>2, <4>3, <4>5, <4>6 DEF Under
    <3>5. r.life # "garbled"
      BY <2>6 DEF Delivers
    <3>. QED
      BY <3>2, <3>3, <3>4, <3>5 DEF Delivers
  <2>. QED
    BY <2>4, <2>5, <2>6 DEF Writes
<1>. QED
  BY <1>2, <1>3 DEF Speaks

-----------------------------------------------------------------------------
(* An end that listens                                                         *)

LEMMA ToldHeard ==
    ASSUME NEW s \in End, NEW event \in Events, NEW frames \in Seq(Frame), NEW ids \in Seq(Nat),
           ids = [k \in DOMAIN frames |-> frames[k].id]
    PROVE  /\ Told(s, event, frames).heard = s.heard \o <<[event |-> event, ids |-> ids]>>
           /\ Told(s, event, frames).sent = s.sent
           /\ Told(s, event, frames).saveFragment = s.saveFragment
           /\ Told(s, event, frames).fragments = s.fragments
           /\ Told(s, event, frames).saveBinary = s.saveBinary
<1>1. s.heard \in Seq(Entry) /\ [event |-> event, ids |-> ids] \in Entry
  BY DEF End, Entry, Events
<1>2. PICK h \in Seq(Entry), x \in Entry : h = s.heard /\ x = [event |-> event, ids |-> ids]
  BY <1>1
<1>3. Append(h, x) = h \o <<x>>
  BY AppendIsConcat
<1>4. Told(s, event, frames) = [s EXCEPT !.heard = Append(s.heard, [event |-> event, ids |-> ids])]
  BY DEF Told
<1>. QED
  BY <1>2, <1>3, <1>4 DEF End

\* What an end does when it is told something else than the end, or its peer's end.
Tells(s, t, e, event, frames) ==
    /\ Speaks(s, t, e) /\ t.failed = s.failed /\ t.saveFragment = s.saveFragment
    /\ t.heard = Told(s, event, frames).heard
    /\ IF event = "end" THEN t.life # "alive"
       ELSE t.fragments = s.fragments /\ t.saveBinary = s.saveBinary

\* A manager's messages are whole.
LEMMA ManagerOrdered ==
    ASSUME NEW sent, NEW e, Ordered(sent, e), owner[e] = "manager"
    PROVE  ~Unfinished(sent, Len(sent))
BY DEF Ordered, Unfinished

LEMMA DeleteIs ==
    ASSUME NEW s \in End, s.life # "aborted"
    PROVE  /\ Delete(s).life = "deleted" /\ Delete(s).sent = s.sent /\ Delete(s).writes = s.writes
           /\ Delete(s).heard = s.heard /\ Delete(s).failed = s.failed
           /\ Delete(s).saveFragment = s.saveFragment
BY DEF Delete, End

LEMMA HearTells ==
    ASSUME NEW s \in End, NEW e \in Ends, owner[e] \in {"manager", "test"}, s.life = "alive",
           Ordered(s.sent, e), NEW event \in Events, NEW frames \in Seq(Frame),
           event = "end" => s.state = "CLOSING" /\ s.recieveEnd,
           event # "end" => Owned(s, e)
    PROVE  Tells(s, Hear(s, e, event, frames), e, event, frames)
<1>1. PICK told \in End : told = Told(s, event, frames)
  BY ToldFields
<1>2. /\ told.sent = s.sent /\ told.writes = s.writes /\ told.state = s.state
      /\ told.recieveEnd = s.recieveEnd /\ told.life = "alive" /\ told.failed = s.failed
      /\ told.saveFragment = s.saveFragment /\ told.fragments = s.fragments
      /\ told.saveBinary = s.saveBinary
  BY <1>1 DEF Told, End
<1>3. CASE owner[e] = "manager" /\ event = "message"
  <2>1. Hear(s, e, event, frames) = SendFragment(told, e, Answer)
    BY <1>1, <1>2, <1>3, HearIs DEF Send, MaySend, Owned
  <2>2. ~Unfinished(told.sent, Len(told.sent))
    BY <1>2, <1>3, ManagerOrdered
  <2>3. PICK t : t = SendFragment(told, e, Answer)
    OBVIOUS
  <2>4. Answer.op = "Text" /\ Answer.fin
    BY DEF Answer
  <2>5. /\ Speaks(told, t, e)
        /\ t.heard = told.heard /\ t.saveFragment = told.saveFragment
        /\ t.fragments = told.fragments /\ t.saveBinary = told.saveBinary
        /\ t.failed = told.failed
    BY <2>2, <2>3, <2>4, OwnMessages, SendFragmentSpeaks
  <2>6. Speaks(s, t, e)
    BY <1>2, <2>5 DEF Speaks
  <2>7. /\ t.heard = Told(s, event, frames).heard /\ t.failed = s.failed
        /\ t.saveFragment = s.saveFragment
        /\ t.fragments = s.fragments /\ t.saveBinary = s.saveBinary
    BY <1>1, <1>2, <2>5
  <2>8. event # "end"
    BY <1>3
  <2>9. Tells(s, t, e, event, frames)
    BY <2>6, <2>7, <2>8 DEF Tells
  <2>. QED
    BY <2>1, <2>3, <2>9
<1>4. CASE owner[e] = "manager" /\ event = "end"
  <2>1. PICK u \in End : u = [told EXCEPT !.state = "CLOSED"]
    BY EndChanges
  <2>2. /\ u.sent = s.sent /\ u.writes = s.writes /\ u.life = "alive" /\ u.failed = s.failed
        /\ u.saveFragment = s.saveFragment /\ u.heard = told.heard
    BY <1>2, <2>1 DEF End
  <2>3. PICK t \in End : t = SendFragment(u, e, CloseFrame)
    BY OwnMessages, SendFragmentFields
  <2>4. CloseFrame.op = "Close" /\ CloseFrame.fin
    BY DEF CloseFrame
  <2>5. /\ Speaks(u, t, e) /\ t.heard = u.heard /\ t.saveFragment = u.saveFragment
        /\ t.failed = u.failed /\ t.life = u.life
    BY <2>3, <2>4, OwnMessages, SendFragmentSpeaks
  <2>6. SendEnd(told, e) = t
    BY <1>2, <1>4, <2>1, <2>3 DEF SendEnd
  <2>7. Hear(s, e, event, frames) = Delete(t)
    BY <1>1, <1>4, <2>6, HearIs
  <2>8. PICK v : /\ v = Delete(t) /\ v.sent = t.sent /\ v.writes = t.writes /\ v.heard = t.heard
                 /\ v.failed = t.failed /\ v.saveFragment = t.saveFragment /\ v.life # "alive"
    BY <2>2, <2>5, DeleteIs
  <2>9. Speaks(s, v, e)
    BY <2>2, <2>5, <2>8 DEF Speaks
  <2>. QED
    BY <1>1, <1>4, <2>2, <2>5, <2>7, <2>8, <2>9 DEF Tells
<1>5. CASE owner[e] = "test" /\ event = "end"
  <2>1. Hear(s, e, event, frames) = Delete(told)
    BY <1>1, <1>5, HearIs
  <2>2. PICK v : /\ v = Delete(told) /\ v.sent = told.sent /\ v.writes = told.writes
                 /\ v.heard = told.heard /\ v.failed = told.failed
                 /\ v.saveFragment = told.saveFragment /\ v.life # "alive"
    BY <1>2, DeleteIs
  <2>. QED
    BY <1>1, <1>2, <1>5, <2>1, <2>2 DEF Tells, Speaks
<1>6. CASE <<owner[e], event>> \notin
               {<<"manager", "message">>, <<"manager", "end">>, <<"test", "end">>}
  <2>1. Hear(s, e, event, frames) = told
    BY <1>1, <1>6, HearIs
  <2>2. Speaks(s, told, e)
    BY <1>2 DEF Speaks
  <2>3. event # "end"
    BY <1>6
  <2>4. told.heard = Told(s, event, frames).heard
    BY <1>1
  <2>5. Tells(s, told, e, event, frames)
    BY <1>2, <2>2, <2>3, <2>4 DEF Tells
  <2>. QED
    BY <2>1, <2>5
<1>. QED
  BY <1>3, <1>4, <1>5, <1>6

LEMMA FailIs ==
    ASSUME NEW s \in End, NEW e, s.life = "alive"
    PROVE  /\ Fail(s, e).sent = s.sent /\ Fail(s, e).writes = s.writes
           /\ Fail(s, e).failed = s.failed + 1 /\ Fail(s, e).failed # 0
           /\ Fail(s, e).life = "deleted" \/ (Fail(s, e).life = "alive" /\ Fail(s, e).remain = s.remain)
<1>1. PICK t \in End : t = [s EXCEPT !.failed = s.failed + 1]
  BY EndChanges
<1>2. s.failed \in Nat
  BY DEF End
<1>3. /\ t.sent = s.sent /\ t.writes = s.writes /\ t.failed = s.failed + 1 /\ t.failed # 0
      /\ t.life = "alive" /\ t.remain = s.remain
  BY <1>1, <1>2 DEF End
<1>4. Fail(s, e) = Delete(t) \/ Fail(s, e) = t
  BY <1>1 DEF Fail
<1>5. /\ Delete(t).life = "deleted" /\ Delete(t).sent = t.sent /\ Delete(t).writes = t.writes
      /\ Delete(t).failed = t.failed
  BY <1>3, DeleteIs
<1>. QED
  BY <1>3, <1>4, <1>5

\* What a frame makes of what is kept.
LEMMA KeptIs ==
    ASSUME NEW sent \in Seq(Frame), NEW n \in 0 .. Len(sent)
    PROVE  /\ Kept(sent, n) \in Seq(Frame) /\ Len(Kept(sent, n)) = Len(Run(sent, n))
           /\ \A j \in 1 .. Len(Run(sent, n)) : Kept(sent, n)[j] = sent[Run(sent, n)[j]]
<1>1. PICK l \in Nat : l = Len(Run(sent, n)) /\ n \in Nat
  <2>1. Len(sent) \in Nat
    BY LenProperties
  <2>2. n \in Nat
    BY <2>1
  <2>3. Run(sent, n) \in Seq(Nat)
    BY <2>2, RunStep
  <2>. QED
    BY <2>2, <2>3, LenProperties
<1>2. \A j \in 1 .. l : sent[Run(sent, n)[j]] \in Frame
  <2>1. \A j \in 1 .. l : Run(sent, n)[j] \in 1 .. n
    BY <1>1, RunPlaces
  <2>2. \A i \in 1 .. n : i \in 1 .. Len(sent)
    BY LenProperties
  <2>. QED
    BY <2>1, <2>2, ElementOfSeq
<1>3. Kept(sent, n) = [j \in 1 .. l |-> sent[Run(sent, n)[j]]]
  BY <1>1 DEF Kept
<1>4. PICK q \in [1 .. l -> Frame] : q = Kept(sent, n) /\ \A j \in 1 .. l : q[j] = sent[Run(sent, n)[j]]
  BY <1>2, <1>3
<1>5. q \in Seq(Frame)
  BY <1>4, SeqDef
<1>6. Len(q) = l
  <2>1. Len(q) \in Nat /\ 1 .. Len(q) = 1 .. l
    BY <1>4, <1>5, LenProperties
  <2>. QED
    BY <2>1
<1>. QED
  BY <1>1, <1>4, <1>5, <1>6

LEMMA KeptStart ==
    ASSUME NEW sent \in Seq(Frame), NEW n \in Nat, n + 1 <= Len(sent),
           sent[n + 1].op \in {"Binary", "Text"}
    PROVE  /\ Run(sent, n + 1) = <<n + 1>> /\ Head(Run(sent, n + 1)) = n + 1
           /\ Kept(sent, n + 1) = <<sent[n + 1]>>
<1>1. Run(sent, n + 1) = <<n + 1>>
  BY RunStep
<1>2. Len(<<n + 1>>) = 1 /\ <<n + 1>>[1] = n + 1 /\ Head(<<n + 1>>) = n + 1
  OBVIOUS
<1>3. PICK q \in Seq(Frame) : q = Kept(sent, n + 1) /\ Len(q) = 1 /\ q[1] = sent[n + 1]
  <2>1. n + 1 \in 0 .. Len(sent) /\ 1 \in 1 .. 1
    BY LenProperties
  <2>. QED
    BY <1>1, <1>2, <2>1, KeptIs
<1>4. PICK x \in Frame : x = sent[n + 1]
  <2>1. n + 1 \in 1 .. Len(sent)
    BY LenProperties
  <2>. QED
    BY <2>1, ElementOfSeq
<1>5. <<x>> \in Seq(Frame) /\ Len(<<x>>) = 1 /\ <<x>>[1] = x
  OBVIOUS
<1>6. \A i \in 1 .. 1 : i = 1
  OBVIOUS
<1>7. q = <<x>>
  BY <1>3, <1>4, <1>5, <1>6, SeqEqual
<1>. QED
  BY <1>1, <1>2, <1>3, <1>4, <1>7

LEMMA KeptMore ==
    ASSUME NEW sent \in Seq(Frame), NEW n \in Nat, n + 1 <= Len(sent),
           sent[n + 1].op = "Continue"
    PROVE  Kept(sent, n + 1) = Append(Kept(sent, n), sent[n + 1])
<1>1. PICK r \in Seq(Nat), l \in Nat : r = Run(sent, n) /\ l = Len(r)
  BY RunStep, LenProperties
<1>2. Run(sent, n + 1) = Append(r, n + 1)
  BY <1>1, RunStep
<1>3. PICK q \in Seq(Nat) :
          /\ q = Append(r, n + 1) /\ Len(q) = l + 1
          /\ \A i \in 1 .. l : q[i] = r[i]
          /\ q[l + 1] = n + 1
  <2>1. /\ \A x \in Nat : /\ Append(r, x) \in Seq(Nat) /\ Len(Append(r, x)) = Len(r) + 1
                          /\ \A i \in 1 .. Len(r) : Append(r, x)[i] = r[i]
                          /\ Append(r, x)[Len(r) + 1] = x
    BY AppendProperties
  <2>2. PICK x \in Nat : x = n + 1
    OBVIOUS
  <2>. QED
    BY <1>1, <2>1, <2>2
<1>4. n \in 0 .. Len(sent) /\ n + 1 \in 0 .. Len(sent) /\ n + 1 \in 1 .. Len(sent)
  BY LenProperties
<1>5. PICK a \in Seq(Frame) : /\ a = Kept(sent, n) /\ Len(a) = l
                              /\ \A j \in 1 .. l : a[j] = sent[r[j]]
  BY <1>1, <1>4, KeptIs
<1>6. PICK b \in Seq(Frame) : /\ b = Kept(sent, n + 1) /\ Len(b) = l + 1
                              /\ \A j \in 1 .. l + 1 : b[j] = sent[q[j]]
  <2>1. Run(sent, n + 1) = q /\ Len(q) = l + 1
    BY <1>2, <1>3
  <2>2. PICK h \in 0 .. Len(sent) : h = n + 1
    BY <1>4
  <2>3. /\ Kept(sent, h) \in Seq(Frame) /\ Len(Kept(sent, h)) = Len(Run(sent, h))
        /\ \A j \in 1 .. Len(Run(sent, h)) : Kept(sent, h)[j] = sent[Run(sent, h)[j]]
    BY KeptIs
  <2>. QED
    BY <2>1, <2>2, <2>3
<1>7. PICK x \in Frame : x = sent[n + 1]
  BY <1>4, ElementOfSeq
<1>8. PICK d \in Seq(Frame) : /\ d = Append(a, x) /\ Len(d) = l + 1
                              /\ \A i \in 1 .. l : d[i] = a[i]
                              /\ d[l + 1] = x
  <2>1. /\ Append(a, x) \in Seq(Frame) /\ Len(Append(a, x)) = Len(a) + 1
        /\ \A i \in 1 .. Len(a) : Append(a, x)[i] = a[i]
        /\ Append(a, x)[Len(a) + 1] = x
    BY AppendProperties
  <2>. QED
    BY <1>5, <2>1
<1>9. \A j \in 1 .. l + 1 : (j \in 1 .. l /\ j \in 1 .. l + 1) \/ j = l + 1
  OBVIOUS
<1>10. ASSUME NEW j \in 1 .. l + 1 PROVE b[j] = d[j]
  <2>1. CASE j \in 1 .. l
    <3>1. q[j] = r[j] /\ d[j] = a[j] /\ a[j] = sent[r[j]]
      BY <1>3, <1>5, <1>8, <2>1
    <3>2. b[j] = sent[q[j]]
      BY <1>6
    <3>. QED
      BY <3>1, <3>2
  <2>2. CASE j = l + 1
    BY <1>3, <1>6, <1>7, <1>8, <2>2
  <2>. QED
    BY <1>9, <2>1, <2>2
<1>11. b = d
  BY <1>6, <1>8, <1>10, SeqEqual
<1>. QED
  BY <1>5, <1>6, <1>7, <1>8, <1>11

LEMMA KeptPing ==
    ASSUME NEW sent, NEW n \in Nat, sent[n + 1].op \notin {"Binary", "Text", "Continue"}
    PROVE  Run(sent, n + 1) = Run(sent, n) /\ Kept(sent, n + 1) = Kept(sent, n)
<1>1. Run(sent, n + 1) = Run(sent, n)
  BY RunStep
<1>. QED
  BY <1>1 DEF Kept

\* The frames kept bear the numbers of the run.
LEMMA KeptIds ==
    ASSUME NEW sent \in Seq(Frame), NEW e, Ordered(sent, e), NEW n \in 0 .. Len(sent)
    PROVE  [k \in DOMAIN Kept(sent, n) |-> Kept(sent, n)[k].id] = Run(sent, n)
<1>1. PICK m \in Nat : m = Len(sent) /\ n \in Nat /\ n <= m
  BY LenProperties
<1>2. PICK r \in Seq(Nat), l \in Nat : /\ r = Run(sent, n) /\ l = Len(r)
                                       /\ \A j \in 1 .. l : r[j] \in 1 .. n
  BY <1>1, RunStep, LenProperties, RunPlaces
<1>3. PICK a \in Seq(Frame) : /\ a = Kept(sent, n) /\ Len(a) = l
                              /\ \A j \in 1 .. l : a[j] = sent[r[j]]
  BY <1>2, KeptIs
<1>4. \A i \in 1 .. n : sent[i].id = i
  BY <1>1 DEF Ordered
<1>5. DOMAIN a = 1 .. l /\ DOMAIN r = 1 .. l /\ r \in [1 .. l -> Nat]
  BY <1>2, <1>3, LenProperties
<1>6. \A j \in 1 .. l : a[j].id = r[j]
  BY <1>2, <1>3, <1>4
<1>7. [k \in DOMAIN a |-> a[k].id] = r
  BY <1>5, <1>6
<1>. QED
  BY <1>2, <1>3, <1>7

LEMMA IdsOne ==
    ASSUME NEW frame \in Frame
    PROVE  /\ <<frame>> \in Seq(Frame) /\ <<frame.id>> \in Seq(Nat)
           /\ [k \in DOMAIN <<frame>> |-> <<frame>>[k].id] = <<frame.id>>
<1>1. <<frame>> \in Seq(Frame)
  OBVIOUS
<1>2. frame.id \in Nat
  BY DEF Frame
<1>3. <<frame.id>> \in Seq(Nat)
  BY <1>2
<1>4. DOMAIN <<frame>> = 1 .. 1 /\ <<frame>>[1] = frame
  OBVIOUS
<1>5. PICK q \in Seq(Nat) : q = <<frame.id>> /\ DOMAIN q = 1 .. 1 /\ q[1] = frame.id
  <2>1. PICK x \in Nat : x = frame.id
    BY <1>2
  <2>2. <<x>> \in Seq(Nat) /\ DOMAIN <<x>> = 1 .. 1 /\ <<x>>[1] = x
    OBVIOUS
  <2>. QED
    BY <2>1, <2>2
<1>6. q \in [1 .. 1 -> Nat]
  BY <1>5, LenProperties
<1>7. \A k \in 1 .. 1 : <<frame>>[k].id = q[k]
  BY <1>4, <1>5
<1>8. [k \in DOMAIN <<frame>> |-> <<frame>>[k].id] = q
  BY <1>4, <1>6, <1>7
<1>. QED
  BY <1>1, <1>3, <1>5, <1>8

\* An event that a frame means is heard behind the others.
Means(event, ids, frames, sent, save, n) ==
    /\ ids = [k \in DOMAIN frames |-> frames[k].id]
    /\ Event(sent, save, n) = <<[event |-> event, ids |-> ids]>>

LEMMA TellsHeard ==
    ASSUME NEW s \in End, NEW t, NEW e, NEW event \in Events, NEW frames \in Seq(Frame),
           Tells(s, t, e, event, frames), NEW ids \in Seq(Nat),
           NEW sent, NEW j \in Nat, s.failed = 0, Listened(s, sent, j),
           Means(event, ids, frames, sent, s.saveFragment, j + 1)
    PROVE  /\ t.heard = Heard(sent, t.saveFragment, j + 1)
           /\ t.failed = 0 /\ t.saveFragment = s.saveFragment
<1>0. ids = [k \in DOMAIN frames |-> frames[k].id]
  BY DEF Means
<1>1. t.heard = s.heard \o <<[event |-> event, ids |-> ids]>>
  BY <1>0, ToldHeard DEF Tells
<1>2. s.heard = Heard(sent, s.saveFragment, j)
  BY DEF Listened
<1>3. Heard(sent, s.saveFragment, j + 1)
          = Heard(sent, s.saveFragment, j) \o Event(sent, s.saveFragment, j + 1)
  BY HeardStep
<1>. QED
  BY <1>1, <1>2, <1>3 DEF Tells, Means

\* A frame without an event.
LEMMA HeardNothing ==
    ASSUME NEW s, NEW sent, NEW j \in Nat, s.failed = 0, Listened(s, sent, j),
           Event(sent, s.saveFragment, j + 1) = <<>>
    PROVE  s.heard = Heard(sent, s.saveFragment, j + 1)
<1>1. PICK h \in Seq(Entry) : h = Heard(sent, s.saveFragment, j)
  BY HeardStep
<1>2. Heard(sent, s.saveFragment, j + 1) = h \o <<>>
  BY <1>1, HeardStep
<1>3. h \o <<>> = h
  BY ConcatEmptySeq
<1>. QED
  BY <1>1, <1>2, <1>3 DEF Listened


\* The frames of a message, one by one.
LEMMA DataTells ==
    ASSUME NEW s \in End, NEW e \in Ends, owner[e] \in {"manager", "test"}, s.life = "alive",
           Owned(s, e), Ordered(s.sent, e),
           NEW sent \in Seq(Frame), NEW p, Ordered(sent, p),
           NEW j \in Nat, j + 1 <= Len(sent), sent[j + 1].op \in {"Binary", "Text"}
    PROVE  /\ Speaks(s, TakeData(s, e, sent[j + 1]), e)
           /\ s.failed = 0 /\ Listened(s, sent, j) => Listened(TakeData(s, e, sent[j + 1]), sent, j + 1)
<1>1. PICK frame \in Frame, t \in {TakeData(s, e, sent[j + 1])} :
          frame = sent[j + 1] /\ t = TakeData(s, e, frame) /\ frame.id = j + 1
          /\ ~Unfinished(sent, j)
  <2>1. j + 1 \in 1 .. Len(sent) /\ (j + 1) - 1 = j
    BY LenProperties
  <2>2. sent[j + 1] \in Frame
    BY <2>1, ElementOfSeq
  <2>3. sent[j + 1].id = j + 1 /\ ~Unfinished(sent, j)
    BY <2>1 DEF Ordered
  <2>. QED
    BY <2>2, <2>3
<1>2. /\ Run(sent, j + 1) = <<j + 1>> /\ Head(Run(sent, j + 1)) = j + 1
      /\ Kept(sent, j + 1) = <<frame>>
  BY <1>1, KeptStart
<1>3. Unfinished(sent, j + 1) <=> ~frame.fin
  BY <1>1, UnfinishedStep
<1>4. CASE frame.fin
  <2>1. PICK event \in Events :
            event = (IF frame.op = "Binary" THEN "message" ELSE "textMessage") /\ event # "end"
    BY DEF Events
  <2>2. PICK frames \in Seq(Frame), ids \in Seq(Nat) :
            frames = <<frame>> /\ ids = <<j + 1>> /\ ids = [k \in DOMAIN frames |-> frames[k].id]
    BY <1>1, IdsOne
  <2>3. t = Hear(s, e, event, frames)
    BY <1>1, <1>4, <2>1, <2>2 DEF TakeData
  <2>4. Tells(s, t, e, event, frames)
    BY <2>1, <2>3, HearTells
  <2>5. Event(sent, s.saveFragment, j + 1) = <<[event |-> event, ids |-> ids]>>
    BY <1>1, <1>2, <1>4, <2>1, <2>2, EventCases
  <2>6. ASSUME s.failed = 0, Listened(s, sent, j) PROVE Listened(t, sent, j + 1)
    <3>1. /\ t.heard = Heard(sent, t.saveFragment, j + 1)
          /\ t.failed = 0 /\ t.saveFragment = s.saveFragment
      <4>1. Means(event, ids, frames, sent, s.saveFragment, j + 1)
        BY <2>2, <2>5 DEF Means
      <4>. QED
        BY <2>4, <2>6, <4>1, TellsHeard
    <3>2. s.saveFragment => s.fragments = <<>>
      BY <1>1, <2>6 DEF Listened, Gathered
    <3>3. t.fragments = s.fragments
      BY <2>1, <2>4 DEF Tells
    <3>. QED
      BY <1>3, <1>4, <3>1, <3>2, <3>3 DEF Listened, Gathered
  <2>. QED
    BY <1>1, <2>4, <2>6 DEF Tells
<1>5. CASE ~frame.fin /\ ~s.saveFragment
  <2>1. t = s
    BY <1>1, <1>5 DEF TakeData
  <2>2. Event(sent, s.saveFragment, j + 1) = <<>>
    BY <1>1, <1>5, EventCases
  <2>3. ASSUME s.failed = 0, Listened(s, sent, j) PROVE Listened(s, sent, j + 1)
    <3>1. s.heard = Heard(sent, s.saveFragment, j + 1)
      BY <2>2, <2>3, HeardNothing
    <3>. QED
      BY <1>5, <3>1 DEF Listened, Gathered
  <2>. QED
    BY <1>1, <2>1, <2>3 DEF Speaks
<1>6. CASE ~frame.fin /\ s.saveFragment /\ s.remain # <<>>
  <2>1. t = Fail(s, e)
    BY <1>1, <1>6 DEF TakeData
  <2>2. t.sent = s.sent /\ t.writes = s.writes /\ t.failed # 0
    BY <2>1, FailIs
  <2>. QED
    BY <1>1, <2>2 DEF Speaks, Listened
<1>7. CASE ~frame.fin /\ s.saveFragment /\ s.remain = <<>>
  <2>1. t = [s EXCEPT !.fragments = Append(s.fragments, frame), !.saveBinary = (frame.op = "Binary")]
    BY <1>1, <1>7 DEF TakeData
  <2>2. /\ t.sent = s.sent /\ t.writes = s.writes /\ t.failed = s.failed /\ t.heard = s.heard
        /\ t.saveFragment = s.saveFragment
        /\ t.fragments = Append(s.fragments, frame) /\ t.saveBinary = (frame.op = "Binary")
    BY <2>1 DEF End
  <2>3. Event(sent, s.saveFragment, j + 1) = <<>>
    BY <1>1, <1>7, EventCases
  <2>4. ASSUME s.failed = 0, Listened(s, sent, j) PROVE Listened(t, sent, j + 1)
    <3>1. s.heard = Heard(sent, s.saveFragment, j + 1)
      BY <2>3, <2>4, HeardNothing
    <3>2. s.fragments = <<>>
      BY <1>1, <1>7, <2>4 DEF Listened, Gathered
    <3>3. Append(<<>>, frame) = <<frame>>
      OBVIOUS
    <3>4. t.fragments = Kept(sent, j + 1)
      BY <1>2, <2>2, <3>2, <3>3
    <3>5. t.saveBinary = (sent[Head(Run(sent, j + 1))].op = "Binary")
      BY <1>1, <1>2, <2>2
    <3>. QED
      BY <1>3, <1>7, <2>2, <3>1, <3>4, <3>5 DEF Listened, Gathered
  <2>. QED
    BY <1>1, <2>2, <2>4 DEF Speaks
<1>. QED
  BY <1>4, <1>5, <1>6, <1>7

LEMMA ContinueTells ==
    ASSUME NEW s \in End, NEW e \in Ends, owner[e] \in {"manager", "test"}, s.life = "alive",
           Owned(s, e), Ordered(s.sent, e),
           NEW sent \in Seq(Frame), NEW p, Ordered(sent, p),
           NEW j \in Nat, j + 1 <= Len(sent), sent[j + 1].op = "Continue"
    PROVE  /\ Speaks(s, TakeContinue(s, e, sent[j + 1]), e)
           /\ s.failed = 0 /\ Listened(s, sent, j)
                 => Listened(TakeContinue(s, e, sent[j + 1]), sent, j + 1)
<1>1. PICK frame \in Frame, t \in {TakeContinue(s, e, sent[j + 1])} :
          frame = sent[j + 1] /\ t = TakeContinue(s, e, frame) /\ Unfinished(sent, j)
  <2>1. j + 1 \in 1 .. Len(sent) /\ (j + 1) - 1 = j
    BY LenProperties
  <2>2. sent[j + 1] \in Frame
    BY <2>1, ElementOfSeq
  <2>3. Unfinished(sent, j)
    BY <2>1 DEF Ordered
  <2>. QED
    BY <2>2, <2>3
<1>2. /\ Run(sent, j) # <<>> /\ Run(sent, j + 1) = Append(Run(sent, j), j + 1)
      /\ Head(Run(sent, j + 1)) = Head(Run(sent, j))
      /\ Kept(sent, j + 1) = Append(Kept(sent, j), frame)
      /\ j \in 0 .. Len(sent) /\ j + 1 \in 0 .. Len(sent)
  <2>1. j \in 0 .. Len(sent) /\ j + 1 \in 0 .. Len(sent) /\ j + 1 \in Nat
    BY LenProperties
  <2>2. Run(sent, j) # <<>>
    BY <1>1, <2>1, UnfinishedRun
  <2>3. Run(sent, j + 1) = Append(Run(sent, j), j + 1)
    BY RunStep
  <2>4. Head(Append(Run(sent, j), j + 1)) = Head(Run(sent, j))
    BY <2>1, <2>2, RunFirst
  <2>. QED
    BY <1>1, <2>1, <2>2, <2>3, <2>4, KeptMore
<1>3. Unfinished(sent, j + 1) <=> ~frame.fin
  BY <1>1, UnfinishedStep
<1>4. PICK whole \in Seq(Frame) : whole = Append(s.fragments, frame)
  <2>1. s.fragments \in Seq(Frame)
    BY DEF End
  <2>. QED
    BY <2>1, AppendProperties
<1>5. CASE ~s.saveFragment
  <2>1. t = s
    BY <1>1, <1>5 DEF TakeContinue
  <2>2. Event(sent, s.saveFragment, j + 1) = <<>>
    BY <1>1, <1>5, EventCases
  <2>3. ASSUME s.failed = 0, Listened(s, sent, j) PROVE Listened(s, sent, j + 1)
    <3>1. s.heard = Heard(sent, s.saveFragment, j + 1)
      BY <2>2, <2>3, HeardNothing
    <3>. QED
      BY <1>5, <3>1 DEF Listened, Gathered
  <2>. QED
    BY <1>1, <2>1, <2>3 DEF Speaks
<1>6. CASE s.saveFragment /\ Weight(s.fragments) = 0
  <2>1. t = Fail(s, e)
    BY <1>1, <1>6 DEF TakeContinue
  <2>2. t.sent = s.sent /\ t.writes = s.writes /\ t.failed # 0
    BY <2>1, FailIs
  <2>. QED
    BY <1>1, <2>2 DEF Speaks, Listened
<1>7. CASE s.saveFragment /\ Weight(s.fragments) # 0 /\ ~frame.fin
  <2>1. t = [s EXCEPT !.fragments = whole]
    BY <1>1, <1>4, <1>7 DEF TakeContinue
  <2>2. /\ t.sent = s.sent /\ t.writes = s.writes /\ t.failed = s.failed /\ t.heard = s.heard
        /\ t.saveFragment = s.saveFragment /\ t.life = s.life
        /\ t.fragments = whole /\ t.saveBinary = s.saveBinary
    BY <2>1 DEF End
  <2>3. Event(sent, s.saveFragment, j + 1) = <<>>
    BY <1>1, <1>7, EventCases
  <2>4. ASSUME s.failed = 0, Listened(s, sent, j) PROVE Listened(t, sent, j + 1)
    <3>1. s.heard = Heard(sent, s.saveFragment, j + 1)
      BY <2>3, <2>4, HeardNothing
    <3>2. s.fragments = Kept(sent, j) /\ s.saveBinary = (sent[Head(Run(sent, j))].op = "Binary")
      BY <1>1, <1>7, <2>4 DEF Listened, Gathered
    <3>3. t.fragments = Kept(sent, j + 1)
      BY <1>2, <1>4, <2>2, <3>2
    <3>4. t.saveBinary = (sent[Head(Run(sent, j + 1))].op = "Binary")
      BY <1>2, <2>2, <3>2
    <3>. QED
      BY <1>3, <1>7, <2>2, <3>1, <3>3, <3>4 DEF Listened, Gathered
  <2>. QED
    BY <1>1, <2>2, <2>4 DEF Speaks
<1>8. CASE s.saveFragment /\ Weight(s.fragments) # 0 /\ frame.fin
  <2>1. PICK event \in Events :
            event = (IF s.saveBinary THEN "message" ELSE "textMessage") /\ event # "end"
    BY DEF Events
  <2>2. PICK h \in End : h = Hear(s, e, event, whole)
    BY HearType
  <2>3. t = [h EXCEPT !.fragments = <<>>]
    BY <1>1, <1>4, <1>8, <2>1, <2>2 DEF TakeContinue
  <2>4. /\ t.sent = h.sent /\ t.writes = h.writes /\ t.failed = h.failed /\ t.heard = h.heard
        /\ t.saveFragment = h.saveFragment /\ t.fragments = <<>>
    BY <2>3 DEF End
  <2>5. Tells(s, h, e, event, whole)
    BY <2>1, <2>2, HearTells
  <2>6. Speaks(s, t, e)
    BY <2>4, <2>5 DEF Tells, Speaks
  <2>7. ASSUME s.failed = 0, Listened(s, sent, j) PROVE Listened(t, sent, j + 1)
    <3>1. s.fragments = Kept(sent, j) /\ s.saveBinary = (sent[Head(Run(sent, j))].op = "Binary")
      BY <1>1, <1>8, <2>7 DEF Listened, Gathered
    <3>2. whole = Kept(sent, j + 1)
      BY <1>2, <1>4, <3>1
    <3>3. PICK ids \in Seq(Nat) : ids = Run(sent, j + 1) /\ ids = [k \in DOMAIN whole |-> whole[k].id]
      <4>1. Run(sent, j + 1) \in Seq(Nat)
        <5>1. j + 1 \in Nat
          OBVIOUS
        <5>. QED
          BY <5>1, RunStep
      <4>2. [k \in DOMAIN Kept(sent, j + 1) |-> Kept(sent, j + 1)[k].id] = Run(sent, j + 1)
        BY <1>2, KeptIds
      <4>. QED
        BY <3>2, <4>1, <4>2
    <3>4. Event(sent, s.saveFragment, j + 1) = <<[event |-> event, ids |-> ids]>>
      <4>1. Event(sent, s.saveFragment, j + 1)
                = <<[event |-> IF sent[Head(Run(sent, j + 1))].op = "Binary" THEN "message"
                               ELSE "textMessage",
                     ids |-> Run(sent, j + 1)]>>
        <5>1. /\ sent[j + 1].op = "Continue" /\ sent[j + 1].op \notin {"Ping", "Close"}
              /\ sent[j + 1].fin /\ s.saveFragment
          BY <1>1, <1>8
        <5>. QED
          BY <5>1 DEF Event
      <4>2. event = IF sent[Head(Run(sent, j + 1))].op = "Binary" THEN "message" ELSE "textMessage"
        BY <1>2, <2>1, <3>1
      <4>. QED
        BY <3>3, <4>1, <4>2, Zenon
    <3>5. /\ h.heard = Heard(sent, h.saveFragment, j + 1)
          /\ h.failed = 0 /\ h.saveFragment = s.saveFragment
      <4>1. Means(event, ids, whole, sent, s.saveFragment, j + 1)
        BY <3>3, <3>4 DEF Means
      <4>. QED
        BY <2>5, <2>7, <4>1, TellsHeard
    <3>. QED
      BY <1>3, <1>8, <2>4, <3>5 DEF Listened, Gathered
  <2>. QED
    BY <1>1, <2>6, <2>7
<1>. QED
  BY <1>5, <1>6, <1>7, <1>8

LEMMA CloseTells ==
    ASSUME NEW s \in End, NEW e \in Ends, owner[e] \in {"manager", "test"}, s.life = "alive",
           Ordered(s.sent, e),
           NEW sent \in Seq(Frame), NEW p, Ordered(sent, p),
           NEW j \in Nat, j + 1 <= Len(sent), sent[j + 1].op = "Close"
    PROVE  /\ Speaks(s, TakeClose(s, e, sent[j + 1]), e)
           /\ s.failed = 0 /\ Listened(s, sent, j)
                 => Listened(TakeClose(s, e, sent[j + 1]), sent, j + 1)
<1>1. PICK frame \in Frame, t \in {TakeClose(s, e, sent[j + 1])} :
          frame = sent[j + 1] /\ t = TakeClose(s, e, frame) /\ frame.id = j + 1
  <2>1. j + 1 \in 1 .. Len(sent)
    BY LenProperties
  <2>. QED
    BY <2>1, ElementOfSeq DEF Ordered
<1>2. CASE s.recieveEnd \/ frame.len < 2
  <2>1. t = Fail(s, e)
    BY <1>1, <1>2 DEF TakeClose
  <2>2. t.sent = s.sent /\ t.writes = s.writes /\ t.failed # 0
    BY <2>1, FailIs
  <2>. QED
    BY <1>1, <2>2 DEF Speaks, Listened
<1>3. CASE ~(s.recieveEnd \/ frame.len < 2)
  <2>1. PICK u \in End : u = [s EXCEPT !.recieveEnd = TRUE, !.state = "CLOSING"]
    BY EndChanges
  <2>2. /\ u.sent = s.sent /\ u.writes = s.writes /\ u.life = "alive" /\ u.failed = s.failed
        /\ u.saveFragment = s.saveFragment /\ u.heard = s.heard
        /\ u.fragments = s.fragments /\ u.saveBinary = s.saveBinary
        /\ u.state = "CLOSING" /\ u.recieveEnd
    BY <2>1 DEF End
  <2>3. PICK frames \in Seq(Frame), ids \in Seq(Nat) :
            frames = <<frame>> /\ ids = <<j + 1>> /\ ids = [k \in DOMAIN frames |-> frames[k].id]
    BY <1>1, IdsOne
  <2>4. PICK event \in Events : event = "end"
    BY DEF Events
  <2>5. t = Hear(u, e, event, frames)
    BY <1>1, <1>3, <2>1, <2>3, <2>4 DEF TakeClose
  <2>6. Tells(u, t, e, event, frames)
    BY <2>2, <2>4, <2>5, HearTells
  <2>7. Speaks(s, t, e)
    BY <2>2, <2>6 DEF Tells, Speaks
  <2>8. ASSUME s.failed = 0, Listened(s, sent, j) PROVE Listened(t, sent, j + 1)
    <3>1. Listened(u, sent, j) /\ u.failed = 0
      BY <2>2, <2>8 DEF Listened, Gathered
    <3>2. Event(sent, u.saveFragment, j + 1) = <<[event |-> event, ids |-> ids]>>
      BY <1>1, <2>3, <2>4, EventCases
    <3>3. t.heard = Heard(sent, t.saveFragment, j + 1)
      <4>1. Means(event, ids, frames, sent, u.saveFragment, j + 1)
        BY <2>3, <3>2 DEF Means
      <4>. QED
        BY <2>6, <3>1, <4>1, TellsHeard
    <3>. QED
      BY <2>4, <2>6, <3>3 DEF Listened, Tells
  <2>. QED
    BY <1>1, <2>7, <2>8
<1>. QED
  BY <1>2, <1>3

LEMMA PingTells ==
    ASSUME NEW s \in End, NEW e \in Ends, owner[e] \in {"manager", "test"}, s.life = "alive",
           Owned(s, e), Ordered(s.sent, e),
           NEW sent \in Seq(Frame), NEW p, Ordered(sent, p),
           NEW j \in Nat, j + 1 <= Len(sent), sent[j + 1].op = "Ping"
    PROVE  /\ Speaks(s, Hear(s, e, "ping", <<sent[j + 1]>>), e)
           /\ s.failed = 0 /\ Listened(s, sent, j)
                 => Listened(Hear(s, e, "ping", <<sent[j + 1]>>), sent, j + 1)
<1>1. PICK frame \in Frame : frame = sent[j + 1] /\ frame.id = j + 1
  <2>1. j + 1 \in 1 .. Len(sent)
    BY LenProperties
  <2>. QED
    BY <2>1, ElementOfSeq DEF Ordered
<1>2. PICK frames \in Seq(Frame), ids \in Seq(Nat) :
          frames = <<frame>> /\ ids = <<j + 1>> /\ ids = [k \in DOMAIN frames |-> frames[k].id]
  BY <1>1, IdsOne
<1>3. PICK event \in Events : event = "ping" /\ event # "end"
  BY DEF Events
<1>4. PICK t : t = Hear(s, e, event, frames)
  OBVIOUS
<1>5. Tells(s, t, e, event, frames)
  BY <1>3, <1>4, HearTells
<1>6. ASSUME s.failed = 0, Listened(s, sent, j) PROVE Listened(t, sent, j + 1)
  <2>1. Event(sent, s.saveFragment, j + 1) = <<[event |-> event, ids |-> ids]>>
    BY <1>1, <1>2, <1>3, EventCases
  <2>2. /\ t.heard = Heard(sent, t.saveFragment, j + 1)
        /\ t.failed = 0 /\ t.saveFragment = s.saveFragment
    <3>1. Means(event, ids, frames, sent, s.saveFragment, j + 1)
      BY <1>2, <2>1 DEF Means
    <3>. QED
      BY <1>5, <1>6, <3>1, TellsHeard
  <2>3. t.fragments = s.fragments /\ t.saveBinary = s.saveBinary
    BY <1>3, <1>5 DEF Tells
  <2>4. Run(sent, j + 1) = Run(sent, j) /\ Kept(sent, j + 1) = Kept(sent, j)
    BY KeptPing
  <2>5. Unfinished(sent, j + 1) <=> Unfinished(sent, j)
    BY UnfinishedStep
  <2>6. Gathered(s, sent, j)
    BY <1>6 DEF Listened
  <2>7. Gathered(t, sent, j + 1)
    BY <2>2, <2>3, <2>4, <2>5, <2>6 DEF Gathered
  <2>. QED
    BY <2>2, <2>7 DEF Listened
<1>. QED
  BY <1>1, <1>2, <1>3, <1>4, <1>5, <1>6 DEF Tells

LEMMA TakeTells ==
    ASSUME NEW s \in End, NEW e \in Ends, owner[e] \in {"manager", "test"}, s.life = "alive",
           Owned(s, e), Ordered(s.sent, e),
           NEW sent \in Seq(Frame), NEW p, Ordered(sent, p), NEW j \in Nat, j + 1 <= Len(sent)
    PROVE  /\ Speaks(s, Take(s, e, sent[j + 1]), e)
           /\ s.failed = 0 /\ Listened(s, sent, j) => Listened(Take(s, e, sent[j + 1]), sent, j + 1)
<1>1. sent[j + 1].op \in {"Text", "Binary", "Continue", "Ping", "Close"}
  <2>1. j + 1 \in 1 .. Len(sent)
    BY LenProperties
  <2>2. sent[j + 1] \in Frame
    BY <2>1, ElementOfSeq
  <2>. QED
    BY <2>2 DEF Frame
<1>2. CASE sent[j + 1].op \in {"Binary", "Text"}
  <2>1. Take(s, e, sent[j + 1]) = TakeData(s, e, sent[j + 1])
    BY <1>2 DEF Take
  <2>. QED
    BY <1>2, <2>1, DataTells
<1>3. CASE sent[j + 1].op = "Continue"
  <2>1. Take(s, e, sent[j + 1]) = TakeContinue(s, e, sent[j + 1])
    BY <1>3 DEF Take
  <2>. QED
    BY <1>3, <2>1, ContinueTells
<1>4. CASE sent[j + 1].op = "Close"
  <2>1. Take(s, e, sent[j + 1]) = TakeClose(s, e, sent[j + 1])
    BY <1>4 DEF Take
  <2>. QED
    BY <1>4, <2>1, CloseTells
<1>5. CASE sent[j + 1].op = "Ping"
  <2>1. Take(s, e, sent[j + 1]) = Hear(s, e, "ping", <<sent[j + 1]>>)
    BY <1>5 DEF Take
  <2>. QED
    BY <1>5, <2>1, PingTells
<1>. QED
  BY <1>1, <1>2, <1>3, <1>4, <1>5

-----------------------------------------------------------------------------
(* Steps of the conversation                                                   *)

\* A first part of what w had to write is on the way; v has the others, or is gone.
LEMMA DeliversSent ==
    ASSUME NEW w \in End, NEW r \in End, NEW c \in Seq(Byte), NEW v,
           NEW part \in Seq(Byte), NEW rest \in Seq(Byte),
           Unwritten(w) = part \o rest, v.sent = w.sent,
           \/ Unwritten(v) = <<>> /\ v.life # "alive"
           \/ Unwritten(v) = rest /\ (v.life = "alive" => w.life = "alive"),
           Delivers(w, r, c)
    PROVE  Delivers(v, r, c \o part)
<1>1. PICK k \in 0 .. Len(w.sent) :
          Listened(r, w.sent, k) /\ (r.life = "alive" => Under(w, r, c, k))
  BY DEF Delivers
<1>2. ASSUME r.life = "alive" PROVE Under(v, r, c \o part, k)
  <2>1. PICK b \in Seq(Byte), x \in Seq(Byte), d \in Seq(Byte), remain \in Seq(Byte) :
            /\ remain = r.remain /\ b = remain \o c /\ x = c \o part /\ d = remain \o x
    <3>1. r.remain \in Seq(Byte) /\ c \o part \in Seq(Byte)
      BY ConcatProperties DEF End
    <3>2. r.remain \o c \in Seq(Byte) /\ r.remain \o (c \o part) \in Seq(Byte)
      BY <3>1, ConcatProperties
    <3>. QED
      BY <3>1, <3>2
  <2>2. b \o (part \o rest) = d \o rest /\ c \o (part \o rest) = x \o rest
    <3>1. Regroups(b, part, rest) /\ Regroups(remain, c, part) /\ Regroups(c, part, rest)
      BY Reassociated
    <3>. QED
      BY <2>1, <3>1 DEF Regroups
  <2>3. /\ Carries(d \o rest, w.sent, k)
        /\ w.life = "alive" => Complete(d \o rest, w.sent, k)
        /\ Short(remain) /\ Cut(x \o rest)
    BY <1>1, <1>2, <2>1, <2>2 DEF Under
  <2>4. CASE Unwritten(v) = rest /\ (v.life = "alive" => w.life = "alive")
    BY <2>1, <2>3, <2>4 DEF Under
  <2>5. CASE Unwritten(v) = <<>> /\ v.life # "alive"
    <3>1. Carries(d, w.sent, k) /\ Cut(x)
      BY <2>3, CarriesBefore, CutParts
    <3>2. d \o <<>> = d /\ x \o <<>> = x
      BY ConcatEmptySeq
    <3>. QED
      BY <2>1, <2>3, <2>5, <3>1, <3>2 DEF Under
  <2>. QED
    BY <2>4, <2>5
<1>3. r.life # "garbled"
  BY DEF Delivers
<1>. QED
  BY <1>1, <1>2, <1>3 DEF Delivers

\* Nothing reaches an end that is gone.
LEMMA DeliversGone ==
    ASSUME NEW w, NEW r, NEW c, r.life # "alive", Delivers(w, r, c), NEW v, v.sent = w.sent, NEW d
    PROVE  Delivers(v, r, d)
BY DEF Delivers

\* t has heard what s has heard, or has failed.
Hears(s, t) ==
    /\ t.life # "garbled"
    /\ t.failed # 0 \/ (t.heard = s.heard /\ t.failed = s.failed /\ t.saveFragment = s.saveFragment)
    /\ t.life = "alive" =>
          /\ s.life = "alive" /\ t.remain = s.remain
          /\ t.failed = 0 => t.fragments = s.fragments /\ t.saveBinary = s.saveBinary

LEMMA HearsKeeps ==
    ASSUME NEW w, NEW s, NEW t, NEW c, Hears(s, t), Delivers(w, s, c)
    PROVE  Delivers(w, t, c)
<1>1. PICK k \in 0 .. Len(w.sent) :
          Listened(s, w.sent, k) /\ (s.life = "alive" => Under(w, s, c, k))
  BY DEF Delivers
<1>2. Listened(t, w.sent, k)
  BY <1>1 DEF Listened, Hears, Gathered
<1>3. t.life = "alive" => Under(w, t, c, k)
  BY <1>1 DEF Hears, Under
<1>. QED
  BY <1>1, <1>2, <1>3 DEF Delivers, Hears

LEMMA BecomesConverses ==
    ASSUME IInv, Conversation, NEW e \in Ends, NEW p, p = Peer(e), NEW t, NEW left, NEW right,
           Becomes(e, t, left, right), Writes(t, e),
           Delivers(t, ws[p], right), Delivers(ws[p], t, left)
    PROVE  Conversation'
<1>1. p \in Ends /\ p # e /\ Peer(p) = e /\ \A d \in Ends : d = e \/ d = p
  BY TwoEnds
<1>2. ws \in [Ends -> End] /\ wire \in [Ends -> Seq(Byte)]
  BY DEF IInv, TypeOK
<1>3. /\ ws'[e] = t /\ ws'[p] = ws[p] /\ wire'[e] = left /\ wire'[p] = right /\ owner' = owner
  BY <1>1, <1>2 DEF Becomes
<1>4. Writes(ws[p], p)
  BY <1>1 DEF Conversation
<1>5. \A d \in Ends : Writes(ws[d], d)'
  <2>1. Writes(ws[e], e)'
    BY <1>3 DEF Writes, Ordered
  <2>2. Writes(ws[p], p)'
    BY <1>3, <1>4 DEF Writes, Ordered
  <2>. QED
    BY <1>1, <2>1, <2>2
<1>6. \A d \in Ends : Delivers(ws[Peer(d)], ws[d], wire[d])'
  <2>1. Delivers(ws'[p], ws'[e], wire'[e]) /\ Delivers(ws'[e], ws'[p], wire'[p])
    BY <1>3
  <2>. QED
    BY <1>1, <2>1
<1>. QED
  BY <1>5, <1>6 DEF Conversation

LEMMA LeaveConverses ==
    ASSUME IInv, Conversation, NEW e \in Ends, NEW p, p = Peer(e), NEW s \in End,
           NEW left \in Seq(Byte), Leave(e, s, left), owner' = owner, Writes(s, e),
           Delivers(s, ws[p], wire[p]), Delivers(ws[p], s, left)
    PROVE  Conversation'
<1>1. PICK n \in 0 .. Len(s.writes) :
          /\ n > 0 => s.life # "alive"
          /\ ws' = [ws EXCEPT ![e] = IF s.life # "alive" THEN [s EXCEPT !.writes = <<>>] ELSE s]
          /\ wire' = [wire EXCEPT ![e] = left,
                                  ![Peer(e)] = wire[Peer(e)] \o FlattenSeq(SubSeq(s.writes, 1, n))]
  <2>1. wire \in [Ends -> Seq(Byte)] /\ Peer(e) \in Ends /\ Peer(e) # e
    BY TwoEnds DEF IInv, TypeOK
  <2>. QED
    BY <2>1 DEF Leave
<1>2. s.writes \in Seq(Seq(Byte)) /\ ws \in [Ends -> End] /\ wire \in [Ends -> Seq(Byte)]
  BY DEF End, IInv, TypeOK
<1>3. PICK q \in End, under \in Seq(Byte) : q = ws[p] /\ under = wire[p]
  <2>1. Peer(e) \in Ends
    BY TwoEnds
  <2>. QED
    BY <1>2, <2>1
<1>4. PICK part \in Seq(Byte), rest \in Seq(Byte) :
          part = FlattenSeq(SubSeq(s.writes, 1, n)) /\ Unwritten(s) = part \o rest
  BY <1>2, UnwrittenParts DEF Unwritten
<1>5. CASE s.life # "alive"
  <2>1. PICK t : t = [s EXCEPT !.writes = <<>>]
    OBVIOUS
  <2>2. /\ t.writes = <<>> /\ t.life = s.life /\ t.sent = s.sent /\ t.heard = s.heard
        /\ t.failed = s.failed /\ t.saveFragment = s.saveFragment
    BY <2>1 DEF End
  <2>3. Writes(t, e)
    <3>1. Len(<<>>) = 0
      BY EmptySeq
    <3>. QED
      BY <2>2, <3>1 DEF Writes, Divided
  <2>4. Unwritten(t) = <<>>
    BY <2>2, UnwrittenNone
  <2>5. Delivers(t, q, under \o part)
    <3>1. Delivers(s, q, under)
      BY <1>3
    <3>. QED
      BY <1>4, <1>5, <2>2, <2>4, <3>1, DeliversSent
  <2>6. Delivers(ws[p], t, left)
    <3>1. Hears(s, t)
      BY <1>5, <2>2 DEF Hears, Delivers
    <3>. QED
      BY <3>1, HearsKeeps
  <2>7. Becomes(e, t, left, under \o part)
    BY <1>1, <1>3, <1>4, <1>5, <2>1 DEF Becomes
  <2>. QED
    BY <1>3, <2>3, <2>5, <2>6, <2>7, BecomesConverses
<1>6. CASE s.life = "alive"
  <2>1. n = 0
    BY <1>1, <1>6
  <2>2. part = <<>>
    <3>1. SubSeq(s.writes, 1, 0) = <<>>
      BY SubSeqEmpty
    <3>. QED
      BY <1>4, <2>1, <3>1, FlattenEmpty
  <2>3. under \o part = under
    BY <2>2, ConcatEmptySeq
  <2>4. Becomes(e, s, left, under)
    BY <1>1, <1>3, <1>4, <1>6, <2>3 DEF Becomes
  <2>. QED
    BY <1>3, <2>4, BecomesConverses
<1>. QED
  BY <1>5, <1>6

\* What is behind the first bytes, with others behind it.
LEMMA BehindJoined ==
    ASSUME NEW x \in Seq(Byte), NEW y \in Seq(Byte), NEW n \in Nat, n <= Len(x)
    PROVE  SubSeq(x, n + 1, Len(x)) \o y = SubSeq(x \o y, n + 1, Len(x \o y))
<1>1. PICK m \in Nat, z \in Nat, b \in Seq(Byte) :
          /\ m = Len(x) /\ z = Len(y) /\ b = x \o y /\ Len(b) = m + z /\ n <= m
          /\ \A i \in 1 .. m : b[i] = x[i]
          /\ \A i \in 1 .. z : b[m + i] = y[i]
  <2>1. /\ x \o y \in Seq(Byte) /\ Len(x \o y) = Len(x) + Len(y)
        /\ Len(x) \in Nat /\ Len(y) \in Nat
        /\ \A i \in 1 .. Len(x) : (x \o y)[i] = x[i]
        /\ \A i \in 1 .. Len(y) : (x \o y)[Len(x) + i] = y[i]
    BY BytePlaces
  <2>. QED
    BY <2>1
<1>2. PICK c \in Seq(Byte) : /\ c = SubSeq(x, n + 1, Len(x)) /\ Len(c) = m - n
                             /\ \A i \in 1 .. m - n : c[i] = x[n + i]
  <2>1. /\ SubSeq(x, n + 1, Len(x)) \in Seq(Byte)
        /\ Len(SubSeq(x, n + 1, Len(x))) = Len(x) - n
        /\ \A i \in 1 .. Len(x) - n : SubSeq(x, n + 1, Len(x))[i] = x[n + i]
    BY BehindPlaces
  <2>2. Len(x) = m
    BY <1>1
  <2>. QED
    BY <2>1, <2>2
<1>3. PICK d \in Seq(Byte) : /\ d = SubSeq(b, n + 1, Len(b)) /\ Len(d) = (m + z) - n
                             /\ \A i \in 1 .. (m + z) - n : d[i] = b[n + i]
  <2>1. n <= Len(b)
    BY <1>1
  <2>2. /\ SubSeq(b, n + 1, Len(b)) \in Seq(Byte)
        /\ Len(SubSeq(b, n + 1, Len(b))) = Len(b) - n
        /\ \A i \in 1 .. Len(b) - n : SubSeq(b, n + 1, Len(b))[i] = b[n + i]
    BY <2>1, BehindPlaces
  <2>3. Len(b) = m + z
    BY <1>1
  <2>. QED
    BY <2>2, <2>3
<1>4. PICK g \in Seq(Byte), o \in Nat :
          /\ o = m - n /\ g = c \o y /\ Len(g) = o + z
          /\ \A i \in 1 .. o : g[i] = c[i]
          /\ \A i \in 1 .. z : g[o + i] = y[i]
  <2>0. m - n \in Nat
    BY <1>1
  <2>1. PICK o \in Nat : o = m - n
    BY <2>0
  <2>2. /\ c \o y \in Seq(Byte) /\ Len(c \o y) = Len(c) + Len(y)
        /\ \A i \in 1 .. Len(c) : (c \o y)[i] = c[i]
        /\ \A i \in 1 .. Len(y) : (c \o y)[Len(c) + i] = y[i]
    BY BytePlaces
  <2>3. Len(c) = o /\ Len(y) = z
    BY <1>1, <1>2, <2>1
  <2>4. PICK g \in Seq(Byte) : g = c \o y
    BY <2>2
  <2>5. /\ Len(g) = o + z
        /\ \A i \in 1 .. o : g[i] = c[i]
        /\ \A i \in 1 .. z : g[o + i] = y[i]
    BY <2>2, <2>3, <2>4
  <2>. QED
    BY <2>1, <2>4, <2>5
<1>5. (m + z) - n = o + z /\ Len(g) = o + z /\ Len(d) = o + z
  BY <1>1, <1>3, <1>4
<1>6. \A i \in 1 .. o + z : g[i] = d[i]
  <2>1. ASSUME NEW i \in 1 .. o PROVE g[i] = d[i]
    <3>1. i \in 1 .. m - n /\ i \in 1 .. (m + z) - n /\ n + i \in 1 .. m
      BY <1>4
    <3>2. c[i] = x[n + i] /\ d[i] = b[n + i] /\ b[n + i] = x[n + i] /\ g[i] = c[i]
      BY <1>1, <1>2, <1>3, <1>4, <3>1
    <3>. QED
      BY <3>2
  <2>2. ASSUME NEW i \in 1 .. z PROVE g[o + i] = d[o + i]
    <3>1. o + i \in 1 .. (m + z) - n /\ n + (o + i) = m + i
      BY <1>4, <1>1
    <3>2. d[o + i] = b[n + (o + i)]
      BY <1>3, <3>1
    <3>3. g[o + i] = y[i] /\ b[m + i] = y[i]
      BY <1>1, <1>4
    <3>. QED
      BY <3>1, <3>2, <3>3
  <2>3. \A i \in 1 .. o + z : i \in 1 .. o \/ (i - o \in 1 .. z /\ o + (i - o) = i)
    OBVIOUS
  <2>. QED
    BY <2>1, <2>2, <2>3
<1>7. g = d
  BY <1>5, <1>6, SeqEqual
<1>. QED
  BY <1>1, <1>2, <1>3, <1>4, <1>7

-----------------------------------------------------------------------------
(* Frames taken out of a read                                                  *)

\* Less than a frame is left, or a frame that is whole begins behind what was left, and its
\* payload too.
LEMMA RestIsBehind ==
    ASSUME NEW remain \in Seq(Byte), NEW income \in Seq(Byte), NEW tail \in Seq(Byte),
           NEW sent \in Seq(Frame), NEW k \in Nat,
           Carries((remain \o income) \o tail, sent, k), Whole(remain, income),
           income = <<>> \/ (Short(remain) /\ Cut(income \o tail))
    PROVE  \E all \in Seq(Byte), first \in Byte, size \in Nat :
              /\ all = remain \o income /\ first = Head(all) /\ first = all[1] /\ first.at = 1
              /\ size = Size(first.frame) /\ size <= Len(all) /\ Len(all) > 0
              /\ Rest(remain, income) = SubSeq(all, size + 1, Len(all))
<1>1. PICK all \in Seq(Byte), m \in Nat, r \in Nat, n \in Nat :
          /\ all = remain \o income /\ m = Len(all) /\ r = Len(remain) /\ n = Len(income)
          /\ m = r + n /\ m >= 2 /\ m >= Head(all).frame.off + Head(all).frame.len
          /\ Head(all) \in Byte /\ Head(all) = all[1]
  <2>1. remain \o income \in Seq(Byte) /\ Len(remain \o income) = Len(remain) + Len(income)
        /\ Len(remain) \in Nat /\ Len(income) \in Nat
    BY BytePlaces
  <2>2. PICK all \in Seq(Byte), r \in Nat, n \in Nat :
            all = remain \o income /\ r = Len(remain) /\ n = Len(income) /\ Len(all) = r + n
    BY <2>1
  <2>3. Len(all) >= 2 /\ Len(all) >= Head(all).frame.off + Head(all).frame.len
    BY <2>2 DEF Whole
  <2>4. all # <<>>
    BY <2>2, <2>3, EmptySeq
  <2>5. Head(all) \in Byte /\ Head(all) = all[1]
    BY <2>2, <2>4, FirstByte
  <2>6. PICK m \in Nat : m = r + n
    OBVIOUS
  <2>. QED
    BY <2>2, <2>3, <2>5, <2>6
<1>2. PICK b \in Seq(Byte) :
          /\ b = all \o tail /\ \A i \in 1 .. m : b[i] = all[i]
          /\ Len(b) >= m /\ Carries(b, sent, k)
  <2>1. all \o tail \in Seq(Byte) /\ Len(all \o tail) = Len(all) + Len(tail)
        /\ Len(tail) \in Nat /\ \A i \in 1 .. Len(all) : (all \o tail)[i] = all[i]
    BY BytePlaces
  <2>2. PICK b \in Seq(Byte), t \in Nat : b = all \o tail /\ t = Len(tail)
    BY <2>1
  <2>3. Len(b) = m + t /\ m + t >= m
    BY <1>1, <2>1, <2>2
  <2>4. \A i \in 1 .. m : b[i] = all[i]
    BY <1>1, <2>1, <2>2
  <2>5. Carries(b, sent, k)
    BY <1>1, <2>2
  <2>. QED
    BY <2>2, <2>3, <2>4, <2>5
<1>3. PICK first \in Byte, frame \in Frame, size \in Nat :
          /\ first = all[1] /\ first = b[1] /\ first.at = 1 /\ frame = first.frame
          /\ size = Size(frame) /\ size = frame.off + frame.len
  <2>1. 1 \in 1 .. m /\ Len(b) > 0
    BY <1>1, <1>2
  <2>2. b[1] = all[1] /\ b[1] \in Byte /\ b[1].at = 1 /\ b[1].frame \in Frame
    BY <1>2, <2>1, CarriesFirst
  <2>. QED
    BY <2>2, SizeType
<1>4. size <= m /\ frame.off \in {2, 3} /\ frame = Head(all).frame
  BY <1>1, <1>3, SizeType
<1>5. ASSUME ~(frame.off < r) PROVE Rest(remain, income) = SubSeq(all, size + 1, Len(all))
  BY <1>1, <1>3, <1>4, <1>5 DEF Rest
<1>6. ASSUME frame.off < r, income = <<>>
      PROVE  Rest(remain, income) = SubSeq(all, size + 1, Len(all))
  <2>1. remain = all
    BY <1>1, <1>6, ConcatEmptySeq
  <2>2. Rest(remain, income) = SubSeq(all, size + 1, Len(all)) \o <<>>
    BY <1>1, <1>3, <1>4, <1>6, <2>1 DEF Rest
  <2>3. SubSeq(all, size + 1, Len(all)) \in Seq(Byte)
    BY BehindPlaces, <1>1, <1>4
  <2>4. \A q \in Seq(Byte) : q \o <<>> = q
    BY ConcatEmptySeq
  <2>. QED
    BY <2>2, <2>3, <2>4
<1>7. ASSUME frame.off < r, income # <<>> PROVE FALSE
  <2>1. n > 0 /\ r > 0
    <3>1. n # 0
      BY <1>1, <1>7, EmptySeq
    <3>. QED
      BY <1>4, <1>7, <3>1
  <2>2. r < size
    <3>1. all[1] = remain[1]
      <4>1. remain \o income # <<>> /\ Len(remain) > 0
        BY <1>1, <2>1, EmptySeq
      <4>. QED
        BY <1>1, <4>1, FirstByte
    <3>. QED
      BY <1>1, <1>3, <1>7, <2>1, <3>1 DEF Short
  <2>3. PICK x \in Seq(Byte) : x = income \o tail /\ b = remain \o x /\ Len(x) > 0 /\ Cut(x)
    <3>1. income \o tail \in Seq(Byte) /\ Len(income \o tail) = Len(income) + Len(tail) /\ Len(tail) \in Nat
      BY BytePlaces
    <3>2. Regroups(remain, income, tail)
      BY Reassociated
    <3>3. Len(income \o tail) > 0
      BY <1>1, <2>1, <3>1
    <3>4. Cut(income \o tail)
      BY <1>7
    <3>. QED
      BY <1>1, <1>2, <3>1, <3>2, <3>3, <3>4 DEF Regroups
  <2>4. b[r + 1] = x[1]
    <3>1. \A i \in 1 .. Len(x) : (remain \o x)[Len(remain) + i] = x[i]
      BY BytePlaces
    <3>2. 1 \in 1 .. Len(x)
      BY <2>3, LenProperties
    <3>. QED
      BY <1>1, <2>3, <3>1, <3>2
  <2>5. b[r + 1].frame = frame /\ b[r + 1].at = r + 1
    <3>1. r + 1 \in 1 .. Len(b) /\ r + 1 <= size /\ Len(b) > 0
      BY <1>1, <1>2, <2>1, <2>2, LenProperties
    <3>2. \A j \in 1 .. Len(b) : j <= Size(b[1].frame) => b[j].frame = b[1].frame /\ b[j].at = j
      BY <1>2, <3>1, FrameLies
    <3>. QED
      BY <1>3, <3>1, <3>2
  <2>6. ~(r + 1 > frame.off + 1)
    BY <2>3, <2>4, <2>5 DEF Cut, InPayload
  <2>. QED
    BY <1>4, <1>7, <2>6
<1>8. /\ first = Head(all) /\ first = all[1] /\ first.at = 1 /\ size = Size(first.frame)
      /\ size <= Len(all) /\ Len(all) > 0 /\ all = remain \o income
  <2>1. size <= Len(all) /\ Len(all) > 0
    BY <1>1, <1>4
  <2>. QED
    BY <1>1, <1>3, <2>1
<1>9. Rest(remain, income) = SubSeq(all, size + 1, Len(all))
  BY <1>5, <1>6, <1>7
<1>. QED
  BY <1>8, <1>9

Carried(b, sent, k, full) == Carries(b, sent, k) /\ (full => Complete(b, sent, k))

\* x has taken the frames behind the first k, and tail comes behind what it has not taken.
Extracting(x, tail, sent, k, full) ==
    /\ x.garbled = FALSE
    /\ \A i \in 1 .. Len(x.frames) : x.frames[i] = sent[k + i]
    /\ k + Len(x.frames) <= Len(sent)
    /\ Carried((x.remain \o x.income) \o tail, sent, k + Len(x.frames), full)
    /\ x.income = <<>> \/ (Short(x.remain) /\ Cut(x.income \o tail))

LEMMA TurnExtracts ==
    ASSUME NEW x \in Extraction, NEW tail \in Seq(Byte), NEW sent \in Seq(Frame), NEW k \in Nat,
           NEW full, Extracting(x, tail, sent, k, full), Whole(x.remain, x.income)
    PROVE  FirstOf(x).at = 1 /\ TurnOf(x) \in Extraction /\ Extracting(TurnOf(x), tail, sent, k, full)
<1>1. PICK remain \in Seq(Byte), income \in Seq(Byte), frames \in Seq(Frame), n \in Nat, z \in Nat :
          /\ remain = x.remain /\ income = x.income /\ frames = x.frames /\ n = Len(frames)
          /\ z = Len(sent)
  BY TurnFields, LenProperties
<1>2. PICK l \in Nat : l = k + n
  OBVIOUS
<1>3. /\ Carried((remain \o income) \o tail, sent, l, full)
      /\ income = <<>> \/ (Short(remain) /\ Cut(income \o tail))
      /\ Whole(remain, income) /\ l <= z
      /\ \A i \in 1 .. n : frames[i] = sent[k + i]
  BY <1>1, <1>2 DEF Extracting
<1>4. PICK all \in Seq(Byte), first \in Byte, size \in Nat :
              /\ all = remain \o income /\ first = Head(all) /\ first = all[1] /\ first.at = 1
              /\ size = Size(first.frame) /\ size <= Len(all) /\ Len(all) > 0
              /\ Rest(remain, income) = SubSeq(all, size + 1, Len(all))
  BY <1>3, RestIsBehind DEF Carried
<1>5. PICK rest \in Seq(Byte) : rest = SubSeq(all, size + 1, Len(all))
  BY <1>4, BehindPlaces
<1>6. PICK b \in Seq(Byte) : /\ b = all \o tail /\ b[1] = first /\ Len(b) > 0 /\ size <= Len(b)
                             /\ rest \o tail = SubSeq(b, size + 1, Len(b))
  <2>1. all \o tail \in Seq(Byte) /\ Len(all \o tail) = Len(all) + Len(tail)
        /\ Len(all) \in Nat /\ Len(tail) \in Nat
        /\ \A i \in 1 .. Len(all) : (all \o tail)[i] = all[i]
    BY BytePlaces
  <2>2. PICK b \in Seq(Byte), m \in Nat, t \in Nat :
            b = all \o tail /\ m = Len(all) /\ t = Len(tail) /\ Len(b) = m + t
    BY <2>1
  <2>3. 1 \in 1 .. m
    BY <1>4, <2>2
  <2>4. b[1] = first
    <3>1. b[1] = all[1]
      BY <2>1, <2>2, <2>3
    <3>. QED
      BY <1>4, <3>1
  <2>5. Len(b) > 0 /\ size <= Len(b)
    <3>1. size <= m /\ m > 0
      BY <1>4, <2>2
    <3>. QED
      BY <2>2, <3>1
  <2>6. rest \o tail = SubSeq(b, size + 1, Len(b))
    <3>1. size <= Len(all)
      BY <1>4
    <3>2. SubSeq(all, size + 1, Len(all)) \o tail = SubSeq(all \o tail, size + 1, Len(all \o tail))
      BY <3>1, BehindJoined
    <3>. QED
      BY <1>5, <2>2, <3>2
  <2>. QED
    BY <2>2, <2>4, <2>5, <2>6
<1>7. PICK c \in Seq(Byte) : c = rest \o tail /\ Carried(c, sent, l + 1, full)
  <2>1. Carries(b, sent, l) /\ (full => Complete(b, sent, l)) /\ size = Size(b[1].frame)
    BY <1>3, <1>4, <1>6 DEF Carried
  <2>2. /\ Carries(SubSeq(b, size + 1, Len(b)), sent, l + 1)
        /\ Complete(b, sent, l) => Complete(SubSeq(b, size + 1, Len(b)), sent, l + 1)
    BY <1>6, <2>1, CarriesBehind
  <2>3. rest \o tail \in Seq(Byte)
    BY ConcatProperties
  <2>. QED
    BY <1>6, <2>1, <2>2, <2>3 DEF Carried
<1>8. first.frame = sent[l + 1] /\ l + 1 \in 1 .. z /\ first.frame \in Frame
  <2>1. Carries(b, sent, l)
    BY <1>3, <1>4, <1>6 DEF Carried
  <2>2. b[1].frame = sent[l + 1] /\ l + 1 \in 1 .. Len(sent) /\ b[1].frame \in Frame
    BY <1>6, <2>1, CarriesFirst
  <2>. QED
    BY <1>1, <1>6, <2>2
<1>9. PICK y \in Extraction :
          /\ y = TurnOf(x) /\ y.remain = rest /\ y.income = <<>>
          /\ y.frames = Append(frames, first.frame) /\ y.garbled = x.garbled
  <2>1. FirstOf(x) = first
    BY <1>1, <1>4 DEF FirstOf
  <2>2. /\ TurnOf(x) \in Extraction
        /\ TurnOf(x).remain = Rest(x.remain, x.income) /\ TurnOf(x).income = <<>>
        /\ TurnOf(x).frames = Append(x.frames, FirstOf(x).frame)
        /\ TurnOf(x).garbled = x.garbled
    BY TurnFields
  <2>. QED
    BY <1>1, <1>4, <1>5, <2>1, <2>2
<1>10. PICK f \in Seq(Frame) : /\ f = y.frames /\ Len(f) = n + 1
                               /\ \A i \in 1 .. n : f[i] = frames[i]
                               /\ f[n + 1] = first.frame
  <2>1. PICK frame \in Frame : frame = first.frame
    BY <1>8
  <2>2. /\ Append(frames, frame) \in Seq(Frame) /\ Len(Append(frames, frame)) = Len(frames) + 1
        /\ \A i \in 1 .. Len(frames) : Append(frames, frame)[i] = frames[i]
        /\ Append(frames, frame)[Len(frames) + 1] = frame
    BY AppendProperties
  <2>. QED
    BY <1>1, <1>9, <2>1, <2>2
<1>11. \A i \in 1 .. n + 1 : f[i] = sent[k + i]
  <2>1. \A i \in 1 .. n + 1 : i \in 1 .. n \/ i = n + 1
    OBVIOUS
  <2>2. k + (n + 1) = l + 1
    BY <1>2
  <2>. QED
    BY <1>3, <1>8, <1>10, <2>1, <2>2
<1>12. k + (n + 1) = l + 1 /\ l + 1 <= z
  BY <1>2, <1>8
<1>13. (y.remain \o y.income) \o tail = c
  BY <1>7, <1>9, ConcatEmptySeq
<1>14. y.garbled = FALSE
  BY <1>9 DEF Extracting
<1>15. Extracting(y, tail, sent, k, full)
  BY <1>1, <1>7, <1>9, <1>10, <1>11, <1>12, <1>13, <1>14 DEF Extracting
<1>16. FirstOf(x).at = 1
  BY <1>1, <1>4 DEF FirstOf
<1>. QED
  BY <1>9, <1>15, <1>16

LEMMA ExtractSends ==
    ASSUME NEW remain \in Seq(Byte), NEW income \in Seq(Byte), NEW tail \in Seq(Byte),
           NEW sent \in Seq(Frame), NEW k \in 0 .. Len(sent), NEW full,
           Carried((remain \o income) \o tail, sent, k, full),
           Short(remain), Cut(income \o tail)
    PROVE  \E x \in Extraction :
              /\ ExtractMulti(remain, income) = x /\ Extracting(x, tail, sent, k, full)
              /\ Short(x.remain \o x.income)
<1>1. PICK l \in Nat : l = k /\ l <= Len(sent)
  BY LenProperties
<1>. DEFINE P == {x \in Extraction : Extracting(x, tail, sent, l, full)}
<1>2. ReadOf(remain, income) \in P
  <2>1. PICK x : x = ReadOf(remain, income)
    OBVIOUS
  <2>2. <<>> \in Seq(Frame) /\ Len(<<>>) = 0
    BY EmptySeq
  <2>3. /\ x \in Extraction /\ x.remain = remain /\ x.income = income /\ x.frames = <<>>
        /\ x.garbled = FALSE
    BY <2>1, <2>2 DEF ReadOf, Extraction
  <2>4. l + 0 = l /\ 1 .. 0 = {}
    OBVIOUS
  <2>5. Extracting(x, tail, sent, l, full)
    BY <1>1, <2>2, <2>3, <2>4 DEF Extracting
  <2>. QED
    BY <2>1, <2>3, <2>5
<1>3. ASSUME NEW x \in P, Whole(x.remain, x.income) PROVE TurnOf(x) \in P /\ FirstOf(x).at = 1
  BY <1>3, TurnExtracts
<1>4. PICK x \in P : \/ ~Whole(x.remain, x.income) /\ ExtractMulti(remain, income) = x
                     \/ /\ Whole(x.remain, x.income) /\ FirstOf(x).at # 1
                        /\ ExtractMulti(remain, income) = GarbledOf(x)
  <2>1. P \in SUBSET Extraction
    OBVIOUS
  <2>. HIDE DEF P
  <2>. QED
    BY <1>2, <1>3, <2>1, ExtractInvariant
<1>5. ~Whole(x.remain, x.income) /\ ExtractMulti(remain, income) = x
  BY <1>3, <1>4
<1>6. Extracting(x, tail, sent, k, full)
  BY <1>1
<1>7. Short(x.remain \o x.income)
  <2>1. PICK b \in Seq(Byte) : b = x.remain \o x.income
    <3>1. x.remain \in Seq(Byte) /\ x.income \in Seq(Byte)
      BY TurnFields
    <3>. QED
      BY <3>1, ConcatProperties
  <2>2. ASSUME Len(b) > 0 PROVE Len(b) < Size(b[1].frame)
    <3>1. PICK m \in Nat : m = Len(b) /\ m > 0
      BY <2>2, LenProperties
    <3>2. b[1] \in Byte /\ Head(b) = b[1]
      <4>1. 1 \in 1 .. Len(b)
        BY <3>1
      <4>. QED
        BY <4>1, ElementOfSeq
    <3>3. PICK frame \in Frame : frame = b[1].frame
      BY <3>2 DEF Byte
    <3>4. Size(frame) \in Nat /\ Size(frame) >= 2 /\ Size(frame) = frame.off + frame.len
      BY SizeType
    <3>5. ~(m >= 2 /\ m >= frame.off + frame.len)
      BY <1>5, <2>1, <3>1, <3>2, <3>3 DEF Whole
    <3>6. m < Size(frame)
      BY <3>4, <3>5
    <3>. QED
      BY <3>1, <3>3, <3>6
  <2>. QED
    BY <2>1, <2>2 DEF Short
<1>. QED
  BY <1>5, <1>6, <1>7

-----------------------------------------------------------------------------
(* Frames that an end takes                                                    *)

\* The next frame of x is one behind the first j, the last one is the m-th.
Telling(e, sent, m, q, c, x) ==
    /\ Writes(x.end, e) /\ Delivers(x.end, q, c)
    /\ \E j \in Nat : /\ j + Len(x.left) = m /\ Listened(x.end, sent, j)
                      /\ \A i \in 1 .. Len(x.left) : x.left[i] = sent[j + i]

LEMMA TellingTaken ==
    ASSUME NEW e \in Ends, NEW ahead, NEW remain, owner[e] \in {"manager", "test"},
           NEW sent \in Seq(Frame), NEW p, Ordered(sent, p), NEW m \in Nat, m <= Len(sent),
           NEW q \in End, NEW c \in Seq(Byte),
           NEW x \in Taking, Between(e, ahead, remain, x), x.left # <<>>,
           Telling(e, sent, m, q, c, x)
    PROVE  Telling(e, sent, m, q, c, NextOf(e, x))
<1>1. PICK u \in End, left \in Seq(Frame), n \in Nat \ {0} :
          /\ u = x.end /\ left = x.left /\ n = Len(left) /\ u.life = "alive"
          /\ Head(left) = left[1] /\ Tail(left) \in Seq(Frame) /\ Len(Tail(left)) = n - 1
          /\ \A i \in 1 .. n - 1 : Tail(left)[i] = left[i + 1]
  <2>1. PICK u \in End, left \in Seq(Frame) : u = x.end /\ left = x.left
    BY NextFields
  <2>2. u.life = "alive"
    BY <2>1, BetweenTaken
  <2>3. /\ Len(left) \in Nat \ {0} /\ Head(left) = left[1] /\ Tail(left) \in Seq(Frame)
        /\ Len(Tail(left)) = Len(left) - 1
        /\ \A i \in 1 .. Len(left) - 1 : Tail(left)[i] = left[i + 1]
    BY <2>1, LeftParts
  <2>. QED
    BY <2>1, <2>2, <2>3
<1>2. PICK j \in Nat : /\ j + n = m /\ Listened(u, sent, j)
                       /\ \A i \in 1 .. n : left[i] = sent[j + i]
  BY <1>1 DEF Telling
<1>3. PICK t \in End : t = Take(u, e, sent[j + 1]) /\ t = TakenBy(e, x) /\ j + 1 <= Len(sent)
  <2>1. 1 \in 1 .. n /\ j + 1 <= m
    BY <1>2
  <2>2. Head(left) = sent[j + 1]
    BY <1>1, <1>2, <2>1
  <2>3. TakenBy(e, x) \in End
    BY NextFields
  <2>4. j + 1 <= Len(sent)
    BY <2>1, LenProperties
  <2>. QED
    BY <1>1, <2>2, <2>3, <2>4 DEF TakenBy
<1>4. Owned(u, e) /\ Ordered(u.sent, e) /\ Writes(u, e)
  BY <1>1 DEF Between, InCallback, Telling, Writes
<1>5. Speaks(u, t, e) /\ (u.failed = 0 /\ Listened(u, sent, j) => Listened(t, sent, j + 1))
  <2>1. u.life = "alive"
    BY <1>1
  <2>2. j + 1 <= Len(sent) /\ t = Take(u, e, sent[j + 1])
    BY <1>3
  <2>3. /\ Speaks(u, Take(u, e, sent[j + 1]), e)
        /\ u.failed = 0 /\ Listened(u, sent, j)
              => Listened(Take(u, e, sent[j + 1]), sent, j + 1)
    BY <1>4, <2>1, <2>2, TakeTells
  <2>. QED
    BY <2>2, <2>3
<1>6. Listened(t, sent, j + 1)
  <2>1. t.failed \in Nat /\ u.failed \in Nat /\ t.failed >= u.failed
    BY <1>1, <1>3, BetweenTaken
  <2>2. u.failed # 0 => t.failed # 0
    BY <2>1
  <2>. QED
    BY <1>2, <1>5, <2>2 DEF Listened
<1>7. Writes(t, e) /\ Delivers(t, q, c)
  <2>1. Delivers(u, q, c)
    BY <1>1 DEF Telling
  <2>2. /\ Writes(t, e)
        /\ \A r \in End, d \in Seq(Byte) : u.life = "alive" /\ Delivers(u, r, d) => Delivers(t, r, d)
    BY <1>4, <1>5, SpeaksKeeps
  <2>3. u.life = "alive"
    BY <1>1
  <2>. QED
    BY <2>1, <2>2, <2>3
<1>8. /\ j + 1 \in Nat /\ (j + 1) + (n - 1) = m
      /\ \A i \in 1 .. n - 1 : Tail(left)[i] = sent[(j + 1) + i]
  <2>1. \A i \in 1 .. n - 1 : i + 1 \in 1 .. n /\ j + (i + 1) = (j + 1) + i
    OBVIOUS
  <2>2. j + 1 \in Nat /\ (j + 1) + (n - 1) = m
    BY <1>2
  <2>3. ASSUME NEW i \in 1 .. n - 1 PROVE Tail(left)[i] = sent[(j + 1) + i]
    <3>1. Tail(left)[i] = left[i + 1] /\ i + 1 \in 1 .. n
      BY <1>1, <2>1
    <3>2. left[i + 1] = sent[j + (i + 1)]
      BY <1>2, <3>1
    <3>. QED
      BY <2>1, <3>1, <3>2
  <2>. QED
    BY <2>2, <2>3
<1>9. NextOf(e, x).end = t /\ NextOf(e, x).left = Tail(left)
  BY <1>1, <1>3, NextFields
<1>10. PICK y : y = NextOf(e, x) /\ y.end = t /\ y.left = Tail(left)
  BY <1>9
<1>11. \E i \in Nat : /\ i + Len(y.left) = m /\ Listened(y.end, sent, i)
                     /\ \A h \in 1 .. Len(y.left) : y.left[h] = sent[i + h]
  <2>1. Len(y.left) = n - 1
    BY <1>1, <1>10
  <2>2. \A h \in 1 .. Len(y.left) : y.left[h] = sent[(j + 1) + h]
    BY <1>8, <1>10, <2>1
  <2>3. (j + 1) + Len(y.left) = m /\ Listened(y.end, sent, j + 1) /\ j + 1 \in Nat
    BY <1>6, <1>8, <1>10, <2>1
  <2>. QED
    BY <2>2, <2>3
<1>12. Telling(e, sent, m, q, c, y)
  BY <1>7, <1>10, <1>11 DEF Telling
<1>. QED
  BY <1>10, <1>12

\* The frames are those behind the first k, up to the m-th.
AreFrames(frames, sent, k, m) ==
    m = k + Len(frames) /\ \A i \in 1 .. Len(frames) : frames[i] = sent[k + i]

LEMMA TakeAllTells ==
    ASSUME NEW s \in End, NEW e \in Ends, NEW ahead, owner[e] \in {"manager", "test"},
           s.life = "alive", InCallback(s, e, ahead),
           NEW frames \in Seq(Frame), CloseIsLast(frames),
           Writes(s, e), NEW q \in End, NEW c \in Seq(Byte), Delivers(s, q, c),
           NEW sent \in Seq(Frame), NEW p, Ordered(sent, p), NEW k \in Nat,
           NEW m \in Nat, m <= Len(sent), Listened(s, sent, k), AreFrames(frames, sent, k, m)
    PROVE  /\ Writes(TakeAll(s, e, frames), e) /\ Delivers(TakeAll(s, e, frames), q, c)
           /\ Listened(TakeAll(s, e, frames), sent, m)
           /\ TakeAll(s, e, frames).life = "alive" => TakeAll(s, e, frames).remain = s.remain
<1>. DEFINE P == {x \in Taking : /\ Between(e, ahead, s.remain, x)
                                 /\ Telling(e, sent, m, q, c, x)}
<1>1. [end |-> s, left |-> frames] \in P
  <2>1. PICK x : x = [end |-> s, left |-> frames]
    OBVIOUS
  <2>2. x \in Taking /\ x.end = s /\ x.left = frames
    BY <2>1 DEF Taking
  <2>3. Between(e, ahead, s.remain, x)
    BY <2>2 DEF InCallback, Between
  <2>4. Telling(e, sent, m, q, c, x)
    BY <2>2 DEF Telling, AreFrames
  <2>. QED
    BY <2>1, <2>2, <2>3, <2>4
<1>2. \A x \in P : GoesOn(e, x) => NextOf(e, x) \in P
  <2>. SUFFICES ASSUME NEW x \in P, GoesOn(e, x) PROVE NextOf(e, x) \in P
    OBVIOUS
  <2>1. NextOf(e, x) \in Taking /\ Between(e, ahead, s.remain, NextOf(e, x))
    BY BetweenNext
  <2>2. x.left # <<>>
    BY DEF GoesOn
  <2>3. Telling(e, sent, m, q, c, NextOf(e, x))
    BY <2>2, TellingTaken
  <2>. QED
    BY <2>1, <2>3
<1>3. PICK x \in P : ~GoesOn(e, x) /\ TakeAll(s, e, frames) = ResultOf(e, x)
  <2>1. PICK Q \in SUBSET Taking : Q = P
    OBVIOUS
  <2>. HIDE DEF P
  <2>2. [end |-> s, left |-> frames] \in Q /\ \A x \in Q : GoesOn(e, x) => NextOf(e, x) \in Q
    BY <1>1, <1>2, <2>1
  <2>3. \E x \in Q : ~GoesOn(e, x) /\ TakeAll(s, e, frames) = ResultOf(e, x)
    BY <2>2, TakeAllInvariant
  <2>. QED
    BY <2>1, <2>3
<1>4. PICK t : t = ResultOf(e, x)
  OBVIOUS
<1>5. /\ t.life = "alive" => t.remain = s.remain
      /\ \/ x.left = <<>> /\ t = x.end
         \/ x.left # <<>> /\ t = TakenBy(e, x) /\ TakenBy(e, x).failed > x.end.failed
  BY <1>3, <1>4, BetweenResult
<1>6. Writes(t, e) /\ Delivers(t, q, c) /\ Listened(t, sent, m)
  <2>1. CASE x.left = <<>> /\ t = x.end
    <3>1. Len(x.left) = 0 /\ \A j \in Nat : j + 0 = j
      BY <2>1, EmptySeq
    <3>2. Writes(x.end, e) /\ Delivers(x.end, q, c) /\ Listened(x.end, sent, m)
      BY <3>1 DEF Telling
    <3>. QED
      BY <2>1, <3>2
  <2>2. CASE x.left # <<>> /\ t = TakenBy(e, x) /\ TakenBy(e, x).failed > x.end.failed
    <3>1. Writes(t, e) /\ Delivers(t, q, c)
      <4>1. Telling(e, sent, m, q, c, NextOf(e, x))
        BY <2>2, TellingTaken
      <4>2. NextOf(e, x).end = t
        BY <2>2, NextFields
      <4>. QED
        BY <4>1, <4>2 DEF Telling
    <3>2. TakenBy(e, x).failed \in Nat /\ x.end.failed \in Nat
      BY <2>2, BetweenTaken
    <3>3. t.failed # 0
      BY <2>2, <3>2
    <3>. QED
      BY <3>1, <3>3 DEF Listened
  <2>. QED
    BY <1>5, <2>1, <2>2
<1>. QED
  BY <1>3, <1>4, <1>5, <1>6

-----------------------------------------------------------------------------
(* Each step keeps the conversation                                            *)

LEMMA BothEnds ==
    ASSUME IInv, Conversation, NEW e \in Ends
    PROVE  \E p \in Ends, s \in End, q \in End, c \in Seq(Byte), d \in Seq(Byte) :
              /\ p = Peer(e) /\ p # e /\ s = ws[e] /\ q = ws[p] /\ c = wire[e] /\ d = wire[p]
              /\ Writes(s, e) /\ Writes(q, p) /\ Delivers(q, s, c) /\ Delivers(s, q, d)
<1>1. ws \in [Ends -> End] /\ wire \in [Ends -> Seq(Byte)]
  BY DEF IInv, TypeOK
<1>2. Peer(e) \in Ends /\ Peer(e) # e /\ Peer(Peer(e)) = e
  BY TwoEnds
<1>3. /\ ws[e] \in End /\ ws[Peer(e)] \in End
      /\ wire[e] \in Seq(Byte) /\ wire[Peer(e)] \in Seq(Byte)
  BY <1>1, <1>2
<1>4. /\ Writes(ws[e], e) /\ Writes(ws[Peer(e)], Peer(e))
      /\ Delivers(ws[Peer(e)], ws[e], wire[e]) /\ Delivers(ws[e], ws[Peer(e)], wire[Peer(e)])
  BY <1>2 DEF Conversation
<1>. QED
  BY <1>2, <1>3, <1>4

\* An end between two callbacks sends a frame.
LEMMA SendingConverses ==
    ASSUME IInv, Conversation, NEW e \in Ends, NEW p, p = Peer(e), ws[e].life = "alive",
           NEW t, Speaks(ws[e], t, e), Hears(ws[e], t), Becomes(e, t, wire[e], wire[p])
    PROVE  Conversation'
<1>1. PICK r \in Ends, s \in End, q \in End, c \in Seq(Byte), d \in Seq(Byte) :
          /\ r = Peer(e) /\ r # e /\ s = ws[e] /\ q = ws[r] /\ c = wire[e] /\ d = wire[r]
          /\ Writes(s, e) /\ Writes(q, r) /\ Delivers(q, s, c) /\ Delivers(s, q, d)
  BY BothEnds
<1>2. Speaks(s, t, e) /\ Hears(s, t) /\ s.life = "alive"
  BY <1>1
<1>3. Writes(t, e) /\ Delivers(t, q, d)
  <2>1. /\ Writes(t, e)
        /\ \A a \in End, b \in Seq(Byte) : s.life = "alive" /\ Delivers(s, a, b) => Delivers(t, a, b)
    BY <1>1, <1>2, SpeaksKeeps
  <2>. QED
    BY <1>1, <1>2, <2>1
<1>4. Delivers(q, t, c)
  BY <1>1, <1>2, HearsKeeps
<1>5. Delivers(t, ws[p], wire[p]) /\ Delivers(ws[p], t, wire[e])
  BY <1>1, <1>3, <1>4
<1>. QED
  BY <1>3, <1>5, BecomesConverses

LEMMA OwnerSendsConverses ==
    ASSUME IInv, Conversation, NEW e \in Ends, OwnerSends(e)
    PROVE  Conversation'
<1>1. PICK f \in Frames : /\ Alive(e) /\ owner[e] = "test" /\ ws[e].state = "OPEN"
                          /\ f.op \in {"Continue", "Ping"} <=> Unfinished(ws[e].sent, Len(ws[e].sent))
                          /\ ws' = [ws EXCEPT ![e] = Send(ws[e], e, f)]
                          /\ UNCHANGED <<wire, owner>>
  <2>1. ws \in [Ends -> End]
    BY DEF IInv, TypeOK
  <2>. QED
    BY <2>1 DEF OwnerSends
<1>2. f \in Message /\ f.op # "Close"
  BY WebSocketEndsAssumption DEF Message
<1>3. PICK s \in End : s = ws[e] /\ s.state = "OPEN" /\ s.life = "alive"
  BY <1>1, AliveInCallback
<1>4. PICK t : t = SendFragment(s, e, f)
  OBVIOUS
<1>5. PICK p \in Ends : p = Peer(e) /\ p # e
  BY TwoEnds
<1>6. Becomes(e, t, wire[e], wire[p])
  <2>1. Send(s, e, f) = t
    BY <1>3, <1>4 DEF Send, MaySend
  <2>2. wire = [wire EXCEPT ![e] = wire[e], ![Peer(e)] = wire[p]]
    BY <1>5 DEF IInv, TypeOK
  <2>. QED
    BY <1>1, <1>3, <2>1, <2>2 DEF Becomes
<1>7. Speaks(s, t, e) /\ Hears(s, t)
  <2>1. /\ f.op \in {"Binary", "Text"} => ~Unfinished(s.sent, Len(s.sent))
        /\ f.op = "Continue" => Unfinished(s.sent, Len(s.sent))
        /\ f.op = "Close" \/ owner[e] = "manager" => f.fin
    BY <1>1, <1>2, <1>3
  <2>2. /\ Speaks(s, t, e) /\ t.heard = s.heard /\ t.saveFragment = s.saveFragment
        /\ t.fragments = s.fragments /\ t.saveBinary = s.saveBinary
        /\ t.failed = s.failed /\ t.life = s.life /\ t.remain = s.remain
    BY <1>2, <1>4, <2>1, SendFragmentSpeaks
  <2>. QED
    BY <1>3, <2>2 DEF Hears
<1>. QED
  BY <1>3, <1>5, <1>6, <1>7, SendingConverses

LEMMA OwnerEndsConverses ==
    ASSUME IInv, Conversation, NEW e \in Ends, OwnerEnds(e)
    PROVE  Conversation'
<1>1. /\ Alive(e) /\ owner[e] = "test" /\ ws[e].state = "OPEN"
      /\ ws' = [ws EXCEPT ![e] = SendEnd(ws[e], e)]
      /\ UNCHANGED <<wire, owner>>
  <2>1. ws \in [Ends -> End]
    BY DEF IInv, TypeOK
  <2>. QED
    BY <2>1 DEF OwnerEnds
<1>2. PICK s \in End : s = ws[e] /\ s.state = "OPEN" /\ s.life = "alive"
  BY <1>1, AliveInCallback
<1>3. PICK u \in End : u = [s EXCEPT !.state = "CLOSING"]
  BY EndChanges
<1>4. PICK t : t = SendFragment(u, e, CloseFrame)
  OBVIOUS
<1>5. PICK p \in Ends : p = Peer(e) /\ p # e
  BY TwoEnds
<1>6. Becomes(e, t, wire[e], wire[p])
  <2>1. SendEnd(s, e) = t
    BY <1>2, <1>3, <1>4 DEF SendEnd
  <2>2. wire = [wire EXCEPT ![e] = wire[e], ![Peer(e)] = wire[p]]
    BY <1>5 DEF IInv, TypeOK
  <2>. QED
    BY <1>1, <1>2, <2>1, <2>2 DEF Becomes
<1>7. Speaks(s, t, e) /\ Hears(s, t)
  <2>1. /\ Speaks(u, t, e) /\ t.heard = u.heard /\ t.saveFragment = u.saveFragment
        /\ t.fragments = u.fragments /\ t.saveBinary = u.saveBinary
        /\ t.failed = u.failed /\ t.life = u.life /\ t.remain = u.remain
    <3>1. CloseFrame \in Message /\ CloseFrame.op = "Close" /\ CloseFrame.fin
      BY OwnMessages DEF CloseFrame
    <3>. QED
      BY <1>4, <3>1, SendFragmentSpeaks
  <2>2. /\ u.sent = s.sent /\ u.writes = s.writes /\ u.heard = s.heard
        /\ u.saveFragment = s.saveFragment /\ u.fragments = s.fragments
        /\ u.saveBinary = s.saveBinary /\ u.failed = s.failed /\ u.life = s.life /\ u.remain = s.remain
    BY <1>3 DEF End
  <2>. QED
    BY <1>2, <2>1, <2>2 DEF Hears, Speaks
<1>. QED
  BY <1>2, <1>5, <1>6, <1>7, SendingConverses

\* An end says nothing more and takes nothing more, or goes on.
LEMMA ReturningConverses ==
    ASSUME IInv, Conversation, NEW e \in Ends, ws[e].life = "alive", NEW t \in End,
           Speaks(ws[e], t, e), Hears(ws[e], t), Leave(e, t, wire[e]), owner' = owner
    PROVE  Conversation'
<1>1. PICK p \in Ends, s \in End, q \in End, c \in Seq(Byte), d \in Seq(Byte) :
          /\ p = Peer(e) /\ p # e /\ s = ws[e] /\ q = ws[p] /\ c = wire[e] /\ d = wire[p]
          /\ Writes(s, e) /\ Writes(q, p) /\ Delivers(q, s, c) /\ Delivers(s, q, d)
  BY BothEnds
<1>2. Speaks(s, t, e) /\ Hears(s, t) /\ s.life = "alive" /\ Leave(e, t, c)
  BY <1>1
<1>3. Writes(t, e) /\ Delivers(t, q, d)
  <2>1. /\ Writes(t, e)
        /\ \A a \in End, b \in Seq(Byte) : s.life = "alive" /\ Delivers(s, a, b) => Delivers(t, a, b)
    BY <1>1, <1>2, SpeaksKeeps
  <2>. QED
    BY <1>1, <1>2, <2>1
<1>4. Delivers(q, t, c)
  BY <1>1, <1>2, HearsKeeps
<1>5. Delivers(t, ws[p], wire[p]) /\ Delivers(ws[p], t, c)
  BY <1>1, <1>3, <1>4
<1>. QED
  BY <1>1, <1>2, <1>3, <1>5, LeaveConverses

LEMMA OwnerClosesConverses ==
    ASSUME IInv, Conversation, NEW e \in Ends, OwnerCloses(e)
    PROVE  Conversation'
<1>1. Alive(e) /\ Leave(e, Delete(ws[e]), wire[e]) /\ owner' = owner
  BY DEF OwnerCloses
<1>2. PICK s \in End : s = ws[e] /\ s.life = "alive"
  BY <1>1, AliveInCallback
<1>3. PICK t \in End : t = Delete(s)
  BY DeleteType
<1>4. Speaks(s, t, e) /\ Hears(s, t)
  <2>1. /\ t.life = "deleted" /\ t.sent = s.sent /\ t.writes = s.writes
        /\ t.heard = s.heard /\ t.failed = s.failed /\ t.saveFragment = s.saveFragment
    BY <1>2, <1>3, DeleteIs
  <2>. QED
    BY <2>1 DEF Speaks, Hears
<1>. QED
  BY <1>1, <1>2, <1>3, <1>4, ReturningConverses

LEMMA ReadEndsConverses ==
    ASSUME IInv, Conversation, NEW e \in Ends, ReadEnds(e)
    PROVE  Conversation'
<1>1. /\ Alive(e) /\ wire[e] = <<>> /\ owner' = owner
      /\ Leave(e, Fail([ws[e] EXCEPT !.ended = TRUE], e), <<>>)
  BY DEF ReadEnds
<1>2. PICK r \in End : r = ws[e] /\ r.life = "alive"
  BY <1>1, AliveInCallback
<1>3. PICK s \in End : s = [r EXCEPT !.ended = TRUE]
  BY EndChanges
<1>4. /\ s.life = "alive" /\ s.remain = r.remain /\ s.sent = r.sent /\ s.writes = r.writes
      /\ s.failed = r.failed
  BY <1>2, <1>3 DEF End
<1>5. PICK t \in End : t = Fail(s, e)
  BY FailType
<1>6. Speaks(r, t, e) /\ Hears(r, t)
  <2>1. /\ t.sent = s.sent /\ t.writes = s.writes /\ t.failed # 0
        /\ t.life = "deleted" \/ (t.life = "alive" /\ t.remain = s.remain)
    BY <1>4, <1>5, FailIs
  <2>. QED
    BY <1>2, <1>4, <2>1 DEF Speaks, Hears
<1>7. Leave(e, t, wire[e])
  BY <1>1, <1>2, <1>3, <1>5
<1>. QED
  BY <1>1, <1>2, <1>6, <1>7, ReturningConverses

LEMMA FlushConverses ==
    ASSUME IInv, Conversation, NEW e \in Ends, Flush(e)
    PROVE  Conversation'
<1>1. PICK p \in Ends, s \in End, q \in End, c \in Seq(Byte), d \in Seq(Byte) :
          /\ p = Peer(e) /\ p # e /\ s = ws[e] /\ q = ws[p] /\ c = wire[e] /\ d = wire[p]
          /\ Writes(s, e) /\ Writes(q, p) /\ Delivers(q, s, c) /\ Delivers(s, q, d)
  BY BothEnds
<1>2. s.life = "alive" /\ s.writes # <<>> /\ owner' = owner
  BY <1>1 DEF Flush, Alive
<1>3. PICK writes \in Seq(Seq(Byte)) : writes = s.writes /\ writes # <<>>
  BY <1>2 DEF End
<1>4. PICK write \in Seq(Byte), rest \in Seq(Byte) :
          /\ write = Head(writes) /\ Tail(writes) \in Seq(Seq(Byte)) /\ rest = FlattenSeq(Tail(writes))
          /\ FlattenSeq(writes) = write \o rest
  BY <1>3, UnwrittenFirst
<1>5. PICK done : done = [s EXCEPT !.writes = Tail(writes), !.writeSize = s.writeSize - Len(write)]
  OBVIOUS
<1>6. /\ done \in End /\ done.life = "alive" /\ done.remain = s.remain /\ done.writes = Tail(writes)
      /\ done.sent = s.sent /\ done.heard = s.heard /\ done.failed = s.failed
      /\ done.saveFragment = s.saveFragment /\ done.fragments = s.fragments
      /\ done.saveBinary = s.saveBinary
  <2>1. s.writeSize \in Int /\ Len(write) \in Nat
    BY LenProperties DEF End
  <2>2. s.writeSize - Len(write) \in Int
    BY <2>1
  <2>. QED
    BY <1>2, <1>4, <1>5, <2>2 DEF End
<1>7. Divided(Tail(writes))
  <2>1. /\ Len(writes) \in Nat \ {0} /\ Len(Tail(writes)) = Len(writes) - 1
        /\ \A i \in 1 .. Len(writes) - 1 : Tail(writes)[i] = writes[i + 1]
    BY <1>3, EmptySeq, LenProperties, HeadTailProperties
  <2>2. \A i \in 1 .. Len(writes) : Cut(writes[i])
    BY <1>1, <1>3 DEF Writes, Divided
  <2>3. \A i \in 1 .. Len(writes) - 1 : i + 1 \in 1 .. Len(writes)
    BY <2>1
  <2>4. \A i \in 1 .. Len(writes) - 1 : Cut(Tail(writes)[i])
    BY <2>1, <2>2, <2>3
  <2>. QED
    BY <2>1, <2>4 DEF Divided
<1>8. Unwritten(done) = rest /\ Unwritten(s) = write \o rest
  BY <1>3, <1>4, <1>6 DEF Unwritten
<1>9. \/ /\ ws' = [ws EXCEPT ![e] = done]
         /\ wire' = [wire EXCEPT ![p] = d \o write]
      \/ q.life # "alive" /\ Leave(e, Fail(done, e), c)
  <2>1. ws \in [Ends -> End] /\ wire \in [Ends -> Seq(Byte)]
    BY DEF IInv, TypeOK
  <2>2. done = [ws[e] EXCEPT !.writes = Tail(ws[e].writes),
                             !.writeSize = ws[e].writeSize - Len(Head(ws[e].writes))]
    BY <1>1, <1>3, <1>4, <1>5
  <2>3. write = Head(ws[e].writes)
    BY <1>1, <1>3, <1>4
  <2>. QED
    BY <1>1, <2>1, <2>2, <2>3 DEF Flush, Alive
<1>10. CASE /\ ws' = [ws EXCEPT ![e] = done]
            /\ wire' = [wire EXCEPT ![p] = d \o write]
  <2>1. Becomes(e, done, c, d \o write)
    <3>1. wire' = [wire EXCEPT ![e] = c, ![p] = d \o write]
      BY <1>1, <1>10 DEF IInv, TypeOK
    <3>. QED
      BY <1>1, <1>2, <1>10, <3>1 DEF Becomes
  <2>2. Delivers(done, q, d \o write)
    BY <1>1, <1>2, <1>6, <1>8, DeliversSent
  <2>3. Delivers(q, done, c)
    <3>1. Hears(s, done)
      BY <1>2, <1>6 DEF Hears
    <3>. QED
      BY <1>1, <3>1, HearsKeeps
  <2>4. Writes(done, e)
    BY <1>1, <1>6, <1>7 DEF Writes
  <2>5. PICK y : y = d \o write
    OBVIOUS
  <2>6. Becomes(e, done, c, y) /\ Delivers(done, ws[p], y) /\ Delivers(ws[p], done, c)
    BY <1>1, <2>1, <2>2, <2>3, <2>5
  <2>. QED
    BY <1>1, <2>4, <2>6, BecomesConverses
<1>11. CASE q.life # "alive" /\ Leave(e, Fail(done, e), c)
  <2>1. PICK t \in End : t = Fail(done, e)
    BY <1>6, FailType
  <2>2. /\ t.sent = done.sent /\ t.writes = done.writes /\ t.failed # 0
        /\ t.life = "deleted" \/ (t.life = "alive" /\ t.remain = done.remain)
    BY <1>6, <2>1, FailIs
  <2>3. Delivers(t, q, d)
    BY <1>1, <1>6, <1>11, <2>2, DeliversGone
  <2>4. Delivers(q, t, c)
    <3>1. Hears(s, t)
      BY <1>2, <1>6, <2>2 DEF Hears
    <3>. QED
      BY <1>1, <3>1, HearsKeeps
  <2>5. Writes(t, e)
    BY <1>1, <1>6, <1>7, <2>2 DEF Writes
  <2>6. Leave(e, t, c) /\ Delivers(t, ws[p], wire[p]) /\ Delivers(ws[p], t, c)
    BY <1>1, <1>11, <2>1, <2>3, <2>4
  <2>. QED
    BY <1>1, <1>2, <2>5, <2>6, LeaveConverses
<1>. QED
  BY <1>9, <1>10, <1>11

\* The frames of a read, out of what the end keeps and what the read brought.
LEMMA ReadConverses ==
    ASSUME IInv, Conversation, ~PayloadCuts, NEW e \in Ends, NEW n \in 1 .. Len(wire[e]), Read(e, n)
    PROVE  Conversation'
<1>1. PICK p \in Ends, r \in End, w \in End, x \in Seq(Byte), d \in Seq(Byte) :
          /\ p = Peer(e) /\ p # e /\ r = ws[e] /\ w = ws[p] /\ x = wire[e] /\ d = wire[p]
          /\ Writes(r, e) /\ Writes(w, p) /\ Delivers(w, r, x) /\ Delivers(r, w, d)
  BY BothEnds
<1>2. /\ owner' = owner /\ owner[e] \in {"manager", "test"}
      /\ n \in 1 .. Len(x) /\ (n < Len(x) => ~InPayload(x[n + 1]))
      /\ Leave(e, AfterRead(e, n), SubSeq(x, n + 1, Len(x)))
  BY <1>1 DEF Read, IInv
<1>3. PICK ahead : ahead = Ahead(e)
  OBVIOUS
<1>4. InCallback(r, e, ahead) /\ r.life = "alive"
  BY <1>1, <1>3, AliveInCallback DEF Read
<1>5. PICK remain \in Seq(Byte) : remain = r.remain
  BY DEF End
<1>6. PICK front \in Seq(Byte), back \in Seq(Byte) :
          front = SubSeq(x, 1, n) /\ back = SubSeq(x, n + 1, Len(x)) /\ front \o back = x
  <2>1. n \in 0 .. Len(x)
    BY <1>2
  <2>. QED
    BY <2>1, MarksBefore, ZenonT(30)
<1>7. PICK unwritten \in Seq(Byte), tail \in Seq(Byte) :
          unwritten = Unwritten(w) /\ Cut(unwritten) /\ tail = back \o unwritten
  <2>1. PICK writes \in Seq(Seq(Byte)) : writes = w.writes /\ Divided(writes)
    BY <1>1 DEF End, Writes
  <2>2. FlattenSeq(writes) \in Seq(Byte) /\ Cut(FlattenSeq(writes))
    BY <2>1, DividedCut
  <2>. QED
    BY <2>1, <2>2, ConcatProperties DEF Unwritten
<1>8. Cut(back)
  <2>1. Len(back) = Len(x) - n /\ (Len(back) > 0 => back[1] = x[n + 1])
    <3>1. n \in Nat /\ n <= Len(x) /\ Len(x) \in Nat
      BY <1>2, LenProperties
    <3>2. /\ Len(back) = Len(x) - n
          /\ \A i \in 1 .. Len(x) - n : back[i] = x[n + i]
      BY <1>6, <3>1, BehindPlaces
    <3>3. Len(x) - n > 0 => 1 \in 1 .. Len(x) - n
      BY <3>1
    <3>. QED
      BY <3>2, <3>3
  <2>2. n \in Nat /\ Len(x) \in Nat
    BY <1>2, LenProperties
  <2>3. Len(back) > 0 => n < Len(x)
    BY <2>1, <2>2
  <2>. QED
    BY <1>2, <2>1, <2>3 DEF Cut
<1>9. Cut(tail)
  BY <1>7, <1>8, CutParts
<1>10. PICK sent \in Seq(Frame) : sent = w.sent /\ Ordered(sent, p)
  BY <1>1 DEF End, Writes
<1>11. PICK k \in 0 .. Len(sent) : Listened(r, sent, k) /\ Under(w, r, x, k)
  BY <1>1, <1>4, <1>10 DEF Delivers
<1>12. PICK full : full = (w.life = "alive")
  OBVIOUS
<1>13. /\ Carried((remain \o front) \o tail, sent, k, full) /\ Short(remain)
       /\ Cut(front \o tail)
  <2>1. PICK a \in Seq(Byte) : a = front \o tail
    BY ConcatProperties
  <2>2. x \o unwritten = a
    <3>1. Regroups(front, back, unwritten)
      BY Reassociated
    <3>. QED
      BY <1>6, <1>7, <2>1, <3>1 DEF Regroups
  <2>3. (remain \o x) \o unwritten = (remain \o front) \o tail
    <3>1. Regroups(remain, x, unwritten) /\ Regroups(remain, front, tail)
      BY Reassociated
    <3>. QED
      BY <2>1, <2>2, <3>1 DEF Regroups
  <2>4. /\ Carries((remain \o x) \o unwritten, sent, k)
        /\ w.life = "alive" => Complete((remain \o x) \o unwritten, sent, k)
        /\ Short(remain) /\ Cut(x \o unwritten)
    BY <1>5, <1>7, <1>10, <1>11 DEF Under
  <2>. QED
    BY <1>12, <2>1, <2>2, <2>3, <2>4 DEF Carried
<1>14. PICK got \in Extraction : /\ got = ExtractMulti(remain, front)
                                 /\ Extracting(got, tail, sent, k, full)
                                 /\ Short(got.remain \o got.income)
  BY <1>13, ExtractSends
<1>15. PICK kept \in Seq(Byte), frames \in Seq(Frame) :
           /\ kept = got.remain \o got.income /\ frames = got.frames
           /\ Short(kept) /\ got.garbled = FALSE
  <2>1. got.remain \in Seq(Byte) /\ got.income \in Seq(Byte) /\ got.frames \in Seq(Frame)
    BY DEF Extraction
  <2>2. got.remain \o got.income \in Seq(Byte)
    BY <2>1, ConcatProperties
  <2>. QED
    BY <1>14, <2>1, <2>2 DEF Extracting
<1>16. PICK m \in Nat : /\ m = k + Len(frames) /\ m <= Len(sent)
                        /\ \A i \in 1 .. Len(frames) : frames[i] = sent[k + i]
                        /\ Carried(kept \o tail, sent, m, full)
  <2>1. k + Len(frames) \in Nat
    BY LenProperties
  <2>2. /\ k + Len(frames) <= Len(sent)
        /\ \A i \in 1 .. Len(frames) : frames[i] = sent[k + i]
        /\ Carried(kept \o tail, sent, k + Len(frames), full)
    BY <1>14, <1>15 DEF Extracting
  <2>. QED
    BY <2>1, <2>2
<1>17. CloseIsLast(frames)
  <2>1. PICK all \in Seq(Byte) : all = remain \o front /\ remain \o x = all \o back
    <3>1. remain \o front \in Seq(Byte)
      BY ConcatProperties
    <3>2. Regroups(remain, front, back)
      BY Reassociated
    <3>. QED
      BY <1>6, <3>1, <3>2 DEF Regroups
  <2>2. Clean(remain \o x)
    <3>1. Peer(p) = e
      BY <1>1, TwoEnds
    <3>2. Sound(ws[p], Ahead(p))
      BY DEF IInv
    <3>. QED
      BY <1>1, <1>5, <3>1, <3>2 DEF Sound, Ahead
  <2>3. Clean(all)
    BY <2>1, <2>2, MarksOfParts
  <2>4. TakenFrom(got, all)
    BY <1>14, <2>1, <2>3, ExtractKeeps
  <2>. QED
    BY <1>15, <2>4 DEF TakenFrom
<1>18. PICK u \in End : u = [r EXCEPT !.remain = kept]
  BY EndChanges
<1>19. /\ u.life = "alive" /\ u.remain = kept /\ u.sent = r.sent /\ u.writes = r.writes
       /\ u.heard = r.heard /\ u.failed = r.failed /\ u.saveFragment = r.saveFragment
       /\ u.fragments = r.fragments /\ u.saveBinary = r.saveBinary
  BY <1>4, <1>18 DEF End
<1>20. InCallback(u, e, ahead)
  <2>1. Alike(r, u)
    BY <1>4, <1>18 DEF End, Alike
  <2>. QED
    BY <1>4, <1>19, <2>1, AlikeKeeps
<1>21. Writes(u, e) /\ Delivers(u, w, d) /\ Listened(u, sent, k)
  <2>1. Speaks(r, u, e)
    BY <1>19 DEF Speaks
  <2>2. /\ Writes(u, e)
        /\ \A a \in End, b \in Seq(Byte) : r.life = "alive" /\ Delivers(r, a, b) => Delivers(u, a, b)
    BY <1>1, <2>1, SpeaksKeeps
  <2>3. Listened(u, sent, k)
    BY <1>4, <1>11, <1>19 DEF Listened, Gathered
  <2>. QED
    BY <1>1, <1>4, <2>2, <2>3
<1>22. PICK t : t = TakeAll(u, e, frames)
  OBVIOUS
<1>23. /\ Writes(t, e) /\ Delivers(t, w, d) /\ Listened(t, sent, m)
       /\ t.life = "alive" => t.remain = kept
  <2>1. k \in Nat /\ AreFrames(frames, sent, k, m)
    BY <1>16 DEF AreFrames
  <2>2. Ordered(sent, p) /\ m <= Len(sent)
    BY <1>10, <1>16
  <2>3. /\ Writes(TakeAll(u, e, frames), e) /\ Delivers(TakeAll(u, e, frames), w, d)
        /\ Listened(TakeAll(u, e, frames), sent, m)
        /\ TakeAll(u, e, frames).life = "alive" => TakeAll(u, e, frames).remain = u.remain
    BY <1>2, <1>17, <1>19, <1>20, <1>21, <2>1, <2>2, TakeAllTells
  <2>. QED
    BY <1>19, <1>22, <2>3
<1>24. t \in End /\ t.life # "garbled"
  <2>1. InCallback(TakeAll(u, e, frames), e, ahead)
    BY <1>2, <1>17, <1>19, <1>20, TakeAllKeeps
  <2>. QED
    BY <1>22, <2>1 DEF InCallback
<1>25. AfterRead(e, n) = t
  BY <1>1, <1>5, <1>6, <1>14, <1>15, <1>18, <1>22 DEF AfterRead
<1>26. Delivers(w, t, back)
  <2>1. ASSUME t.life = "alive" PROVE Under(w, t, back, m)
    <3>1. t.remain = kept
      BY <1>23, <2>1
    <3>2. (kept \o back) \o unwritten = kept \o tail
      <4>1. Regroups(kept, back, unwritten)
        BY Reassociated
      <4>. QED
        BY <1>7, <4>1 DEF Regroups
    <3>3. Carried((kept \o back) \o unwritten, sent, m, full)
      BY <1>16, <3>2
    <3>. QED
      BY <1>7, <1>9, <1>10, <1>12, <1>15, <3>1, <3>3 DEF Under, Carried
  <2>2. m \in 0 .. Len(sent)
    BY <1>16
  <2>. QED
    BY <1>10, <1>23, <1>24, <2>1, <2>2 DEF Delivers
<1>27. Leave(e, t, back) /\ Delivers(t, ws[p], wire[p]) /\ Delivers(ws[p], t, back)
  BY <1>1, <1>2, <1>6, <1>23, <1>25, <1>26
<1>. QED
  BY <1>1, <1>2, <1>23, <1>24, <1>27, LeaveConverses

LEMMA InitConverses == Init => Conversation
<1>. SUFFICES ASSUME Init PROVE Conversation
  OBVIOUS
<1>1. /\ <<>> \in Seq(Byte) /\ Len(<<>>) = 0
      /\ (<<>> \o <<>>) \o <<>> = <<>> /\ <<>> \o <<>> = <<>>
  <2>1. <<>> \in Seq(Byte) /\ Len(<<>>) = 0
    BY EmptySeq
  <2>2. <<>> \o <<>> = <<>>
    BY <2>1, ConcatEmptySeq
  <2>. QED
    BY <2>1, <2>2
<1>2. ASSUME NEW e \in Ends
      PROVE  /\ ws[e].writes = <<>> /\ ws[e].sent = <<>> /\ ws[e].life = "alive"
             /\ ws[e].remain = <<>> /\ ws[e].heard = <<>> /\ ws[e].fragments = <<>>
             /\ Unwritten(ws[e]) = <<>> /\ wire[e] = <<>>
  <2>1. PICK save \in BOOLEAN : ws[e] = NewEnd(save)
    BY <1>2 DEF Init
  <2>2. wire[e] = <<>>
    BY <1>2 DEF Init
  <2>3. ws[e].writes = <<>>
    BY <2>1 DEF NewEnd
  <2>. QED
    BY <2>1, <2>2, <2>3, UnwrittenNone DEF NewEnd
<1>3. ASSUME NEW e \in Ends PROVE Writes(ws[e], e)
  BY <1>1, <1>2 DEF Writes, Ordered, Divided
<1>4. ASSUME NEW w, NEW r, w.sent = <<>>, Unwritten(w) = <<>>, r.life = "alive", r.remain = <<>>,
             r.heard = <<>>, r.fragments = <<>>
      PROVE  Delivers(w, r, <<>>)
  <2>1. Listened(r, <<>>, 0)
    <3>1. Heard(<<>>, r.saveFragment, 0) = <<>>
      BY HeardStep
    <3>2. ~Unfinished(<<>>, 0)
      BY DEF Unfinished
    <3>. QED
      BY <1>4, <3>1, <3>2 DEF Listened, Gathered
  <2>2. Under(w, r, <<>>, 0)
    <3>1. Carries(<<>>, <<>>, 0) /\ Complete(<<>>, <<>>, 0)
      BY <1>1 DEF Carries, Complete
    <3>. QED
      BY <1>1, <1>4, <3>1, CutNothing DEF Under
  <2>3. 0 \in 0 .. Len(w.sent)
    BY <1>1, <1>4
  <2>. QED
    BY <1>4, <2>1, <2>2, <2>3 DEF Delivers
<1>5. ASSUME NEW e \in Ends PROVE Delivers(ws[Peer(e)], ws[e], wire[e])
  BY <1>2, <1>4, TwoEnds
<1>. QED
  BY <1>3, <1>5 DEF Conversation

LEMMA StepConverses ==
    ASSUME IInv, Conversation, ~PayloadCuts, [Next]_vars
    PROVE  Conversation'
<1>1. ASSUME NEW e \in Ends, OwnerSends(e) PROVE Conversation'
  BY <1>1, OwnerSendsConverses
<1>2. ASSUME NEW e \in Ends, OwnerEnds(e) PROVE Conversation'
  BY <1>2, OwnerEndsConverses
<1>3. ASSUME NEW e \in Ends, OwnerCloses(e) PROVE Conversation'
  BY <1>3, OwnerClosesConverses
<1>4. ASSUME NEW e \in Ends, Flush(e) PROVE Conversation'
  BY <1>4, FlushConverses
<1>5. ASSUME NEW e \in Ends, NEW n \in 1 .. Len(wire[e]), Read(e, n) PROVE Conversation'
  BY <1>5, ReadConverses
<1>6. ASSUME NEW e \in Ends, ReadEnds(e) PROVE Conversation'
  BY <1>6, ReadEndsConverses
<1>7. CASE UNCHANGED vars
  <2>1. ws' = ws /\ wire' = wire /\ owner' = owner
    BY <1>7 DEF vars
  <2>2. \A e \in Ends : Writes(ws[e], e)' /\ Delivers(ws[Peer(e)], ws[e], wire[e])'
    BY <2>1 DEF Conversation, Writes, Ordered
  <2>. QED
    BY <2>2 DEF Conversation
<1>. QED
  BY <1>1, <1>2, <1>3, <1>4, <1>5, <1>6, <1>7 DEF Next

LEMMA ConversationMeans ==
    ASSUME IInv, Conversation
    PROVE  MessagesIntact
<1>1. ASSUME NEW e \in Ends
      PROVE  /\ ws[e].life # "garbled"
             /\ \/ ws[e].failed > 0
                \/ IsPrefix(ws[e].heard, Meaning(ws[Peer(e)].sent, ws[e].saveFragment))
  <2>1. PICK p \in Ends, s \in End, q \in End, c \in Seq(Byte), d \in Seq(Byte) :
            /\ p = Peer(e) /\ p # e /\ s = ws[e] /\ q = ws[p] /\ c = wire[e] /\ d = wire[p]
            /\ Writes(s, e) /\ Writes(q, p) /\ Delivers(q, s, c) /\ Delivers(s, q, d)
    BY <1>1, BothEnds
  <2>2. PICK sent \in Seq(Frame) : sent = q.sent
    BY DEF End
  <2>3. PICK k \in 0 .. Len(sent) : Listened(s, sent, k)
    BY <2>1, <2>2 DEF Delivers
  <2>4. IsPrefix(Heard(sent, s.saveFragment, k), Meaning(sent, s.saveFragment))
    BY HeardMeans
  <2>5. s.failed = 0 \/ s.failed > 0
    <3>1. s.failed \in Nat
      BY DEF End
    <3>. QED
      BY <3>1
  <2>. QED
    BY <2>1, <2>2, <2>3, <2>4, <2>5 DEF Listened, Delivers
<1>. QED
  BY <1>1 DEF MessagesIntact

\* Where no read ends inside a payload, an end reports the messages that its peer sent, each whole
\* and in order, until it reports an error, and never takes a header from the middle of a payload
\* (extractFrameFromData, read_callback), whatever is sent, however the reads cut the frames
\* otherwise, and whoever closes or goes first.
THEOREM MessagesIntactHolds == Spec => [](~PayloadCuts => MessagesIntact)
<1>. DEFINE Inv == IInv /\ (~PayloadCuts => Conversation)
<1>1. Init => Inv
  BY InitKeeps, InitConverses
<1>2. Inv /\ [Next]_vars => Inv'
  BY StepKeeps, StepConverses
<1>3. Inv => (~PayloadCuts => MessagesIntact)
  BY ConversationMeans
<1>. HIDE DEF Inv
<1>. QED
  BY <1>1, <1>2, <1>3, PTL DEF Spec

=============================================================================
