-------------------------- MODULE ConfigFile_proofs --------------------------
(***************************************************************************)
(* Proofs about ConfigFile, for any texts, any calls and any bounds.       *)
(***************************************************************************)
EXTENDS ConfigFile, FiniteSetTheorems, TLAPS

Ops == {"none", "open", "seek", "stat", "read", "truncate", "write"}
Uses == {"none", "load", "ruleload", "reload", "save"}
Requests == [op: Ops, fd: Nat, at: Nat, size: Nat, done: BOOLEAN, ok: BOOLEAN, data: Seq(Cell)]
\* What is written is a text, and only a save writes.
CallStates ==
    {s \in [use: Uses, text: Cell, req: Requests] :
        /\ s.use = "save" => s.text \in Versions
        /\ s.req.op \in {"truncate", "write"} => s.use = "save"
        /\ s.req.op = "none" => s = Idle
        /\ ~s.req.done => s.req.ok}
Files == [fd: Nat, error: BOOLEAN, pos: Nat, flags: {"none", "rdwr", "rdonly"}]

Kinds == {"json", "rules"}
States == {"alive", "deleted", "aborted"}

\* TypeOK, and that the descriptors are finitely many: there is always another one.
TypeInv ==
    /\ kind \in Kinds /\ disk \in Seq(Cell)
    /\ fds \subseteq Nat \ {NoFd} /\ IsFiniteSet(fds) /\ closing \subseteq fds
    /\ file \in Files /\ state \in States
    /\ watched \in BOOLEAN /\ event \in BOOLEAN
    /\ calls \in [Calls -> CallStates]
    /\ loaded \subseteq Seq(Cell) /\ raced \subseteq {"overlap", "orphan"}
    /\ asked \in 0 .. MaxAsked /\ edits \in 0 .. MaxEdits /\ faults \in 0 .. MaxFaults

\* While it lives a UVFile has closed nothing, and its descriptor is open.
Owned ==
    state # "deleted" =>
        /\ closing = {}
        /\ file.fd \in fds \cup {NoFd}
        /\ \A c \in Calls : LET req == calls[c].req
                          IN  req.op = "open" /\ req.done /\ req.ok => req.fd \in fds

LEMMA TypeInvImpliesTypeOK == TypeInv => TypeOK
  BY DEF TypeInv, TypeOK, Kinds, States, Files, CallStates, Requests, Uses, Ops

-----------------------------------------------------------------------------
(* Values *)

LEMMA TextType == \A v \in Versions : Text(v) \in Seq(Cell) /\ Len(Text(v)) = Size[v]
  BY ConfigFileAssumption DEF Text, Cell

LEMMA OverlayType ==
  ASSUME NEW cells \in Seq(Cell), NEW at \in Nat, NEW text \in Seq(Cell)
  PROVE  Overlay(cells, at, text) \in Seq(Cell)
<1> DEFINE n == IF at + Len(text) > Len(cells) THEN at + Len(text) ELSE Len(cells)
           cell(i) == IF i \in at + 1 .. at + Len(text) THEN text[i - at]
                      ELSE IF i <= Len(cells) THEN cells[i] ELSE Hole
<1>1. n \in Nat
  OBVIOUS
<1>2. \A i \in 1 .. n : cell(i) \in Cell
  BY DEF Cell
<1>3. Overlay(cells, at, text) = [i \in 1 .. n |-> cell(i)]
  BY DEF Overlay
<1> HIDE DEF n, cell
<1> QED
  BY <1>1, <1>2, <1>3

LEMMA SliceType ==
  ASSUME NEW cells \in Seq(Cell), NEW at \in Nat, NEW size \in Nat
  PROVE  Slice(cells, at, size) \in Seq(Cell)
<1> DEFINE n == IF at + size < Len(cells) THEN at + size ELSE Len(cells)
<1>1. n \in Nat /\ n <= Len(cells)
  OBVIOUS
<1> HIDE DEF n
<1>2. SubSeq(cells, at + 1, n) \in Seq(Cell)
  BY <1>1
<1> QED
  BY <1>2 DEF Slice, n

\* open(2) finds a descriptor that is free.
LEMMA NewFdIsFree ==
  ASSUME TypeInv
  PROVE  NewFd \in Nat \ {NoFd} /\ NewFd \notin fds
<1> DEFINE n == Cardinality(fds)
<1>1. n \in Nat
  BY FS_CardinalityType DEF TypeInv
<1>2. IsFiniteSet(1 .. n + 1) /\ Cardinality(1 .. n + 1) = n + 1
  BY <1>1, FS_Interval
<1>3. ~(1 .. n + 1 \subseteq fds)
  BY <1>1, <1>2, FS_Subset DEF TypeInv
<1>4. \E fd \in 1 .. n + 1 : fd \notin fds
  BY <1>3
<1>5. NewFd \in 1 .. n + 1 /\ NewFd \notin fds
  BY <1>4 DEF NewFd
<1> QED
  BY <1>1, <1>5 DEF NoFd

LEMMA OpenNowType ==
  ASSUME TypeInv
  PROVE  OpenNow \in Files /\ OpenNow.fd # NoFd
<1> QED
  BY NewFdIsFree DEF OpenNow, Files, TypeInv, NoFd

LEMMA NewRequest ==
  ASSUME NEW op \in Ops, NEW fd \in Nat, NEW at \in Nat, NEW size \in Nat
  PROVE  Request(op, fd, at, size) \in Requests
  BY DEF Request, Requests

LEMMA IdleType == Idle \in CallStates
  BY DEF Idle, CallStates, Requests, Request, Uses, Ops, NoFd, Cell

LEMMA NewFileType == NewUVFile \in Files
  BY DEF NewUVFile, Files, NoFd

-----------------------------------------------------------------------------
(* Types *)

\* A request that is made, or the end of a call, leaves calls, file and state as they are typed.
LEMMA SubmitType ==
  ASSUME TypeInv, NEW c \in Calls, NEW STATE use, NEW STATE text, NEW STATE request,
         [use |-> use, text |-> text, req |-> request] \in CallStates,
         NEW STATE f, f \in Files, Submit(c, use, text, request, f)
  PROVE  calls' \in [Calls -> CallStates] /\ file' \in Files /\ state' \in States
<1> USE DEF TypeInv
<1>1. CASE f.error
  BY <1>1 DEF Submit, States
<1>2. CASE ~f.error
  BY <1>2 DEF Submit
<1> QED
  BY <1>1, <1>2

LEMMA ContinueType ==
  ASSUME TypeInv, NEW c \in Calls, NEW STATE op, op \in Ops \ {"none"},
         op \in {"truncate", "write"} => calls[c].use = "save",
         NEW STATE at, at \in Nat, NEW STATE size, size \in Nat,
         NEW STATE f, f \in Files, Continue(c, op, at, size, f)
  PROVE  calls' \in [Calls -> CallStates] /\ file' \in Files /\ state' \in States
<1>1. calls[c] \in CallStates
  BY DEF TypeInv
<1>2. Request(op, f.fd, at, size) \in Requests /\ Request(op, f.fd, at, size).op = op
      /\ Request(op, f.fd, at, size).ok
  BY DEF Request, Requests, Files
<1>3. [use |-> calls[c].use, text |-> calls[c].text, req |-> Request(op, f.fd, at, size)] \in CallStates
  BY <1>1, <1>2 DEF CallStates
<1> QED
  BY <1>3, SubmitType DEF Continue

LEMMA BeginType ==
  ASSUME TypeInv, NEW c \in Calls, NEW STATE use, use \in Uses, NEW STATE text, text \in Cell,
         use = "save" => text \in Versions, Begin(c, use, text)
  PROVE  /\ calls' \in [Calls -> CallStates] /\ file' \in Files /\ state' \in States
         /\ raced' \subseteq {"overlap", "orphan"}
<1> DEFINE op == IF file.fd = NoFd THEN "open" ELSE IF use = "save" THEN "truncate" ELSE "seek"
           f == IF op = "open" THEN [file EXCEPT !.flags = "rdwr"] ELSE file
<1>1. f \in Files /\ op \in Ops \ {"none"} /\ (op \in {"truncate", "write"} => use = "save")
  BY DEF TypeInv, Files, Ops
<1>2. Submit(c, use, text, Request(op, file.fd, 0, 0), f)
  BY DEF Begin
<1> HIDE DEF op, f
<1>3. Request(op, file.fd, 0, 0) \in Requests /\ Request(op, file.fd, 0, 0).op = op
      /\ Request(op, file.fd, 0, 0).ok
  BY <1>1 DEF TypeInv, Request, Requests, Files
<1>4. [use |-> use, text |-> text, req |-> Request(op, file.fd, 0, 0)] \in CallStates
  BY <1>1, <1>3 DEF CallStates
<1>5. calls' \in [Calls -> CallStates] /\ file' \in Files /\ state' \in States
  BY <1>1, <1>2, <1>4, SubmitType
<1>6. raced' \subseteq {"overlap", "orphan"}
  BY DEF TypeInv, Begin
<1> QED
  BY <1>5, <1>6

LEMMA AnswerType ==
  ASSUME TypeInv, NEW c \in Calls, NEW STATE status, NEW STATE f, f \in Files, Answer(c, status, f)
  PROVE  calls' \in [Calls -> CallStates] /\ file' \in Files /\ state' \in States
  BY IdleType DEF TypeInv, Answer, States

LEMMA FromROBufType ==
  ASSUME TypeInv, NEW STATE buf, buf \in Seq(Cell), FromROBuf(buf)
  PROVE  loaded' \subseteq Seq(Cell)
<1>1. loaded \subseteq Seq(Cell)
  BY DEF TypeInv
<1>2. loaded' \in {loaded, loaded \cup {buf}, {buf}}
  BY DEF FromROBuf
<1> QED
  BY <1>1, <1>2

LEMMA FinishType ==
  ASSUME TypeInv, NEW c \in Calls, NEW STATE buf, buf \in Seq(Cell), NEW STATE f, f \in Files,
         Finish(c, buf, f)
  PROVE  /\ calls' \in [Calls -> CallStates] /\ file' \in Files /\ state' \in States
         /\ loaded' \subseteq Seq(Cell)
  BY AnswerType, FromROBufType DEF Finish

\* The request of a running call.
LEMMA CallType ==
  ASSUME TypeInv, NEW c \in Calls
  PROVE  /\ calls[c] \in CallStates /\ calls[c].req \in Requests
         /\ calls[c].req.fd \in Nat /\ calls[c].req.at \in Nat /\ calls[c].req.size \in Nat
         /\ calls[c].req.data \in Seq(Cell) /\ calls[c].req.op \in Ops
         /\ calls[c].text \in Cell /\ calls[c].use \in Uses
  BY DEF TypeInv, CallStates, Requests

-----------------------------------------------------------------------------
(* Every step keeps the types *)

LEMMA InitType == Init => TypeInv
<1> SUFFICES ASSUME Init PROVE TypeInv
  OBVIOUS
<1>1. disk \in Seq(Cell)
  BY TextType DEF Init
<1>2. calls \in [Calls -> CallStates]
  BY IdleType DEF Init
<1>3. asked \in 0 .. MaxAsked /\ edits \in 0 .. MaxEdits /\ faults \in 0 .. MaxFaults
  BY ConfigFileAssumption DEF Init
<1>4. IsFiniteSet(fds)
  BY FS_EmptySet DEF Init
<1> QED
  BY <1>1, <1>2, <1>3, <1>4, NewFileType DEF TypeInv, Init, Kinds, States

\* What the owner does.
LEMMA OwnerTypes ==
  ASSUME TypeInv, Owned, (\E c \in Calls : Load(c) \/ Save(c)) \/ LoadNow \/ SetNewFile \/ Delete
  PROVE  TypeInv'
<1> USE DEF TypeInv
<1>0. ASSUME OwnerAsks PROVE asked' \in 0 .. MaxAsked
  BY <1>0, ConfigFileAssumption DEF OwnerAsks
<1>1. ASSUME NEW c \in Calls, Load(c) PROVE TypeInv'
  <2>1. (IF kind = "rules" THEN "ruleload" ELSE "load") \in Uses /\ Hole \in Cell
    BY DEF Uses, Cell
  <2>2. /\ calls' \in [Calls -> CallStates] /\ file' \in Files /\ state' \in States
        /\ raced' \subseteq {"overlap", "orphan"}
    BY <1>1, <2>1, BeginType DEF Load
  <2> QED
    BY <1>0, <1>1, <2>2 DEF Load
<1>2. ASSUME NEW c \in Calls, Save(c) PROVE TypeInv'
  <2>1. PICK v \in Valid : Begin(c, "save", v)
    BY <1>2 DEF Save
  <2>2. v \in Cell /\ v \in Versions /\ "save" \in Uses
    BY ConfigFileAssumption DEF Cell, Uses
  <2>3. /\ calls' \in [Calls -> CallStates] /\ file' \in Files /\ state' \in States
        /\ raced' \subseteq {"overlap", "orphan"}
    BY <2>1, <2>2, BeginType
  <2> QED
    BY <1>0, <1>2, <2>3 DEF Save
<1>3. CASE LoadNow
  <2>1. asked' \in 0 .. MaxAsked
    BY <1>0, <1>3 DEF LoadNow
  <2>2. raced' \subseteq {"overlap", "orphan"}
    BY <1>3 DEF LoadNow
  <2>3. loaded' \subseteq Seq(Cell)
    BY <1>3, FromROBufType DEF LoadNow
  <2>4. file' \in Files /\ state' \in States /\ fds' \subseteq Nat \ {NoFd} /\ fds \subseteq fds'
    BY <1>3, OpenNowType DEF LoadNow, States, Files
  <2>5. IsFiniteSet(fds')
    <3>1. fds' = fds \/ fds' = fds \cup {OpenNow.fd}
      BY <1>3 DEF LoadNow
    <3>2. IsFiniteSet(fds \cup {OpenNow.fd})
      BY FS_AddElement
    <3> QED
      BY <3>1, <3>2
  <2> QED
    BY <1>3, <2>1, <2>2, <2>3, <2>4, <2>5 DEF LoadNow
<1>4. CASE SetNewFile
  <2>1. asked' \in 0 .. MaxAsked
    BY <1>0, <1>4 DEF SetNewFile
  <2>2. disk' \in Seq(Cell)
    BY <1>4, TextType DEF SetNewFile
  <2>3. PICK fd \in Nat \ {NoFd} :
           /\ fds' = fds \cup {fd}
           /\ file' = [NewUVFile EXCEPT !.fd = fd,
                          !.flags = IF file.flags = "rdwr" THEN "rdwr" ELSE "rdonly"]
    BY <1>4, NewFdIsFree DEF SetNewFile, Files
  <2>4. file' \in Files
    BY <2>3 DEF NewUVFile, Files
  <2>5. IsFiniteSet(fds') /\ fds' \subseteq Nat \ {NoFd} /\ closing \subseteq fds'
    BY <2>3, FS_AddElement
  <2> QED
    BY <1>4, <2>1, <2>2, <2>4, <2>5 DEF SetNewFile
<1>5. CASE Delete
  <2>1. closing \cup ({file.fd} \ {NoFd}) \subseteq fds
    BY <1>5 DEF Owned, Delete, Alive
  <2> QED
    BY <1>5, <2>1 DEF Delete, States
<1> QED
  BY <1>1, <1>2, <1>3, <1>4, <1>5

\* What the thread pool does.
LEMMA PoolTypes ==
  ASSUME TypeInv, (\E c \in Calls : Execute(c)) \/ \E fd \in closing : CloseRun(fd)
  PROVE  TypeInv'
<1> USE DEF TypeInv
<1>1. ASSUME NEW c \in Calls, Execute(c) PROVE TypeInv'
  <2> DEFINE req == calls[c].req
             ran == [req EXCEPT !.done = TRUE]
             refused == [ran EXCEPT !.ok = FALSE]
  <2>1. req \in Requests /\ calls[c] \in CallStates
    BY CallType
  <2>2. SUFFICES /\ disk' \in Seq(Cell) /\ event' \in BOOLEAN /\ calls' \in [Calls -> CallStates]
                 /\ fds' \subseteq Nat \ {NoFd} /\ IsFiniteSet(fds') /\ fds \subseteq fds'
                 /\ faults' \in 0 .. MaxFaults
    BY <1>1 DEF Execute
  <2>3. ASSUME NEW STATE answer, answer \in Requests, answer.op = req.op, answer.done, req.op # "none",
               NEW STATE cells, cells \in Seq(Cell), Effect(c, cells, answer)
        PROVE  disk' \in Seq(Cell) /\ event' \in BOOLEAN /\ calls' \in [Calls -> CallStates]
    <3>1. [calls[c] EXCEPT !.req = answer] \in CallStates
      BY <2>1, <2>3 DEF CallStates
    <3>2. calls' = [calls EXCEPT ![c] = [calls[c] EXCEPT !.req = answer]]
      BY <2>3 DEF Effect
    <3> QED
      BY <2>3, <3>1, <3>2 DEF Effect
  <2>4. req.op # "none"
    BY <1>1, <2>1 DEF Execute, Running, CallStates
  <2>5. refused \in Requests /\ refused.op = req.op /\ refused.done
         /\ ran \in Requests /\ ran.op = req.op /\ ran.done
    BY <2>1 DEF Requests
  <2>6. disk \in Seq(Cell) /\ Len(disk) \in Nat
    OBVIOUS
  <2> HIDE DEF ran, refused, req
  <2>7. ASSUME Effect(c, disk, refused)
        PROVE  disk' \in Seq(Cell) /\ event' \in BOOLEAN /\ calls' \in [Calls -> CallStates]
    BY <2>3, <2>4, <2>5, <2>6, <2>7
  <2>8. CASE /\ req.op = "open"
             /\ Effect(c, disk, [ran EXCEPT !.fd = NewFd])
             /\ fds' = fds \cup {NewFd}
             /\ UNCHANGED faults
    <3>1. /\ [ran EXCEPT !.fd = NewFd] \in Requests /\ [ran EXCEPT !.fd = NewFd].op = req.op
          /\ [ran EXCEPT !.fd = NewFd].done
      BY <2>5, NewFdIsFree DEF Requests
    <3>2. IsFiniteSet(fds \cup {NewFd})
      BY FS_AddElement
    <3>3. disk' \in Seq(Cell) /\ event' \in BOOLEAN /\ calls' \in [Calls -> CallStates]
      BY <2>3, <2>4, <2>6, <2>8, <3>1
    <3> QED
      BY <2>8, <3>2, <3>3, NewFdIsFree
  <2>9. CASE /\ req.op # "open" /\ req.fd \in fds
             /\ CASE req.op \in {"seek", "stat"} -> Effect(c, disk, [ran EXCEPT !.size = Len(disk)])
                  [] req.op = "read" -> Effect(c, disk, [ran EXCEPT !.data = Slice(disk, req.at, req.size)])
                  [] req.op = "truncate" /\ file.flags # "rdonly" -> Effect(c, <<>>, ran)
                  [] req.op = "write" /\ file.flags # "rdonly" ->
                         Effect(c, Overlay(disk, req.at, Text(calls[c].text)), ran)
                  [] OTHER -> Effect(c, disk, refused)
             /\ UNCHANGED <<fds, faults>>
    <3>1. CASE req.op \in {"seek", "stat"}
      <4>1. /\ [ran EXCEPT !.size = Len(disk)] \in Requests
            /\ [ran EXCEPT !.size = Len(disk)].op = req.op
            /\ [ran EXCEPT !.size = Len(disk)].done
        BY <2>5, <2>6 DEF Requests
      <4> QED
        BY <2>3, <2>4, <2>6, <2>9, <3>1, <4>1
    <3>2. CASE req.op = "read"
      <4>1. Slice(disk, req.at, req.size) \in Seq(Cell)
        BY <2>1, SliceType DEF Requests
      <4>2. /\ [ran EXCEPT !.data = Slice(disk, req.at, req.size)] \in Requests
            /\ [ran EXCEPT !.data = Slice(disk, req.at, req.size)].op = req.op
            /\ [ran EXCEPT !.data = Slice(disk, req.at, req.size)].done
        BY <2>5, <4>1 DEF Requests
      <4> QED
        BY <2>3, <2>4, <2>6, <2>9, <3>2, <4>2
    <3>3. CASE req.op \in {"truncate", "write"} /\ file.flags = "rdonly"
      BY <2>7, <2>9, <3>3
    <3>4. CASE req.op = "truncate" /\ file.flags # "rdonly"
      <4>1. <<>> \in Seq(Cell)
        OBVIOUS
      <4> QED
        BY <2>3, <2>4, <2>5, <2>9, <3>4, <4>1
    <3>5. CASE req.op = "write" /\ file.flags # "rdonly"
      <4>1. calls[c].text \in Versions /\ req.at \in Nat
        BY <2>1, <3>5 DEF CallStates, Requests, req
      <4>2. Overlay(disk, req.at, Text(calls[c].text)) \in Seq(Cell)
        BY <4>1, OverlayType, TextType
      <4> QED
        BY <2>3, <2>4, <2>5, <2>9, <3>5, <4>2
    <3> QED
      BY <2>1, <2>4, <2>9, <3>1, <3>2, <3>3, <3>4, <3>5 DEF Requests, Ops
  <2>10. CASE /\ req.op # "open" /\ req.fd \notin fds
              /\ Effect(c, disk, refused)
              /\ UNCHANGED <<fds, faults>>
    BY <2>7, <2>10
  <2>11. CASE /\ faults < MaxFaults
              /\ faults' = faults + 1
              /\ Effect(c, disk, refused)
              /\ UNCHANGED fds
    BY <2>7, <2>11, ConfigFileAssumption
  <2> QED
    BY <1>1, <2>8, <2>9, <2>10, <2>11 DEF Execute, req, ran, refused
<1>2. ASSUME NEW fd \in closing, CloseRun(fd) PROVE TypeInv'
  <2>1. IsFiniteSet(fds \ {fd})
    BY FS_RemoveElement
  <2> QED
    BY <1>2, <2>1 DEF CloseRun
<1> QED
  BY <1>1, <1>2

\* The callbacks of the loop, and the change that another process makes.
LEMMA LoopTypes ==
  ASSUME TypeInv, (\E c \in Calls : Callback(c)) \/ Notify \/ Edit
  PROVE  TypeInv'
<1> USE DEF TypeInv
<1>1. ASSUME NEW c \in Calls, Failed(c) PROVE TypeInv'
  <2>1. calls' \in [Calls -> CallStates] /\ file' \in Files /\ state' \in States
    <3>1. [file EXCEPT !.error = TRUE, !.fd = IF calls[c].req.op = "open" THEN NoFd ELSE @] \in Files
      BY DEF Files, NoFd
    <3>2. CASE Alive
      BY <1>1, <3>1, <3>2, AnswerType DEF Failed, Alive
    <3>3. CASE state = "deleted"
      BY <1>1, <3>3, IdleType DEF Failed, Alive
    <3> QED
      BY <1>1, <3>2, <3>3 DEF Failed
  <2> QED
    BY <1>1, <2>1 DEF Failed, Unchanged
<1>2. ASSUME NEW c \in Calls, Opened(c) PROVE TypeInv'
  <2>1. [file EXCEPT !.fd = calls[c].req.fd] \in Files
    BY CallType DEF Files
  <2>2. calls' \in [Calls -> CallStates] /\ file' \in Files /\ state' \in States
    <3>1. CASE calls[c].use = "save"
      BY <1>2, <2>1, <3>1, ContinueType DEF Opened, Ops
    <3>2. CASE calls[c].use # "save"
      BY <1>2, <2>1, <3>2, ContinueType DEF Opened, Ops
    <3> QED
      BY <3>1, <3>2
  <2> QED
    BY <1>2, <2>2 DEF Opened, Unchanged
<1>3. ASSUME NEW c \in Calls, Sought(c) PROVE TypeInv'
  <2>1. [file EXCEPT !.pos = 0] \in Files
    BY DEF Files
  <2>2. calls' \in [Calls -> CallStates] /\ file' \in Files /\ state' \in States
    BY <1>3, <2>1, ContinueType DEF Sought, Ops
  <2> QED
    BY <1>3, <2>2 DEF Sought, Unchanged
<1>4. ASSUME NEW c \in Calls, Measured(c) PROVE TypeInv'
  <2> DEFINE size == calls[c].req.size
  <2>1. size \in Nat /\ file.pos \in Nat
    BY CallType DEF Files
  <2>2. CASE size = file.pos /\ Finish(c, <<>>, file)
    <3>1. <<>> \in Seq(Cell)
      OBVIOUS
    <3> QED
      BY <1>4, <2>2, <3>1, FinishType DEF Measured, Unchanged
  <2>3. CASE /\ size < file.pos
             /\ Answer(c, -1, [file EXCEPT !.error = TRUE])
             /\ UNCHANGED loaded
    <3>1. [file EXCEPT !.error = TRUE] \in Files
      BY DEF Files
    <3> QED
      BY <1>4, <2>3, <3>1, AnswerType DEF Measured, Unchanged
  <2>4. CASE /\ size > file.pos
             /\ Continue(c, "read", file.pos, size - file.pos, [file EXCEPT !.pos = size])
             /\ UNCHANGED loaded
    <3>1. [file EXCEPT !.pos = size] \in Files /\ size - file.pos \in Nat
      BY <2>1, <2>4 DEF Files
    <3>2. calls' \in [Calls -> CallStates] /\ file' \in Files /\ state' \in States
      BY <2>1, <2>4, <3>1, ContinueType DEF Ops
    <3> QED
      BY <1>4, <2>4, <3>2 DEF Measured, Unchanged
  <2> QED
    BY <1>4, <2>2, <2>3, <2>4 DEF Measured
<1>5. ASSUME NEW c \in Calls, ReadDone(c) PROVE TypeInv'
  BY <1>5, CallType, FinishType DEF ReadDone, Unchanged
<1>6. ASSUME NEW c \in Calls, Truncated(c) PROVE TypeInv'
  <2>1. [file EXCEPT !.pos = 0] \in Files /\ file.pos \in Nat
    BY DEF Files
  <2>2. calls[c].use = "save"
    BY <1>6, CallType DEF Truncated, Answered, CallStates
  <2>3. calls' \in [Calls -> CallStates] /\ file' \in Files /\ state' \in States
    BY <1>6, <2>1, <2>2, ContinueType DEF Truncated, Ops
  <2> QED
    BY <1>6, <2>3 DEF Truncated, Unchanged
<1>7. ASSUME NEW c \in Calls, Written(c) PROVE TypeInv'
  BY <1>7, AnswerType DEF Written, Unchanged
<1>8. CASE Notify
  <2>1. /\ calls' \in [Calls -> CallStates] /\ file' \in Files /\ state' \in States
        /\ raced' \subseteq {"overlap", "orphan"}
    <3>1. "reload" \in Uses /\ Hole \in Cell
      BY DEF Uses, Cell
    <3> QED
      BY <1>8, <3>1, BeginType DEF Notify
  <2> QED
    BY <1>8, <2>1 DEF Notify
<1>9. CASE Edit
  BY <1>9, TextType, ConfigFileAssumption DEF Edit, Watching
<1> QED
  BY <1>1, <1>2, <1>3, <1>4, <1>5, <1>6, <1>7, <1>8, <1>9 DEF Callback

LEMMA TypesKept == TypeInv /\ Owned /\ [Next]_vars => TypeInv'
<1>1. CASE UNCHANGED vars
  BY <1>1 DEF vars, TypeInv
<1>2. ASSUME TypeInv, Owned, Next PROVE TypeInv'
  BY <1>2, OwnerTypes, PoolTypes, LoopTypes DEF Next, Callback
<1> QED
  BY <1>1, <1>2

-----------------------------------------------------------------------------
(* A UVFile that lives owns its descriptor *)

\* A call that asks for a request, and one that ends.
LEMMA SubmitOwned ==
  ASSUME TypeInv, Owned, NEW c \in Calls, NEW STATE use, NEW STATE text,
         NEW STATE op, NEW STATE fd, NEW STATE at, NEW STATE size,
         NEW STATE f, f.fd \in fds \cup {NoFd}, state # "deleted",
         Submit(c, use, text, Request(op, fd, at, size), f), UNCHANGED <<fds, closing>>
  PROVE  Owned'
  BY DEF TypeInv, Owned, Submit, Request

LEMMA AnswerOwned ==
  ASSUME TypeInv, Owned, NEW c \in Calls, NEW STATE status,
         NEW STATE f, f.fd \in fds \cup {NoFd}, state # "deleted",
         Answer(c, status, f), UNCHANGED <<fds, closing>>
  PROVE  Owned'
  BY DEF TypeInv, Owned, Answer, Idle, Request

LEMMA BeginOwned ==
  ASSUME TypeInv, Owned, NEW c \in Calls, NEW STATE use, NEW STATE text,
         Begin(c, use, text), UNCHANGED <<fds, closing>>
  PROVE  Owned'
<1>1. state # "deleted" /\ file.fd \in fds \cup {NoFd}
  BY DEF Begin, Alive, Owned
<1>2. [file EXCEPT !.flags = "rdwr"].fd \in fds \cup {NoFd}
  BY <1>1 DEF TypeInv, Files
<1>3. CASE file.fd = NoFd
  BY <1>1, <1>2, <1>3, SubmitOwned DEF Begin
<1>4. CASE file.fd # NoFd
  BY <1>1, <1>4, SubmitOwned DEF Begin
<1> QED
  BY <1>3, <1>4

LEMMA OwnedKept == TypeInv /\ Owned /\ [Next]_vars => Owned'
<1> SUFFICES ASSUME TypeInv, Owned, [Next]_vars PROVE Owned'
  OBVIOUS
<1>1. ASSUME NEW c \in Calls, Load(c) \/ Save(c) PROVE Owned'
  BY <1>1, BeginOwned DEF Load, Save
<1>2. CASE LoadNow
  <2>1. OpenNow.fd \in fds \cup {OpenNow.fd} /\ OpenNow \in Files
    BY OpenNowType
  <2>2. [OpenNow EXCEPT !.pos = Len(disk)].fd = OpenNow.fd
    BY <2>1 DEF Files
  <2>3. file.error => UNCHANGED <<fds, file>>
    BY <1>2 DEF LoadNow
  <2>4. ~file.error => fds' = fds \cup {OpenNow.fd} /\ file'.fd = OpenNow.fd
    BY <1>2, <2>2 DEF LoadNow
  <2>5. file'.fd \in fds' \cup {NoFd} /\ fds \subseteq fds'
    BY <1>2, <2>1, <2>3, <2>4 DEF Owned, LoadNow, Alive
  <2> QED
    BY <1>2, <2>5 DEF Owned, LoadNow, Alive
<1>3. CASE SetNewFile
  <2>1. file'.fd \in fds' /\ fds \subseteq fds'
    BY <1>3 DEF SetNewFile, NewUVFile
  <2> QED
    BY <1>3, <2>1 DEF Owned, SetNewFile, Alive
<1>4. CASE Delete
  BY <1>4 DEF Owned, Delete
<1>5. ASSUME NEW c \in Calls, Execute(c) PROVE Owned'
  <2>1. UNCHANGED <<file, state, closing>>
    BY <1>5 DEF Execute
  <2>2. fds' = fds \/ fds' = fds \cup {NewFd}
    BY <1>5 DEF Execute
  <2>3. \A d \in Calls : d # c => calls'[d] = calls[d]
    BY <1>5 DEF TypeInv, Execute, Effect
  <2>4. calls'[c].req.op = "open" /\ calls'[c].req.done /\ calls'[c].req.ok => calls'[c].req.fd \in fds'
    <3> DEFINE req == calls[c].req
               ran == [req EXCEPT !.done = TRUE]
               refused == [ran EXCEPT !.ok = FALSE]
    <3>1. req \in Requests /\ calls[c] \in CallStates
      BY CallType
    <3>2. ASSUME NEW STATE cells, NEW STATE answer, Effect(c, cells, answer) PROVE calls'[c].req = answer
      BY <3>1, <3>2 DEF TypeInv, Effect, CallStates
    <3>3. CASE req.op = "open" /\ Effect(c, disk, [ran EXCEPT !.fd = NewFd]) /\ fds' = fds \cup {NewFd}
      BY <3>1, <3>2, <3>3 DEF Requests
    <3>4. CASE Effect(c, disk, refused)
      BY <3>1, <3>2, <3>4 DEF Requests
    <3>5. CASE req.op # "open"
      <4>1. \/ calls'[c].req = [ran EXCEPT !.size = Len(disk)]
            \/ calls'[c].req = [ran EXCEPT !.data = Slice(disk, req.at, req.size)]
            \/ calls'[c].req \in {ran, refused}
        BY <1>5, <3>2, <3>5 DEF Execute
      <4>2. calls'[c].req.op = req.op
        BY <3>1, <4>1 DEF Requests
      <4> QED
        BY <3>5, <4>2
    <3> QED
      BY <1>5, <3>3, <3>4, <3>5 DEF Execute
  <2> QED
    BY <2>1, <2>2, <2>3, <2>4 DEF Owned
<1>6. ASSUME NEW fd \in closing, CloseRun(fd) PROVE Owned'
  BY <1>6 DEF Owned, CloseRun
<1>7. ASSUME NEW c \in Calls, Failed(c) PROVE Owned'
  <2>1. [file EXCEPT !.error = TRUE,
                     !.fd = IF calls[c].req.op = "open" THEN NoFd ELSE @].fd \in {file.fd, NoFd}
    BY DEF TypeInv, Files
  <2>2. CASE Alive
    BY <1>7, <2>1, <2>2, AnswerOwned DEF Failed, Unchanged, Alive, Owned
  <2> QED
    BY <1>7, <2>2 DEF Failed, Unchanged, Owned, Alive
<1>8. ASSUME NEW c \in Calls, Opened(c) PROVE Owned'
  <2>1. [file EXCEPT !.fd = calls[c].req.fd].fd \in fds
    BY <1>8 DEF TypeInv, Files, Opened, Answered, Alive, Done, Owned
  <2> QED
    BY <1>8, <2>1, SubmitOwned DEF Opened, Answered, Alive, Continue, Unchanged
<1>9. ASSUME NEW c \in Calls, Sought(c) \/ Truncated(c) PROVE Owned'
  <2>1. [file EXCEPT !.pos = 0].fd \in fds \cup {NoFd}
    BY <1>9 DEF TypeInv, Files, Sought, Truncated, Answered, Alive, Owned
  <2> QED
    BY <1>9, <2>1, SubmitOwned DEF Sought, Truncated, Answered, Alive, Continue, Unchanged
<1>10. ASSUME NEW c \in Calls, Measured(c) PROVE Owned'
  <2>1. /\ file.fd \in fds \cup {NoFd}
        /\ [file EXCEPT !.error = TRUE].fd = file.fd
        /\ [file EXCEPT !.pos = calls[c].req.size].fd = file.fd
    BY <1>10 DEF TypeInv, Files, Measured, Answered, Alive, Owned
  <2>2. state # "deleted" /\ UNCHANGED <<fds, closing>>
    BY <1>10 DEF Measured, Answered, Alive, Unchanged
  <2> QED
    BY <1>10, <2>1, <2>2, SubmitOwned, AnswerOwned DEF Measured, Continue, Finish
<1>11. ASSUME NEW c \in Calls, ReadDone(c) \/ Written(c) PROVE Owned'
  BY <1>11, AnswerOwned DEF ReadDone, Written, Finish, Answered, Alive, Unchanged, Owned
<1>12. CASE Notify
  <2>1. CASE file.error
    BY <1>12, <2>1 DEF Notify, Owned
  <2>2. CASE ~file.error
    BY <1>12, <2>2, BeginOwned DEF Notify
  <2> QED
    BY <2>1, <2>2
<1>13. CASE Edit
  BY <1>13 DEF Edit, Owned
<1>14. CASE UNCHANGED vars
  BY <1>14 DEF vars, Owned
<1> QED
  BY <1>1, <1>2, <1>3, <1>4, <1>5, <1>6, <1>7, <1>8, <1>9, <1>10, <1>11, <1>12, <1>13, <1>14 DEF Next

-----------------------------------------------------------------------------
(* One call at a time *)

\* While no two calls have met, a call that opens the file finds it closed, and nothing
\* deletes the ConfigFile under it.
Lone ==
    raced = {} =>
        /\ \A c, d \in Calls : Running(c) /\ Running(d) => c = d
        /\ \A c \in Calls : calls[c].req.op = "open" => state # "deleted" /\ file.fd = NoFd

\* Then every descriptor is the UVFile's, or being closed, or just opened for it.
Opening(fd) ==
    \E c \in Calls : LET req == calls[c].req
                     IN  req.op = "open" /\ req.done /\ req.ok /\ req.fd = fd
Accounted ==
    raced = {} => \A fd \in fds : \/ state # "deleted" /\ fd = file.fd
                                  \/ fd \in closing
                                  \/ Opening(fd)

LEMMA RunningHasOp ==
  ASSUME TypeInv, NEW c \in Calls
  PROVE  Running(c) <=> calls[c].req.op # "none"
<1>1. calls[c] \in CallStates /\ Idle.req.op = "none"
  BY CallType DEF Idle, Request
<1>2. calls[c].req.op = "none" => calls[c] = Idle
  BY <1>1 DEF CallStates
<1> QED
  BY <1>1, <1>2 DEF Running

\* Requests that the only running call makes, and its end.
LEMMA SubmitLone ==
  ASSUME TypeInv, Lone, Accounted, raced' = {}, raced = {}, NEW c \in Calls,
         \A d \in Calls : Running(d) => d = c,
         NEW STATE use, NEW STATE text, NEW STATE op, NEW STATE at, NEW STATE size,
         NEW STATE f, op = "open" => f.fd = NoFd, state # "deleted",
         f.fd = file.fd \/ (\A fd \in fds : fd = f.fd \/ fd \in closing),
         \A fd \in fds : Opening(fd) => fd = f.fd,
         Submit(c, use, text, Request(op, f.fd, at, size), f), UNCHANGED <<fds, closing>>
  PROVE  Lone' /\ Accounted'
<1>1. CASE f.error
  BY <1>1 DEF Submit, Lone, Accounted, Opening, Running
<1>2. CASE ~f.error
  <2>1. /\ state' = state /\ file' = f
        /\ calls' = [calls EXCEPT ![c] = [use |-> use, text |-> text, req |-> Request(op, f.fd, at, size)]]
    BY <1>2 DEF Submit
  <2>2. \A d \in Calls : d # c => calls'[d] = calls[d] /\ calls[d].req.op = "none" /\ ~Running(d)
    BY <2>1, RunningHasOp DEF TypeInv
  <2>3. calls'[c].req = Request(op, f.fd, at, size)
    BY <2>1 DEF TypeInv
  <2>4. \A d \in Calls : Running(d)' => d = c
    BY <2>2 DEF Running
  <2>5. \A d \in Calls : calls'[d].req.op = "open" => state' # "deleted" /\ file'.fd = NoFd
    BY <2>1, <2>2, <2>3 DEF Request
  <2>6. Lone'
    BY <2>4, <2>5 DEF Lone
  <2>7. \A fd \in fds : fd = f.fd \/ fd \in closing
    BY DEF Accounted
  <2> QED
    BY <2>1, <2>6, <2>7 DEF Accounted
<1> QED
  BY <1>1, <1>2

LEMMA AnswerLone ==
  ASSUME TypeInv, Lone, Accounted, raced' = {}, raced = {}, NEW c \in Calls, Running(c),
         NEW STATE status, NEW STATE f, f.fd = file.fd, state # "deleted", calls[c].req.op = "open" => ~calls[c].req.ok,
         Answer(c, status, f), UNCHANGED <<fds, closing>>
  PROVE  Lone' /\ Accounted'
<1>1. \A d \in Calls : d # c => calls'[d] = calls[d] /\ calls[d].req.op = "none"
  BY RunningHasOp DEF Lone, TypeInv, Answer
<1>2. calls'[c] = Idle /\ Idle.req.op = "none"
  BY DEF TypeInv, Answer, Idle, Request
<1>3. \A d \in Calls : calls'[d].req.op = "none" /\ ~Running(d)'
  BY <1>1, <1>2, RunningHasOp DEF Running
<1>4. Lone'
  BY <1>3 DEF Lone
<1>5. \A fd \in fds : ~Opening(fd)
  BY <1>1 DEF Opening
<1> QED
  BY <1>4, <1>5 DEF Accounted, Answer, Opening

LEMMA BeginLone ==
  ASSUME TypeInv, Lone, Accounted, NEW c \in Calls, NEW STATE use, NEW STATE text,
         Begin(c, use, text), UNCHANGED <<fds, closing>>
  PROVE  Lone' /\ Accounted'
<1> SUFFICES ASSUME raced' = {} PROVE Lone' /\ Accounted'
  BY DEF Lone, Accounted
<1>1. Quiet /\ raced = {} /\ state # "deleted"
  BY DEF Begin, Alive
<1>2. \A d \in Calls : ~Running(d) /\ calls[d].req.op = "none"
  BY <1>1, RunningHasOp DEF Quiet
<1>3. \A fd \in fds : ~Opening(fd)
  BY <1>2 DEF Opening
<1>4. CASE file.fd = NoFd
  <2>1. [file EXCEPT !.flags = "rdwr"].fd = file.fd
    BY DEF TypeInv, Files
  <2> QED
    BY <1>1, <1>2, <1>3, <1>4, <2>1, SubmitLone DEF Begin
<1>5. CASE file.fd # NoFd
  BY <1>1, <1>2, <1>3, <1>5, SubmitLone DEF Begin
<1> QED
  BY <1>4, <1>5

LEMMA LoneKept == TypeInv /\ Owned /\ Lone /\ Accounted /\ [Next]_vars => Lone' /\ Accounted'
<1> SUFFICES ASSUME TypeInv, Owned, Lone, Accounted, [Next]_vars, raced' = {}
             PROVE  Lone' /\ Accounted'
  BY DEF Lone, Accounted
<1> DEFINE Kept == Lone' /\ Accounted'
<1>1. ASSUME NEW c \in Calls, Load(c) \/ Save(c) PROVE Kept
  BY <1>1, BeginLone DEF Load, Save
<1>2. ASSUME LoadNow \/ SetNewFile PROVE Kept
  <2>1. Quiet /\ raced = {} /\ calls' = calls
    BY <1>2 DEF LoadNow, SetNewFile
  <2>2. \A d \in Calls : ~Running(d) /\ calls[d].req.op = "none"
    BY <2>1, RunningHasOp DEF Quiet
  <2>3. \A fd \in fds : fd = file.fd \/ fd \in closing
    BY <2>1, <2>2 DEF Accounted, Opening
  <2>4. Lone'
    BY <2>1, <2>2 DEF Lone, Running
  <2>5. fds' \subseteq fds \cup {file'.fd} /\ (file.fd = NoFd \/ file'.fd = file.fd)
    <3>1. CASE LoadNow /\ file.error
      BY <3>1 DEF LoadNow
    <3>2. CASE LoadNow /\ ~file.error
      <4>1. fds' = fds \cup {OpenNow.fd} /\ file'.fd = OpenNow.fd
        BY <3>2, OpenNowType DEF LoadNow, Files
      <4>2. file.fd = NoFd \/ OpenNow = file
        BY DEF OpenNow
      <4> QED
        BY <4>1, <4>2
    <3>3. CASE SetNewFile
      BY <3>3 DEF SetNewFile, NewUVFile
    <3> QED
      BY <1>2, <3>1, <3>2, <3>3
  <2>6. \A fd \in fds' : fd = file'.fd \/ fd \in closing
    BY <2>3, <2>5 DEF TypeInv
  <2>7. state' # "deleted" /\ closing' = closing
    BY <1>2 DEF LoadNow, SetNewFile, Alive
  <2> QED
    BY <2>4, <2>6, <2>7 DEF Accounted
<1>3. CASE Delete
  <2>1. raced = {} /\ calls' = calls /\ \A c \in Calls : calls[c].req.op # "open"
    BY <1>3 DEF Delete
  <2>2. Lone'
    BY <2>1 DEF Lone, Running
  <2>3. \A fd \in fds : fd = file.fd \/ fd \in closing
    BY <2>1 DEF Accounted, Opening
  <2>4. \A fd \in fds' : fd \in closing'
    BY <1>3, <2>3 DEF Delete, TypeInv
  <2> QED
    BY <2>2, <2>4 DEF Accounted
<1>4. ASSUME NEW c \in Calls, Execute(c) PROVE Kept
  <2> DEFINE req == calls[c].req
             ran == [req EXCEPT !.done = TRUE]
             refused == [ran EXCEPT !.ok = FALSE]
  <2>1. req \in Requests /\ calls[c] \in CallStates
    BY CallType
  <2>2. raced = {} /\ UNCHANGED <<file, state, closing>> /\ Running(c)
    BY <1>4 DEF Execute
  <2>3. \A d \in Calls : d # c => calls'[d] = calls[d] /\ ~Running(d) /\ calls[d].req.op = "none"
    BY <1>4, <2>2, RunningHasOp DEF TypeInv, Execute, Effect, Lone
  <2>4. ASSUME NEW STATE cells, NEW STATE answer, Effect(c, cells, answer) PROVE calls'[c].req = answer
    BY <2>1, <2>4 DEF TypeInv, Effect, CallStates
  <2>5. calls'[c].req.op = req.op
    <3>1. \/ calls'[c].req = [ran EXCEPT !.fd = NewFd]
          \/ calls'[c].req = [ran EXCEPT !.size = Len(disk)]
          \/ calls'[c].req = [ran EXCEPT !.data = Slice(disk, req.at, req.size)]
          \/ calls'[c].req \in {ran, refused}
      BY <1>4, <2>4 DEF Execute
    <3> QED
      BY <2>1, <3>1 DEF Requests
  <2>6. ASSUME Effect(c, disk, [ran EXCEPT !.fd = NewFd])
        PROVE  calls'[c].req.done /\ calls'[c].req.fd = NewFd /\ calls'[c].req.ok = req.ok
    BY <2>1, <2>4, <2>6 DEF Requests
  <2>7. ~req.done /\ req.ok
    BY <1>4, <2>1 DEF Execute, CallStates
  <2> HIDE DEF ran, refused
  <2>8. \A d \in Calls : Running(d)' => d = c
    BY <2>3 DEF Running
  <2>9. Lone'
    BY <2>2, <2>3, <2>5, <2>8 DEF Lone
  <2>10. \A fd \in fds : ~Opening(fd)
    BY <2>3, <2>7 DEF Opening
  <2>11. \A fd \in fds : fd \in closing \/ (state # "deleted" /\ fd = file.fd)
    BY <2>2, <2>10 DEF Accounted
  <2>12. ASSUME NEW fd \in fds', fd \notin fds PROVE Opening(fd)'
    <3>1. /\ Effect(c, disk, [ran EXCEPT !.fd = NewFd]) /\ fds' = fds \cup {NewFd}
          /\ req.op = "open"
      BY <1>4, <2>12 DEF Execute, ran, refused
    <3>2. calls'[c].req.done /\ calls'[c].req.fd = fd /\ calls'[c].req.ok
      BY <2>6, <2>7, <2>12, <3>1
    <3> QED
      BY <2>5, <3>1, <3>2 DEF Opening
  <2> QED
    BY <2>2, <2>9, <2>11, <2>12 DEF Accounted
<1>5. ASSUME NEW fd \in closing, CloseRun(fd) PROVE Kept
  <2>1. UNCHANGED <<file, state, calls, raced>> /\ fds' = fds \ {fd} /\ closing' = closing \ {fd}
    BY <1>5 DEF CloseRun
  <2>2. Lone'
    BY <2>1 DEF Lone, Running
  <2>3. \A x : Opening(x)' <=> Opening(x)
    BY <2>1 DEF Opening
  <2> QED
    BY <2>1, <2>2, <2>3 DEF Accounted
<1>6. ASSUME NEW c \in Calls, Callback(c), raced = {}, UNCHANGED <<fds, closing>> PROVE Kept
  <2>1. Running(c) /\ \A d \in Calls : Running(d) => d = c
    BY <1>6 DEF Lone, Callback, Failed, Opened, Sought, Measured, ReadDone, Truncated, Written, Answered, Done
  <2>2. ASSUME calls[c].req.op # "open" PROVE \A fd \in fds : ~Opening(fd)
    BY <2>1, <2>2, RunningHasOp DEF Opening
  <2>3. ASSUME NEW STATE f, f.fd = file.fd, NEW STATE op, op # "open", NEW STATE at, NEW STATE size,
               calls[c].req.op # "open", state # "deleted", Continue(c, op, at, size, f)
        PROVE  Kept
    BY <1>6, <2>1, <2>2, <2>3, SubmitLone DEF Continue
  <2>4. ASSUME Failed(c) PROVE Kept
    <3>1. CASE state = "deleted"
      <4>1. calls' = [calls EXCEPT ![c] = Idle] /\ UNCHANGED <<file, state>> /\ Idle.req.op = "none"
        BY <2>4, <3>1 DEF Failed, Alive, Idle, Request
      <4>2. \A d \in Calls : calls'[d].req.op # "open" /\ calls[d].req.op # "open"
        BY <1>6, <3>1, <4>1 DEF Lone, TypeInv
      <4> QED
        BY <1>6, <2>1, <3>1, <4>1, <4>2 DEF Lone, Accounted, Opening, Running, TypeInv
    <3>2. CASE Alive
      <4>1. ~calls[c].req.ok /\ state # "deleted"
        BY <2>4, <3>2 DEF Failed, Alive
      <4>2. [file EXCEPT !.error = TRUE,
                         !.fd = IF calls[c].req.op = "open" THEN NoFd ELSE @].fd = file.fd
        BY <1>6 DEF Lone, TypeInv, Files
      <4> QED
        BY <1>6, <2>1, <2>4, <3>2, <4>1, <4>2, AnswerLone DEF Failed, Alive
    <3> QED
      BY <2>4, <3>1, <3>2 DEF Failed
  <2>5. ASSUME Opened(c) PROVE Kept
    <3>1. calls[c].req.op = "open" /\ state # "deleted" /\ file.fd = NoFd
      BY <1>6, <2>5 DEF Opened, Answered, Alive, Lone
    <3>2. [file EXCEPT !.fd = calls[c].req.fd].fd = calls[c].req.fd
      BY DEF TypeInv, Files
    <3>3. \A fd \in fds : Opening(fd) => fd = calls[c].req.fd
      BY <2>1, RunningHasOp DEF Opening
    <3>4. \A fd \in fds : fd = calls[c].req.fd \/ fd \in closing
      BY <1>6, <3>1, <3>3 DEF Accounted, TypeInv
    <3> DEFINE f == [file EXCEPT !.fd = calls[c].req.fd]
               op == IF calls[c].use = "save" THEN "truncate" ELSE "stat"
    <3>5. op # "open" /\ Submit(c, calls[c].use, calls[c].text, Request(op, f.fd, 0, 0), f)
      BY <2>5 DEF Opened, Continue
    <3>6. f.fd = calls[c].req.fd
      BY <3>2
    <3> HIDE DEF f, op
    <3> QED
      BY <1>6, <2>1, <3>1, <3>3, <3>4, <3>5, <3>6, SubmitLone
  <2>6. ASSUME Sought(c) \/ Truncated(c) PROVE Kept
    <3>1. [file EXCEPT !.pos = 0].fd = file.fd
      BY DEF TypeInv, Files
    <3>2. state # "deleted" /\ calls[c].req.op # "open"
      BY <2>6 DEF Sought, Truncated, Answered, Alive
    <3> QED
      BY <2>3, <2>6, <3>1, <3>2 DEF Sought, Truncated
  <2>7. ASSUME Measured(c) PROVE Kept
    <3>1. [file EXCEPT !.pos = calls[c].req.size].fd = file.fd /\ [file EXCEPT !.error = TRUE].fd = file.fd
      BY DEF TypeInv, Files
    <3>2. state # "deleted" /\ calls[c].req.op # "open"
      BY <2>7 DEF Measured, Answered, Alive
    <3> QED
      BY <1>6, <2>1, <2>3, <2>7, <3>1, <3>2, AnswerLone DEF Measured, Finish
  <2>8. ASSUME ReadDone(c) \/ Written(c) PROVE Kept
    <3>1. state # "deleted" /\ calls[c].req.op # "open"
      BY <2>8 DEF ReadDone, Written, Answered, Alive
    <3> QED
      BY <1>6, <2>1, <2>8, <3>1, AnswerLone DEF ReadDone, Written, Finish
  <2> QED
    BY <1>6, <2>4, <2>5, <2>6, <2>7, <2>8 DEF Callback
<1>7. ASSUME NEW c \in Calls, Callback(c) PROVE Kept
  <2>1. raced = {} /\ UNCHANGED <<fds, closing>>
    BY <1>7 DEF Callback, Failed, Opened, Sought, Measured, ReadDone, Truncated, Written, Unchanged
  <2> QED
    BY <1>6, <1>7, <2>1
<1>8. CASE Notify
  <2>1. CASE file.error
    BY <1>8, <2>1 DEF Notify, Lone, Accounted, Opening, Running
  <2> QED
    BY <1>8, <2>1, BeginLone DEF Notify
<1>9. CASE Edit \/ UNCHANGED vars
  BY <1>9 DEF Edit, vars, Lone, Accounted, Opening, Running
<1> QED
  BY <1>1, <1>2, <1>3, <1>4, <1>5, <1>7, <1>8, <1>9 DEF Next, Callback

-----------------------------------------------------------------------------
(* Rules that load one at a time, and whose requests succeed *)

Calm(c) ==
    LET req == calls[c].req
    IN  /\ calls[c].use # "save"
        /\ req.op \in {"none", "open", "seek", "stat", "read"}
        /\ Alive => /\ req.ok
                    /\ req.op \notin {"none", "open"} => req.fd = file.fd /\ file.fd \in fds
                    /\ req.op = "stat" => file.pos = 0

RulesSound ==
    /\ state # "aborted" /\ ~file.error
    /\ Alive => (file.fd = NoFd => file.pos = 0)
    /\ \A c \in Calls : Calm(c)

\* No save, no operation without a callback and no other file: the rules are only loaded.
RulesInv == kind = "rules" /\ raced = {} /\ faults = 0 => RulesSound

LEMMA IdleCalm == Idle.use # "save" /\ Idle.req.op = "none" /\ Idle.req.ok
  BY DEF Idle, Request

LEMMA SubmitCalm ==
  ASSUME TypeInv, RulesSound, Alive, NEW c \in Calls, \A d \in Calls : Running(d) => d = c,
         NEW STATE use, use # "save", NEW STATE text, NEW STATE at, NEW STATE size,
         NEW STATE op, op \in {"open", "seek", "stat", "read"},
         NEW STATE f, ~f.error, f.fd = NoFd => f.pos = 0,
         op # "open" => f.fd \in fds, op = "stat" => f.pos = 0,
         Submit(c, use, text, Request(op, f.fd, at, size), f), UNCHANGED fds
  PROVE  RulesSound'
<1>1. /\ state' = state /\ file' = f
      /\ calls' = [calls EXCEPT ![c] = [use |-> use, text |-> text, req |-> Request(op, f.fd, at, size)]]
  BY DEF Submit
<1>2. calls'[c].use = use /\ calls'[c].req = Request(op, f.fd, at, size)
  BY <1>1 DEF TypeInv
<1>3. /\ Request(op, f.fd, at, size).op = op /\ Request(op, f.fd, at, size).fd = f.fd
      /\ Request(op, f.fd, at, size).ok
  BY DEF Request
<1>4. Calm(c)'
  BY <1>1, <1>2, <1>3 DEF Calm
<1>5. ASSUME NEW d \in Calls, d # c PROVE Calm(d)'
  <2>1. calls'[d] = Idle
    BY <1>1, <1>5 DEF TypeInv, Running
  <2> QED
    BY <2>1, IdleCalm DEF Calm
<1> QED
  BY <1>1, <1>4, <1>5 DEF RulesSound, Alive

LEMMA BeginCalm ==
  ASSUME TypeInv, Owned, RulesInv, NEW c \in Calls, NEW STATE use, use # "save", NEW STATE text,
         Begin(c, use, text), UNCHANGED <<kind, fds, faults>>
  PROVE  RulesInv'
<1> SUFFICES ASSUME kind = "rules", raced' = {}, faults = 0 PROVE RulesSound'
  BY DEF RulesInv
<1>1. Quiet /\ raced = {} /\ Alive
  BY DEF Begin
<1>2. RulesSound /\ \A d \in Calls : Running(d) => d = c
  BY <1>1 DEF RulesInv, Quiet
<1>3. CASE file.fd = NoFd
  <2> DEFINE f == [file EXCEPT !.flags = "rdwr"]
  <2>1. f.fd = file.fd /\ ~f.error /\ f.pos = 0
    BY <1>1, <1>2, <1>3 DEF TypeInv, Files, RulesSound
  <2>2. Submit(c, use, text, Request("open", f.fd, 0, 0), f)
    BY <1>3, <2>1 DEF Begin
  <2> HIDE DEF f
  <2> QED
    BY <1>1, <1>2, <2>1, <2>2, SubmitCalm
<1>4. CASE file.fd # NoFd
  <2>1. Submit(c, use, text, Request("seek", file.fd, 0, 0), file)
    BY <1>4 DEF Begin
  <2>2. file.fd \in fds /\ ~file.error
    BY <1>1, <1>2, <1>4 DEF Owned, RulesSound, Alive
  <2> QED
    BY <1>1, <1>2, <1>4, <2>1, <2>2, SubmitCalm
<1> QED
  BY <1>3, <1>4

LEMMA RulesKept == TypeInv /\ Owned /\ Lone /\ RulesInv /\ [Next]_vars => RulesInv'
<1> SUFFICES ASSUME TypeInv, Owned, Lone, RulesInv, [Next]_vars PROVE RulesInv'
  OBVIOUS
<1>1. ASSUME NEW c \in Calls, Load(c) PROVE RulesInv'
  <2>1. (IF kind = "rules" THEN "ruleload" ELSE "load") # "save"
    OBVIOUS
  <2> QED
    BY <1>1, <2>1, BeginCalm DEF Load
<1>2. ASSUME kind' # "rules" \/ raced' # {} \/ faults' # 0 PROVE RulesInv'
  BY <1>2 DEF RulesInv
<1>3. ASSUME (\E c \in Calls : Save(c)) \/ LoadNow \/ SetNewFile PROVE RulesInv'
  BY <1>2, <1>3 DEF Save, LoadNow, SetNewFile
<1>4. CASE Delete
  <2> SUFFICES ASSUME RulesSound PROVE RulesSound'
    BY <1>4 DEF RulesInv, Delete
  <2>1. ASSUME NEW c \in Calls PROVE Calm(c)'
    BY <1>4 DEF RulesSound, Calm, Delete, Alive
  <2> QED
    BY <1>4, <2>1 DEF RulesSound, Delete, Alive
<1>5. ASSUME NEW c \in Calls, Execute(c) PROVE RulesInv'
  <2> DEFINE req == calls[c].req
             ran == [req EXCEPT !.done = TRUE]
             refused == [ran EXCEPT !.ok = FALSE]
  <2>1. faults \in Nat /\ MaxFaults \in Nat /\ req \in Requests /\ calls[c] \in CallStates
    BY CallType, ConfigFileAssumption DEF TypeInv
  <2>2. faults' = 0 => faults = 0
    BY <1>5, <2>1 DEF Execute
  <2>3. SUFFICES ASSUME RulesSound, faults' = 0, faults = 0 PROVE RulesSound'
    BY <1>5, <2>2 DEF RulesInv, Execute
  <2>4. UNCHANGED <<state, file>> /\ fds \subseteq fds' /\ Running(c) /\ state # "aborted"
    BY <1>5 DEF Execute
  <2>5. Calm(c) /\ req.op # "none"
    BY <2>3, <2>4, RunningHasOp DEF RulesSound
  <2>6. \A d \in Calls : d # c => calls'[d] = calls[d]
    BY <1>5 DEF TypeInv, Execute, Effect
  <2>7. ASSUME NEW STATE cells, NEW STATE answer, Effect(c, cells, answer)
        PROVE  calls'[c].req = answer /\ calls'[c].use = calls[c].use
    BY <2>1, <2>7 DEF TypeInv, Effect, CallStates
  <2>8. \/ /\ req.op = "open" /\ calls'[c].use = calls[c].use
           /\ calls'[c].req = [ran EXCEPT !.fd = NewFd]
        \/ /\ req.op \in {"seek", "stat"} /\ calls'[c].use = calls[c].use
           /\ calls'[c].req = [ran EXCEPT !.size = Len(disk)]
        \/ /\ req.op = "read" /\ calls'[c].use = calls[c].use
           /\ calls'[c].req = [ran EXCEPT !.data = Slice(disk, req.at, req.size)]
        \/ /\ req.op # "open" /\ req.fd \notin fds /\ calls'[c].use = calls[c].use
           /\ calls'[c].req = refused
    <3> HIDE DEF ran, refused
    <3>1. \/ req.op = "open" /\ Effect(c, disk, [ran EXCEPT !.fd = NewFd])
          \/ req.op \in {"seek", "stat"} /\ Effect(c, disk, [ran EXCEPT !.size = Len(disk)])
          \/ req.op = "read" /\ Effect(c, disk, [ran EXCEPT !.data = Slice(disk, req.at, req.size)])
          \/ req.op # "open" /\ req.fd \notin fds /\ Effect(c, disk, refused)
      BY <1>5, <2>3, <2>5 DEF Execute, Calm, ran, refused
    <3> QED
      BY <2>7, <3>1
  <2>9. /\ calls'[c].use = calls[c].use /\ calls'[c].req.op = req.op
        /\ req.op # "open" => calls'[c].req.fd = req.fd
        /\ Alive => calls'[c].req.ok
    BY <2>1, <2>5, <2>8 DEF Requests, Calm
  <2> HIDE DEF req, ran, refused
  <2>10. Calm(c)'
    BY <2>4, <2>5, <2>9 DEF Calm, Alive, req
  <2>11. ASSUME NEW d \in Calls, d # c PROVE Calm(d)'
    BY <2>3, <2>4, <2>6, <2>11 DEF RulesSound, Calm, Alive
  <2> QED
    BY <2>3, <2>4, <2>10, <2>11 DEF RulesSound, Alive
<1>6. ASSUME NEW fd \in closing, CloseRun(fd) PROVE RulesInv'
  <2>1. ~Alive /\ fds' \subseteq fds /\ UNCHANGED <<kind, raced, faults, state, file, calls>>
    BY <1>6 DEF Owned, CloseRun, Alive
  <2> QED
    BY <2>1 DEF RulesInv, RulesSound, Calm, Alive
<1>7. ASSUME NEW c \in Calls, Callback(c), kind = "rules", raced = {}, faults = 0, RulesSound,
             UNCHANGED fds
      PROVE  RulesSound'
  <2>1. Running(c) /\ \A d \in Calls : Running(d) => d = c
    BY <1>7 DEF Lone, Callback, Failed, Opened, Sought, Measured, ReadDone, Truncated, Written, Answered, Done
  <2>2. Calm(c) /\ ~file.error /\ calls[c].use # "save"
    BY <1>7 DEF RulesSound, Calm
  <2>3. ASSUME Alive, Answer(c, 0, file) PROVE RulesSound'
    <3>1. state' = state /\ file' = file /\ calls' = [calls EXCEPT ![c] = Idle]
      BY <2>3 DEF Answer
    <3>2. ASSUME NEW d \in Calls PROVE Calm(d)'
      <4>1. calls'[d] = Idle
        BY <2>1, <3>1 DEF TypeInv, Running
      <4> QED
        BY <4>1, IdleCalm DEF Calm
    <3> QED
      BY <1>7, <3>1, <3>2 DEF RulesSound, Alive
  <2>4. ASSUME NEW STATE buf, Alive, Finish(c, buf, file) PROVE RulesSound'
    BY <1>7, <2>3, <2>4 DEF Finish, Accepts
  <2>5. ASSUME Failed(c) PROVE RulesSound'
    <3>1. ~Alive /\ UNCHANGED <<file, state>> /\ calls' = [calls EXCEPT ![c] = Idle]
      BY <2>2, <2>5 DEF Failed, Calm, Alive
    <3>2. ASSUME NEW d \in Calls PROVE Calm(d)'
      BY <1>7, <3>1, IdleCalm DEF RulesSound, Calm, TypeInv, Alive
    <3> QED
      BY <1>7, <3>1, <3>2 DEF RulesSound, Alive
  <2>6. ASSUME Opened(c) PROVE RulesSound'
    <3> DEFINE f == [file EXCEPT !.fd = calls[c].req.fd]
    <3>1. f.fd = calls[c].req.fd /\ f.pos = file.pos /\ f.error = file.error
      BY DEF TypeInv, Files
    <3>2. Alive /\ calls[c].req.op = "open" /\ calls[c].req.done /\ calls[c].req.ok
      BY <2>6 DEF Opened, Answered, Done
    <3>3. calls[c].req.fd \in fds /\ file.pos = 0
      BY <1>7, <3>2 DEF Owned, Lone, RulesSound, Alive
    <3>4. Submit(c, calls[c].use, calls[c].text, Request("stat", f.fd, 0, 0), f)
      BY <2>2, <2>6 DEF Opened, Continue
    <3> HIDE DEF f
    <3> QED
      BY <1>7, <2>1, <2>2, <3>1, <3>2, <3>3, <3>4, SubmitCalm
  <2>7. ASSUME Sought(c) PROVE RulesSound'
    <3> DEFINE f == [file EXCEPT !.pos = 0]
    <3>1. f.fd = file.fd /\ f.pos = 0 /\ f.error = file.error
      BY DEF TypeInv, Files
    <3>2. Alive /\ calls[c].req.op = "seek"
      BY <2>7 DEF Sought, Answered
    <3>3. file.fd \in fds
      BY <2>2, <3>2 DEF Calm
    <3>4. Submit(c, calls[c].use, calls[c].text, Request("stat", f.fd, 0, 0), f)
      BY <2>7 DEF Sought, Continue
    <3> HIDE DEF f
    <3> QED
      BY <1>7, <2>1, <2>2, <3>1, <3>2, <3>3, <3>4, SubmitCalm
  <2>8. ASSUME Measured(c) PROVE RulesSound'
    <3> DEFINE f == [file EXCEPT !.pos = calls[c].req.size]
    <3>1. f.fd = file.fd /\ f.error = file.error
      BY DEF TypeInv, Files
    <3>2. Alive /\ calls[c].req.op = "stat"
      BY <2>8 DEF Measured, Answered
    <3>3. file.fd \in fds /\ file.fd # NoFd /\ file.pos = 0 /\ calls[c].req.size \in Nat
      BY <2>2, <3>2, CallType DEF Calm, TypeInv
    <3>4. CASE Finish(c, <<>>, file)
      BY <2>4, <3>2, <3>4
    <3>5. CASE Continue(c, "read", file.pos, calls[c].req.size - file.pos, f)
      <4> HIDE DEF f
      <4> QED
        BY <1>7, <2>1, <2>2, <3>1, <3>2, <3>3, <3>5, SubmitCalm DEF Continue
    <3> QED
      BY <2>8, <3>3, <3>4, <3>5 DEF Measured
  <2>9. ASSUME ReadDone(c) PROVE RulesSound'
    BY <2>4, <2>9 DEF ReadDone, Answered
  <2>10. ~Truncated(c) /\ ~Written(c)
    BY <2>2 DEF Truncated, Written, Answered, Calm
  <2> QED
    BY <1>7, <2>5, <2>6, <2>7, <2>8, <2>9, <2>10 DEF Callback
<1>8. ASSUME NEW c \in Calls, Callback(c) PROVE RulesInv'
  <2>1. UNCHANGED <<kind, raced, faults, fds>>
    BY <1>8 DEF Callback, Failed, Opened, Sought, Measured, ReadDone, Truncated, Written, Unchanged
  <2> QED
    BY <1>7, <1>8, <2>1 DEF RulesInv
<1>9. CASE Notify
  <2>1. CASE file.error
    BY <1>9, <2>1 DEF Notify, RulesInv, RulesSound
  <2> QED
    BY <1>9, <2>1, BeginCalm DEF Notify
<1>10. CASE Edit \/ UNCHANGED vars
  <2>1. UNCHANGED <<kind, raced, faults, state, file, fds, calls>>
    BY <1>10 DEF Edit, vars
  <2> QED
    BY <2>1 DEF RulesInv, RulesSound, Calm, Alive
<1> QED
  BY <1>1, <1>3, <1>4, <1>5, <1>6, <1>8, <1>9, <1>10 DEF Next, Callback

-----------------------------------------------------------------------------
(* Theorems *)

IInv == TypeInv /\ Owned /\ Lone /\ Accounted /\ RulesInv

LEMMA InitInv == Init => IInv
<1> SUFFICES ASSUME Init PROVE IInv
  OBVIOUS
<1>1. \A c \in Calls : calls[c] = Idle
  BY DEF Init
<1>2. TypeInv
  BY InitType
<1>3. Owned /\ Lone /\ Accounted
  BY <1>1, IdleCalm DEF Init, Owned, Lone, Accounted, NewUVFile, NoFd, Running
<1>4. RulesInv
  BY <1>1, IdleCalm DEF Init, RulesInv, RulesSound, Calm, NewUVFile
<1> QED
  BY <1>2, <1>3, <1>4 DEF IInv

LEMMA Invariance == Spec => []IInv
<1>1. IInv /\ [Next]_vars => IInv'
  BY TypesKept, OwnedKept, LoneKept, RulesKept DEF IInv
<1> QED
  BY <1>1, InitInv, PTL DEF Spec

\* The descriptor, the requests and the texts keep their types over every call, callback
\* and refusal.
THEOREM TypeCorrect == Spec => []TypeOK
<1>1. IInv => TypeOK
  BY TypeInvImpliesTypeOK DEF IInv
<1> QED
  BY <1>1, Invariance, PTL

\* ~UVFile closes everything that was open: while calls neither met nor were opening the
\* file when it was deleted, only descriptors that uv_fs_close was given are still open.
DeletedCloses == state = "deleted" /\ raced = {} => fds \subseteq closing
THEOREM DescriptorsClosed == Spec => []DeletedCloses
<1>1. IInv => DeletedCloses
  BY DEF IInv, Lone, Accounted, Opening, DeletedCloses
<1> QED
  BY <1>1, Invariance, PTL

\* A ConfigFile that lives never uses a descriptor that is closed, even when its calls meet
\* (UVFile::m_fd).
LiveDescriptorOpen == Alive => file.fd \in fds \cup {NoFd}
THEOREM DescriptorOpen == Spec => []LiveDescriptorOpen
<1>1. IInv => LiveDescriptorOpen
  BY DEF IInv, Owned, LiveDescriptorOpen, Alive
<1> QED
  BY <1>1, Invariance, PTL

\* The assertions that a load of the rules ends at (load_proxyrule_callback, and m_error in
\* every operation of UVFile) hold as long as no two loads meet and the system refuses
\* nothing: the overlap of a reload with another load is the only other cause.
LoneLoadsSafe == kind = "rules" /\ raced = {} /\ faults = 0 => state # "aborted"
THEOREM LoneLoadsHold == Spec => []LoneLoadsSafe
<1>1. IInv => LoneLoadsSafe
  BY DEF IInv, RulesInv, RulesSound, LoneLoadsSafe
<1> QED
  BY <1>1, Invariance, PTL
=============================================================================
