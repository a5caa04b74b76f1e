----------------------------- MODULE ConfigFile -----------------------------
(***************************************************************************)
(* One ConfigFile on a UVFile (lib/config_file.cpp, lib/file_libuv.cpp):   *)
(* a configuration ("json"; what to_json of the servers writes, from_json  *)
(* takes back, the client's leaves two fields out) or the client's proxy   *)
(* rules ("rules", lib/proxy_config.cpp), which ClientConfig loads and     *)
(* which load themselves again whenever their file changes.                *)
(*                                                                         *)
(* A load is a chain of requests to libuv's thread pool, open or seek,     *)
(* stat, read, and a save open, truncate, write.  Every request runs in    *)
(* the pool (Execute) and is answered on the loop (Complete), requests of  *)
(* different calls in any order, and all of them share the descriptor, the *)
(* error flag and the position of the one UVFile.                          *)
(*                                                                         *)
(* A file is a sequence of cells.  A cell holds the version of the text it *)
(* is part of, or Hole where a write left a gap: a piece of a text is told *)
(* from the whole.  libuv, its pool and the file's watcher are external.   *)
(***************************************************************************)
EXTENDS Integers, Sequences, FiniteSets

CONSTANTS
    Versions,  \* the texts that files may hold
    Valid,     \* those whose fields from_json takes
    Size,      \* the length of each
    Hole,      \* a cell that was never written
    Calls,     \* names for calls of loadFromFile and writeToFile
    MaxAsked,  \* bound: operations that the owner asks for
    MaxEdits,  \* bound: changes of the file by another process
    MaxFaults  \* bound: requests that the system refuses

ASSUME ConfigFileAssumption ==
    /\ Valid \subseteq Versions
    /\ Size \in [Versions -> Nat \ {0}]
    /\ Hole \notin Versions
    /\ MaxAsked \in Nat /\ MaxEdits \in Nat /\ MaxFaults \in Nat

VARIABLES
    kind,     \* what fromROBuf makes of a text
    disk,     \* the cells of the file
    fds,      \* descriptors of it that the process has open
    file,     \* the UVFile: m_fd, m_error, m_pos, m_flags
    state,    \* of the ConfigFile: "alive", "deleted", or "aborted" by an assertion
    watched,  \* m_file_watcher is registered
    event,    \* a change of the file that the watcher has not reported
    calls,    \* the request that each call waits for
    loaded,   \* the texts whose fields or lines fromROBuf took
    closing,  \* descriptors that ~UVFile gave to uv_fs_close
    raced,    \* history: "overlap", a call began beside another; "orphan", deleted while opening
    asked, edits, faults

vars == <<kind, disk, fds, file, state, watched, event, calls, loaded, closing,
          raced, asked, edits, faults>>

Text(v) == [i \in 1 .. Size[v] |-> v]
Cell == Versions \cup {Hole}
NoFd == 0

\* done: run by the pool, ok: with what result; size: what to read, or what fstat found.
Request(op, fd, at, size) ==
    [op |-> op, fd |-> fd, at |-> at, size |-> size, done |-> FALSE, ok |-> TRUE, data |-> <<>>]
Idle == [use |-> "none", text |-> Hole, req |-> Request("none", NoFd, 0, 0)]
\* Variant: the constructor leaves m_pos as 32-bit memory happens to be.
UVFileUnset == [fd |-> NoFd, error |-> FALSE, pos |-> -1, flags |-> "none"]

\* UVFile::UVFile.
NewUVFile == [fd |-> NoFd, error |-> FALSE, pos |-> 0, flags |-> "none"]

TypeOK ==
    /\ kind \in {"json", "rules"}
    /\ disk \in Seq(Cell)
    /\ fds \subseteq Nat \ {NoFd} /\ closing \subseteq fds
    /\ file \in [fd: Nat, error: BOOLEAN, pos: Nat, flags: {"none", "rdwr", "rdonly"}]
    /\ state \in {"alive", "deleted", "aborted"}
    /\ watched \in BOOLEAN /\ event \in BOOLEAN
    /\ calls \in [Calls ->
          [use: {"none", "load", "ruleload", "reload", "save"}, text: Cell,
           req: [op: {"none", "open", "seek", "stat", "read", "truncate", "write"},
                 fd: Nat, at: Nat, size: Nat, done: BOOLEAN, ok: BOOLEAN, data: Seq(Cell)]]]
    /\ loaded \subseteq Seq(Cell)
    /\ raced \subseteq {"overlap", "orphan"}
    /\ asked \in 0 .. MaxAsked /\ edits \in 0 .. MaxEdits /\ faults \in 0 .. MaxFaults

Init ==
    /\ kind \in {"json", "rules"}
    /\ \E v \in Versions: disk = Text(v)
    /\ fds = {} /\ closing = {}
    /\ file = NewUVFile
    /\ state = "alive"
    /\ watched = TRUE /\ event = FALSE
    /\ calls = [c \in Calls |-> Idle]
    /\ loaded = {}
    /\ raced = {}
    /\ asked = 0 /\ edits = 0 /\ faults = 0

-----------------------------------------------------------------------------
(* Making and answering requests *)

Alive == state = "alive"
Running(c) == calls[c] # Idle
Quiet == \A c \in Calls: ~Running(c)
\* The owner starts one call at a time, from the callback of the one before; of the
\* calls that a change of the file starts it knows nothing.
OwnerIdle == \A c \in Calls: calls[c].use \in {"none", "reload"}

\* Every operation of UVFile asserts that m_error is false.
Submit(c, use, text, request, f) ==
    IF f.error
    THEN state' = "aborted" /\ UNCHANGED <<calls, file>>
    ELSE /\ calls' = [calls EXCEPT ![c] = [use |-> use, text |-> text, req |-> request]]
         /\ file' = f
         /\ UNCHANGED state

\* The next request of the call c, by its callback.
Continue(c, op, at, size, f) ==
    Submit(c, calls[c].use, calls[c].text, Request(op, f.fd, at, size), f)

\* The callback of the call; load_proxyrule_callback asserts false when the load failed.
Answer(c, status, f) ==
    /\ calls' = [calls EXCEPT ![c] = Idle]
    /\ file' = f
    /\ state' = IF status < 0 /\ calls[c].use = "ruleload" THEN "aborted" ELSE state

\* json::parse needs a whole text and from_json all the fields; rules are any lines.
Parses(buf) == \E v \in Versions: buf = Text(v)
Accepts(buf) == kind = "rules" \/ \E v \in Valid: buf = Text(v)

\* from_json keeps the fields that it read before the one it refuses.
FromROBuf(buf) ==
    loaded' \in IF kind = "rules" THEN {loaded \cup {buf}}
                ELSE IF Accepts(buf) THEN {{buf}}
                ELSE IF Parses(buf) THEN {loaded, loaded \cup {buf}}
                ELSE {loaded}

\* ConfigFile::read_callback.
Finish(c, buf, f) ==
    /\ Answer(c, IF Accepts(buf) THEN 0 ELSE -1, f)
    /\ FromROBuf(buf)

\* loadFromFile and writeToFile with a callback.
Begin(c, use, text) ==
    LET op == IF file.fd = NoFd THEN "open" ELSE IF use = "save" THEN "truncate" ELSE "seek"
    IN  /\ Alive /\ ~Running(c)
        /\ raced' = IF Quiet THEN raced ELSE raced \cup {"overlap"}
        /\ Submit(c, use, text, Request(op, file.fd, 0, 0),
                  IF op = "open" THEN [file EXCEPT !.flags = "rdwr"] ELSE file)

-----------------------------------------------------------------------------
(* What the owner does *)

OwnerAsks == OwnerIdle /\ asked < MaxAsked /\ asked' = asked + 1

\* ClientConfig::from_json loads its rules once, a configuration is loaded at will.
Load(c) ==
    /\ OwnerAsks
    /\ Begin(c, IF kind = "rules" THEN "ruleload" ELSE "load", Hole)
    /\ kind = "rules" => loaded = {}
    /\ UNCHANGED <<kind, disk, fds, watched, event, loaded, closing, edits, faults>>

\* The program neither saves the rules, nor loads them on the spot, nor gives them another file.
Save(c) ==
    /\ OwnerAsks /\ kind = "json"
    /\ \E v \in Valid: Begin(c, "save", v)
    /\ UNCHANGED <<kind, disk, fds, watched, event, loaded, closing, edits, faults>>

NewFd == CHOOSE fd \in 1 .. Cardinality(fds) + 1: fd \notin fds

\* The operations without a callback open the file at once when it is not open.
OpenNow == IF file.fd = NoFd THEN [file EXCEPT !.fd = NewFd, !.flags = "rdwr"] ELSE file

\* loadFromFile(nullptr): open or seek, stat and read on the spot.  An empty file is an error.
LoadNow ==
    /\ Alive /\ OwnerAsks /\ kind = "json"
    /\ raced' = IF Quiet THEN raced ELSE raced \cup {"overlap"}
    /\ IF file.error
       THEN state' = "aborted" /\ UNCHANGED <<fds, file, loaded>>
       ELSE /\ fds' = fds \cup {OpenNow.fd}
            /\ file' = [OpenNow EXCEPT !.pos = Len(disk)]
            /\ IF disk = <<>> THEN UNCHANGED loaded ELSE FromROBuf(disk)
            /\ UNCHANGED state
    /\ UNCHANGED <<kind, disk, watched, event, calls, closing, edits, faults>>

\* setNewFile: the old file is closed and another one, with a text of its own, is opened
\* with the flags of the last open, which are none when nothing was opened before.
SetNewFile ==
    /\ Alive /\ Quiet /\ OwnerAsks /\ kind = "json"
    /\ LET fd == IF file.fd = NoFd THEN NewFd ELSE file.fd
       IN  /\ fds' = fds \cup {fd}
           /\ file' = [NewUVFile EXCEPT !.fd = fd,
                                        !.flags = IF file.flags = "rdwr" THEN "rdwr" ELSE "rdonly"]
    /\ \E v \in Versions: disk' = Text(v)
    /\ watched' = TRUE /\ event' = FALSE
    /\ UNCHANGED <<kind, state, calls, loaded, closing, raced, edits, faults>>

\* Variant: ~UVFile leaves the descriptor open.
DeleteUnclosed ==
    /\ Alive
    /\ state' = "deleted"
    /\ watched' = FALSE /\ event' = FALSE
    /\ raced' = IF \E c \in Calls: calls[c].req.op = "open" THEN raced \cup {"orphan"} ELSE raced
    /\ UNCHANGED <<kind, disk, fds, closing, file, calls, loaded, asked, edits, faults>>

\* ~UVFile closes the descriptor and releases the watcher; the callbacks of the requests
\* that are still in the pool find that they cannot run.
Delete ==
    /\ Alive
    /\ state' = "deleted"
    /\ closing' = closing \cup ({file.fd} \ {NoFd})
    /\ watched' = FALSE /\ event' = FALSE
    /\ raced' = IF \E c \in Calls: calls[c].req.op = "open" THEN raced \cup {"orphan"} ELSE raced
    /\ UNCHANGED <<kind, disk, fds, file, calls, loaded, asked, edits, faults>>

-----------------------------------------------------------------------------
(* The thread pool *)

\* Only ProxyConfig does something when its file changes.
Watching == watched /\ kind = "rules"

Overlay(cells, at, text) ==
    [i \in 1 .. (IF at + Len(text) > Len(cells) THEN at + Len(text) ELSE Len(cells)) |->
        IF i \in at + 1 .. at + Len(text) THEN text[i - at]
        ELSE IF i <= Len(cells) THEN cells[i] ELSE Hole]

Slice(cells, at, size) ==
    SubSeq(cells, at + 1, IF at + size < Len(cells) THEN at + size ELSE Len(cells))

\* The request of c is run: the disk after it, and what it answers.
Effect(c, cells, answer) ==
    /\ disk' = cells
    /\ event' = (event \/ (cells # disk /\ Watching))
    /\ calls' = [calls EXCEPT ![c].req = answer]

Execute(c) ==
    LET req == calls[c].req
        ran == [req EXCEPT !.done = TRUE]
        refused == [ran EXCEPT !.ok = FALSE]
    IN  /\ Running(c) /\ ~req.done
        /\ state # "aborted"
        /\ \/ /\ req.op = "open"
              /\ Effect(c, disk, [ran EXCEPT !.fd = NewFd])
              /\ fds' = fds \cup {NewFd}
              /\ UNCHANGED faults
           \/ /\ req.op # "open" /\ req.fd \in fds
              /\ CASE req.op \in {"seek", "stat"} -> Effect(c, disk, [ran EXCEPT !.size = Len(disk)])
                   [] req.op = "read" -> Effect(c, disk, [ran EXCEPT !.data = Slice(disk, req.at, req.size)])
                   [] req.op = "truncate" /\ file.flags # "rdonly" -> Effect(c, <<>>, ran)
                   [] req.op = "write" /\ file.flags # "rdonly" ->
                          Effect(c, Overlay(disk, req.at, Text(calls[c].text)), ran)
                   [] OTHER -> Effect(c, disk, refused)
              /\ UNCHANGED <<fds, faults>>
           \/ /\ req.op # "open" /\ req.fd \notin fds
              /\ Effect(c, disk, refused)
              /\ UNCHANGED <<fds, faults>>
           \/ /\ faults < MaxFaults
              /\ faults' = faults + 1
              /\ Effect(c, disk, refused)
              /\ UNCHANGED fds
        /\ UNCHANGED <<kind, file, state, watched, loaded, closing, raced, asked, edits>>

\* The close that ~UVFile asked for.
CloseRun(fd) ==
    /\ fd \in closing /\ state # "aborted"
    /\ closing' = closing \ {fd} /\ fds' = fds \ {fd}
    /\ UNCHANGED <<kind, disk, file, state, watched, event, calls, loaded, raced, asked, edits, faults>>

-----------------------------------------------------------------------------
(* The loop: callbacks of the requests and of the watcher *)

Done(c) == Running(c) /\ calls[c].req.done
Answered(c, op) == Alive /\ Done(c) /\ calls[c].req.ok /\ calls[c].req.op = op
Unchanged == UNCHANGED <<kind, disk, fds, watched, event, closing, raced, asked, edits, faults>>

\* A request failed (m_error is set), or its ConfigFile is gone.  Then the owner is taken to
\* be gone too: an owner that outlives it, a ClientConfig that is loaded twice
\* (kclient_config.cpp:278), would still hear of the failure; the programs load one once.
Failed(c) ==
    /\ Done(c)
    /\ \/ /\ Alive /\ ~calls[c].req.ok
          /\ Answer(c, -1, [file EXCEPT !.error = TRUE,
                                       !.fd = IF calls[c].req.op = "open" THEN NoFd ELSE @])
       \/ /\ state = "deleted"
          /\ calls' = [calls EXCEPT ![c] = Idle]
          /\ UNCHANGED <<file, state>>
    /\ UNCHANGED loaded
    /\ Unchanged

\* open_callback and open_callback_for_write.
Opened(c) ==
    /\ Answered(c, "open")
    /\ Continue(c, IF calls[c].use = "save" THEN "truncate" ELSE "stat", 0, 0,
                [file EXCEPT !.fd = calls[c].req.fd])
    /\ UNCHANGED loaded
    /\ Unchanged

\* Variant: seek_callback reads on from wherever the position is.
SoughtNowhere(c) ==
    /\ Answered(c, "seek")
    /\ Continue(c, "stat", 0, 0, file)
    /\ UNCHANGED loaded
    /\ Unchanged

\* stat_callback_for_seek, setoffset(0, START), and seek_callback.
Sought(c) ==
    /\ Answered(c, "seek")
    /\ Continue(c, "stat", 0, 0, [file EXCEPT !.pos = 0])
    /\ UNCHANGED loaded
    /\ Unchanged

\* stat_callback_for_readall: what lies behind the position is read, and the position moves
\* when the read is asked for.
Measured(c) ==
    LET size == calls[c].req.size
    IN  /\ Answered(c, "stat")
        /\ \/ /\ size = file.pos
              /\ Finish(c, <<>>, file)
           \/ /\ size < file.pos
              /\ Answer(c, -1, [file EXCEPT !.error = TRUE])
              /\ UNCHANGED loaded
           \/ /\ size > file.pos
              /\ Continue(c, "read", file.pos, size - file.pos, [file EXCEPT !.pos = size])
              /\ UNCHANGED loaded
        /\ Unchanged

ReadDone(c) ==
    /\ Answered(c, "read")
    /\ Finish(c, calls[c].req.data, file)
    /\ Unchanged

\* truncate_callback runs truncate_callback_for_write, which writes, before it sets m_pos to 0.
Truncated(c) ==
    /\ Answered(c, "truncate")
    /\ Continue(c, "write", file.pos, 0, [file EXCEPT !.pos = 0])
    /\ UNCHANGED loaded
    /\ Unchanged

Written(c) ==
    /\ Answered(c, "write")
    /\ Answer(c, 0, file)
    /\ UNCHANGED loaded
    /\ Unchanged

\* file_watcher_callback and ProxyConfig::fileEventRaise.
Notify ==
    /\ Alive /\ event
    /\ event' = FALSE
    /\ IF file.error
       THEN watched' = FALSE /\ UNCHANGED <<calls, file, state, raced>>
       ELSE /\ \E c \in Calls: Begin(c, "reload", Hole)
            /\ UNCHANGED watched
    /\ UNCHANGED <<kind, disk, fds, loaded, closing, asked, edits, faults>>

\* Another process puts another text in the place of the old one.
Edit ==
    /\ edits < MaxEdits /\ state # "aborted"
    /\ edits' = edits + 1
    /\ \E v \in Versions: Text(v) # disk /\ disk' = Text(v)
    /\ event' = (event \/ Watching)
    /\ UNCHANGED <<kind, fds, file, state, watched, calls, loaded, closing, raced, asked, faults>>

Next ==
    \/ \E c \in Calls:
          \/ Load(c) \/ Save(c) \/ Execute(c)
          \/ Failed(c) \/ Opened(c) \/ Sought(c) \/ Measured(c) \/ ReadDone(c)
          \/ Truncated(c) \/ Written(c)
    \/ LoadNow \/ SetNewFile \/ Delete
    \/ \E fd \in closing: CloseRun(fd)
    \/ Notify \/ Edit

Callback(c) ==
    \/ Failed(c) \/ Opened(c) \/ Sought(c) \/ Measured(c) \/ ReadDone(c)
    \/ Truncated(c) \/ Written(c)

\* The pool runs every request and the loop every callback; nobody has to call or to edit.
Fairness ==
    /\ \A c \in Calls: WF_vars(Execute(c)) /\ WF_vars(Callback(c))
    /\ WF_vars(\E fd \in closing: CloseRun(fd))
    /\ WF_vars(Notify)

Spec == Init /\ [][Next]_vars /\ Fairness

-----------------------------------------------------------------------------
(* Properties *)

\* The rules catch up with their file: after a change its text is taken by fromROBuf, unless it
\* changes again, the rules are deleted, a request fails, or two loads have run beside each other.
RulesCatchUp ==
    \A v \in Versions:
        (event /\ disk = Text(v))
            ~> (Text(v) \in loaded \/ disk # Text(v) \/ ~Alive \/ faults > 0 \/ raced # {})

\* A ConfigFile that is deleted leaves no descriptor open, whatever its calls were waiting for,
\* unless it was opening the file: by two calls at once, or when it was deleted.
DescriptorsReleased == (state = "deleted") ~> (fds = {} \/ raced # {})

\* UVFile's assertions that m_error is false, and load_proxyrule_callback's that its load was
\* answered well, fail only when the system refused a request.
AssertionsHold == state = "aborted" => faults > 0
=============================================================================
