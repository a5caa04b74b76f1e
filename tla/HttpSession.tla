---------------------------- MODULE HttpSession ----------------------------
(***************************************************************************)
(* One connection of the HTTP file server (lib/http.cpp,                   *)
(* lib/http_file_server.cpp): the requests a client pipelines, cut into    *)
(* reads in any way, the parser that runs over them, and the file that is  *)
(* opened, measured and read in chunks to answer one.                      *)
(*                                                                         *)
(* A session reads only between requests: start_request stops reading and  *)
(* FinishRequest starts it again and runs the parser over what the read    *)
(* that ended the request held beyond it.                                  *)
(*                                                                         *)
(* Input is a sequence of tokens: of request i the head (request line and  *)
(* headers, up to the last header's value), the blank line and, for a      *)
(* POST, the body.  Output is headers and runs of bytes.  The parser       *)
(* (http_parser), the streams and libuv's file requests are external.      *)
(***************************************************************************)
EXTENDS Integers, Sequences, FiniteSetsExt, SequencesExt

CONSTANTS
    Requests,     \* requests that clients send, [what, from, to]
    MaxRequests,  \* bound: requests on the connection
    MaxSize,      \* bound: bytes in the file
    Chunk,        \* FILE_MAX_READ_SIZE
    MaxFaults     \* bound: requests that the system refuses

ASSUME HttpSessionAssumption ==
    /\ Requests \subseteq [what: {"GET", "HEAD", "POST", "upgrade", "refused", "badws", "old",
                                  "junk"}, from: Int, to: Int]
    /\ MaxRequests \in Nat /\ MaxSize \in Nat /\ MaxFaults \in Nat
    /\ Chunk \in Nat \ {0}

VARIABLES
    script,   \* the requests of this connection's client
    arrived,  \* tokens of them that the session has read
    disk,     \* the file that all of them name
    http,     \* the Http, its HttpRequest and its FileServerRequestInfo
    shrunk,   \* history: the file lost bytes
    faults    \* requests that the system refused

vars == <<script, arrived, disk, http, shrunk, faults>>

NoRange == [from |-> -1, to |-> -1]
What(i) == script[i].what

Parts(i) == CASE What(i) = "POST" -> <<"head", "blank", "body">>
              [] What(i) = "junk" -> <<"head">>
              [] OTHER -> <<"head", "blank">>
Tokens(i) == [k \in DOMAIN Parts(i) |-> [req |-> i, part |-> Parts(i)[k]]]
Wire == FlattenSeq([i \in DOMAIN script |-> Tokens(i)])

Token == [req: 1 .. MaxRequests, part: {"head", "blank", "body"}]
Session ==
    [life: {"open", "finished", "upgraded", "closed", "aborted", "unhandled"}, reading: BOOLEAN,
     ref: Seq(Token), max: Nat, pushed: Seq(Token), parsing: 0 .. MaxRequests,
     whole: BOOLEAN, current: 0 .. MaxRequests, upgrade: BOOLEAN,
     file: {"none", "open", "stat", "read", "held"}, cur: Int, end: Int, size: Nat,
     out: Seq([req: 1 .. MaxRequests, part: {"header", "data"}, status: Nat, at: Int, n: Nat]),
     flying: Nat, buffered: Int]

\* Http::Http and EmitAnConnection: the session reads, and no request is in progress.
NewHttp ==
    [life |-> "open", reading |-> TRUE,
     ref |-> <<>>,        \* m_ref, the read that the parser is in
     max |-> 0,           \* m_max_ptr: tokens of ref up to the last header value or body
     pushed |-> <<>>,     \* m_pushed
     parsing |-> 0,       \* the request that the parser is in, 0 in FINISH_PREV
     whole |-> FALSE,     \* m_state = MESSAGE_COMPLETE
     current |-> 0,       \* m_current_request, or 0
     upgrade |-> FALSE,
     file |-> "none",     \* the file request that the answer waits for
     cur |-> -1, end |-> -1, size |-> 0,
     out |-> <<>>,        \* all that was given to _write
     flying |-> 0,        \* how many of it are not reported written
     buffered |-> 0]      \* m_writed_buffer_size

Init ==
    /\ script \in UNION {[1 .. n -> Requests]: n \in 1 .. MaxRequests}
    /\ arrived = 0
    /\ disk \in [kind: {"none", "directory"}, size: {0}] \cup
                [kind: {"regular"}, size: 0 .. MaxSize]
    /\ http = NewHttp
    /\ shrunk = FALSE
    /\ faults = 0

-----------------------------------------------------------------------------
(* The session; h is its state within one callback *)

\* HttpFileServer::FinishSession: pending callbacks find the session gone.
FinishSession(h) ==
    [h EXCEPT !.life = "finished", !.reading = FALSE, !.ref = <<>>, !.max = 0,
              !.pushed = <<>>, !.whole = FALSE, !.file = "none", !.flying = 0]

Abort(h) == [FinishSession(h) EXCEPT !.life = "aborted"]

\* Http::response_write.
Item(h, part, status, at, n) ==
    [req |-> h.current, part |-> part, status |-> status, at |-> at, n |-> n]
Weight(item) == IF item.part = "header" THEN 1 ELSE item.n
ResponseWrite(h, item) ==
    [h EXCEPT !.out = Append(@, item), !.flying = @ + 1, !.buffered = @ + Weight(item)]

\* http_parser's callbacks for request i; it stops after the message that it completes.
Parsed(h, i) ==
    LET marked == {k \in DOMAIN h.ref: h.ref[k].req = i /\ h.ref[k].part # "blank"}
    IN  [h EXCEPT !.parsing = i,
                  !.max = IF marked = {} THEN @ ELSE Max(marked),
                  !.whole = Last(Tokens(i)) \in ToSet(h.ref)]

\* Http::run_parser; the parser skips the blank line that an earlier request left.
RunParser[h \in Session] ==
    LET heads == {k \in DOMAIN h.ref: h.ref[k].part = "head"}
        i == IF h.parsing > 0 \/ heads = {} THEN h.parsing ELSE h.ref[Min(heads)].req
    IN  IF i = 0 THEN h
        ELSE IF What(i) = "junk" THEN FinishSession(h)
        ELSE Parsed(h, i)

\* Variant: the rest of the read is dropped with the request.
RemainderDropped(h) == <<>>

\* Past the request's last header value or body.
Remainder(h) == SubSeq(h.ref, h.max + 1, Len(h.ref))

\* Http::FinishRequest, with its assertions.
FinishRequest[h \in Session] ==
    IF h.reading \/ h.upgrade \/ h.max > Len(h.ref) THEN Abort(h)
    ELSE RunParser[[h EXCEPT !.current = 0, !.reading = TRUE, !.parsing = 0,
                             !.whole = FALSE, !.ref = Remainder(h), !.max = 0]]

\* HttpRequest::writeHeader and end, RejectUpgrade: a whole response at once.
Respond(h, status, n) ==
    LET headed == ResponseWrite(h, Item(h, "header", status, 0, n))
        sent == IF n = 0 THEN headed ELSE ResponseWrite(headed, Item(h, "data", status, 0, n))
    IN  FinishRequest[[sent EXCEPT !.upgrade = FALSE, !.file = "none"]]

\* HttpFileServer::upgraded_listener: the stream is given away and the session deleted.
Upgraded(h) ==
    LET sent == ResponseWrite(h, Item(h, "header", 101, 0, 0))
    IN  [FinishSession(sent) EXCEPT !.life = "upgraded", !.flying = 0]

\* HttpFileServer::upgrade_listener and ws_upgrade_preprocess: without a handler, or for
\* another Connection, the request is refused; what the preprocessing refuses is not marked
\* as returned, and ~UpgradeRequestIMPL asserts that it is.
UpgradeListener(h) ==
    CASE What(h.current) = "upgrade" -> Upgraded(h)
      [] What(h.current) = "refused" -> Respond(h, 400, 1)
      [] OTHER -> [FinishSession(Respond(h, 400, 1)) EXCEPT !.life = "unhandled"]

\* HttpFileServer::request_listener.
RequestListener(h) ==
    IF What(h.current) = "POST" THEN Respond(h, 405, 1) ELSE [h EXCEPT !.file = "open"]

\* Http::start_request.
StartRequest[h \in Session] ==
    LET begun == [h EXCEPT !.reading = FALSE, !.current = h.parsing,
                           !.upgrade = What(h.parsing) \in {"upgrade", "refused", "badws"}]
    IN  IF h.current # 0 \/ h.upgrade THEN Abort(h)
        ELSE IF What(h.parsing) = "old" THEN FinishSession(h)
        ELSE IF begun.upgrade THEN UpgradeListener(begun)
        ELSE RequestListener(begun)

\* A request answered on the spot lets the next one of the same read start in the same
\* callback; each of them is started once.
Parsing == {h \in Session: h.whole => h.parsing > 0}
Settle[h \in Parsing] ==
    IF h.whole /\ h.current = 0 THEN Settle[StartRequest[h]] ELSE h

-----------------------------------------------------------------------------
(* Reads, writes and the end of a session *)

Open == http.life = "open"

\* Http::read_callback.
Read(n) ==
    LET buf == SubSeq(Wire, arrived + 1, arrived + n)
    IN  /\ Open /\ http.reading
        /\ arrived + n <= Len(Wire)
        /\ arrived' = arrived + n
        /\ http' = IF http.current # 0
                   THEN [http EXCEPT !.pushed = @ \o buf]
                   ELSE Settle[RunParser[[http EXCEPT !.ref = http.pushed \o buf,
                                                      !.pushed = <<>>, !.max = 0]]]
        /\ UNCHANGED <<script, disk, shrunk, faults>>

\* Http::end_signal, or a read that failed: noticed only while reading.
ReadEnds ==
    /\ Open /\ http.reading
    /\ http' = FinishSession(http)
    /\ UNCHANGED <<script, arrived, disk, shrunk, faults>>

\* Variant: the whole response is subtracted with its last write.
WriteDoneTwice(ok) ==
    /\ Open /\ http.flying > 0
    /\ http' = [http EXCEPT !.flying = @ - 1,
                    !.buffered = @ - 2 * Weight(http.out[Len(http.out) - http.flying + 1])]
    /\ UNCHANGED <<script, arrived, disk, shrunk, faults>>

\* Http::response_write_callback: a write that fails stays counted.
WriteDone(ok) ==
    /\ Open /\ http.flying > 0
    /\ ok \/ faults < MaxFaults
    /\ faults' = IF ok THEN faults ELSE faults + 1
    /\ http' = [http EXCEPT !.flying = @ - 1,
                    !.buffered = IF ok THEN @ - Weight(http.out[Len(http.out) - http.flying + 1])
                                       ELSE @]
    /\ UNCHANGED <<script, arrived, disk, shrunk>>

\* HttpFileServer::close: the server is deleted with its sessions.
Close ==
    /\ Open
    /\ http' = [FinishSession(http) EXCEPT !.life = "closed"]
    /\ UNCHANGED <<script, arrived, disk, shrunk, faults>>

-----------------------------------------------------------------------------
(* Answering with a file *)

Answering(file) == Open /\ http.file = file

\* The pool answers a file request: as the file is, or with a failure.
May(ok) ==
    /\ ok \/ faults < MaxFaults
    /\ faults' = IF ok THEN faults ELSE faults + 1

\* file_open_callback.
FileOpened(ok) ==
    /\ Answering("open") /\ May(ok)
    /\ http' = IF ok /\ disk.kind # "none" THEN [http EXCEPT !.file = "stat"]
               ELSE Settle[Respond(http, 404, 1)]
    /\ UNCHANGED <<script, arrived, disk, shrunk>>

\* parse_range_pair: the text of the first number runs on past the dash, so that a range
\* that starts at 0 is taken for no range; "-n" is the negative number n.
ParseRange(i) ==
    IF script[i].from \in {-1, 0} THEN NoRange
    ELSE [from |-> script[i].from, to |-> script[i].to]

\* The range's ends are compared with an unsigned size.
Beyond(pos, size) == pos < 0 \/ pos >= size

\* Variant: the last position of a whole file is its size.
MeasuredPastEnd(h) ==
    [h EXCEPT !.size = disk.size, !.end = disk.size, !.cur = -1, !.file = "read"]

\* file_stat_callback, of a regular file.
Measured(h) ==
    LET range == ParseRange(h.current)
        sized == [h EXCEPT !.size = disk.size,
                     !.end = IF range = NoRange THEN disk.size - 1 ELSE range.to,
                     !.cur = IF range = NoRange THEN -1 ELSE range.from - 1]
        status == IF range = NoRange THEN 200 ELSE 206
    IN  IF range # NoRange /\ (\/ Beyond(range.from, disk.size)
                               \/ Beyond(range.to, disk.size)
                               \/ range.from > range.to)
        THEN Respond(h, 400, 1)
        ELSE IF What(h.current) = "HEAD" \/ disk.size = 0
             THEN [ResponseWrite(sized, Item(h, "header", status, 0, disk.size))
                       EXCEPT !.file = "held"]
             ELSE [sized EXCEPT !.file = "read"]

FileStat(ok) ==
    /\ Answering("stat") /\ May(ok)
    /\ http' = IF ~ok THEN Settle[Respond(http, 500, 1)]
               ELSE IF disk.kind # "regular" THEN Settle[Respond(http, 404, 1)]
               ELSE Settle[Measured(http)]
    /\ UNCHANGED <<script, arrived, disk, shrunk>>

\* Variant: end_pos is taken for the position after the last byte.
AtEndEarly(h) == h.cur + 1 >= h.end

\* cur_pos is the last byte written, end_pos the last to write.
AtEnd(h) == h.cur = h.end

\* file_read_callback and read_file_to_stream: the header goes out before the first chunk,
\* the next chunk is asked for, or the request is ended.
Chunked(h, n) ==
    LET status == IF ParseRange(h.current) = NoRange THEN 200 ELSE 206
        headed == IF \E k \in DOMAIN h.out: h.out[k].req = h.current THEN h
                  ELSE ResponseWrite(h, Item(h, "header", status, 0, h.size))
        sent == [ResponseWrite(headed, Item(h, "data", status, h.cur + 1, n))
                     EXCEPT !.cur = @ + n]
    IN  IF AtEnd(sent) THEN Settle[FinishRequest[[sent EXCEPT !.file = "none"]]]
        ELSE sent

FileRead(ok) ==
    LET wanted == Min({Chunk, http.end - http.cur})
        got == Max({0, Min({wanted, disk.size - (http.cur + 1)})})
    IN  /\ Answering("read") /\ May(ok)
        /\ http' = IF ~ok THEN FinishSession(http)
                   ELSE IF got = 0 THEN Abort(http)
                   ELSE Chunked(http, got)
        /\ UNCHANGED <<script, arrived, disk, shrunk>>

\* External: another process truncates the file.
Shrink ==
    /\ disk.kind = "regular" /\ disk.size > 0 /\ ~shrunk
    /\ disk' = [disk EXCEPT !.size = @ - 1]
    /\ shrunk' = TRUE
    /\ UNCHANGED <<script, arrived, http, faults>>

FileStep == \E ok \in BOOLEAN: FileOpened(ok) \/ FileStat(ok) \/ FileRead(ok)

Next ==
    \/ \E n \in 1 .. Len(Wire): Read(n)
    \/ ReadEnds
    \/ \E ok \in BOOLEAN: WriteDone(ok)
    \/ FileStep
    \/ Close
    \/ Shrink

\* libuv's pool answers every request.
Spec == Init /\ [][Next]_vars /\ WF_vars(FileStep)

-----------------------------------------------------------------------------
(* Properties *)

\* The write counter is a size_t: no callback takes more from it than was put in.
TypeOK ==
    /\ arrived \in 0 .. Len(Wire)
    /\ disk \in [kind: {"none", "directory", "regular"}, size: 0 .. MaxSize]
    /\ http \in Session /\ http.current \in {0, http.parsing}
    /\ http.max \in 0 .. Len(http.ref)
    /\ http.flying \in 0 .. Len(http.out)
    /\ http.buffered \in Nat
    /\ faults \in 0 .. MaxFaults

\* What a client has got for request i: the bytes behind the header.
Sent(out, i) ==
    LET sum[k \in 0 .. Len(out)] ==
            IF k = 0 THEN 0
            ELSE sum[k - 1] + IF out[k].req = i /\ out[k].part = "data" THEN out[k].n ELSE 0
    IN  sum[Len(out)]

\* Content-Length.  file_stat_callback sets it to st_size before it looks at the range, and
\* HttpRequest::write sends it so: the header of a range promises the whole file.
Promised(header) == header.n

\* What is owed for a request: of a range the bytes that Content-Range names, which are all
\* that read_file_to_stream sends, and else what the header promises.
Due(header) ==
    IF header.status = 206 THEN script[header.req].to - script[header.req].from + 1
    ELSE Promised(header)

\* All that is owed was written, and it is not more than was promised.
Complete(out, i) ==
    \E k \in 1 .. Len(out):
        /\ out[k].req = i /\ out[k].part = "header"
        /\ Sent(out, i) = Due(out[k]) /\ Due(out[k]) <= Promised(out[k])
Answered(i) == Complete(http.out, i) /\ http.current # i

\* Item k + 1 of out continues the response of item k, or begins the next one.
Follows(out, k) ==
    LET a == out[k]
        b == out[k + 1]
    IN  \/ /\ b.req = a.req /\ b.part = "data"
           /\ b.at = IF a.part = "data" THEN a.at + a.n
                     ELSE IF a.status = 206 THEN script[a.req].from ELSE 0
        \/ b.req = a.req + 1 /\ b.part = "header" /\ Complete(out, a.req)
InOrder(out) ==
    out # <<>> =>
        /\ out[1].req = 1 /\ out[1].part = "header"
        /\ \A k \in 1 .. Len(out) - 1: Follows(out, k)

\* Responses leave in the order of their requests, one for each, however the requests
\* were cut into reads (Http::read_callback, FinishRequest): a response is one header and
\* then the file's bytes in order and without a gap.  The next one begins only when all
\* that is Due was written: the whole Content-Length of a response that is not of a range,
\* and of a range the bytes that Content-Range names.  No response is longer than its
\* Content-Length.  That of a range is shorter, since the code promises the whole file: there
\* the next response begins inside what was promised, and this property does not deny it.
ResponsesInOrder == InOrder(http.out)

\* The assertions of start_request, FinishRequest (the session does not read while it
\* answers, and what the request consumed lies in the read that ended it) and
\* file_read_callback (a chunk is not empty) hold unless the file lost bytes since it was
\* measured.
AssertionsHold == http.life = "aborted" => shrunk

\* Every request that arrived whole is answered with all that is Due, also one that came
\* in the same read as an earlier one, unless the session ends or is held by a HEAD or an
\* empty file, whose answer file_stat_callback begins and never ends.
Arrived(i) == i \in DOMAIN script /\ \E k \in 1 .. arrived: Wire[k] = Last(Tokens(i))
EveryRequestAnswered ==
    \A i \in 1 .. MaxRequests:
        Arrived(i) ~> (Answered(i) \/ http.file = "held" \/ ~Open)

=============================================================================
