# A verification project for hula

hula is a proxy for applications that speak SOCKS5. The *client* (`src/lib/kclient_*.cpp`)
accepts their connections, and carries all of them over a few TLS connections to the
*server* (`src/lib/kserver_*.cpp`), which connects to the targets. One TLS connection, a
*multiplexer*, carries up to 64 streams in packets of a protocol of its own (`kpacket`).
The same tree holds an HTTP server, a file server, WebSocket, and a manager that starts and
stops clients on request. Everything runs on one libuv event loop: there are no threads, and
what makes the program hard is the order in which callbacks arrive.

This directory holds TLA+ modules that model the core of that program, the configurations
with which TLC checks them, and proofs that TLAPS checks.

## 1. The system

| Component | Code (`src/`) | State | Operations | Talks to |
|---|---|---|---|---|
| Multiplexer provider | `lib/StreamProvider_KProxyMultiplexer.cpp` | `m_allocator` (ids in use), `m_client_wait_connection` (callbacks of requests), `m_server_wait_connection`, the undecoded rest | `connect`, `closeStream`, `write`, `end`, `startRead`, `stopRead`, `dispatch_data`, the 8 s timer | packets to the other end; events to the streams |
| Stream relay | `lib/StreamRelay.cpp` | which of two streams are read, which have ended, the value that marks a stop | ten listeners, two timers | two stream objects |
| SOCKS5 server of the client | `lib/kclient_server.cpp`, `kclient_socks5.cpp`, `kclient_clientproxy.cpp` | sessions, `ClientConnection`s, multiplexers, the pairing `m_auths` | accept, the SOCKS5 stages, dispatch, reply, hand-over, `close` | objects delete each other through the server |
| Client end of the tunnel | `lib/kclient_multiplexer.cpp` | connecting, authenticating, built; the callback of the request that made it | connect, authenticate, `close` | the server end, by TLS |
| Server end of the tunnel | `lib/kserver_multiplexer.cpp`, `kserver_server.cpp`, `kserver_server2net.cpp` | authenticated or not; the relays | authenticate, hand over to HTTP, create a relay, `close` | targets, the HTTP server |
| Stream over a provider | `lib/stream_byprovider.cpp` | the id, the registered callbacks | forwards to the provider | provider, relay |
| libuv and TLS streams | `lib/stream_libuv*.cpp`, `stream_memory.cpp` | the pending libuv requests | read, write, connect, release | libuv, OpenSSL |
| Packet and SOCKS5 codecs | `lib/kpacket.cpp`, `socks5.cpp` | none (the rest is kept by the caller) | encode, decode | |
| HTTP server, file server | `lib/http*.cpp` | the request in progress, bytes pushed back, the range being sent | parse, respond, upgrade, send a file by chunks | streams, files |
| WebSocket | `lib/websocket*.cpp` | fragments, the closing state | frames in and out | streams |
| Files and configuration | `lib/file_libuv.cpp`, `config_file.cpp`, `kclient_config.cpp`, `kserver_config.cpp`, `proxy_config.cpp` | the descriptor, the position, the error flag, the operations pending, the watcher | open, read, write, truncate, close; load, save, reload | libuv's thread pool |
| Manager | `include/k_manager.hpp`, `lib/manager.cpp`, `kclient_manager*.cpp` | configurations, instances, dispatch table | requests over WebSocket | clients |
| Proxy rules, direct relay | `lib/proxyrule.cpp`, `kclient_relay.cpp` | | | nothing: `dispatch_base_on_addr` returns before it uses them |

How a connection lives: the application's SOCKS5 session (`Socks5Auth`) gives its request to
`Server::dispatch_proxy`, which picks or makes a multiplexer and a `ClientConnection`. That
draws an id and sends CREATE; the server end connects to the target, answers ACCEPT and
starts its relay. On ACCEPT the session writes the SOCKS5 reply; when that is written the
socket is handed over and the client's relay starts. Either socket, either relay, either end
of the tunnel, the 8 s and 20 s timers and the application may end it at any step.

### What is hard, and what must hold

*Provider.* An id is one byte and free again as soon as the client closes its stream, while
packets and timers that name it are still about. Two ends must agree on who owns an id; a
request must be resolved once and not be forgotten; several assertions (one is marked
`FIXME assert false`) depend on the order of calls from four files.

*Relay.* Four causes stop and start the reading of two streams through one flag each. A
wakeup must not be lost, a timer must not close a stream that was started again, the two ends
must not come to disagree, and the ends of the streams must close both relays.

*SOCKS5 server.* Three kinds of objects hold raw pointers to one another and are deleted from
callbacks. No pointer may be followed after its object is gone; a session is answered once;
the counter that picks a remote server (a `size_t`) must not go below zero.

*Tunnel ends.* Handshake messages may be split and merged at will, and a reply may be read
before the callback of the write it answers. Bytes that an end holds back must not be a whole
message that waits for bytes that never come. One port serves clients and browsers. `close()`
may be entered from many callbacks.

*HTTP and its file server.* A client may send its requests one behind the other, and the
network cuts them anywhere: what a read holds beyond the request it completes must be parsed
once that is answered, be it in the same callback or five file operations later. A file is
measured, read and written in steps, while others may change it.

*Files and configuration.* Every operation of a `UVFile` is a chain of requests to the thread
pool; all chains share one descriptor, one position and one error flag, and the file's watcher
starts chains of its own. The object may be deleted in the middle of each.

*WebSocket and manager.* Frames are cut anywhere, control frames come between fragments, both
ends may close at once, and the owner deletes the object from inside its own callbacks.

`PROJECT.json` lists the hazards with their lines and the properties that cover each.

## 2. The plan

In the order of importance; the first eight are done.

1. `KProxyMux`: both ends of a multiplexer, with `ConnectRequests`, the abstract promise of
   `connect()`, which it implements.
2. `StreamRelay`: the flow control and the end of one proxied connection.
3. `ClientSessions`: the objects of the SOCKS5 server and their pointers.
4. `TunnelHandshake` above `PacketCodec`: both ends from the TCP connection to the packets,
   byte by byte: splits of the messages, the reply against the write callback, users refused,
   the hand-over to HTTP.
5. Proofs about the four: `KProxyMux_proofs`, `StreamRelay_proofs`, `ClientSessions_proofs`,
   `TunnelHandshake_proofs` (on `DataLemmas`, for the decoder).
6. `HttpSession`: one connection of the HTTP file server, from the bytes of pipelined requests
   to the bytes of the file; `HttpSession_proofs` about it.
7. `ConfigFile`: `UVFile` and `ConfigFile`, with libuv's thread pool, a file that others
   change, and the watcher; `ConfigFile_proofs` about it.
8. `WebSocketEnds`: two ends, fragments with control frames in between, the closing handshake,
   and the manager as the owner of one of them; `WebSocketEnds_proofs` about it.
9. `Socks5Handshake`: the session's stages with the parsers of `socks5.cpp`, over every split
   of the messages.
10. `StreamByProvider` as the layer between `StreamRelay` and `KProxyMux`.

Every invariant of the passing runs has a theorem; the theorems still worth proving are those
of the two modules that are not written yet.

## 3. What is modelled

### KProxyMux (with ConnectRequests, MCKProxyMux)

Both ends of one multiplexer, for any sets of ids and requests. `alloc`, `wait` and `timers`
are `m_allocator`, `m_client_wait_connection` and the armed timers of the client; `salloc` and
`swait` the server's; `conn` and `relay` the states of the `ClientConnection`s and
`ServerToNetConnection`s that own the streams; `c2s` and `s2c` the packets in flight, in the
order of the TLS connection. Each action is one callback of the event loop, with all it calls:

| Action | Code |
|---|---|
| `Connect` | `ClientConnection::__connect`, `createStreamID`, `connect` |
| `Timeout` | `new_connection_timeout_callback` |
| `AppClose`, `ClientClosesOne` | `ClientConnection::close` and through it `closeStream` |
| `StartRelay`, `ClientForward`, `ServerForward` | `start_relay`, and what relays write |
| `ClientReceive`, `ServerReceive` | `dispatch_data`, one packet |
| `TargetConnected`, `TargetRefused`, `RelayClose` | the events of `ServerToNetConnection` |
| `ClientFails`, `ServerFails`, `…SeesEnd`, `…ClosesOne`, `…Gone` | `close()` of either end, its loop one relay at a time |

`FORWARD` stands for WRITE, END_CONNECTION, START_READ and STOP_READ, which the provider
treats alike. A packet's `req` says for which request it was sent; the code has no such
field, and only properties (and the choice of requests with short names) read it. A request
whose host name has one character makes `create_new_connection` pass a null id to
`send_zero_packet`, which asserts; the server's state is then `aborted`.

A failing write of a single packet ends the multiplexer (`prm_error_handle`) and is
`ClientFails` or `ServerFails`.

`ConnectRequests` is the promise of `StreamProvider::connect`: the callback is held until the
request is resolved, it runs once, and no request stays pending. `KProxyMux` implements it
with `pending` the requests that have an entry in `wait` and `outcome` read off `conn`.

### StreamRelay

The two relays of one proxied connection: A is the multiplexer's stream, B the local socket.
One action per listener (`Receive` chooses among the six of A by the packet), the timer
`__wait_b_start_read`, `start_relay` at the client, and a failure of either stream at any
time. `stamp` is `m_b_random`: the code draws a random `size_t` and compares it as an `int`;
the model takes a value never drawn before, so two equal draws are left out. The
`shouldStopWrite` listener of B and its timer are left out: a local socket never raises the
event. `told` is a history variable.

External, described as the code uses it: `EBStreamObject::write` queues and returns less than
0 when the queue is over the limit, "drain" is raised when it is back at the limit, an event
without listener is lost, a local socket delivers only while it is read.

### ClientSessions

`Socks5Auth`, `ClientConnection` and `ConnectionProxy` objects under one `Server`: `auth`,
`conn` and `mux` are their states, `gone` when deleted; `auths`, `knows`, `via` and `cb` are
the pointers `m_auths`, `m_socks5`, `mp_proxy` and `m_connect_cb`; `counter` is
`m_current_connection`. `Remove` is what `ClientConnection::close` does through
`remove_clientConnection` and `remove_socks5_handler`. What happens on the wire is here a
nondeterministic outcome. The server list is read before the server listens, and may be empty
(`listed`). Bytes that an application sends between its request and the end of the reply
reach `assert(false)`: the state `aborted`.

Left out: which of several remote servers is taken (`calculate_point`), `trylisten`, the bytes
of the SOCKS5 messages. After the hand-over a `Socks5Auth` stays in `m_socks5` until
`Server::close`: it is the state `handed`, which nothing leaves but `ServerClose`.

### TunnelHandshake (with PacketCodec, MCTunnel)

One TCP connection to the server's port, from both ends, as the bytes in flight (`c2s`, `s2c`)
and those that an end has read and not used (`cheld`, `sheld`). An end has two `m_remain`, of
the connection and of the provider; only one is not empty at a time, and the next read joins
it to the new bytes. A read takes any non-empty part of what is in flight.

| Action | Code |
|---|---|
| `ConnectToServer`, `Connected` | `__connectToServer`; its callback and `send_authentication_info` |
| `LoginWritten` | `on_authentication_write`, which may run after the answer was read |
| `ClientRead` | `ConnectionProxy::read_callback`, with `authenticate` or `dispatch_data` |
| `ClientFails` | every way to `close()`: a failed connection or write, the end, the owner |
| `BrowserAsks` | in place of a client, a browser sends `Request` |
| `OnConnection` | `Server::on_connection`, `start` |
| `ServerRead` | `ClientConnectionProxy::read_callback`: `HandToHttp`, `WaitForMore`, `CheckUser` are the outcomes of `dispatch_authentication_data` |
| `ClientSends`, `ServerSends` | packets that streams write, by `prm_write` |
| `ServerFails` | every way to the server's `close()`, or the end of the HTTP connection |

`PacketCodec` has the encoder and the decoder of `kpacket.cpp` for bytes of `Base` values. The
code is `Base = 256`; with `Base = 3` the three forms of header begin at bodies of 0, 1 and 9
bytes, so that short packets take each of them. Opcodes and ids are any byte: what they ask
for is the matter of `KProxyMux`. `MatchHttpMethod` takes any set of methods; the code's nine
satisfy `HandshakeAssumption`: each has at least three bytes, and its first letter, read as a
length, announces more than the method has.

Abstracted: a client that is refused may or may not get the two bytes of its refusal, since
the server closes right after writing them. The server writes only after it dispatched a
packet, because its streams are opened by packets. Left out: that names are compared as C
strings (a byte 0 would end them), and `mp_fileserver == nullptr`, in which case the browser's
connection is released.

### HttpSession (with MCHttpSession)

One connection of the file server: `Http`, its one `HttpRequest` in progress, and the
`FileServerRequestInfo` that answers it, in the record `http`; `script` is what the client
sends, cut into tokens (the head of a request, the blank line, the body), since the parser's
callbacks tell no more apart than these; `disk` is the file that the requests name.

| Action | Code |
|---|---|
| `Read` | `Http::read_callback`, `run_parser`, the parser's callbacks, `start_request`, and every request that is answered at once |
| `ReadEnds` | `end_signal`, a failed read |
| `WriteDone` | `response_write_callback` |
| `FileOpened`, `FileStat`, `FileRead` | `file_open_callback`, `file_stat_callback`, `file_read_callback` with `read_file_to_stream` |
| `Close` | `HttpFileServer::close` |
| `Shrink` | another process truncates the file (external) |

Operators named after the functions take and return the session within one callback, so that a
request that is refused can start the next one of the same read (`Settle`) before the callback
ends. `max` is `m_max_ptr`: what a request consumed ends with its last header value or body,
and the blank line behind it is left to the next parser, which skips it. `ParseRange` has what
`parse_range_pair` does to a range that starts at 0 (it is taken for none) and to `-n`.
A session whose answer `file_stat_callback` begins and never ends (HEAD, an empty file) has the
file state `held`; one whose upgrade is rejected behind the back of `UpgradeRequestIMPL`, the
life `unhandled`.

Of a header an item of `out` keeps the status and, as `n`, the Content-Length. `Promised` is that
length: for a whole file and for a range of it the size that `file_stat_callback` found. `Due` is
what the answer has to hold: of a range the bytes that Content-Range names, which are those that
`read_file_to_stream` sends, and of every other answer what it promised. `ResponsesInOrder` and
`EveryRequestAnswered` measure an answer by `Due`, because by `Promised` no range is ever answered
whole (see *Findings*).

Left out: the other header names and values, `addDrain`, requests without any header.

### ConfigFile (with MCConfigFile)

One `ConfigFile` (a configuration, or the client's rules) on its `UVFile`. `file` is `m_fd`,
`m_error`, `m_pos` and `m_flags`; `calls` holds for every call of `loadFromFile` and
`writeToFile` the request it waits for; `fds` and `closing` are the process's descriptors;
`disk` is the file as cells that remember which text they are part of.

| Action | Code |
|---|---|
| `Load`, `Save`, `LoadNow`, `SetNewFile`, `Delete` | what owners call; `LoadNow` is the load without a callback |
| `Execute`, `CloseRun` | the thread pool (external): a request takes effect, or is refused |
| `Opened`, `Sought`, `Measured`, `ReadDone` | the chain of a load: `open_callback`, `stat_callback_for_seek`, `stat_callback_for_readall`, `read_callback` |
| `Opened`, `Truncated`, `Written` | the chain of a save |
| `Failed` | the callback of a request that failed, or whose object is gone; an owner that outlives the object (a `ClientConfig` loaded twice, which no program does) is not modelled |
| `Notify`, `Edit` | the watcher, and the process that changes the file |

`Truncated` writes at the position before it is set to 0, as the callbacks of the code do in
that order; a save behind a load therefore leaves a `Hole`. `FromROBuf` keeps, or not, the
fields that came before the one it refuses. `raced` is a history variable: two calls ran beside
each other, or the object was deleted while it opened its file.

### WebSocketEnds (with MCWebSocketEnds)

Both ends of a WebSocket in the record `ws[e]`, with the bytes under way in `wire`. An end is
owned by the `ResourceManager` (only the server's) or by the program `tests/test-ws.cpp`, and
`Hear` is what the owner's listeners do, down to deleting the end. A byte is known by its frame
and place; the client's header is longer by its mask.

| Action | Code |
|---|---|
| `OwnerSends`, `OwnerEnds`, `OwnerCloses` | `send`, `ping`, `end`; `ResourceManager::close` |
| `Flush` | `write_callback` of one write, the header's or the payload's, or its failure |
| `Read` | `read_callback`: `ExtractMulti` is `extractMultiFrameFromData`, `TakeAll` its loop |
| `ReadEnds` | the stream's error at its end |

An object that the loop goes on to use after a listener deleted it has the life `touched`, a
header taken from the middle of a payload the life `garbled`, a failed assertion `aborted`.
Left out: the content of payloads, the two longer forms of length, Pong.

## 4. What is checked

| Run | Module | States | What it shows |
|---|---|---|---|
| `mux_safety` | `MCKProxyMux` | 1.1 M | six invariants of the two ends, with ids reused and either end failing |
| `mux_liveness` | `KProxyMux` | small | `ImplementsConnectRequests` (safety and liveness) and `BothEndsGo` |
| `relay` | `StreamRelay` | 22 k | four invariants, `FlowResumes`, `BothEndsClose` |
| `sessions` | `ClientSessions` | 171 k | seven invariants, `AnsweredOnce`, `ReplySettles` |
| `tunnel` | `MCTunnel` | 16 k | five invariants over every split of the bytes, `HandshakeEnds` |
| `http_session` | `MCHttpSession` | 172 k | three invariants over every split of pipelined requests, `EveryRequestAnswered` |
| `config_file` | `MCConfigFile` | 252 k | its types, `RulesCatchUp`, `DescriptorsReleased` |
| `websocket` | `MCWebSocketEnds` | 427 k | three invariants, `CloseReachesManager` |
| `mux_stale_answer` | `KProxyMux` | | finding 1 |
| `relay_end` | `StreamRelay` | | finding 2 |
| `websocket_cut` | `MCWebSocketEnds` | | finding 3 |
| `config_file_overlap` | `MCConfigFile` | | finding 4 |

Deadlock is not checked: an end that is gone, a closed relay, a tunnel that is closed
or has nothing to carry, a server without applications, an HTTP session or a WebSocket that
has ended and a file that nobody changes or loads have nothing left to do.

*Bounds.* Two ids and three requests let an id be reused while another is in use, and let two
requests meet on one id with the packets of both in flight; with one packet of data per
channel (`Window`; the control packets are not bounded) data can stand before and behind
every control packet. The liveness run has one id, so that every second request reuses it.
`FullAt` equals the number of ids, one half of them in the code: the rest is never drawn by
the client. The relay has the program's own limit, `RELAY_MAX_BUFFER_SIZE` of one byte, at
which every chunk is over the limit until flushed (`Limit = 0`), and one chunk per socket,
which with the two ends and the START and STOP they cause fills both directions. Three
applications over multiplexers of two streams fill one and cause a second and a third.
The tunnel has a user of the configuration, a stranger, a user whose name is too long for its
length byte, and one whose login begins with a method; three packets, written by the two ends
in any order, are enough to have one whole, one cut in its header and one cut in its body in
what an end holds and what is in flight. Two methods, one longer than the other, and a
request that begins with the longer let a read stop before, in and behind a method.

Two pipelined requests of twelve kinds, over a file of none, one, two or three bytes read by
two, put every kind of answer before and behind every other; a range, and a read that is cut
at the file's end, take one and two chunks. One refused request and one lost byte of the file
are enough for every failure branch. Two calls of a `ConfigFile` are the fewest that overlap;
texts of one and two cells leave a rest, a hole or an end behind the position, and
two operations with two changes let a load follow, precede or meet each of them.
Three frames of a WebSocket are a fragment, a ping and the fragment that ends the message, or
whole messages of both ends that cross with the close frames. `websocket` cuts reads at
headers, inside them and between frames; `websocket_cut` also inside a payload.

*Fairness.* `KProxyMux`: libuv runs due timers and delivers what was read; a `close()` loop,
once begun, ends. Nothing makes an application, a target or a relay act, and no end needs to
fail. `StreamRelay`: packets are received, timers fire, and what is written to a multiplexer
is flushed, because both multiplexers always read; a local socket owes nothing: it may never
take what is written to it, never speak, never end. `ClientSessions`: libuv calls the
callback of a write, with success or failure. `TunnelHandshake`: the connection to the server
is made or refused, write callbacks run, what is in flight is read, and a client learns that
the server has closed; no end needs to write. `HttpSession`: the thread pool answers
file requests; nothing makes a client send, end, or take what is written. `ConfigFile`: the
pool runs each request, the loop each callback, and the watcher reports a change; nobody has
to load, save or edit. `WebSocketEnds`: libuv writes what it was given, reads what has arrived
and reports the end of a stream; no owner has to send or close.

### Findings

1. *A stale answer* (`mux_stale_answer`). A reply names its request by the id only. The client
   closes a stream and draws the same id for a new one; the ACCEPT or REJECT of the first, or
   its timer, is then taken for the second. After a stale ACCEPT the application is told that
   its target is connected before the server has seen the request.
2. *A lost END* (`relay_end`). The server relays as soon as it has sent ACCEPT, the client
   listens once its SOCKS5 reply is written. An END in between is lost.
3. *A payload in two reads* (`websocket_cut`). `extractFrameFromData` completes the message from
   the new bytes and then computes what is left from the completed message: nothing is taken
   off. The bytes of the payload are read again, as the header of the next frame.
4. *Two loads of one file* (`config_file_overlap`). While the rules are loaded, a change of their
   file starts a second load. Both open the file, or one moves the position behind what the other
   has measured; the error of one makes `assert(this->m_error == false)` fail in the next
   operation of the other, or the load that fails is the first and `load_proxyrule_callback`
   asserts false.

The models have more of what the code does against its own words; no run is kept for these,
since each is one step that can be read off the code:

- CLOSE for a stream whose target is not connected yet, or was refused, finds no listener at the
  server (`ServerClosed`): the id stays allocated, and a later request that draws it is rejected.
- When the connection to the remote server fails, `close()` deletes the `ClientConnection` before
  the destructor runs its callback (`MuxFails`): the application gets no reply and waits.
- A login whose password is empty, which the configuration accepts, has one byte less than the
  server waits for (`WholeLogin`): neither end has a timer, and the tunnel is never built.
  `HandshakeEnds` fails as soon as `Configured` has such an account.
- `ws_upgrade_preprocess` rejects an upgrade without marking it as returned, and the assertion
  "unhandled http upgrade" fails (`UpgradeListener`).
- A WebSocket emits "textMessage", while its header documents, and the manager listens to,
  "messageText" (`Hear`): the manager's requests are never dispatched.
- A configuration that is saved behind a load has a gap in front and cannot be loaded again
  (`Truncated`); what `ClientConfig::to_json` writes lacks two fields that `from_json` requires.
- HEAD, and a file of no bytes, get a header and are never finished (`Measured`).
- The header of a range promises the whole file: `file_stat_callback` sets Content-Length to
  `st_size` (http_file_server.cpp:251) before it looks at the range, and `HttpRequest::write` sends
  it unchanged (http.cpp:431). Only the range is sent behind it, and the response of the next
  pipelined request begins inside the bytes promised (`Promised`, `Due`). `ResponsesInOrder` with
  `Promised` in the place of `Due` fails as soon as a request for a range has another one behind
  it. No doc or test of the repository speaks of the length of a range.

## 5. What is proved

Every theorem holds for all values of the constants under the named assumptions
(`MuxAssumption`, `RelayAssumption`, `SessionsAssumption`, `BaseAssumption`,
`HandshakeAssumption`, `HttpSessionAssumption`, `ConfigFileAssumption`,
`WebSocketEndsAssumption`): the special values
are no members, bounds and lengths are naturals, the set of multiplexers is finite, and no part
of an HTTP method is a whole login. Two more say what the code relies on: `FullAt` is not 0
(it is half of `SINGLE_MULTIPLEXER_MAX_CONNECTION`, 32), since a new multiplexer gets the
connection that waits for it without a question to `full()`; and a body is shorter than
`Wide * Wide`, which `encode_packet_header` asserts (`kpacket.cpp:128`).

*Data* (`DataLemmas`). The induction theorems of the library take an operator, which the
installed provers cannot instantiate; here a property is the set of the numbers that have it.
That every nonempty set of naturals has a least member (`LeastNat`) follows from the
well-foundedness of the inclusion of finite sets, and from it `InductionTo`. A recursive
function of the models is by definition any function that satisfies its equation, so nothing is
known of it before one exists: `BoundedRecursion` and `RecursionExists` give one for a recursion
on a measure that decreases, `LoopExists` for a loop, and `LoopInvariant` is the rule of
invariants for loops. Then it says what `FlattenSeq` does to an appended or concatenated sequence, and
that the sums of a sequence's entries exist and agree where the entries do (`SumExists`,
`SumsAgree`), with the same means.

*KProxyMux* (`KProxyMux_proofs`). `ServerInv` (an id waits at the server exactly while its
relay is unconnected), `ClientInv` (an entry of `wait` belongs to the holder of the id, the
holder is in the state `waiting`, and a request holds one id) and `GoneIsEmpty` are each
inductive over `TypeOK`. `CallbackHeldWhileWaiting` alone is not: that no request holds two
ids is needed to close a stream without closing another. `ImplementsRequests` proves that
every step is a step or a stutter of `ConnectRequests` under the refinement; its fairness is
left to TLC.

*Order of packets* (the second part of `KProxyMux_proofs`). `ReuseFollowsClose` follows from `OrderInv`,
which adds that, while the client lives, a packet whose request no longer holds the packet's id
is that request's CLOSE or has it further behind in the queue (`Behind`).
`NoDataBeforeAnswer` needs `KnownInv` (a request which the server or a packet in flight knows
under an id has been sent and holds no other id) and `AnswerInv` (a FORWARD to a request which
still waits has its ACCEPT in front of it, and a relaying end of the server whose request still
waits has its ACCEPT under way).

*StreamRelay* (`StreamRelay_proofs`). One invariant `Ok(n)` per end: a stopped stream has its
reason, every armed timer carries a stamp not newer than the current one, and what the peer
was last told, through the packets in flight, is what this end does. `WordStep` says what
appending and removing a packet does to the last word.

*ClientSessions* (`ClientSessions_proofs`). `AppInv` says for one application which states of
its session, its connection, its reply and the pointers go together; `MuxInv` that a callback
is held exactly before the tunnel is built and by a connection of that multiplexer; `Counted`
that the counter is the number of live multiplexers. No one of the properties is inductive:
that a hand-over is ready needs the reply, the reply needs `m_socks5`, and that needs the pair.
`NeverOverfull` follows from `Bounded`, which adds that the streams of a multiplexer are
finitely many, and from `MuxInv`: the connection that calls back when a tunnel is built is the
only one of its multiplexer, and every later one has asked `full()`.

*TunnelHandshake* (`TunnelHandshake_proofs`). `BuiltIsServed` and `BrowserServed` are parts of
`Inv`. Its `ClientInv` says where the login is: as long as the server has not decided, what it
holds and what is in flight make up the login (`LoginUnderWay`); once it has, the client's
bytes begin with an acceptance only if the user was in the configuration (`Accepted`,
`Rejected`). Two lemmas carry it: `LoginReadBack`, that the server reads from a login what the
client wrote into it, whatever follows, and `MethodComesFirst`, that no part of a request
passes for a login before its method is recognised. `PacketsInv` adds the packets: before both
ends are past the handshake nothing is sent, and its messages are then used up to their last
byte; from then on each direction `Follows` the bytes that were written, which are those of the
packets not yet dispatched, and what an end holds is less than one packet. It rests on what the
encoder and the decoder compute: a packet of any length, in each of the three forms of header,
is read back as it was written, no proper part of it is taken for a packet, and the decoder's
recursion, which exists by `RecursionExists`, returns the packets that are whole and keeps the
rest. `TypeOK`, `PacketsInOrder` and `NothingHeldBack` follow for every split of the bytes.

*HttpSession* (`HttpSession_proofs`). `WireLayout` says how the requests lie on the wire: the
head of each behind all of the one before. `Passed` is the heart of the invariant: what the
parser has passed (`m_max_ptr`) `Splits` the wire, with the heads of the requests that were
begun in front and those of the others behind, and a request that is not complete is `Unended`,
its last token being behind. So the rest of a read that `FinishRequest` keeps, and what was
pushed back before it, begins in front of the head of the next request (`NextHead`), whatever
else the read held. `Done` and `Begun` say which responses are complete, which one is under way
and at which byte it goes on; `Sending` ties that place to `cur`, `end` and `size`, and says
that the next chunk is not empty unless the file has shrunk; `Paid` that the counter of
buffered bytes covers every write not yet reported, so that it never wraps. `ResponsesInOrder`
says that an answer has all that is `Due`, and that this is no more than was `Promised`; of a range
it is less, and nothing is proved of the rest that the code promises there. The property is not
inductive: it needs `Begun`, and that two requests are never under way needs `Passed`. Several requests may be answered within one callback (`Settle`): its recursion ends,
as each one started consumes its part of the read, and `LoopInvariant` carries the invariant
through it (`SettleInvariant`).

*ConfigFile* (`ConfigFile_proofs`). `TypeInv` adds to `TypeOK` that only a save truncates and
writes, and that the open descriptors are finitely many, so that there is another one; it needs
`Owned`: while a `UVFile` lives it has closed nothing and its `m_fd` is open. `Lone` and
`Accounted` speak of calls that have not met (`raced` is empty): one runs at a time, and every
descriptor is the file's, closed or just opened. `DescriptorsClosed`, the safety half of
`DescriptorsReleased`, follows. `RulesInv` adds for rules that nothing was refused: then no
request fails and the position is 0 when a load measures the file, and so `LoneLoadsHold`: the
assertions of finding 4 hold unless two loads meet. The run shows that they fail when two do.

*WebSocketEnds* (`WebSocketEnds_proofs`). `IInv` follows the marks of the bytes on the way:
whether a frame begins at a byte and whether the byte belongs to a close frame. `Sound` says
that nothing begins behind a close frame that an end has sent, written or still queued, and that
an open end has sent none; `Owned` that the manager leaves an end that has taken or sent a close
frame; `Counted` (part of the types) that the counter of unwritten bytes is their number. So
the close frame is the last that one read brings, and the loop of `read_callback` ends with the
frame whose listener deletes the object: `AssertionsHold`. The proof takes the code's two loops,
`extractMultiFrameFromData` and the one of `read_callback`, with `LoopInvariant`. It does not
need what the frames say, only which bytes begin one: so it holds for any value of `PayloadCuts`,
also where the extraction drops or repeats bytes (finding 3).

`MessagesIntact` is proved where `PayloadCuts` is `FALSE` (where it is `TRUE`, finding 3 refutes
the property), by adding `Conversation` to `IInv`. `Delivers(w, r, c)` says of a writer, its reader
and the bytes under way that, for some number k of frames, the reader has reported what the
first k frames mean and keeps what they leave of a message in fragments (`Listened`), unless it
has reported an error; and that its `m_remain`, the wire and the queue of the writer together
carry the frames behind the k-th, byte by byte and, while the writer lives, to the last one
(`Carries`, `Complete`). `Short`, that the reader keeps less than a frame, and `Cut`, that what
comes next does not begin inside a payload, are what makes the arithmetic of
`extractFrameFromData` right: `RestIsBehind` shows that its rest is then what is behind the
frame. `Writes` says that an end divides its bytes only in front of a payload and opens no
message before it has ended the last. The property alone is not inductive: it does not say where
the bytes are that make up the next message. TLC has checked `Conversation` as an invariant of
the instance of `websocket` first, and of another one with frames without payload.

*Only model-checked*: liveness (`FlowResumes`, `BothEndsClose`, `BothEndsGo`, `ReplySettles`,
`HandshakeEnds`, `RulesCatchUp`, `DescriptorsReleased`, `EveryRequestAnswered`,
`CloseReachesManager`, the fairness of `ConnectRequests`), because TLAPS has no rule for it
here.

## 6. What is not modelled

See `PROJECT.json`, "components". The bytes of the SOCKS5 messages and the stream between relay
and provider are planned above. The libuv and TLS wrappers rest on the `evtls` submodule, whose
source is not part of the repository; the models describe them as external. Of the manager only
its WebSocket sessions are modelled, because no request reaches the rest. The proxy rules and
`RelayConnection` are dead code. Of the modelled components, the notes say what is left out.
