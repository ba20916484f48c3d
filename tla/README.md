# Zmqcpp: a TLA+ model of the client wrapper and of the libzmq core below it

Zmqcpp is a C++ wrapper (`src/zmq/`) that turns the ZeroMQ DEALER and STREAM
sockets into a client object with a background poll thread, automatic
reconnection and per-thread front sockets.  The repository ships the library
it is built on, libzmq 4.0.7, with local changes (`src/zeromq/`).  This
directory holds the TLA+ modules, the TLC models and the TLAPS proofs about
both.

## Inventory

| Component | State | Operations | Hard behaviour |
|---|---|---|---|
| `ZmqClientBase` (wrapper) | `m_bRun`, `m_transportState`, `m_recvthread`, front sockets, `m_bStopMonitor`, `m_lastpong` | `Reset`, `Init`, `Stop`, `SendData`, `RecvPoll`, `AutoConnect`, monitor callbacks | user threads, poll thread and timer thread change the same fields; restart from a callback |
| `TimerWorker`, `ThreadGroupImpl` (wrapper) | `m_bRunning`, the interrupter, the posted handlers | `Start`, `Stop`, `OnTimeout`, `Wait` | stop and restart while a handler is waiting |
| `Monitor`, `Socket`, `Context` (wrapper) | a socket handle, its address | thin calls of the C API | lazily re-created sockets |
| `ZmqClientDealer`, `ZmqClientStream` | none of their own | two-part sends, forwarding of the back socket | one part sent and the other not |
| `ypipe_t`, `yqueue_t` | element memory, `w`, `f`, `r`, `c` | `write`, `unwrite`, `flush`, `check_read`, `read` | lock-free hand-over, sleeping reader |
| `mailbox_t`, `signaler_t` | command pipe, `active`, pending signals | `send`, `recv` | signal after unlock, double signal |
| `pipe_t` | state, watermarks, counters | `read`, `write`, `flush`, `terminate`, commands | asynchronous termination from both ends |
| `own_t`, `object_t` | owned set, sequence numbers, pending acks | `launch_child`, `term_child`, `process_term` | objects created while their owner shuts down |
| `ctx_t`, `reaper_t`, `socket_base_t` | slots, sockets, endpoints, pending connections | `create_socket`, `destroy_socket`, `terminate`, `close` | termination racing with close and inproc connect |
| socket patterns (`lb_t`, `fq_t`, `dist_t`, `req_t`, `rep_t`, `router_t`, `dealer_t`, `pair_t`, `xpub_t`, `xsub_t`, `stream_t`) | active pipe partitions, multi-part flags | `xsend`, `xrecv`, pipe events | multi-part messages across pipes that come and go |
| `session_base_t`, `tcp_connecter_t`, `stream_engine_t` | linger timer, reconnect backoff, handshake stage | attach, detach, reconnect, handshake | timers racing with events |
| `tcp_listener_t`, `ipc_listener_t`, `ipc_connecter_t` | descriptor, bound name, accept filters | bind, accept, close, retry | descriptors at their limit, names bound again |
| pollers, `poller_base_t` | descriptor tables, pending events, timers | `add_fd`, `rm_fd`, the loop, timers | handlers that change what the loop is iterating over |
| blocking calls, `zmq_poll` | `ticks`, `last_tsc`, the caller's timeout | `send`, `recv`, `process_commands`, poll | a command between check and wait |
| socket monitor, `zmqcpp::Monitor` | `monitor_socket`, event frames | `monitor_event`, `stop_monitor`, `MonitorRecv` | several emitting threads, a reader that is gone |
| `zmq::proxy` | state, poll items | forward, capture, control commands | a slow peer, a blocking capture |
| mechanisms (NULL, PLAIN, CURVE) | handshake state | `next_handshake_command`, `process_handshake_command` | out-of-order commands |
| codecs, `msg_t`, `dbuffer_t`, tries | decoder step, reference counts, prefix counts | decode, encode, copy, add, rm | boundary sizes, sharing |

### How the parts interact

The application calls a `ZmqClientDealer` or `ZmqClientStream` from any of its
threads.  Each of them sends on its own front socket, over inproc, to the back
socket of the poll thread, which forwards the parts to the client socket and
delivers what arrives through callbacks.  A `TimerWorker` calls `AutoConnect`
again and again, which restarts the poll thread when the connection is lost or
the heartbeat fails.  A monitor socket reports connects and disconnects to the
poll thread.

Below, every socket lives in the thread that uses it.  It talks to its peers
through pipes (`pipe_t`, one `ypipe_t` per direction) and through commands in
the `mailbox_t` of each thread.  Sessions, listeners and connecters run in I/O
threads and form a tree of `own_t` objects below their socket.  Closing hands
the socket to the reaper thread, which drives the asynchronous shutdown of the
tree and of the pipes; `zmq_ctx_term` waits for the reaper.

### What makes each part correct

| Part | Properties stated (definitions) |
|---|---|
| `ypipe_t` | it is a FIFO whose reader may sleep (`ImplementsFifo`), from the invariant `IInv`; every flushed item is read (`AllRead`, part of `Delivered`) |
| `yqueue_t` | no chunk is leaked, freed in use or used twice, and both ends see the right element (`YqueueSafe`) |
| `mailbox_t` | the assertions of `recv` and the count of signals (`MailboxInv`); no lost wake-up (`Delivered`); no destruction under a sender (`NobodyInsideAfterDestroy`) |
| `dbuffer_t`, `msg_t` | the reader never goes back to an older message (`NewerOnce`); the reference counts are right (`CountedRight`) |
| `pipe_t` | `PipeSafe`: handlers never assert, nothing deleted is touched, watermarks hold, the delimiter comes last; `PipeLives`: termination completes, a blocked writer resumes |
| `own_t`, `ctx_t`, reaper | `OwnSafe`: nobody calls the dead, owners outlive and count their children; `CtxSafe`: live references, no connect stranded, done means gone, inproc assertions; `ShutdownEnds` |
| `lb_t`, `fq_t` | `LbRight`, `FqRight`: whole messages, an exact active partition, bounded bypassing |
| tries, `dist_t`, PUB and SUB | `TriesExact` against a set of subscriptions; `PubSubRight`: messages reach the matching subscribers whole, and both sides agree on the subscriptions |
| REQ; ROUTER, REP, STREAM | `RightReply`: the reply handed out answers the last request, but for a peer that contradicts itself; `Routed` |
| pollers | `RightHandler`: an event goes to the object that is registered, never to one that took its descriptor |
| sessions, connecters | `SessionSafe`: no assertion but in the races the module names, waits that back off; they end (`ConnectionsEnd`) |
| engine, greeting, codecs | `EngineSafe`: every message once and in order; `WireRight`: both ends settle on the older protocol, frames come out as they went in; input and output go on (`ConnectionsEnd`) |
| mechanisms | `MechanismSafe`: no traffic before both ends have agreed and authenticated, no nonce twice; every handshake ends (`ConnectionsEnd`) |
| blocking calls, `zmq_poll` | `CallsHonest`, `CallsReturn` |
| monitor | `EventsTrue`: each event once, in order, to its own handler (`OwnHandler` by itself); `MonitorEnds`: nobody is held up, the context's end included |
| proxy | `ProxyObeys`: commands are obeyed (`Obeyed`), messages pass whole, in order and with their copies (`PassedWhole`) |
| listeners | `ListenerSafe`: descriptors are neither lost nor closed twice, names lead to who has bound them; `ClientsServed` |
| `ZmqClientBase` | `ClientSafe`: one poll thread, stopped means stopped, front sockets lead to the present back socket; `ClientLives`: every Reset returns, a failure is followed by a new poll thread |
| `TimerWorker` | `TimerAlive`, `TimerEnds`, `NoHandlerAfterDestroy` |
| heartbeat | `NoSpuriousReset`, `SilenceNoticed` |
| `ZmqClientDealer`, `ZmqClientStream` | `ServerGetsCalls`, `CallsArrive` |

## Modules and how they correspond to the code

`PROJECT.json` maps every definition to its lines.  In all modules an action is
one access to shared state, one critical section, or one command handler with
everything it calls.

| Module | Code | State | Steps |
|---|---|---|---|
| `Ypipe` | `ypipe.hpp` | positions `w`, `f`, `r`, `c`, the element memory, where the writer is in `flush` | one per access to `c`, with the thread-local work around it |
| `YpipeAbs` | the contract of `ypipe_t` | partial, complete and readable items, sleeping reader | write, unwrite, flush, read, fall asleep, wake |
| `Yqueue` | `yqueue.hpp` | heap, links, positions, `spare_chunk` | push, unpush and pop, split at the exchange of the spare chunk |
| `Mailbox` | `mailbox.cpp`, `signaler.cpp` (eventfd) | mutex, command pipe (as `YpipeAbs`), signals, place of every sender and of the receiver | lock, write and flush, unlock, signal; wait, drain, give back, read, destroy |
| `Pipe` | `pipe.cpp` | both ends: state, flags, counters, upipes, commands on their way | the API calls and one step per command |
| `Own` | `own.cpp`, parts of `session_base.cpp`, `tcp_connecter.cpp`, `ctx.cpp` | the tree: owned sets, sequence numbers, acknowledgements, mailboxes per thread | launch, terminate, connect, bind and one step per command |
| `Ctx` | `ctx.cpp`, `reaper.cpp`, `socket_base.cpp` (inproc, close, reaping), `object.cpp` | the context's fields, the sockets, their mailboxes and inproc pipes, the places of application threads, reaper and `terminate` | one critical section or command handler |
| `PipeArray`, `Lb`, `Fq` | `array.hpp`, `lb.cpp`, `fq.cpp` | the array of pipes, `active`, `current`, `more`, `dropping`; pipes by the contract of `Pipe` | attach, terminate, activate, and one iteration of `sendpipe` or `recvpipe` |
| `TimerWorker` | `TimerWorker.cpp`, `ThreadGroupImpl.cpp` | `m_bRunning`, the interrupter, handlers in the io_service, the threads of the group and their places | one per access; boost is external |
| `ZmqClient` | `ZmqClientBase.h` | the fields that threads share, the place of every thread, front sockets (`Null` for one that was not made) | one per access or call |
| `Heartbeat` | `ZmqClientBase.h`, `ZmqConst.h` | tick counters modulo a width, real age of the last reply | tick, pong, settings, the two reads of `AutoConnect` |
| `ClientSend` | `ZmqClientDealer.h`, `ZmqClientStream.h`, `Socket.h`, `zmq.cpp` (`zmq_recviov`, `zmq_sendiov`) | front queues, parts in the poll thread, the client socket's place in a message, what the server got | one per part sent or received |
| `Conflate` | `ypipe_conflate.hpp`, `dbuffer.hpp` | the two buffers, the lock, `has_msg`, the places of writer and reader | one per access to the lock or `has_msg` |
| `Msg` | `msg.cpp`, `dist.cpp` (`distribute`) | message slots, contents, reference counts | init, move, copy, close, and one pipe of a distribution |
| `Trie`, `Subscriptions` | `trie.cpp`, `mtrie.cpp` | nodes as nested tables, and the subscriptions they stand for | add, rm, rm of a pipe |
| `PubSub` | `dist.cpp`, `xpub.cpp`, `xsub.cpp`, `sub.cpp` | the publisher's tries and its array of pipes, per connection both directions | a call, a pipe event, a loss or a new connection |
| `Req` | `req.cpp`, `dealer.cpp` | the phase of the request, `reply_pipe`, request ids, what each peer was asked and how often it answered, replies on their way | a part sent or received, a pipe event |
| `Router` | `router.cpp`, `rep.cpp`, `stream.cpp` | identities, `outpipes`, prefetched frames, the phase of each direction | a frame sent or received, a pipe event |
| `Poller` | `epoll.cpp`, `kqueue.cpp`, `poll.cpp`, `select.cpp`, `devpoll.cpp`, `poller_base.cpp` | the poller's table and the events of the last wait, registrations, timers | a wait, a handler call, a call back into the poller |
| `Session` | `session_base.cpp`, `tcp_connecter.cpp` | the session's fields, its ends of pipes, its connecter, commands for it | one handler, or a step of the socket |
| `Engine` | `stream_engine.cpp` after the greeting | flags of the engine, both pipes, the network | `in_event`, `out_event`, `activate_msg`, and the socket's steps |
| `Greeting` | `stream_engine.cpp` (`plug`, `handshake`) | what has been sent and received by each end | one read or write |
| `Codec` | `encoder.hpp`, `decoder.hpp`, the v1, v2 and raw codecs, `wire.hpp` | encoder and decoder steps, bytes on the wire | a buffer filled, written or read |
| `Mechanism` | `null_mechanism.cpp`, `plain_mechanism.cpp`, `curve_client.cpp`, `curve_server.cpp`, `mechanism.cpp` | both mechanisms, their engines, ZAP handlers, commands on their way | one command produced or processed |
| `SocketCall` | `socket_base.cpp` (`send`, `recv`, `process_commands`, `getsockopt`), `zmq.cpp` (`zmq_poll`) | sockets with one pipe, their mailboxes, the place of the caller | one wait or check |
| `Monitor` | `socket_base.cpp` (monitor), `Monitor.h` | the monitor socket and its pipe, the context's stop, the event each thread sends, what the client got | one frame sent or received, a stop taken |
| `Proxy` | `proxy.cpp` | messages at both sides, the capture, the control commands, the place of the proxy, whether both sides are one socket | one poll, one frame, one command, a call that fails |
| `Listener` | `tcp_listener.cpp`, `ipc_listener.cpp`, `ipc_connecter.cpp` | listeners, names, backlogs, connecters, descriptors | bind, plug, accept, close, connect, retry |

The theorems are in modules of their own: `PipeProofs`, `OwnProofs`,
`ServicesProofs` (`TimerWorker`, `Heartbeat`) and `ZmqClientProofs` extend the
modules they are about; `QueuesProofs` (`Ypipe`, `Mailbox`, `Yqueue`, `Conflate`,
`Msg`), `PatternsProofs` (`Lb`, `Fq`, `Req`) and `CallsProofs` (`SocketCall`,
`Monitor`, `Listener`) the module or the model that has theirs.

The composition goes by contract.  `Ypipe` is shown to implement `YpipeAbs`;
`Mailbox` and `Pipe` use a queue with a sleeping reader as `YpipeAbs` states
it; `Lb`, `Fq`, `Ctx` and `ClientSend` use pipes as `Pipe` shows them to
behave (whole messages, full only between messages, a termination that
completes once both ends take part); `ZmqClient` uses the timer as
`TimerWorker` shows it.

The `MC` modules instantiate these modules for TLC.  Where one model covers
several components (`MCQueues`, `MCLifetimes`, `MCPatterns`, `MCSockets`,
`MCTransport`, `MCCalls`, `MCServices`), a variable `model` that never changes
selects the one that moves: the states add up instead of being multiplied, each
component's fairness is assumed only of behaviours in which it is selected, and
its properties speak of its own variables.

Some behaviour of the code or its surroundings is switched by a constant.  The
passing runs state what holds without it.  With it, TLC finds what the code
then does; for four of the switches a run of its own shows it (see below).

| Switch | Module | What it adds | What TLC finds |
|---|---|---|---|
| `Overlap` | `ZmqClient` | `Reset` of the application while the timer calls `AutoConnect` | two poll threads (`client_overlap`) |
| `MaxHiccups` | `Pipe` | a session that replaces its inpipe during a termination | a termination that never completes (`pipe_hiccup_hang`) |
| `ThirdGoes` | `Lb`, `Fq` | one of three active pipes goes in mid-message | a message split over two pipes, against `zmq_send.txt:39`, or spliced from two |
| `Overloads` | `ClientSend` | the `const char *` overload of `SendData` | half messages (`send_chars`) |
| `CommandSizes` | `ClientSend` | empty commands | data sent without its command when the front socket was full |
| `ConnectedFirst` | `ClientSend` | forwarding before the connection is up | data sent without its command; a STREAM client that takes data for identities from then on |
| `SendOverlap` | `ZmqClient` | `SendData` while another thread is inside `Reset` | a front socket that leads to a back socket of the past |
| `ClosingMidMessage`, `CloseMidMessage` | `Lb`, `Fq` | the pipe in mid-message begins to terminate | the assertions `lb.cpp:100` and `fq.cpp:99` |
| `RestartInDestroy` | `TimerWorker` | the work routine calls `Start` during the destruction | a thread group that waits for ever (`ThreadGroupImpl.cpp:46`) |
| `Race` | `Heartbeat` | a reply between the two reads of `AutoConnect` | a difference that wraps, and a needless restart |
| `Frozen` | `Heartbeat` | `GetTick` outside Windows, which returns 0 | silence that is never noticed |
| `LatePend` | `Ctx` | a connect pended after `zmq_ctx_term` has begun | `zmq_ctx_term` never returns |
| `PendingAtStop` | `Ctx` | connects pending at `zmq_ctx_shutdown` | `terminate` uses the NULL that `create_socket` returns (`ctx.cpp:111`) |
| `RecvIdentity` | `Ctx` | sockets that want identities | the assertion `ctx.cpp:504` |
| "late timer" | `Session` | the linger timer fires when the pipe has gone and the session waits for its connecter or another pipe | the assertion of the linger pipe in `timer_event` |
| "late loss" | `Session` | a connection lost between the parts of a message whose pipe can no longer be read | the assertion of `clean_pipes` |
| "early proceed" | `Session` | a session that is asked to go while a pipe of an earlier connection is still terminating (`ZMQ_IMMEDIATE`) | a session destroyed before its pipe |
| "late zap" | `Session` | a question to the ZAP handler while the session ends, or a socket that drops the pipe of a session that has a ZAP pipe | `read_activated` of the ZAP pipe with `pipe` NULL |
| "late hiccup" | `Session` | a SUB with an infinite linger time, the default, that loses its connection with the delimiter unread | a session that never ends (`session_base.cpp:478`); the same as `MaxHiccups` in `Pipe` |
| "full pipe" | `Engine` | a connection made while the pipe is full | the assertion that the identity finds room |
| "quick refusal" | `Mechanism` | a ZAP refusal that is there at the first look | a NULL handshake that never ends |
| "timeout", "two threads", "drain timeout" | `Monitor` | a receive that times out between two frames; two senders at once; a client that gives up | events that nobody reported; a destructor that waits |
| `Reported` with `BIND_FAILED` | `Monitor` | a bind that fails | the handler of LISTENING is called (`bind_failed`) |
| `FrontFails` | `ZmqClient` | a thread that gives up when `NewFrontSockets` fails, and leaves a NULL in the map | `Disconnect` of a NULL socket when the front sockets are deleted (`ZmqClientBase.h:607`), and with it the thread that was in `Reset` |
| "rebind", "no descriptors" | `Listener` | an ipc name bound again before the old listener is closed; `EMFILE` | a listener without a name; the assertion at `ipc_listener.cpp:203` |
| "mid reply" | `Req` | a relaxed REQ that sends before it has the whole reply | the rest of an old reply taken for a new one |
| "malformed" | `Router` | an identity with nothing after it, no delimiter | REP and STREAM out of phase |
| "table grows", "own timer" | `Poller` | a descriptor beyond the table of `devpoll_t`; a timer that cancels itself | a handler called through a dangling reference; an assertion |
| `SubHwm` | `PubSub` | pipes of an XSUB that fill up | dropped subscriptions, and a `dist_t` that swaps past its array |

## Runs that pass

| Run | Configuration | Properties | What it shows |
|---|---|---|---|
| `queues` | `MCQueues.cfg` | `IInv`, `YqueueSafe`, `MailboxInv`, `NobodyInsideAfterDestroy`, `NewerOnce`, `CountedRight`, `ImplementsFifo`, `Delivered` | The lock-free pipe implements a FIFO with a sleeping reader, its chunked memory is never leaked, used after free or mixed up, the mailbox on top asserts nothing and is not destroyed under a sender, the one-message pipe of ZMQ_CONFLATE never goes back to an older message, the reference counts of messages are right whoever closes last, and everything that was flushed or sent is read, whatever the interleaving. |
| `pipe` | `MCPipe.cfg` | `PipeSafe`, `PipeLives` | Both ends of a pipe terminate, write, read and hiccup in any order without a failed assertion, a dangling reference, a broken watermark or a message behind the delimiter; a blocked writer resumes, and without a hiccup every termination completes. |
| `lifetimes` | `MCLifetimes.cfg` | `OwnSafe`, `CtxSafe`, `ShutdownEnds` | The tree of objects below a socket, and the sockets, inproc endpoints and pending connects of a context, shut down while children are launched, engines attached and binds arrive: nobody reaches a destroyed object, owners outlive and count their children, no connect stays pending on a bound address, done means gone, and both shutdowns complete if no connect is pended after zmq_ctx_term has begun. |
| `patterns` | `MCPatterns.cfg` | `LbRight`, `FqRight`, `RightReply` | Load balancer and fair queue keep their arrays exact and messages whole while three pipes come, fill up, sleep, wake and go, also between the parts of a message, and pass no pipe over for long; a REQ over three pipes gets the reply to its request, and takes another one only from a peer that has answered a request twice, and only without request ids. |
| `sockets` | `MCSockets.cfg` | `TriesExact`, `PubSubRight`, `Routed`, `RightHandler` | The subscription tries hold exactly the subscriptions, published messages reach the matching subscribers whole and only them, ROUTER, REP, STREAM and PAIR deliver to the peer that was named, and a poller calls the handler of the object that is registered, while peers come, fill up, and go. |
| `transport` | `MCTransport.cfg` | `SessionSafe`, `EngineSafe`, `WireRight`, `MechanismSafe`, `ConnectionsEnd` | A session, its engine, the greeting, the codecs and the security handshakes: no assertion fails while timers, connections and commands come in any order but the races that Session, Engine and Mechanism name, waits between connection attempts back off, messages cross the engine once and in order, both sides settle on the older protocol and frames come out as they went in, no traffic passes before authentication and no nonce is used twice, and every connection comes to its end or flows on, of a SUB with an infinite linger time only if it is not lost with the delimiter unread. |
| `calls` | `MCCalls.cfg` | `EventsTrue`, `CallsHonest`, `CallsReturn`, `MonitorEnds`, `ProxyObeys`, `ListenerSafe`, `ClientsServed` | Blocking send, recv and zmq_poll answer truly and come back; a monitor hands over the events that were reported and holds nobody up, also when the context is terminated; a proxy forwards whole messages and obeys its control socket unless it has one socket for both sides and that one's peer does not read; and listeners lose no descriptor and accept every client. |
| `services` | `MCServices.cfg` | `ClientSafe`, `TimerAlive`, `NoHandlerAfterDestroy`, `NoSpuriousReset`, `SilenceNoticed`, `ClientLives`, `TimerEnds`, `CallsArrive` | Application calls, the reconnect timer, callbacks that call Reset and a sending thread interleave, as long as two Reset calls, or a Reset and a SendData, do not overlap: one poll thread runs at a time, Reset () really stops the client, front sockets lead to the back socket that is there, every Reset returns and a failed connection is followed by a new poll thread. The timer that drives the client stays alive, quiesces and can be destroyed; the heartbeat restarts a client exactly when its last reply is overdue, wherever the tick counter wraps; and what a DEALER or STREAM client sends reaches the server as whole messages. |

Every property of these runs has a mutant in `PROJECT.json`: a definition
changed the way a plausible bug would change it (the operators marked
"Plausible bug" in the modules), under which TLC finds the property violated.

## Runs that find a disagreement

In these runs TLC finds a behaviour of the code that contradicts what a
comment, a document or an assertion of the repository says.

| Run | Property | What happens | Where |
|---|---|---|---|
| `client_overlap` | `OnePollThread` | When the timer thread and the application are inside Reset at the same time both pass the joinable check of Init and two poll threads run. | `ZmqClientBase.h:339` |
| `bind_failed` | `OwnHandler` | The Monitor gives a BIND_FAILED event to the handler that was set for LISTENING. | `Monitor.h:160` |
| `pipe_hiccup_hang` | `TerminationCompletes` | A session that hiccups the pipe after the socket has written its delimiter throws the delimiter away and then waits for it for ever. | `pipe.cpp:244` |
| `send_chars` | `ServerGetsCalls` | The char * overload of SendDataAndCommand gives up after a command part that was sent, and the part sticks to the next message. | `ZmqClientBase.h:133` |

The findings in `PROJECT.json` quote the lines that state the expectation.

Three more disagreements are stated with the properties they limit and have no
run of their own.  The random part of a reconnect interval comes on top of a base
that has reached the maximum (`tcp_connecter.cpp:188`), so a wait may be longer,
by up to `ZMQ_RECONNECT_IVL` less one, than `ZMQ_RECONNECT_IVL_MAX`, which
`zmq_setsockopt.txt` calls the maximum period that is waited: `BackOff` states the
range the code keeps to, base and random part.  A SUB with the default linger time that loses its
connection with the delimiter unread never ends ("late hiccup"): this is
`pipe_hiccup_hang`, seen from the session.  And where frontend and backend of a
proxy are one socket, a peer that does not read holds up the control commands:
`HeldUp` names that state, and `Obeyed` excepts it.

## Bounds

- `Ypipe` (4 elements, 2 values): writer and reader meet in every relative
  position of `w`, `f`, `r` and `c`, several sleeps and wake-ups included.
  `QueuesProofs` removes the bounds.
- `Yqueue` (chunks of 2 elements, 4 addresses, 5 elements in the stream): the
  writer crosses two chunk borders, back and forth through `unpush`, the spare
  chunk is taken and replaced, and a freed address is used again.
  `QueuesProofs` removes the bounds.
- `Mailbox` (3 senders, 2 commands each): a sender that has unlocked and not
  yet signalled is overtaken by the next one, and the eventfd holds two
  signals.  `QueuesProofs` removes the bounds for the invariants.
- `Pipe` (a high watermark of 3 and a low one of 2 for the socket, 4 messages,
  one call of `terminate` per end, one hiccup): enough to fill the pipe, pass
  the low watermark and cross the terminations in every order.  `PipeProofs`
  removes the bounds for the invariant.
- `Conflate` (4 writes), `Msg` (4 slots, 2 contents, up to 3 pipes): a writer
  that is passed over by the lock twice; a content shared by three and closed
  in any order.  `QueuesProofs` removes the bounds.
- `Own` (socket, session, connecter, listener, two I/O threads, one inproc
  bind): one grandchild, one lingering child and one that asks for its end.
  `OwnProofs` removes the bounds for the invariant.
- `Ctx` (a connecting and a binding socket, one address, the PAIR socket that
  `terminate` makes, at most one signal): every interleaving of the four
  critical sections of bind and connect with the shutdown.
- `Lb` and `Fq` (3 pipes, 5 messages of up to 2 parts, or 5 parts that
  arrive): a swap, an erase and a wake-up on both sides of `current`, and the
  longest bypass (the count of a bypass starts again when a pipe goes, which
  may put any pipe last).  `Req` (3 pipes, 3 requests, 3 replies, ids up to
  3): a reply of the pipe that is asked, of one asked before and of one never
  asked; a peer that answers twice; a pipe that is lost with the stale reply of
  another one waiting.
  `PatternsProofs` removes the bounds.  Pipes are interchangeable, so symmetry
  is used; the properties of this run are invariants.
- `Subscriptions` (prefixes of each other, neighbours with a gap and a branch,
  4 at a time, 3 of two pipes): tables that grow, are cut from both ends, and
  collapse.
- `PubSub` (2 subscribers, 2 connections each, room for 1 message): a pipe of
  each range of `dist_t`.  `Router` (2
  peers that claim one name, 2 messages each way, 1 to send where an unknown
  peer is no error, as nothing else sets ROUTER and MANDATORY apart).
- `Poller` (2 objects, 2 descriptors, 2 calls from handlers per turn): a
  descriptor removed, closed and given to the other object within a turn.  Timers are
  those of `poller_base_t`, common to all kinds, and are used with one of them.
- `Session` (3 pipes, 2 connections, 4 waits of a connecter, one message of 2
  parts; connecting, SUB, listening, raw and ZAP sessions with linger
  -1, 0 and 1, an immediate one with 1; the plain connecting ones have an
  interval of 2 and a maximum of 5, so that the random part is 0 or 1 and the
  third wait is the first at the maximum), `Engine` (room for
  2 messages, 3 from the peer, 2 connections), `Greeting` (5 kinds of peer, any
  cut of the bytes), `Codec` (bytes up to 7: sizes 0, 6, 7 and 8 meet the
  borders of v1 and v2; a buffer of 6), `Mechanism` (each mechanism with and without ZAP, a
  wrong key, 2 messages each, nonces modulo 8).
- `SocketCall` (2 sockets, room for 1 message, time-outs -1, 0 and 1),
  `Monitor` (2 I/O threads beside the application and the reaper, 3 events,
  room for 1), `Proxy` (two sockets or one, 2
  messages a side, room for 1, PAUSE, RESUME, TERMINATE and a command of
  several parts), `Listener` (2 listeners, a tcp and an
  ipc address, 2 clients of which one passes the filter, 2 descriptors).
  `CallsProofs` removes the bounds of `SocketCall`, `Monitor` and `Listener` for
  the safety properties.
- `TimerWorker` (2 application threads, 6 calls), `ZmqClient` (3 poll threads,
  3 calls of the application, 1 from a callback, 1 sender): a restart during a
  stop during a restart.  `ServicesProofs` and `ZmqClientProofs` remove the
  bounds for the invariants.
- `Heartbeat` (counter of 16 values, 3 ticks per second, timer period 4): all
  positions of the wrap.  `ServicesProofs` removes the bound.
- `ClientSend` (2 threads, front pipes of 1 message, 4 calls): both fronts full
  and a connection that comes and goes between any two parts.

Every bound is a constant named in the module and explained where it is
declared.  `CHECK_DEADLOCK FALSE` is set because each of these systems may
come to rest: queues run empty, bounds are used up, objects are destroyed.
That nothing stops too early is what the liveness properties say.

## Fairness

Fairness is assumed only of threads that are inside a call or have an event
waiting, which the operating system's scheduler justifies; nobody is obliged
to begin a call.

- `Ypipe`: a `flush` that began ends, and a woken reader reads.  Both users of
  the class read until `read` fails.
- `Mailbox`: a sender inside `send` finishes; the receiver's poller reports a
  signalled descriptor.
- `Pipe`, `Own`: the thread of each end processes its mailbox; a reader reads
  what is there and a writer flushes.  Sockets of an application do so only
  inside calls, so `TerminationWithoutHiccup` is about applications that use or
  close their sockets.
- `Ctx`: threads inside a call, the reaper and `terminate` go on; strong
  fairness for `zmq_close`, because the documentation of `zmq_ctx_term` asks
  for every socket to be closed; a call interrupted by a signal is repeated.
- `ZmqClient`, `TimerWorker`: calls and poll threads go on, the timer fires
  (each poll thread with the Resets that its callbacks call);
  `AutoConnect` strongly, because a thread that sends again and again does not
  keep the timer's thread from its turn.
- `Session`, `Engine`, `Mechanism`: somebody for whom there is something to do
  goes on: an I/O thread with a command, a linger timer or a readable pipe, the
  socket's thread with an answer to give, the ZAP handler.  No connection has to
  come about, and nobody has to close.  `Greeting`: strong fairness for writing,
  as the network takes bytes again and again.
- `SocketCall`, `Monitor`, `Listener`: the threads run, time passes, reconnect
  timers fire, the client goes on calling `MonitorRecv`, but owes the
  monitored socket no call.  `Proxy`: its own thread runs, and no call has to fail; its peers owe it nothing, except the reader of a blocking
  capture.
- `ClientSend`: calls and the poll thread go on; strong fairness for receiving
  from each front socket, from the fair queueing that `Fq` shows.

## Proofs

`tlapm` checks these theorems for every value of the constants.

| Theorem | Module | What it establishes |
|---|---|---|
| `MailboxInvariant` | `QueuesProofs` | For any finite set of senders and any number of commands the mutex, the reader state and the signals sent or owed stay consistent, and each sender's commands are received once and in order; this is the inductive strengthening of the assertions in recv (). |
| `RecvNeverAsserts` | `QueuesProofs` | A signal seen by wait () always announces a readable command, and the eventfd read in signaler_t::recv () returns one or two, never zero or more. |
| `TimerInvariant` | `ServicesProofs` | The types and TimerAlive are inductive for any set of application threads and any number of calls, restarts during the destruction included. |
| `TimerAliveAlways` | `ServicesProofs` | A timer whose m_bRunning is true always has an OnTimeout posted, under way or about to be posted: no race of Start and Stop leaves a dead timer that Start would refuse to revive. |
| `NoHandlerAfterDestroyAlways` | `ServicesProofs` | If no Start is under way during the destruction, no thread of the group is inside OnTimeout once the destructor has returned. |
| `HeartbeatNotSpurious` | `ServicesProofs` | For every counter width and every setting that fits into it, and as long as no pong comes between the two reads of AutoConnect, a client whose last reply is younger than interval + delay is never restarted. |
| `HeartbeatNoticesSilence` | `ServicesProofs` | Under the same conditions, with a clock that moves, no silence outlasts interval + delay and the time since AutoConnect last looked. |
| `YpipeInvariant` | `QueuesProofs` | For every number of items and every interleaving the pointers w, f, r and c stay ordered and c is NULL only while the reader sleeps: the inductive invariant that makes the unsynchronised c.set in flush safe. |
| `ReaderOwnsFrontAlways` | `QueuesProofs` | What the reader has prefetched was flushed by the writer and is never taken back by unwrite. |
| `YpipeImplementsFifo` | `QueuesProofs` | For every number of items and every interleaving, what the lock-free pipe does is what a FIFO with a partial, a complete and a readable part and a sleeping reader does: each step of Ypipe is a step of YpipeAbs or a stutter. |
| `NobodyInside` | `QueuesProofs` | Once the receiver has got the last command and passed sync.lock and sync.unlock of the destructor, no sender is inside the mailbox. |
| `LbAlwaysRight` | `PatternsProofs` | For every finite set of pipes lb_t sends whole messages, keeps exactly the writable pipes in the active part of its array, keeps its zmq_assert true and passes no pipe over as often as there are pipes, unless a pipe begins to terminate in mid-message or a third active pipe goes there. |
| `FqAlwaysRight` | `PatternsProofs` | For every finite set of pipes fq_t hands over whole messages, keeps exactly the pipes that may have something active, keeps its zmq_assert (!more) true and starves no pipe, with the same two exceptions. |
| `ReqAlwaysRight` | `PatternsProofs` | For any pipes, strict or relaxed, with or without request ids, however late, often or badly the peers answer and whichever pipes are lost meanwhile, the reply that a REQ socket hands out answers the request it was sent last, except that without request ids a peer that has answered a request more than once may be believed; and its assertions hold: unless a relaxed socket sends before it has the whole of a reply. |
| `ClientAlwaysSafe` | `ZmqClientProofs` | For any number of calls, callbacks, restarts and sending threads, as long as two Resets, or a Reset and a SendData, do not overlap, at most one poll thread runs, Reset stops the client for good, and front sockets lead to the back socket that is there, whichever of them cannot be made. |
| `YqueueAlwaysSafe` | `QueuesProofs` | For any chunk size, any finite memory and any number of elements, yqueue_t leaks no chunk, frees none twice or in use, and both threads find their element where they look, although they share only the spare chunk. |
| `NewerOnceAlways` | `QueuesProofs` | For any number of messages the reader of a conflating pipe gets newer messages only, and each message is read once, freed once or still in a buffer. |
| `CountedRightAlways` | `QueuesProofs` | For any messages, contents and number of pipes a counted content is freed exactly when its last message goes, whatever is moved, copied, distributed and closed in which order, failing pipes of a distribution included. |
| `PipeAlwaysSafe` | `PipeProofs` | For any watermarks and any number of messages, terminations and hiccups, however the two threads interleave, the assertions of pipe_t's command handlers hold, no freed end or upipe is reached, no more than the high watermark is outstanding and the count of check_write never wraps, and the delimiter is read after every message. |
| `OwnAlwaysSafe` | `OwnProofs` | For every tree of objects below a socket, over any threads and with any number of binds, no object is destroyed while a command for it or the announcement of a bind is on its way, none is asked to terminate twice, and an owner counts each of its children exactly once and goes after them. |
| `EventsTrueAlways` | `CallsProofs` | For any threads, events but BIND_FAILED, and watermark the handlers of a Monitor are given the events that were reported, each once, in their order, by its own handler and with the address it was reported with, although event and address are two frames sent and received by two calls each and the context may be terminated between any two of them: as long as no two threads are in monitor_event at once and no receive of MonitorRecv times out. |
| `ListenerAlwaysSafe` | `CallsProofs` | For any listeners, addresses, clients and number of descriptors every open descriptor has exactly one holder, through binds that fail, refusals, accepts and closes, and a listener is reached under its address until it is closed: unless an ipc address is bound again while a listener has it, or an ipc listener's accept finds no descriptor left. |
| `CallsAlwaysHonest` | `CallsProofs` | For any sockets, time-outs, poll items, watermark and poll rate, and whatever the peers, the context, time and signals do between the steps of a call: a recv or zmq_poll made when a message (or room) is there does not come back without it, EAGAIN comes only after the time-out, and what zmq_poll reports is there when it returns. |

**Ypipe.**  The invariant `IInv` orders the pointers (`front <= r`, `w <= f <=
back`, and `c` either `w` or NULL), ties NULL in `c` to a sleeping reader that
has not been woken, and says that every element before `back` is written.
`ReaderOwnsFront` alone is not inductive: that `unwrite` leaves the prefetched
elements alone follows only because it stops at `f`, and `r` never passes `w`.
Assumption: `YpipeAssumption` (a natural bound, None is not an item).

That `Ypipe` implements `YpipeAbs` follows from `IInv`.  The mapping cuts the
element memory at the pointers: what lies between `front` and `w` is readable,
up to `f` complete, up to `back` partial.  Each step is then a lemma about
slices of a sequence (`SliceConcat`, `SliceAppend`, `SliceHeadTail`): a flush moves a border, a read
takes the first element of a slice, and the steps inside `flush` and
`check_read` move nothing.  `IInv` says for this purpose too that a flush that
has not stored `w` yet has something to publish.

**Yqueue.**  The invariant `YqueueInv` says that there is a list of chunks
`p[lo], ..., p[hi]`, different from each other and linked both ways, in which
chunk `i` holds the elements `i * N` to `i * N + N - 1`; that the reader is in
`p[lo]` and the writer in `p[hi]` or, between the two halves of `push`, behind
it; that the memory is this list with the spare chunk and the ones in the two
threads' hands; and that the elements between `popped` and `pushed` are intact.
The property follows `next` from `begin_chunk` with a recursive function: that
it finds exactly the list is proved by taking the least step at which it would
not (`LeastNatural`, from the library's theorem on well-founded relations),
and that it comes to the end, because a list of different chunks is not longer
than the memory.

**Conflate.**  `ConflateInv` ties the lock to the places of the two threads and
`has_msg` to the front buffer, says that the message about to be swapped in is
newer than all that was read, and that each message is in one of four places.
That the reader never goes back needs the middle part: the buffer that the
writer gets back by a swap may hold a message older than what was read.

**Msg.**  `MsgInv` counts the references to a content: the messages that hold it,
and for the message that is being distributed the pipes still to be written and
those that failed.  A content is allocated exactly while this number is not
zero; either it is in the counter and every holder is marked as shared, or it is
one and the holder is not.  A message whose distribution has given all of its
references away may still name the content, which may by then be somebody
else's, so it does not count.  `move` and `copy` are proved in two steps, the
release of the old content and the taking of the new one.
Assumption: `QueuesAssumption` (finitely many chunks and messages, addresses
other than NULL).

**Lb and Fq.**  Both proofs rest on the same lemmas about `array_t`: what `swap`
and `erase` leave where (`SwapItems`, `SwapKeeps` and those for `erase`).
`LbInv` and `FqInv` say which pipes are in the active part, where the pipe in
mid-message is (at `current`), and how often a pipe can have been passed over
given how far `current` has to go to reach it.  The last part is what makes the
bound on the bypass inductive: a step of `current` takes one off the way and
adds at most one to the count.  The theorems assume that no pipe begins to
terminate, and no third pipe goes, in mid-message; with `ClosingMidMessage`,
`CloseMidMessage` or `ThirdGoes` TLC finds the code going wrong.

**Req.**  `RightReply` speaks of a reply that has been read; `ReqInv` says why
none but the right one can be.  With request ids (`Numbered`) every request
and reply on its way has an id that is not above the current one, and only those
of the last request have that one.  Without ids (`LockStep`) the pipe and the
order of calls stand in for them, at each pipe whose peer has answered no request
twice (`InOrder`): the only request that may be unanswered there is the last one,
sent to `reply_pipe`, with nothing before its reply in that pipe, and what can be
read where the reply may come from belongs to it.  While a reply is waited for,
the other pipes of this kind are empty, so a socket whose `reply_pipe` is gone,
which takes a reply from anyone, finds a wrong one only at a peer that has
answered some request twice.  That peer's replies are not restricted: they may
come at any time, from any pipe, and the exception in the property is what
remains of them.  `Asked` ties the last request to the pipe it went to, and
`Fresh` says that nothing goes through a pipe before it is attached.  `HalfWay`
ties `fq` and `lb`, the pipes in the middle of a message, to the phase of the
request.  `LockStep` survives a relaxed socket that sends again because `xsend`
terminates `reply_pipe`, and the dropping of old replies at the first part because
no request is open at any other pipe.  The assumption says that NULL is no pipe;
the hypothesis leaves out the relaxed socket that sends with half a reply read,
for which TLC refutes the property.

**ZmqClient.**  `ClientInv` says that poll threads are started one after the
other, each after the one before has ended (`OneByOne`): only the application
and the timer start one, as a callback's `Init` finds its own thread still
there, and of these two one at a time is inside `Reset`.  While a new thread
sets up its sockets, the one that started it waits in `Init` and the state is
`UNDEFINE`, so nobody sends and no front socket exists (`PollPlaces`,
`Fronts`): this is why a front socket never leads to a back socket of the past.
An entry of the map without a socket (`Null`) leads nowhere, and is replaced by the
next successful call.
The theorem assumes `~ Overlap` and `~ SendOverlap`; `client_overlap` shows the
first to be needed, and TLC finds the same for the second.

**Mailbox.**  `MailboxInv` adds to the assertions of `recv` who holds the mutex
(`MutexHeld`) and `SignalAccounting`: signals pending plus senders that still
owe one, against the sleeping reader.  The assertions alone are not
inductive, because `signaler.send` comes after the unlock: a sender that has
written but not yet signalled is the case the accounting covers.
`CommandsInOrder`, that the commands received and in the pipe are all that were
sent, each sender's in its order, is what `NobodyInside` needs: when as many
commands are received as all senders together send, none is still in the pipe
and nobody has one to send, by counting; and the destructor's `sync.lock` comes
after the last sender's unlock.

**Pipe.**  `PipeInv` is about the two ends together and about each direction by
itself.  `TermEnd` says which states two ends can be in at the same time and
which requests and acknowledgements are then on their way, and in what order:
after an acknowledgement nothing, after a request hardly anything.  This is why
a handler never finds a command it has no case for, and why the last command an
end ever gets is the one it is deallocated by.  `Direction` has three parts.
`Plugged`: the upipe the writer writes is the one the reader reads, or the
hiccups on their way lead there, through upipes that are alive and empty.
`Counts`: the writer has written what was read and what is in its upipe, and
what it knows of the reader is not more than was read.  `Delims`: a delimiter is
the last item, of a writer that has asked to terminate.  The second part is not
true for ever: `process_hiccup` takes a delimiter it finds in the old upipe for a
message, so the count of an end that has asked to terminate and is hiccuped is
one too low.  That does no harm because such an end writes no more, and because
its reader cannot have met the delimiter; `Counted` says so.  Each operation is
a lemma about the upipe it changes, one about `TermEnd` and one about each
direction, for the writer or for the reader.
Assumption: `PipeAssumption` (natural numbers).

**Own.**  `OwnInv` relates the objects to all mailboxes at once.  `SentRight`:
`sent_seqnum` is what was processed plus the counted commands that are on their
way to the object, wherever they lie, plus, for the socket, the binds announced
under the lock and not sent yet; as a destroyed object has nothing outstanding
(`Quiet`), a counted command finds its object there.  `ChildRight` and `AcksRight`:
a child that lives is owned, announced by an `own`, asked to go by a `term`, or
on its way out, in the first three cases it has not begun to terminate, and
`term_acks` is the number of children that are neither owned nor announced
(`Waited`), those whose acknowledgement is on its way included.  This is why `term`
comes once and no acknowledgement comes too late or too often.  `term_req` is
not counted and may be sent again and again: `Order` says that the child that
asks is there, or that its acknowledgement lies behind the request in the same
mailbox, so the owner still waits when it reads the request.  Neither part of
`OwnSafe` is inductive without these: it says nothing about commands that
are not there, such as the acknowledgement that is missing when a child was
counted twice.  The invariant takes the objects and the mailboxes as
parameters, because a handler is several steps (take a command, change the
fields, send, end), each proved to preserve it (`TakenBoxes`, `OwnBooks`, `PostBoxes`,
`EndKeeps` and those like them) before the actions are put together.  Nothing is
assumed of the tree: `Objects` may be infinite, and that the counts are finite
comes from `Born`, to which each launch adds one.
Assumption: `OwnAssumption` (a parent for all but the socket, a thread for each,
and no connecter is the socket).

**Monitor.**  `EventsTrue` says nothing of the frames that are still on their way.
`Stream` does: while the client listens, the frame it holds (`first`) and those in
the pipe are the two frames of the next events that were reported, in their order
and alternating, up to the event that a thread is just sending, whose first frame
lies unflushed in `partial` (`FramesWritten`).  `OneEmits`, that one thread at a
time is inside `monitor_event`, keeps the frames of two events apart; the code has
no lock that would, which is why the theorem assumes it ("two threads").  The
context's stop may come between any two frames, and the reaper, or the application
in its next call, then ends the monitor: from the moment the library's PAIR has
taken the stop nothing more is written (`Writing`), so an event may be cut in half,
but its first frame was never flushed, and what the client goes on reading is
whole.  When the client is gone, nobody reads.  The theorem assumes no "timeout"
either: a receive that gives up between the two frames takes the next address for an
event; and it excludes BIND_FAILED, whose handler is not the one that was set for
it (`bind_failed`).  "drain timeout" is allowed.

**Listener.**  `FdsHeld` counts the holders of each descriptor; `ListenInv` says who
they are: listeners from their bind to their close, and engines (`HeldOnce`).  It is
not inductive by itself: `accept` would overwrite an engine's descriptor if a client
that is served were in a backlog, so `ServedOnce` says that a client waits in one
backlog, once, or is served, and only when its connecter has come through.
That the close of a listener takes nobody's name follows for tcp from the check of the
name, and for ipc, where the file is unlinked whoever's it is, from `OneFile`: no two
listeners that have not been closed have the same ipc address.  With "rebind" this is what
fails, and with "no descriptors" an `errno_assert`; the theorem assumes neither.
Assumption: `CallsAssumption` (a natural number of descriptors).

**SocketCall.**  `CallsHonest` speaks of the moment a call returns, and of what was
there when it was made.  `CallInv` connects the two.  `Told` says of each socket that
what it does not know of is on its way: a reader that is not asleep, and does not
believe its pipe to be active, has an `activate_read` in its mailbox; one that is
asleep has an empty pipe; the peer's reads that the socket has not counted are the
`activate_write` commands in the mailbox.  So after `process_commands` the socket sees
all there is (`CommandsTell`), and neither a second attempt nor a pass of `zmq_poll`
misses it, although the throttled first attempt may.  `AppRight` says that what was
owed to the call when it was made is still there: its own thread is the only one to take
messages, or to fill the room to write.  With a time-out of zero the rest of it stays zero.
`ReturnsTrue`, `Reports` and `Goes` reduce each step of a call to the way it
ends: an answer, an answer with events, or none yet.
Assumption: `CallsAssumption` (integral time-outs, calls on sockets there are, items
that ask for input and output, a natural watermark, a positive poll rate).

**TimerWorker.**  `TimerAlive` with the types is inductive.  Its proof goes
through `Start`, `Stop`, the destructor and the handler one by one, with
`CallerKeeps` for steps that only move a caller.  `NoHandlerAfterDestroy`
needs `Joined` (only the destructor stops the group, and what it has joined
stays ended) and the assumption `~ RestartInDestroy`, without which a Start of
the work routine brings the group back to life.

**Heartbeat.**  `HInv` relates the counters modulo `TickMod` to the true age of
the last reply: as long as the age stays below the counter's range (the model
leaves out silences of a whole turn, 49 days), the unsigned difference is the
age at the moment of the first read.  The theorems assume a clock that moves
and no reply between the two reads of `AutoConnect`; with `Frozen` or `Race`
TLC refutes them.

Only model-checked: all liveness properties (the prover has no `ENABLED` and no
fairness), and the invariants of the modules that are not named above.  `Trie`,
`Codec`, `PubSub`, `Engine` and `Subscriptions` use RECURSIVE operators, for
which the prover has no backend; `MCSockets` and `MCTransport` reach them, and so
their invariants stay with TLC.  `CtxSafe` stays there because steps of `Ctx` fold over
the pipes and the pending connects of a socket: what such a step does to any
number of them is an induction over data.

## Not modelled

- Memory orderings weaker than sequential consistency: the atomic operations
  of `atomic_ptr.hpp` are full barriers on the supported platforms.  Data races
  on plain fields are modelled by splitting the accesses into steps; the copy
  of `pending_connections` in `ctx_t::terminate`, and a pipe end that
  `connect_inproc_sockets` reads while its old thread processes a command for
  it, are taken as one step each.
- Real time: timers fire at any moment.
- Message contents, the values of options, addresses, logging.
- The cryptography of CURVE: a box opens for whoever has its keys, prefix and
  nonce.
- The PGM transport, which needs a library that is not here; the parsing of
  options and addresses, which has no state; wrappers of system calls; the
  socket pair that replaces the eventfd on Windows.
- Memory exhaustion and failing system calls other than the ones named in the
  modules.

## Plan

Modelled, as described above: the queue, mailbox, pipe and ownership layers,
the context with the reaper, the socket types, the tries, messages, sessions,
listeners, the engine with its codecs and mechanisms, the pollers, the blocking
calls, the monitor, the proxy, and all of the wrapper.  What is left is proof:

1. The sockets and sessions, once the recursive operators of the tries and codecs
   are kept in modules of their own.
2. The parts `NoneStranded` and `DoneMeansGone` of `CtxSafe`, once its folds are
   steps, one connect at a time.
