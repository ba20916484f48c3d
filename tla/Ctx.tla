--------------------------------- MODULE Ctx --------------------------------
(***************************************************************************)
(* ctx_t, reaper_t and the inproc part of socket_base_t: sockets are       *)
(* created, bound, connected and closed by the threads that own them, a    *)
(* connect to an address nobody has bound yet is kept in                   *)
(* pending_connections, closed sockets are shut down by the reaper thread, *)
(* and zmq_ctx_term () waits until the reaper says that all are gone.      *)
(*                                                                         *)
(* One step is what a thread does under one lock (slot_sync,               *)
(* endpoints_sync) or in one command handler.  A connection is named by    *)
(* its connecting socket; its pipe has two ends, of which the binding one  *)
(* is looked after by the connecting thread until it is bound.  The pipes  *)
(* carry no messages here: Pipe has their whole protocol.                  *)
(***************************************************************************)
EXTENDS Integers, Sequences, FiniteSets, SequencesExt, FiniteSetsExt

CONSTANTS
  App,              \* the sockets of the application, one thread each
  Binders,          \* those of them that bind
  Connecters,       \* those of them that connect, once each
  Pairs,            \* the PAIR sockets that terminate () may create
  Addr,             \* inproc addresses
  None,
  RecvIdentity,     \* the sockets with options.recv_identity (ROUTER, REP)
  MaxSockets,       \* ZMQ_MAX_SOCKETS
  MaxInterrupts,    \* bound: signals that interrupt zmq_ctx_term ()
  LatePend,         \* may a connect be pended once zmq_ctx_term () has begun?
  PendingAtStop     \* may connects be pending when zmq_ctx_shutdown () is called,
                    \* or zmq_ctx_term () again after a signal?

Sockets == App \cup Pairs

VARIABLES
  starting, terminating, sockets, endpoints, pending,   \* fields of ctx_t
  net,      \* the sockets, their mailboxes, the pipes between them, and
            \* the assertions that failed: the process is gone with the first
  app,      \* by application thread: where it is in a call
  reaper,   \* the reaper: its mailbox, counter, flag and place
  term,     \* zmq_ctx_term ()
  done      \* done commands in term_mailbox

vars == <<starting, terminating, sockets, endpoints, pending, net, app, reaper, term, done>>

NewSocket == [life |-> "none", stopped |-> FALSE, terminating |-> FALSE, destroyed |-> FALSE,
              sent_seqnum |-> 0, processed_seqnum |-> 0, term_acks |-> 0, pipes |-> {}]

NewConnection == [addr |-> None, binder |-> None, connect |-> "none", bind |-> "none",
                  inproc |-> FALSE]

Init ==
  /\ starting = TRUE /\ terminating = FALSE /\ sockets = {} /\ pending = <<>>
  /\ endpoints = [a \in Addr |-> None]
  /\ net = [sock |-> [s \in Sockets |-> NewSocket],
            mail |-> [s \in Sockets |-> <<>>],
            conn |-> [c \in App |-> NewConnection],
            failed |-> {}]
  /\ app = [s \in App |-> [at |-> "idle", addr |-> None]]
  /\ reaper = [mail |-> <<>>, sockets |-> 0, terminating |-> FALSE, at |-> "poll", socket |-> None]
  /\ term = [at |-> "idle", todo |-> <<>>, socket |-> None, interrupts |-> 0]
  /\ done = 0

-----------------------------------------------------------------------------
(* Pipes and sockets.  These operators take the net n and give the net     *)
(* after the call.                                                         *)

Cmd(type, c, end) == [type |-> type, conn |-> c, end |-> end]
Stop == Cmd("stop", None, None)
Peer(end) == IF end = "bind" THEN "connect" ELSE "bind"

\* The socket in whose thread this end of the pipe lives (its tid).
Tid(n, c, end) ==
  IF end = "bind" /\ n.conn[c].binder # None THEN n.conn[c].binder ELSE c

Require(n, what, holds) == IF holds THEN n ELSE [n EXCEPT !.failed = @ \cup {what}]

Post(n, s, cmd) == [n EXCEPT !.mail[s] = Append(@, cmd)]
Tell(n, type, c, end) == Post(n, Tid(n, c, end), Cmd(type, c, end))
SetEnd(n, c, end, state) == [n EXCEPT !.conn[c][end] = state]

\* own_t: a socket that owes nothing any more is marked for destruction.
check_term_acks(n, s) ==
  LET r == n.sock[s] IN
  IF r.terminating /\ r.processed_seqnum = r.sent_seqnum /\ r.term_acks = 0
  THEN [n EXCEPT !.sock[s].destroyed = TRUE] ELSE n

process_seqnum(n, s) == check_term_acks([n EXCEPT !.sock[s].processed_seqnum = @ + 1], s)

\* pipe_t::terminate ().
pipe_terminate(n, c, end, delay) ==
  CASE n.conn[c][end] \in {"active", "delimiter_received"} ->
         SetEnd(Tell(n, "pipe_term", c, Peer(end)), c, end, "term_req_sent1")
    [] n.conn[c][end] = "waiting_for_delimiter" /\ ~ delay ->
         SetEnd(Tell(n, "pipe_term_ack", c, Peer(end)), c, end, "term_ack_sent")
    [] OTHER -> n

\* pipe_t::process_pipe_term ().
process_pipe_term(n, c, end) ==
  LET Ack(state) == SetEnd(Tell(n, "pipe_term_ack", c, Peer(end)), c, end, state) IN
  CASE n.conn[c][end] = "active" -> SetEnd(n, c, end, "waiting_for_delimiter")
    [] n.conn[c][end] = "delimiter_received" -> Ack("term_ack_sent")
    [] n.conn[c][end] = "term_req_sent1" -> Ack("term_req_sent2")
    [] OTHER -> Require(n, "pipe_term", FALSE)

\* socket_base_t::pipe_terminated (), for the end that is deleted next.
pipe_terminated(n, s, c, end) ==
  LET m == [n EXCEPT !.sock[s].pipes = @ \ {<<c, end>>},
                     !.conn[c].inproc = @ /\ end = "bind"]
  IN IF n.sock[s].terminating
     THEN check_term_acks([m EXCEPT !.sock[s].term_acks = @ - 1], s) ELSE m

\* pipe_t::process_pipe_term_ack ().
process_pipe_term_ack(n, c, end) ==
  LET m == pipe_terminated(n, Tid(n, c, end), c, end) IN
  CASE n.conn[c][end] = "term_req_sent1" ->
         SetEnd(Tell(m, "pipe_term_ack", c, Peer(end)), c, end, "deleted")
    [] n.conn[c][end] \in {"term_ack_sent", "term_req_sent2"} -> SetEnd(m, c, end, "deleted")
    [] OTHER -> Require(m, "pipe_term_ack", FALSE)

\* socket_base_t::attach_pipe (); a PAIR refuses a second pipe.
attach_pipe(n, s, c, end) ==
  LET m == [n EXCEPT !.sock[s].pipes = @ \cup {<<c, end>>}]
      x == IF s \in Pairs /\ n.sock[s].pipes # {} THEN pipe_terminate(m, c, end, FALSE) ELSE m
  IN IF n.sock[s].terminating
     THEN pipe_terminate([x EXCEPT !.sock[s].term_acks = @ + 1], c, end, FALSE) ELSE x

\* object_t::process_command () for the next command in the mailbox of s.
process_command(n, s) ==
  LET cmd == Head(n.mail[s])
      m == [n EXCEPT !.mail[s] = Tail(@)]
  IN CASE cmd.type = "stop" -> [m EXCEPT !.sock[s].stopped = TRUE]
       [] cmd.type = "bind" -> process_seqnum(attach_pipe(m, s, cmd.conn, "bind"), s)
       [] cmd.type = "inproc_connected" -> process_seqnum(m, s)
       [] cmd.type = "pipe_term" -> process_pipe_term(m, cmd.conn, cmd.end)
       [] cmd.type = "pipe_term_ack" -> process_pipe_term_ack(m, cmd.conn, cmd.end)

\* socket_base_t::process_term (): every pipe is asked to terminate.
process_term(n, s) ==
  LET pipes == n.sock[s].pipes
      m == FoldSet(LAMBDA p, x : pipe_terminate(x, p[1], p[2], FALSE), n, pipes)
  IN check_term_acks([m EXCEPT !.sock[s].term_acks = @ + Cardinality(pipes),
                               !.sock[s].terminating = TRUE], s)

-----------------------------------------------------------------------------
(* ctx_t.                                                                  *)

\* connect_inproc_sockets (): binder takes the far end of connection c.  The
\* identity that connect () wrote is dropped if binder does not want it, and
\* the identity of binder is written if the connecting socket wants it.
connect_inproc_sockets(n, binder, c, side) ==
  LET seq == [n EXCEPT !.sock[binder].sent_seqnum = @ + 1, !.conn[c].binder = binder]
      read == Require(seq, "read", binder \in RecvIdentity
                        \/ n.conn[c].bind \in {"active", "waiting_for_delimiter"})
      bound == IF side = "bind_side"
               THEN Post(process_seqnum(attach_pipe(read, binder, c, "bind"), binder),
                         c, Cmd("inproc_connected", c, None))
               ELSE Post(read, binder, Cmd("bind", c, "bind"))
  IN Require(bound, "written", c \in RecvIdentity => bound.conn[c].bind = "active")

\* connect_pending () for the binder of address a.
connect_pending(a, binder) ==
  /\ net' = FoldLeft(LAMBDA n, c : connect_inproc_sockets(n, binder, c, "bind_side"),
                     net, SelectSeq(pending, LAMBDA c : net.conn[c].addr = a))
  /\ pending' = SelectSeq(pending, LAMBDA c : net.conn[c].addr # a)

\* create_socket () for s; the caller tests for NULL with CanCreate.
CanCreate == ~ terminating /\ Cardinality(sockets) < MaxSockets

create_socket(s) ==
  /\ starting' = FALSE
  /\ sockets' = sockets \cup {s}
  /\ net' = [net EXCEPT !.sock[s].life = "open"]

\* What terminate () and shutdown () do under slot_sync the first time.
stop_sockets ==
  /\ terminating' = TRUE
  /\ net' = [net EXCEPT !.mail =
               [s \in Sockets |-> IF s \in sockets THEN Append(@[s], Stop) ELSE @[s]]]
  /\ reaper' = IF sockets = {} THEN [reaper EXCEPT !.mail = Append(@, Stop)] ELSE reaper

send_reap(s) == [reaper EXCEPT !.mail = Append(@, Cmd("reap", s, None))]

-----------------------------------------------------------------------------
(* The application threads.                                                *)

Deleted == term.at = "deleted"

\* zmq_socket ().
AppCreate(s) ==
  /\ net.sock[s].life = "none" /\ ~ Deleted /\ CanCreate
  /\ create_socket(s)
  /\ UNCHANGED <<terminating, endpoints, pending, app, reaper, term, done>>

\* A call on the socket begins: process_commands () takes what is there, and
\* the call goes on unless the context is being terminated.
AppEnter(s) ==
  /\ net.sock[s].life = "open" /\ app[s].at = "idle" /\ ~ net.sock[s].stopped
  /\ app' = [app EXCEPT ![s].at = "process_commands"]
  /\ UNCHANGED <<starting, terminating, sockets, endpoints, pending, net, reaper, term, done>>

AppCommand(s) ==
  /\ app[s].at = "process_commands" /\ net.mail[s] # <<>>
  /\ net' = process_command(net, s)
  /\ UNCHANGED <<starting, terminating, sockets, endpoints, pending, app, reaper, term, done>>

AppCommandsDone(s) ==
  /\ app[s].at = "process_commands" /\ net.mail[s] = <<>>
  /\ app' = [app EXCEPT ![s].at = IF net.sock[s].stopped THEN "idle" ELSE "call"]
  /\ UNCHANGED <<starting, terminating, sockets, endpoints, pending, net, reaper, term, done>>

\* The rest of a call that changes nothing here (send, recv, getsockopt...).
AppOtherCall(s) ==
  /\ app[s].at = "call"
  /\ app' = [app EXCEPT ![s].at = "idle"]
  /\ UNCHANGED <<starting, terminating, sockets, endpoints, pending, net, reaper, term, done>>

\* A recv that meets the delimiter of its peer: process_delimiter ().
AppRecvDelimiter(s, c, end) ==
  /\ app[s].at = "call" /\ <<c, end>> \in net.sock[s].pipes
  /\ net.conn[c][Peer(end)] \in {"term_req_sent1", "term_req_sent2"}
  /\ \/ /\ net.conn[c][end] = "active"
        /\ net' = SetEnd(net, c, end, "delimiter_received")
     \/ /\ net.conn[c][end] = "waiting_for_delimiter"
        /\ net' = SetEnd(Tell(net, "pipe_term_ack", c, Peer(end)), c, end, "term_ack_sent")
  /\ app' = [app EXCEPT ![s].at = "idle"]
  /\ UNCHANGED <<starting, terminating, sockets, endpoints, pending, reaper, term, done>>

\* zmq_bind (): register_endpoint () and, in a second critical section,
\* connect_pending ().
AppBind(s, a) ==
  /\ app[s].at = "call" /\ s \in Binders
  /\ \/ /\ endpoints[a] = None
        /\ endpoints' = [endpoints EXCEPT ![a] = s]
        /\ app' = [app EXCEPT ![s] = [at |-> "connect_pending", addr |-> a]]
     \/ /\ endpoints[a] # None
        /\ app' = [app EXCEPT ![s].at = "idle"]
        /\ UNCHANGED endpoints
  /\ UNCHANGED <<starting, terminating, sockets, pending, net, reaper, term, done>>

AppConnectPending(s) ==
  /\ app[s].at = "connect_pending"
  /\ connect_pending(app[s].addr, s)
  /\ app' = [app EXCEPT ![s] = [at |-> "idle", addr |-> None]]
  /\ UNCHANGED <<starting, terminating, sockets, endpoints, reaper, term, done>>

\* Plausible bug: the peer found is not kept alive until the bind arrives.
find_endpointNoSeqnum(n, s, a) ==
  attach_pipe([n EXCEPT !.conn[s] = [addr |-> a, binder |-> endpoints[a], inproc |-> TRUE,
                                     connect |-> "active", bind |-> "active"]],
              s, s, "connect")

\* The beginning of zmq_connect (): find_endpoint () counts the bind that will be
\* sent, and the local end of the new pipe is attached.
find_endpoint(n, s, a) ==
  LET found == IF endpoints[a] = None THEN n
               ELSE [n EXCEPT !.sock[endpoints[a]].sent_seqnum = @ + 1]
  IN attach_pipe([found EXCEPT !.conn[s] = [addr |-> a, binder |-> endpoints[a], inproc |-> TRUE,
                                            connect |-> "active", bind |-> "active"]],
                 s, s, "connect")

AppConnect(s, a) ==
  /\ app[s].at = "call" /\ s \in Connecters /\ net.conn[s] = NewConnection
  /\ endpoints[a] = None =>
       LatePend \/ (term.at = "idle" /\ term.interrupts = 0 /\ ~ terminating)
  /\ net' = find_endpoint(net, s, a)
  /\ app' = [app EXCEPT ![s] = [at |-> IF endpoints[a] = None THEN "pend" ELSE "send_bind",
                                addr |-> a]]
  /\ UNCHANGED <<starting, terminating, sockets, endpoints, pending, reaper, term, done>>

AppSendBind(s) ==
  /\ app[s].at = "send_bind"
  /\ net' = Tell(net, "bind", s, "bind")
  /\ app' = [app EXCEPT ![s] = [at |-> "idle", addr |-> None]]
  /\ UNCHANGED <<starting, terminating, sockets, endpoints, pending, reaper, term, done>>

\* pend_connection ().
pend_connection(s) ==
  IF endpoints[app[s].addr] = None
  THEN /\ pending' = Append(pending, s)
       /\ net' = [net EXCEPT !.sock[s].sent_seqnum = @ + 1]
  ELSE /\ net' = connect_inproc_sockets(net, endpoints[app[s].addr], s, "connect_side")
       /\ UNCHANGED pending

AppPend(s) ==
  /\ app[s].at = "pend"
  /\ pend_connection(s)
  /\ app' = [app EXCEPT ![s] = [at |-> "idle", addr |-> None]]
  /\ UNCHANGED <<starting, terminating, sockets, endpoints, reaper, term, done>>

\* zmq_disconnect (): term_endpoint () of an inproc connection.
AppDisconnect(s) ==
  /\ app[s].at = "call" /\ net.conn[s].inproc
  /\ net' = [pipe_terminate(net, s, "connect", TRUE) EXCEPT !.conn[s].inproc = FALSE]
  /\ app' = [app EXCEPT ![s].at = "idle"]
  /\ UNCHANGED <<starting, terminating, sockets, endpoints, pending, reaper, term, done>>

\* zmq_close ().
AppClose(s) ==
  /\ net.sock[s].life = "open" /\ app[s].at = "idle"
  /\ net' = [net EXCEPT !.sock[s].life = "closed"]
  /\ reaper' = send_reap(s)
  /\ UNCHANGED <<starting, terminating, sockets, endpoints, pending, app, term, done>>

\* zmq_ctx_shutdown ().
shutdown ==
  /\ ~ starting /\ ~ terminating /\ ~ Deleted
  /\ PendingAtStop \/ (pending = <<>> /\ term.todo = <<>> /\ \A s \in App : app[s].at # "pend")
  /\ stop_sockets
  /\ UNCHANGED <<starting, sockets, endpoints, pending, app, term, done>>

-----------------------------------------------------------------------------
(* terminate () in the thread that calls zmq_ctx_term ().                  *)

\* Plausible bug: the pending connections are forgotten.
TermCopyNone ==
  /\ term.at = "idle"
  /\ LatePend \/ \A s \in App : app[s].at # "pend"
  /\ PendingAtStop \/ ~ terminating \/ pending = <<>>
  /\ term' = [term EXCEPT !.at = "loop", !.todo = <<>>]
  /\ UNCHANGED <<starting, terminating, sockets, endpoints, pending, net, app, reaper, done>>

\* The copy of pending_connections, taken without a lock; only the addresses are
\* used.
TermCopy ==
  /\ term.at = "idle"
  /\ LatePend \/ \A s \in App : app[s].at # "pend"
  /\ PendingAtStop \/ ~ terminating \/ pending = <<>>
  /\ term' = [term EXCEPT !.at = "loop",
                              !.todo = [i \in DOMAIN pending |-> net.conn[pending[i]].addr]]
  /\ UNCHANGED <<starting, terminating, sockets, endpoints, pending, net, app, reaper, done>>

\* create_socket (ZMQ_PAIR); a NULL is dereferenced by the bind.
TermCreate ==
  /\ term.at = "loop" /\ term.todo # <<>>
  /\ \/ /\ CanCreate
        /\ \E p \in Pairs :
             /\ p = CHOOSE q \in Pairs : net.sock[q].life = "none"
             /\ create_socket(p)
             /\ term' = [term EXCEPT !.at = "bind", !.socket = p]
     \/ /\ ~ CanCreate
        /\ net' = Require(net, "socket", FALSE)
        /\ UNCHANGED <<starting, sockets, term>>
  /\ UNCHANGED <<terminating, endpoints, pending, app, reaper, done>>

\* bind (): it fails if a stop has arrived in the mean time or the address is taken.
TermBind ==
  LET a == Head(term.todo) IN
  /\ term.at = "bind"
  /\ \/ /\ net.mail[term.socket] # <<>>
        /\ net' = process_command(net, term.socket)
        /\ term' = [term EXCEPT !.at = "close"]
        /\ UNCHANGED endpoints
     \/ /\ net.mail[term.socket] = <<>> /\ endpoints[a] # None
        /\ term' = [term EXCEPT !.at = "close"]
        /\ UNCHANGED <<net, endpoints>>
     \/ /\ net.mail[term.socket] = <<>> /\ endpoints[a] = None
        /\ endpoints' = [endpoints EXCEPT ![a] = term.socket]
        /\ term' = [term EXCEPT !.at = "connect_pending"]
        /\ UNCHANGED net
  /\ UNCHANGED <<starting, terminating, sockets, pending, app, reaper, done>>

TermConnectPending ==
  /\ term.at = "connect_pending"
  /\ connect_pending(Head(term.todo), term.socket)
  /\ term' = [term EXCEPT !.at = "close"]
  /\ UNCHANGED <<starting, terminating, sockets, endpoints, app, reaper, done>>

TermClose ==
  /\ term.at = "close"
  /\ net' = [net EXCEPT !.sock[term.socket].life = "closed"]
  /\ reaper' = send_reap(term.socket)
  /\ term' = [term EXCEPT !.at = "loop", !.todo = Tail(@), !.socket = None]
  /\ UNCHANGED <<starting, terminating, sockets, endpoints, pending, app, done>>

\* The stop commands, unless a call that was interrupted, or shutdown (), has sent
\* them; a context without a single socket is deleted at once.
TermStop ==
  /\ term.at = "loop" /\ term.todo = <<>>
  /\ term' = [term EXCEPT !.at = IF starting THEN "deleted" ELSE "wait"]
  /\ \/ /\ ~ starting /\ ~ terminating /\ stop_sockets
     \/ /\ starting \/ terminating
        /\ UNCHANGED <<terminating, net, reaper>>
  /\ UNCHANGED <<starting, sockets, endpoints, pending, app, done>>

\* The done command of the reaper: delete this.
TermDone ==
  /\ term.at = "wait" /\ done > 0
  /\ done' = done - 1
  /\ net' = Require(net, "empty", sockets = {})
  /\ term' = [term EXCEPT !.at = "deleted"]
  /\ UNCHANGED <<starting, terminating, sockets, endpoints, pending, app, reaper>>

\* A signal: zmq_ctx_term () returns EINTR and is called again.
TermInterrupted ==
  /\ term.at = "wait" /\ done = 0 /\ term.interrupts < MaxInterrupts
  /\ term' = [term EXCEPT !.at = "idle", !.interrupts = @ + 1]
  /\ UNCHANGED <<starting, terminating, sockets, endpoints, pending, net, app, reaper, done>>

-----------------------------------------------------------------------------
(* The reaper thread: its own commands, and the mailboxes of the sockets   *)
(* it shuts down.                                                          *)

\* send_done () and the end of the reaper's poller, when nothing is left.
finish(r) ==
  IF r.terminating /\ r.sockets = 0
  THEN reaper' = [r EXCEPT !.at = "stopped"] /\ done' = done + 1
  ELSE reaper' = r /\ UNCHANGED done

ReaperGets(type) == reaper.at = "poll" /\ reaper.mail # <<>> /\ Head(reaper.mail).type = type

process_stop ==
  /\ ReaperGets("stop")
  /\ finish([reaper EXCEPT !.mail = Tail(@), !.terminating = TRUE])
  /\ UNCHANGED <<starting, terminating, sockets, endpoints, pending, net, app, term>>

\* process_reap (): start_reaping () takes the socket over and terminates it.
process_reap ==
  LET s == Head(reaper.mail).conn IN
  /\ ReaperGets("reap")
  /\ endpoints' = [a \in Addr |-> IF endpoints[a] = s THEN None ELSE endpoints[a]]
  /\ net' = process_term([net EXCEPT !.sock[s].life = "reaping"], s)
  /\ reaper' = [reaper EXCEPT !.mail = Tail(@), !.sockets = @ + 1,
                              !.at = "check_destroy", !.socket = s]
  /\ UNCHANGED <<starting, terminating, sockets, pending, app, term, done>>

process_reaped ==
  /\ ReaperGets("reaped")
  /\ finish([reaper EXCEPT !.mail = Tail(@), !.sockets = @ - 1])
  /\ UNCHANGED <<starting, terminating, sockets, endpoints, pending, net, app, term>>

\* in_event () of a socket: all its commands, then check_destroy ().
ReaperCommand(s) ==
  /\ \/ reaper.at = "poll" /\ net.sock[s].life = "reaping"
     \/ reaper.at = "process_commands" /\ reaper.socket = s
  /\ net.mail[s] # <<>>
  /\ net' = process_command(net, s)
  /\ reaper' = [reaper EXCEPT !.at = "process_commands", !.socket = s]
  /\ UNCHANGED <<starting, terminating, sockets, endpoints, pending, app, term, done>>

ReaperCommandsDone ==
  /\ reaper.at = "process_commands" /\ net.mail[reaper.socket] = <<>>
  /\ reaper' = [reaper EXCEPT !.at = "check_destroy"]
  /\ UNCHANGED <<starting, terminating, sockets, endpoints, pending, net, app, term, done>>

\* The commands that destroy_socket () sends to the reaper.
destroy_socket(s) == IF terminating /\ sockets = {s} THEN <<Stop>> ELSE <<>>

check_destroy ==
  LET s == reaper.socket
      idle == [reaper EXCEPT !.at = "poll", !.socket = None]
  IN
  /\ reaper.at = "check_destroy"
  /\ \/ /\ ~ net.sock[s].destroyed
        /\ reaper' = idle
        /\ UNCHANGED <<sockets, net>>
     \/ /\ net.sock[s].destroyed
        /\ sockets' = sockets \ {s}
        /\ reaper' = [idle EXCEPT !.mail = @ \o destroy_socket(s) \o <<Cmd("reaped", None, None)>>]
        /\ net' = [net EXCEPT !.sock[s].life = "dead", !.mail[s] = <<>>]
  /\ UNCHANGED <<starting, terminating, endpoints, pending, app, term, done>>

-----------------------------------------------------------------------------
AppNext(s) ==
  \/ AppCreate(s) \/ AppEnter(s) \/ AppCommand(s) \/ AppCommandsDone(s) \/ AppOtherCall(s)
  \/ \E c \in App, end \in {"bind", "connect"} : AppRecvDelimiter(s, c, end)
  \/ \E a \in Addr : AppBind(s, a) \/ AppConnect(s, a)
  \/ AppConnectPending(s) \/ AppSendBind(s) \/ AppPend(s) \/ AppDisconnect(s) \/ AppClose(s)

TermNext ==
  \/ TermCopy \/ TermCreate \/ TermBind \/ TermConnectPending \/ TermClose \/ TermStop
  \/ TermDone \/ TermInterrupted

ReaperNext ==
  \/ process_stop \/ process_reap \/ process_reaped
  \/ \E s \in Sockets : ReaperCommand(s)
  \/ ReaperCommandsDone \/ check_destroy

Next ==
  /\ net.failed = {}
  /\ (\E s \in App : AppNext(s)) \/ shutdown \/ TermNext \/ ReaperNext

Spec == Init /\ [][Next]_vars

\* Threads inside a call go on, the application closes its sockets in the end
\* and calls zmq_ctx_term (), again after a signal, as its documentation asks.
Fairness ==
  /\ WF_vars(net.failed = {} /\ TermNext) /\ WF_vars(net.failed = {} /\ ReaperNext)
  /\ \A s \in App :
       /\ WF_vars(net.failed = {} /\ app[s].at # "idle" /\ AppNext(s))
       /\ SF_vars(net.failed = {} /\ AppClose(s))

FairSpec == Spec /\ Fairness

-----------------------------------------------------------------------------
\* Whoever can still be reached is still there: the sockets in endpoints and in
\* pending_connections, the peer that connect () has found and not yet told, and
\* the thread of every pipe end that is not deleted.  This is what inc_seqnum ()
\* in find_endpoint () and pend_connection (), and unregister_endpoints () at the
\* beginning of the shutdown, are for.
LiveReferences ==
  LET Alive(s) == net.sock[s].life \in {"open", "closed", "reaping"} IN
  /\ \A a \in Addr : endpoints[a] # None => Alive(endpoints[a])
  /\ \A c \in ToSet(pending) : Alive(c)
  /\ \A s \in App : app[s].at = "send_bind" => Alive(net.conn[s].binder)
  /\ \A c \in App, end \in {"bind", "connect"} :
       net.conn[c][end] \notin {"none", "deleted"} => Alive(Tid(net, c, end))

\* No connect is left pending on an address that is bound, except while the
\* bind is between register_endpoint () and connect_pending ().
NoneStranded ==
  \A c \in ToSet(pending) :
    LET a == net.conn[c].addr IN
    endpoints[a] # None =>
      \/ \E s \in App : endpoints[a] = s /\ app[s] = [at |-> "connect_pending", addr |-> a]
      \/ endpoints[a] = term.socket /\ term.at = "connect_pending"

\* The reaper reports done only when every socket is gone and nobody will write
\* to its mailbox any more: the assertion on sockets.empty () in terminate (),
\* and the reaper's thread, which the context deletes next.
DoneMeansGone ==
  (reaper.at = "stopped") =>
    /\ sockets = {} /\ reaper.mail = <<>> /\ "empty" \notin net.failed
    /\ \A s \in Sockets : net.sock[s].life \in {"none", "dead"}

\* The assertions in pipe_t and in connect_inproc_sockets () hold.
InprocAsserts == net.failed \cap {"pipe_term", "pipe_term_ack", "read", "written"} = {}

\* All of these.
CtxSafe == LiveReferences /\ NoneStranded /\ DoneMeansGone /\ InprocAsserts

\* zmq_ctx_term () returns: pending connections do not keep it waiting.
Returned == term.at = "deleted"
TermReturns == <>[]Returned
====
