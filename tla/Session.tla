------------------------------- MODULE Session ------------------------------
(***************************************************************************)
(* session_base_t with what creates its connections: the tcp_connecter_t   *)
(* below it or the tcp_listener_t that accepted it.  Its pipes follow the  *)
(* contract that Pipe establishes; only the session's end is kept, in the  *)
(* states of pipe.cpp.  The engine is whoever reads the pipe and may fail  *)
(* at any moment.  A message has two parts, written in one flush.          *)
(*                                                                         *)
(* Each action is one handler in the I/O thread of its object, or what the *)
(* socket does in its own thread; x is the state a handler works on.       *)
(***************************************************************************)
EXTENDS Integers, Sequences, FiniteSets, SequencesExt

CONSTANTS
  Options,      \* the settings to choose from, records of the options below
  Races,        \* which of "late timer", "late loss", "early proceed",
                \* "late zap" and "late hiccup" may happen
  MaxPipes,     \* bound: pipes of the session, ZAP pipes included
  MaxEngines,   \* bound: connections made
  MaxMessages,  \* bound: messages the socket sends
  MaxWaits      \* bound: waits of one connecter

VARIABLES
  opt,      \* the options of the socket
  session,  \* the fields of the session
  pipes,    \* the session's ends of its pipes, numbered; 0 is NULL
  conn,     \* the fields of its connecter, or None
  mail,     \* commands for the session
  socket,   \* "open", or "closed": it has asked the session to terminate
  failed,   \* assertions that did not hold
  engines, messages

vars == <<opt, session, pipes, conn, mail, socket, failed, engines, messages>>

None == <<>>

NewPipe == [state |-> "active", delay |-> TRUE, parts |-> 0, delimiter |-> FALSE,
            in_active |-> TRUE, bound |-> TRUE, acked |-> FALSE]

Connecter(delayed) == [plugged |-> FALSE, delayed_start |-> delayed, s |-> FALSE,
                       handle_valid |-> FALSE, timer_started |-> FALSE,
                       ivl |-> opt.ivl, interval |-> 0, waits |-> 0]

\* A connecting session starts with process_plug, and with the pipe that
\* socket_base_t::connect made unless the option immediate is set; the
\* listener's session (in_event) is launched together with its engine.
Init ==
  /\ opt \in Options
  /\ session = [pipe |-> IF opt.connect /\ ~ opt.immediate THEN 1 ELSE 0, zap_pipe |-> 0,
                terminating_pipes |-> {}, incomplete_in |-> FALSE, pending |-> FALSE,
                engine |-> FALSE, zapped |-> FALSE, has_linger_timer |-> FALSE,
                terminating |-> FALSE, asks |-> FALSE, leaving |-> 0, life |-> "alive"]
  /\ pipes = IF opt.connect /\ ~ opt.immediate THEN <<NewPipe>> ELSE <<>>
  /\ conn = None /\ mail = IF opt.connect THEN <<<<"plug", 0>>>> ELSE <<<<"attach", 0>>>>
  /\ socket = "open" /\ failed = {} /\ messages = 0
  /\ engines = IF opt.connect THEN 0 ELSE 1

Now == [session |-> session, pipes |-> pipes, conn |-> conn, failed |-> failed]

\* own_t::check_term_acks: the session goes when its connecters have gone and
\* every counted command has been processed.
check_term_acks(x, m) ==
  IF x.session.terminating /\ x.session.leaving = 0 /\ x.conn = None
     /\ <<"attach", 0>> \notin ToSet(m)
  THEN [x EXCEPT !.session.life = "dead", !.session.engine = FALSE,
                 !.session.has_linger_timer = FALSE]
  ELSE x

Becomes(x, m) ==
  \E y \in {x} : \E z \in {IF y.session.life = "dead" THEN y ELSE check_term_acks(y, m)} :
    /\ session' = z.session /\ pipes' = z.pipes /\ conn' = z.conn /\ failed' = z.failed
    /\ mail' = m

zmq_assert(x, holds, name) == IF holds THEN x ELSE [x EXCEPT !.failed = @ \cup {name}]

-----------------------------------------------------------------------------
(* The session's end of a pipe (pipe.cpp).                                 *)

Readable(q) == q.in_active /\ q.state \in {"active", "waiting_for_delimiter"}

process_delimiter(q) ==
  [q EXCEPT !.delimiter = FALSE,
            !.state = IF @ = "active" THEN "delimiter_received" ELSE "term_ack_sent"]

\* check_read (), which also ends a read () that finds no message.
check_read(q) ==
  IF ~ Readable(q) \/ q.parts > 0 THEN q
  ELSE IF q.delimiter THEN process_delimiter(q) ELSE [q EXCEPT !.in_active = FALSE]

pipe_terminate(q, delay) ==
  [q EXCEPT !.delay = delay,
            !.state = IF @ \in {"active", "delimiter_received"} THEN "term_req_sent1"
                      ELSE IF @ = "waiting_for_delimiter" /\ ~ delay THEN "term_ack_sent"
                      ELSE @]

hiccup(q) == IF q.state # "active" THEN q
             ELSE [q EXCEPT !.parts = 0, !.delimiter = FALSE, !.in_active = TRUE]

process_pipe_term(q) ==
  [q EXCEPT !.state = CASE @ = "active" /\ q.delay -> "waiting_for_delimiter"
                        [] @ = "term_req_sent1"    -> "term_req_sent2"
                        [] OTHER                   -> "term_ack_sent"]

-----------------------------------------------------------------------------
(* own_t: what the session asks of its owner and of its child.             *)

\* terminate (): a request to the socket.
terminate(x) == [x EXCEPT !.session.asks = @ \/ ~ x.session.terminating]

\* own_t::process_term: a connecter is asked to go, in its own time.
proceed_with_term(x) ==
  [x EXCEPT !.session.pending = FALSE, !.session.terminating = TRUE]

\* start_connecting (): launch a connecter.
start_connecting(x, wait) == [x EXCEPT !.conn = Connecter(wait)]

-----------------------------------------------------------------------------
(* session_base_t.                                                         *)

pull_msg(x) ==
  LET p == x.session.pipe IN
  IF p = 0 \/ ~ Readable(x.pipes[p]) \/ x.pipes[p].parts = 0
  THEN IF p = 0 THEN x ELSE [x EXCEPT !.pipes[p] = check_read(@)]
  ELSE [x EXCEPT !.pipes[p].parts = @ - 1,
                 !.session.incomplete_in = (x.pipes[p].parts % 2 = 0)]

\* The rest of a half-read message is there, unless the pipe is not readable
\* any more.
clean_pipes(x) ==
  IF x.session.pipe = 0 \/ ~ x.session.incomplete_in THEN x
  ELSE IF Readable(x.pipes[x.session.pipe]) THEN pull_msg(x)
  ELSE zmq_assert(x, FALSE, "clean_pipes")

detached(x) ==
  IF ~ opt.connect THEN terminate(x)
  ELSE LET p == x.session.pipe
           gone == IF p = 0 \/ ~ opt.immediate THEN x
                   ELSE [x EXCEPT !.pipes[p] = pipe_terminate(hiccup(@), FALSE),
                                  !.session.terminating_pipes = @ \cup {p},
                                  !.session.pipe = 0]
           again == IF opt.ivl # -1 THEN start_connecting(gone, TRUE) ELSE gone
           q == again.session.pipe
       IN IF q # 0 /\ opt.sub THEN [again EXCEPT !.pipes[q] = hiccup(@)] ELSE again

detach(x) ==
  LET y == detached(clean_pipes([x EXCEPT !.session.engine = FALSE]))
  IN [y EXCEPT !.pipes = [k \in DOMAIN @ |->
        IF k \in {y.session.pipe, y.session.zap_pipe} THEN check_read(@[k]) ELSE @[k]]]

\* Without a pipe, as after a detach with the option immediate, an engine gets
\* a new one.
process_attach(x) ==
  LET s == x.session
      y == IF s.pipe # 0 \/ s.terminating THEN x
           ELSE [x EXCEPT !.pipes = Append(@, [NewPipe EXCEPT !.bound = FALSE]),
                          !.session.pipe = Len(x.pipes) + 1]
  IN zmq_assert([y EXCEPT !.session.engine = TRUE, !.session.zapped = FALSE],
            ~ s.engine, "process_attach")

\* Plausible bug: a session whose pipe is waiting never sets its linger timer.
process_term_untimed(x) ==
  LET s == x.session IN
  IF s.pipe = 0 /\ s.zap_pipe = 0 THEN proceed_with_term(x)
  ELSE [x EXCEPT !.session.pending = TRUE,
          !.pipes = [k \in DOMAIN @ |->
             CASE k = s.pipe     -> check_read(pipe_terminate(@[k], opt.linger # 0))
               [] k = s.zap_pipe -> pipe_terminate(@[k], FALSE)
               [] OTHER          -> @[k]]]

process_term(x) ==
  LET s == x.session IN
  IF s.pipe = 0 /\ s.zap_pipe = 0 THEN proceed_with_term(zmq_assert(x, ~ s.pending, "pending"))
  ELSE zmq_assert([x EXCEPT
          !.session.pending = TRUE,
          !.session.has_linger_timer = @ \/ (s.pipe # 0 /\ opt.linger > 0),
          !.pipes = [k \in DOMAIN @ |->
             CASE k = s.pipe     -> check_read(pipe_terminate(@[k], opt.linger # 0))
               [] k = s.zap_pipe -> pipe_terminate(@[k], FALSE)
               [] OTHER          -> @[k]]],
        ~ s.pending /\ ~ s.has_linger_timer, "process_term")

\* Plausible bug: the session proceeds while its other pipes are still there.
pipe_terminated_early(x, k) ==
  LET s == x.session
      y == CASE k = s.pipe     -> [x EXCEPT !.session.pipe = 0]
             [] k = s.zap_pipe -> [x EXCEPT !.session.zap_pipe = 0]
             [] OTHER          -> zmq_assert([x EXCEPT !.session.terminating_pipes = @ \ {k}],
                                         k \in s.terminating_pipes, "pipe_terminated")
      raw == IF s.terminating \/ ~ opt.raw THEN y
             ELSE terminate([y EXCEPT !.session.engine = FALSE])
      t == raw.session
  IN IF t.pending /\ t.pipe = 0
     THEN proceed_with_term(raw) ELSE raw

pipe_terminated(x, k) ==
  LET s == x.session
      y == CASE k = s.pipe     -> [x EXCEPT !.session.pipe = 0]
             [] k = s.zap_pipe -> [x EXCEPT !.session.zap_pipe = 0]
             [] OTHER          -> zmq_assert([x EXCEPT !.session.terminating_pipes = @ \ {k}],
                                         k \in s.terminating_pipes, "pipe_terminated")
      raw == IF s.terminating \/ ~ opt.raw THEN y
             ELSE terminate([y EXCEPT !.session.engine = FALSE])
      t == raw.session
  IN IF t.pending /\ t.pipe = 0 /\ t.zap_pipe = 0 /\ t.terminating_pipes = {}
     THEN proceed_with_term(raw) ELSE raw

\* Without an engine somebody has to find the delimiter; with one, it reads.
read_activated(x, k) ==
  LET s == x.session IN
  IF k \notin {s.pipe, s.zap_pipe}
  THEN zmq_assert(x, k \in s.terminating_pipes, "read_activated")
  ELSE IF s.engine THEN x
  ELSE IF s.pipe = 0 THEN zmq_assert(x, FALSE, "pipe is NULL")
  ELSE [x EXCEPT !.pipes[s.pipe] = check_read(@)]

timer_event(x) ==
  LET p == x.session.pipe
      y == [x EXCEPT !.session.has_linger_timer = FALSE]
  IN IF p = 0 THEN zmq_assert(y, FALSE, "timer_event")
     ELSE [y EXCEPT !.pipes[p] = pipe_terminate(@, FALSE)]

zap_connect(x) ==
  [zmq_assert(x, x.session.zap_pipe = 0, "zap_connect")
     EXCEPT !.pipes = Append(@, [NewPipe EXCEPT !.delay = FALSE, !.in_active = FALSE]),
            !.session.zap_pipe = Len(x.pipes) + 1, !.session.zapped = TRUE]

-----------------------------------------------------------------------------
(* tcp_connecter_t.                                                        *)

Random == IF opt.ivl = -1 THEN -1 .. 2 ELSE 0 .. opt.ivl - 1

\* Plausible bug: the interval goes on doubling.
add_reconnect_timer_unbounded(x, random) ==
  [x EXCEPT !.conn.timer_started = TRUE, !.conn.waits = @ + 1,
            !.conn.interval = IF opt.ivl = -1 THEN random ELSE x.conn.ivl + random,
            !.conn.ivl = IF opt.ivl_max > 0 /\ opt.ivl_max > opt.ivl THEN 2 * @ ELSE @]

\* add_reconnect_timer and get_new_reconnect_ivl: generate_random () is
\* unsigned, so that for an interval of -1 the sum may be any int.  waits only
\* counts, for the property.
add_reconnect_timer(x, random) ==
  [x EXCEPT !.conn.timer_started = TRUE, !.conn.waits = @ + 1,
            !.conn.interval = IF opt.ivl = -1 THEN random ELSE x.conn.ivl + random,
            !.conn.ivl = IF opt.ivl_max > 0 /\ opt.ivl_max > opt.ivl
                         THEN IF 2 * @ >= opt.ivl_max THEN opt.ivl_max ELSE 2 * @
                         ELSE @]

\* out_event () after connect (): the engine goes to the session and the
\* connecter asks to be terminated, or it tries again later.
out_event(x, ok, random) ==
  IF ok THEN [x EXCEPT !.conn = None, !.session.leaving = @ + 1]
  ELSE add_reconnect_timer([x EXCEPT !.conn.handle_valid = FALSE, !.conn.s = FALSE], random)

\* open () connects at once, later, or not at all.
connecter_start(x, result, random) ==
  CASE result = "connected"  -> out_event(x, TRUE, random)
    [] result = "refused"    -> out_event(x, FALSE, random)
    [] result = "inprogress" -> [x EXCEPT !.conn.s = TRUE, !.conn.handle_valid = TRUE]
    [] result = "error"      -> add_reconnect_timer(x, random)

\* A step of the connecter to state x, which may send_attach () an engine.
ConnecterStep(x, attach) ==
  /\ attach => engines < MaxEngines
  /\ x.conn # None => x.conn.waits <= MaxWaits
  /\ Becomes(x, IF attach THEN Append(mail, <<"attach", 0>>) ELSE mail)
  /\ engines' = engines + IF attach THEN 1 ELSE 0
  /\ UNCHANGED <<opt, socket, messages>>

Results == {"connected", "refused", "inprogress", "error"}

connecter_plug ==
  /\ conn # None /\ ~ conn.plugged
  /\ LET x == [Now EXCEPT !.conn.plugged = TRUE] IN
     \E random \in Random :
       IF conn.delayed_start THEN ConnecterStep(add_reconnect_timer(x, random), FALSE)
       ELSE \E r \in Results : ConnecterStep(connecter_start(x, r, random), r = "connected")

connecter_timer_event ==
  /\ conn # None /\ conn.timer_started
  /\ \E random \in Random, r \in Results :
       ConnecterStep(connecter_start([Now EXCEPT !.conn.timer_started = FALSE, !.conn.interval = 0], r, random),
                     r = "connected")

connecter_out_event ==
  /\ conn # None /\ conn.handle_valid
  /\ \E ok \in BOOLEAN, random \in Random : ConnecterStep(out_event(Now, ok, random), ok)

\* Asked to go, a plugged connecter cancels its timer and closes its socket.
connecter_process_term ==
  /\ conn # None /\ conn.plugged /\ session.terminating
  /\ ConnecterStep([Now EXCEPT !.conn = None, !.session.leaving = @ + 1], FALSE)

\* process_term_ack of the session for a connecter.
process_term_ack ==
  /\ session.leaving > 0
  /\ Becomes([Now EXCEPT !.session.leaving = @ - 1], mail)
  /\ UNCHANGED <<opt, socket, engines, messages>>

-----------------------------------------------------------------------------
(* The session's mailbox and events.                                       *)

Alive == session.life = "alive"

process_activate_read(x, k) ==
  IF x.pipes[k].in_active \/ x.pipes[k].state \notin {"active", "waiting_for_delimiter"}
  THEN x ELSE read_activated([x EXCEPT !.pipes[k].in_active = TRUE], k)

process_pipe_term_ack(x, k) ==
  pipe_terminated([x EXCEPT !.pipes[k].state = "gone", !.pipes[k].parts = 0], k)

\* The commands to its pipes reach a session that is gone as well.
process_command ==
  /\ mail # <<>>
  /\ LET type == Head(mail)[1]
         k == Head(mail)[2]
     IN    Becomes(CASE ~ Alive               -> zmq_assert(Now, FALSE, "dead sink")
                     [] type = "plug"          -> start_connecting(Now, FALSE)
                     [] type = "attach"        -> process_attach(Now)
                     [] type = "term"          -> process_term(Now)
                     [] type = "pipe_term"     -> [Now EXCEPT !.pipes[k] = process_pipe_term(@)]
                     [] type = "activate_read" -> process_activate_read(Now, k)
                     [] type = "pipe_term_ack" -> process_pipe_term_ack(Now, k),
                   Tail(mail))
  /\ UNCHANGED <<opt, socket, engines, messages>>

\* The engine reads a part, or finds that there is none.
engine_reads ==
  /\ Alive /\ session.engine /\ session.pipe # 0 /\ Readable(pipes[session.pipe])
  /\ Becomes(pull_msg(Now), mail)
  /\ UNCHANGED <<opt, socket, engines, messages>>

\* stream_engine_t::error.
engine_fails ==
  /\ Alive /\ session.engine
  /\ session.pipe # 0 /\ session.incomplete_in /\ ~ Readable(pipes[session.pipe])
       => "late loss" \in Races
  /\ opt.immediate /\ <<"term", 0>> \in ToSet(mail) => "early proceed" \in Races
  /\ opt.sub /\ opt.linger = -1 /\ session.pipe # 0 /\ pipes[session.pipe].delimiter
       => "late hiccup" \in Races
  /\ Becomes(detach(Now), mail)
  /\ UNCHANGED <<opt, socket, engines, messages>>

linger_timer ==
  /\ Alive /\ session.has_linger_timer
  /\ "late timer" \in Races \/ session.pipe # 0
  /\ Becomes(timer_event(Now), mail)
  /\ UNCHANGED <<opt, socket, engines, messages>>

\* A mechanism with ZAP asks the handler once per connection, and finds no
\* answer yet.
zap_request ==
  /\ opt.zap /\ Alive /\ session.engine /\ ~ session.zapped /\ Len(pipes) < MaxPipes
  /\ session.pending \/ session.terminating => "late zap" \in Races
  /\ Becomes(zap_connect(Now), mail)
  /\ UNCHANGED <<opt, socket, engines, messages>>

-----------------------------------------------------------------------------
(* The socket, in another thread.                                          *)

\* What reaches the session when the socket flushes into pipe k.
Wakes(k) == IF ~ pipes[k].in_active /\ <<"activate_read", k>> \notin ToSet(mail)
            THEN <<<<"activate_read", k>>>> ELSE <<>>

socket_writes(k) ==
  /\ socket # "closed" /\ messages < MaxMessages /\ k # session.zap_pipe
  /\ pipes[k].bound /\ pipes[k].state = "active" /\ ~ pipes[k].delimiter
  /\ <<"pipe_term", k>> \notin ToSet(mail)
  /\ messages' = messages + 1
  /\ pipes' = [pipes EXCEPT ![k].parts = @ + 2]
  /\ mail' = mail \o Wakes(k)
  /\ UNCHANGED <<opt, session, conn, socket, failed, engines>>

\* The ZAP handler answers.
zap_reply(k) ==
  /\ k = session.zap_pipe /\ pipes[k].state = "active" /\ pipes[k].parts = 0
  /\ pipes' = [pipes EXCEPT ![k].parts = 1] /\ mail' = mail \o Wakes(k)
  /\ UNCHANGED <<opt, session, conn, socket, failed, engines, messages>>

\* May the other end of k still send pipe_term, after its delimiter?
Closing(k) ==
  /\ pipes[k].bound /\ ~ pipes[k].acked /\ ~ pipes[k].delimiter
  /\ pipes[k].state \in {"active", "term_req_sent1"} /\ <<"pipe_term", k>> \notin ToSet(mail)

\* It terminates alone: a pair_t that has a peer, or the ZAP handler.
socket_drops(k) ==
  /\ Closing(k) /\ IF k = session.zap_pipe THEN TRUE
                    ELSE socket # "closed" /\ (opt.zap => "late zap" \in Races)
  /\ pipes' = [pipes EXCEPT ![k].delimiter = TRUE]
  /\ mail' = mail \o Wakes(k) \o <<<<"pipe_term", k>>>>
  /\ UNCHANGED <<opt, session, conn, socket, failed, engines, messages>>

\* The other end has processed the session's pipe_term or pipe_term_ack.
socket_acks(k) ==
  /\ pipes[k].state \in {"term_req_sent1", "term_req_sent2", "term_ack_sent"}
  /\ pipes[k].bound /\ ~ pipes[k].acked /\ <<"pipe_term", k>> \notin ToSet(mail)
  /\ pipes' = [pipes EXCEPT ![k].acked = TRUE]
  /\ mail' = Append(mail, <<"pipe_term_ack", k>>)
  /\ UNCHANGED <<opt, session, conn, socket, failed, engines, messages>>

\* process_term_req: the session asked for its own end.
socket_asks ==
  /\ session.asks /\ socket = "open" /\ Alive
  /\ socket' = "asked" /\ mail' = Append(mail, <<"term", 0>>)
  /\ UNCHANGED <<opt, session, pipes, conn, failed, engines, messages>>

\* The socket closes (or term_endpoint): its pipes first, then the session.
socket_closes ==
  /\ socket # "closed" /\ Alive
  /\ session.terminating_pipes # {} => "early proceed" \in Races
  /\ LET ks == SetToSeq({k \in DOMAIN pipes : Closing(k)} \ {session.zap_pipe}) IN
     /\ pipes' = [k \in DOMAIN pipes |->
                    IF k \in ToSet(ks) THEN [pipes[k] EXCEPT !.delimiter = TRUE] ELSE pipes[k]]
     /\ mail' = mail \o FlattenSeq([i \in DOMAIN ks |->
                                      Append(Wakes(ks[i]), <<"pipe_term", ks[i]>>)])
                     \o IF socket = "open" THEN <<<<"term", 0>>>> ELSE <<>>
  /\ socket' = "closed"
  /\ UNCHANGED <<opt, session, conn, failed, engines, messages>>

\* process_bind in the socket, which terminates the pipe when it is closing.
socket_binds(k) ==
  /\ ~ pipes[k].bound
  /\ IF socket = "closed" /\ pipes[k].state = "active"
     THEN /\ pipes' = [pipes EXCEPT ![k].bound = TRUE, ![k].delimiter = TRUE]
          /\ mail' = mail \o Wakes(k) \o <<<<"pipe_term", k>>>>
     ELSE pipes' = [pipes EXCEPT ![k].bound = TRUE] /\ UNCHANGED mail
  /\ UNCHANGED <<opt, session, conn, socket, failed, engines, messages>>

-----------------------------------------------------------------------------
Next ==
  \/ connecter_plug \/ connecter_timer_event \/ connecter_out_event
  \/ connecter_process_term \/ process_term_ack
  \/ process_command \/ engine_reads \/ engine_fails \/ linger_timer \/ zap_request
  \/ socket_asks \/ socket_closes
  \/ \E k \in DOMAIN pipes : \/ socket_acks(k) \/ zap_reply(k) \/ socket_writes(k)
                             \/ socket_drops(k) \/ socket_binds(k)

Spec == Init /\ [][Next]_vars

\* Something is done as long as there is something to do: the I/O thread
\* processes commands and timers, a connection that is up takes what there is to
\* send, the socket's thread answers.  No connection has to come about or to break,
\* and nobody has to close the socket.
Service ==
  \/ process_command \/ process_term_ack \/ connecter_plug \/ connecter_process_term
  \/ linger_timer \/ engine_reads
  \/ socket_asks \/ \E k \in DOMAIN pipes : socket_acks(k) \/ socket_binds(k)

Fairness == WF_vars(Service)

FairSpec == Spec /\ Fairness

-----------------------------------------------------------------------------
(* Properties.                                                             *)

\* No assertion of session_base.cpp fails while timers, connections, failures
\* and commands come in any order but those of Races: the linger timer after its
\* pipe has gone ("late timer"), a loss in mid-message when the pipe can no longer
\* be read ("late loss"), an end of the session with an earlier pipe under way
\* ("early proceed"), a question to the ZAP handler of a session that ends
\* ("late zap").  A session is destroyed without pipes (the assertions of its
\* destructor) and no pipe is left that would call it.
SessionAsserts ==
  /\ failed = {}
  /\ ~ Alive => /\ session.pipe = 0 /\ session.zap_pipe = 0
                /\ \A k \in DOMAIN pipes : pipes[k].state = "gone"

\* The base of a connecter's n-th wait: twice as long each time, up to the
\* maximum; a maximum that is not above the interval is ignored.
Base(n) == IF opt.ivl_max > opt.ivl THEN Min({opt.ivl_max, opt.ivl * 2 ^ (n - 1)}) ELSE opt.ivl

\* A connecter's n-th wait lasts its base and a random part shorter than the first
\* base (tcp_connecter.cpp:188).  The random part comes on top of a base that
\* has reached the maximum, so a wait may be longer than "the maximum period 0MQ
\* shall wait" that zmq_setsockopt says of ZMQ_RECONNECT_IVL_MAX.
BackOff ==
  conn # None /\ conn.timer_started /\ opt.ivl > 0 =>
    conn.interval \in Base(conn.waits) .. Base(conn.waits) + opt.ivl - 1

\* The two together.
SessionSafe == SessionAsserts /\ BackOff

\* A session that was asked to terminate is destroyed: at the latest when its
\* linger time is over, and without one as soon as nothing is left to send,
\* even when no connection is there to read the delimiter.  A SUB whose linger
\* time is for ever must not lose its connection between the delimiter and the
\* session's reading it: the hiccup throws the delimiter away, and the session
\* waits for it for ever ("late hiccup").
Ended ==
  socket = "closed" /\ (opt.linger >= 0 \/ \A k \in DOMAIN pipes : pipes[k].parts = 0) => ~ Alive
SessionEnds == <>[]Ended
=============================================================================
