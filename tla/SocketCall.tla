----------------------------- MODULE SocketCall -----------------------------
(***************************************************************************)
(* The blocking calls of the application: socket_base_t::send and recv with *)
(* their timeouts, process_commands, getsockopt (ZMQ_EVENTS), and zmq_poll, *)
(* which the client's poll loop is built on.  One application thread owns   *)
(* the sockets; each has one pipe to a peer, whose thread writes, reads and *)
(* posts commands (activate_read, activate_write, stop) to the socket's     *)
(* mailbox.  A reader that finds its pipe empty goes to sleep and sees new  *)
(* messages only after it processed the activate_read command, so a call    *)
(* that waits on the mailbox although the command has been processed        *)
(* already, or that answers before it looked for commands, loses a message  *)
(* that is there.                                                           *)
(*                                                                         *)
(* The effects of the three commands commute, so the mailbox is a record of *)
(* what waits in it.  A step drains it and looks at the pipe in one go: the *)
(* peers' steps commute with either half.  Time is the rest of the call's   *)
(* timeout (left) and of the current wait (wait_left), -1 being for ever.   *)
(***************************************************************************)
EXTENDS Integers, FiniteSets
CONSTANTS
  Sockets, Timeouts,
  Called,             \* the sockets send and recv are called on; all are polled
  ItemSets,           \* the poll items: what a zmq_poll asks of each socket
  Hwm,                \* the outbound high watermark
  inbound_poll_rate,
  MaxMessages         \* messages a peer sends on a socket
VARIABLES sock, app, sent

callVars == <<sock, app, sent>>

Empty == [read |-> FALSE, writes |-> 0, stop |-> FALSE]
NoItems == [s \in Sockets |-> {}]
Idle == [pc |-> "idle", op |-> "none", s |-> CHOOSE s \in Sockets : TRUE, items |-> NoItems,
         timeout |-> 0, left |-> 0, wait_left |-> 0, block |-> FALSE, first_pass |-> FALSE,
         revents |-> NoItems, ret |-> "none", owed |-> NoItems]

CallInit ==
  /\ sock = [s \in Sockets |-> [pending |-> 0, in_active |-> FALSE, asleep |-> TRUE,
       outq |-> 0, outstanding |-> 0, out_active |-> TRUE,
       mailbox |-> Empty, ctx_terminated |-> FALSE, ticks |-> 0]]
  /\ app = Idle
  /\ sent = [s \in Sockets |-> 0]
-----------------------------------------------------------------------------
\* The peer writes and flushes; a sleeping reader is sent activate_read.
PeerWrites(s) ==
  /\ sent[s] < MaxMessages
  /\ sent' = [sent EXCEPT ![s] = @ + 1]
  /\ sock' = [sock EXCEPT ![s].pending = @ + 1, ![s].asleep = FALSE,
                          ![s].mailbox.read = @ \/ sock[s].asleep]
  /\ UNCHANGED app

\* The peer reads and reports it (the low watermark of the small Hwm is one).
PeerReads(s) ==
  /\ sock[s].outq > 0
  /\ sock' = [sock EXCEPT ![s].outq = @ - 1, ![s].mailbox.writes = @ + 1]
  /\ UNCHANGED <<app, sent>>

\* zmq_ctx_term sends stop to every socket.
ContextStops ==
  /\ \A s \in Sockets : ~ sock[s].mailbox.stop /\ ~ sock[s].ctx_terminated
  /\ sock' = [s \in Sockets |-> [sock[s] EXCEPT !.mailbox.stop = TRUE]]
  /\ UNCHANGED <<app, sent>>

Tick ==
  /\ app.pc # "idle" /\ (app.left > 0 \/ app.wait_left > 0)
  /\ app' = [app EXCEPT !.left = IF @ > 0 THEN @ - 1 ELSE @,
                        !.wait_left = IF @ > 0 THEN @ - 1 ELSE @]
  /\ UNCHANGED <<sock, sent>>
-----------------------------------------------------------------------------
\* process_commands: everything in the mailbox is processed.
process_commands(r) ==
  [r EXCEPT !.in_active = @ \/ r.mailbox.read,
            !.outstanding = @ - r.mailbox.writes,
            !.out_active = @ \/ r.mailbox.writes > 0,
            !.ctx_terminated = @ \/ r.mailbox.stop,
            !.mailbox = Empty]

\* Unless throttled: the time stamp counter says it was done a moment ago.
throttled_commands(r) == {r, process_commands(r)}

\* The pipe's check_read and check_write put a side that cannot go on to sleep.
has_in(r) == r.in_active /\ r.pending > 0
check_read(r) ==
  IF has_in(r) \/ ~ r.in_active THEN r ELSE [r EXCEPT !.in_active = FALSE, !.asleep = TRUE]
has_out(r) == r.out_active /\ r.outstanding < Hwm
check_write(r) == IF has_out(r) THEN r ELSE [r EXCEPT !.out_active = FALSE]

xrecv(r) == IF has_in(r) THEN [r EXCEPT !.pending = @ - 1] ELSE check_read(r)
xsend(r) == IF has_out(r) THEN [r EXCEPT !.outq = @ + 1, !.outstanding = @ + 1]
            ELSE check_write(r)

getsockopt_events(r) == check_read(check_write(process_commands(r)))

Returns(ret) == app' = [Idle EXCEPT !.ret = ret]
Becomes(s, r) == sock' = [sock EXCEPT ![s] = r] /\ UNCHANGED sent

\* What is there when the call is made, whether the socket has noticed or not.
Owed(items) == [s \in Sockets |->
  {e \in items[s] : \/ e = "in" /\ sock[s].pending > 0
                    \/ e = "out" /\ sock[s].outq < Hwm}]
Call(op, s, items, t) ==
  /\ app.pc = "idle"
  /\ app' = [Idle EXCEPT !.pc = op, !.op = op, !.s = s, !.items = items, !.timeout = t,
                         !.left = t, !.wait_left = t, !.owed = Owed(items)]
  /\ UNCHANGED <<sock, sent>>
-----------------------------------------------------------------------------
send ==
  /\ app.pc = "send"
  /\ IF sock[app.s].ctx_terminated THEN Returns("ETERM") /\ UNCHANGED <<sock, sent>>
     ELSE \E r \in throttled_commands(sock[app.s]) :
       IF r.ctx_terminated THEN Returns("ETERM") /\ Becomes(app.s, r)
       ELSE /\ Becomes(app.s, xsend(r))
            /\ IF has_out(r) THEN Returns("ok")
               ELSE IF app.timeout = 0 THEN Returns("EAGAIN")
               ELSE app' = [app EXCEPT !.pc = "send_loop"]

\* A wait on the mailbox ends with a command, at the timeout, or by a signal.
Woken(s) == sock[s].mailbox # Empty \/ app.wait_left = 0

\* What a waiting send or recv does when it found nothing again.
again == IF app.timeout > 0 /\ app.left = 0 THEN Returns("EAGAIN")
         ELSE app' = [app EXCEPT !.block = TRUE, !.wait_left = app.left]

send_loop ==
  /\ app.pc = "send_loop" /\ Woken(app.s)
  /\ \E r \in {process_commands(sock[app.s])} :
       IF r.ctx_terminated THEN Returns("ETERM") /\ Becomes(app.s, r)
       ELSE /\ Becomes(app.s, xsend(r))
            /\ IF has_out(r) THEN Returns("ok") ELSE again

\* Every inbound_poll_rate calls the commands are processed even though there
\* may be messages.
recv ==
  /\ app.pc = "recv"
  /\ LET ticks == sock[app.s].ticks + 1
         polled == [sock[app.s] EXCEPT !.ticks = ticks]
         r0 == IF ticks = inbound_poll_rate THEN process_commands(polled) ELSE polled
     IN IF sock[app.s].ctx_terminated THEN Returns("ETERM") /\ UNCHANGED <<sock, sent>>
        ELSE IF r0.ctx_terminated THEN Returns("ETERM") /\ Becomes(app.s, r0)
        ELSE \E r \in {[r0 EXCEPT !.ticks = @ % inbound_poll_rate]} :
          /\ Becomes(app.s, xrecv(r))
          /\ IF has_in(r) THEN Returns("ok")
             ELSE app' = [app EXCEPT !.pc = "recv_loop", !.block = r.ticks # 0]

\* Plausible bug: no second attempt once the commands are processed.
recv_hasty == Returns("EAGAIN") /\ UNCHANGED <<sock, sent>>

\* The second attempt of a recv that must not wait.
recv_dontwait ==
  \E r \in {process_commands(sock[app.s])} :
    IF r.ctx_terminated THEN Returns("ETERM") /\ Becomes(app.s, r)
    ELSE /\ Becomes(app.s, [xrecv(r) EXCEPT !.ticks = 0])
         /\ Returns(IF has_in(r) THEN "ok" ELSE "EAGAIN")

recv_nonblocking == app.pc = "recv_loop" /\ app.timeout = 0 /\ recv_dontwait

recv_loop ==
  /\ app.pc = "recv_loop" /\ app.timeout # 0 /\ (app.block => Woken(app.s))
  /\ \E r \in {process_commands(sock[app.s])} :
       IF r.ctx_terminated THEN Returns("ETERM") /\ Becomes(app.s, r)
       ELSE IF has_in(r) THEN Becomes(app.s, [xrecv(r) EXCEPT !.ticks = 0]) /\ Returns("ok")
       ELSE Becomes(app.s, xrecv(r)) /\ again
-----------------------------------------------------------------------------
\* Plausible bug: the first pass waits, as if nothing could be there already.
zmq_poll_waiting ==
  /\ app.pc = "poll"
  /\ IF \E s \in Sockets : sock[s].ctx_terminated THEN Returns("ETERM")
     ELSE app' = [app EXCEPT !.pc = "poll_loop", !.first_pass = FALSE]
  /\ UNCHANGED <<sock, sent>>

\* The pollset is built from ZMQ_FD, which a terminated socket refuses.
zmq_poll ==
  /\ app.pc = "poll"
  /\ IF \E s \in Sockets : sock[s].ctx_terminated THEN Returns("ETERM")
     ELSE app' = [app EXCEPT !.pc = "poll_loop", !.first_pass = TRUE]
  /\ UNCHANGED <<sock, sent>>

\* A mailbox's descriptor is readable while a command is in it; a socket that
\* is asked for no event is polled for none.
Readable == \E s \in Sockets : app.items[s] # {} /\ sock[s].mailbox # Empty

\* One pass: poll () or select (), then ZMQ_EVENTS of each socket.
poll_pass ==
  /\ app.pc = "poll_loop"
  /\ app.first_pass \/ Readable \/ app.wait_left = 0
  /\ LET after == [s \in Sockets |-> getsockopt_events(sock[s])]
         revents == [s \in Sockets |-> {e \in app.items[s] :
           \/ e = "in" /\ has_in(after[s])
           \/ e = "out" /\ has_out(after[s])}]
     IN /\ sock' = after /\ UNCHANGED sent
        /\ IF \E s \in Sockets : after[s].ctx_terminated THEN Returns("ETERM")
           ELSE IF app.timeout = 0 \/ revents # NoItems
             THEN app' = [Idle EXCEPT !.ret = "ok", !.revents = revents]
           ELSE IF app.first_pass
             THEN app' = [app EXCEPT !.first_pass = FALSE,
                                     !.left = app.timeout, !.wait_left = app.timeout]
           ELSE IF app.timeout > 0 /\ app.left = 0 THEN Returns("ok")
           ELSE app' = [app EXCEPT !.wait_left = app.left]

\* A signal interrupts a wait: the call fails with EINTR.
interrupted ==
  /\ \/ app.pc = "send_loop"
     \/ app.pc = "recv_loop" /\ app.timeout # 0 /\ app.block
     \/ app.pc = "poll_loop" /\ ~ app.first_pass
  /\ Returns("EINTR")
  /\ UNCHANGED <<sock, sent>>

AppStep ==
  send \/ send_loop \/ recv \/ recv_nonblocking \/ recv_loop \/ zmq_poll \/ poll_pass

CallNext ==
  \/ \E s \in Sockets : PeerWrites(s) \/ PeerReads(s)
  \/ ContextStops \/ Tick \/ AppStep \/ interrupted
  \/ \E s \in Called, t \in Timeouts :
       Call("send", s, NoItems, t) \/ Call("recv", s, [NoItems EXCEPT ![s] = {"in"}], t)
  \/ \E items \in ItemSets, t \in Timeouts : Call("poll", app.s, items, t)

\* The caller's thread runs and time passes.
CallFairness == WF_callVars(AppStep) /\ WF_callVars(Tick)
-----------------------------------------------------------------------------
\* An answer is true: a recv or a poll that was called when a message (or room
\* to write) was there does not come back without it, EAGAIN is not returned
\* before the timeout has passed, and what a poll reports the next call finds:
\* the proxy and the client's loop go on to a blocking recv on the strength of it.
TrueAnswer ==
  app.pc # "idle" /\ app'.pc = "idle" =>
    /\ app'.ret = "EAGAIN" => app.left = 0 /\ (app.op = "recv" => app.owed = NoItems)
    /\ app.op = "poll" /\ app'.ret = "ok" =>
         /\ app'.revents = NoItems => app.left = 0 /\ app.owed = NoItems
         /\ \A s \in Sockets : /\ "in" \in app'.revents[s] => has_in(sock'[s])
                               /\ "out" \in app'.revents[s] => has_out(sock'[s])
CallsHonest == [][TrueAnswer]_callVars

\* A call that waits for something that is there comes back, whichever earlier
\* call took the command that announced it; so does every call of a context
\* that is being terminated.
Wanted == \/ app.op = "recv" /\ sock[app.s].pending > 0
          \/ app.op = "send" /\ sock[app.s].outq < Hwm
          \/ app.op = "poll" /\ Owed(app.items) # NoItems
Stopping == app.pc # "idle" /\ app.items # NoItems /\ \E s \in Sockets : sock[s].mailbox.stop
CallsReturn == Wanted \/ Stopping ~> app.pc = "idle"
=============================================================================
