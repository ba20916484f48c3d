------------------------------- MODULE Engine -------------------------------
(***************************************************************************)
(* stream_engine_t between the network and the pipe of its session, once   *)
(* the greeting is over: reading until the pipe is full and taking up      *)
(* again, writing until there is nothing and taking up again, with a       *)
(* connection that may break and be made anew over the same pipe.          *)
(*                                                                         *)
(* A message from the peer is [conn, n, sealed]: the n-th of connection    *)
(* conn, sealed until its mechanism has decoded it.  Each connection       *)
(* starts with Id, the command that ends the security handshake or, in   *)
(* ZMTP/2.0, the identity.  Messages have one part.                        *)
(***************************************************************************)
EXTENDS Integers, Sequences, SequencesExt

CONSTANTS
  Settings,   \* [v3, recv_identity, subscription_required : BOOLEAN] to choose from
  Hwm,        \* messages the pipe to the socket holds
  MaxPeer,    \* bound: messages of the peer on a connection
  MaxSend,    \* bound: messages of the socket
  MaxConns,   \* bound: connections
  Races       \* {"full pipe"}: a connection may be made while the pipe is full

VARIABLES
  set,      \* the settings
  eng,      \* the fields of the engine, or None
  inpipe,   \* the pipe to the socket, with the writer's fields
  outpipe,  \* the pipe from the socket, with the reader's fields
  mail,     \* commands for the session
  net,      \* what has arrived, and how many the peer has sent on this connection
  got,      \* what the socket has read
  taken,    \* what went out, in order
  sent,     \* messages the socket has sent
  conns, failed

vars == <<set, eng, inpipe, outpipe, mail, net, got, taken, sent, conns, failed>>

None == <<>>
Id == [conn |-> 0, n |-> 0, sealed |-> FALSE]
Subscription == [conn |-> 0, n |-> 1, sealed |-> FALSE]
Lwm == (Hwm + 1) \div 2

NewEngine == [mode |-> "handshake", inbuf |-> <<>>, msg |-> None, input_stopped |-> FALSE,
              output_stopped |-> FALSE, io_error |-> FALSE]

Init ==
  /\ set \in Settings /\ eng = None /\ mail = <<>> /\ got = <<>> /\ taken = <<>>
  /\ inpipe = [queue |-> <<>>, unflushed |-> <<>>, out_active |-> TRUE,
               written |-> 0, peers_read |-> 0, read |-> 0]
  /\ outpipe = [queue |-> <<>>, in_active |-> TRUE]
  /\ net = [data |-> <<>>, count |-> 0, eof |-> TRUE] /\ sent = 0 /\ conns = 0 /\ failed = {}

Now == [eng |-> eng, in |-> inpipe, out |-> outpipe, net |-> net, taken |-> taken,
        failed |-> failed, rc |-> "ok"]

Becomes(x) ==
  \E y \in {x} : /\ eng' = y.eng /\ inpipe' = y.in /\ outpipe' = y.out /\ net' = y.net
                 /\ taken' = y.taken /\ failed' = y.failed

zmq_assert(x, holds, name) == IF holds THEN x ELSE [x EXCEPT !.failed = @ \cup {name}]

-----------------------------------------------------------------------------
(* The session's ends of the pipe.                                         *)

flush(x) == [x EXCEPT !.in.queue = @ \o x.in.unflushed, !.in.unflushed = <<>>]

\* push_msg and pipe_t::write: an identity is not counted.
push_msg(x, msg) ==
  IF ~ x.in.out_active THEN [x EXCEPT !.rc = "again"]
  ELSE IF x.in.written - x.in.peers_read = Hwm
       THEN [x EXCEPT !.in.out_active = FALSE, !.rc = "again"]
  ELSE [x EXCEPT !.in.unflushed = Append(@, msg), !.rc = "ok",
                 !.in.written = @ + IF msg = Id THEN 0 ELSE 1]

pull_msg(x) ==
  IF ~ x.out.in_active \/ x.out.queue = <<>> THEN [x EXCEPT !.out.in_active = FALSE, !.rc = "again"]
  ELSE [x EXCEPT !.taken = Append(@, Head(x.out.queue)), !.out.queue = Tail(@), !.rc = "ok"]

-----------------------------------------------------------------------------
(* Output.                                                                 *)

\* out_event: out_batch_size is one message.
out_event(x) ==
  LET y == IF x.eng.mode = "handshake" THEN [x EXCEPT !.rc = "again"] ELSE pull_msg(x)
  IN [y EXCEPT !.eng.output_stopped = (y.rc # "ok"), !.rc = "ok"]

restart_output(x) == IF x.eng.io_error THEN x ELSE out_event(x)

-----------------------------------------------------------------------------
(* Input: what write_msg points to.                                        *)

\* The write fails when the pipe is full as well, and then the engine is left
\* with its handshake functions.
mechanism_ready(x) ==
  LET y == IF set.recv_identity THEN push_msg(x, Id) ELSE [x EXCEPT !.rc = "ok"]
  IN IF y.rc = "again"
     THEN [zmq_assert(y, FALSE, "mechanism_ready") EXCEPT !.rc = "ok"]
     ELSE [flush(y) EXCEPT !.eng.mode = "decode_and_push"]

process_handshake_command(x) ==
  IF x.eng.msg # Id THEN [x EXCEPT !.rc = "error"]
  ELSE LET y == mechanism_ready(x)
       IN IF y.eng.output_stopped THEN restart_output(y) ELSE y

write_identity(x) ==
  LET y == IF set.recv_identity THEN push_msg(x, Id) ELSE [x EXCEPT !.rc = "ok"]
  IN [zmq_assert(y, y.rc = "ok", "write_identity")
        EXCEPT !.rc = "ok", !.eng.mode = IF set.subscription_required THEN "subscription" ELSE "push",
               !.eng.output_stopped = FALSE]

\* decode opens the message in place; it is not there to be opened twice.
decode_and_push(x) ==
  IF ~ x.eng.msg.sealed THEN [x EXCEPT !.rc = "error"]
  ELSE LET y == [x EXCEPT !.eng.msg.sealed = FALSE]
           z == push_msg(y, y.eng.msg)
       IN IF z.rc = "again" THEN [z EXCEPT !.eng.mode = "push_one"] ELSE z

push_one_then_decode_and_push(x) ==
  LET y == push_msg(x, x.eng.msg)
  IN IF y.rc = "ok" THEN [y EXCEPT !.eng.mode = "decode_and_push"] ELSE y

write_subscription_msg(x) ==
  LET y == push_msg(x, Subscription)
  IN IF y.rc # "ok" THEN y ELSE push_msg([y EXCEPT !.eng.mode = "push"], x.eng.msg)

write_msg(x) ==
  CASE x.eng.mode = "handshake" -> IF set.v3 THEN process_handshake_command(x) ELSE write_identity(x)
    [] x.eng.mode = "decode_and_push" -> decode_and_push(x)
    [] x.eng.mode = "push_one"        -> push_one_then_decode_and_push(x)
    [] x.eng.mode = "subscription"    -> write_subscription_msg(x)
    [] x.eng.mode = "push"            -> push_msg(x, x.eng.msg)

\* The loop that decodes and writes what was read.
RECURSIVE write_all(_)
write_all(x) ==
  IF x.eng.inbuf = <<>> THEN [x EXCEPT !.rc = "ok"]
  ELSE LET y == write_msg([x EXCEPT !.eng.msg = Head(x.eng.inbuf), !.eng.inbuf = Tail(@)])
       IN IF y.rc = "ok" THEN write_all(y) ELSE y

\* error (), and detach () of the session.
error(x) == [flush(x) EXCEPT !.eng = None]

\* in_event with count messages read; none when there are none, or the end.
in_event(x, count) ==
  IF x.eng.input_stopped THEN [x EXCEPT !.eng.io_error = TRUE]
  ELSE IF x.eng.inbuf = <<>> /\ count = 0 THEN IF x.net.eof /\ x.net.data = <<>> THEN error(x) ELSE x
  ELSE LET read == IF x.eng.inbuf # <<>> THEN x
                   ELSE [x EXCEPT !.eng.inbuf = SubSeq(x.net.data, 1, count),
                                  !.net.data = SubSeq(@, count + 1, Len(@))]
           y == write_all(read)
       IN IF y.rc = "error" THEN error(y)
          ELSE flush([y EXCEPT !.eng.input_stopped = (y.rc = "again")])

\* Plausible bug: the message that found no room is forgotten.
restart_input_skips(x, count) ==
  LET y == write_all(zmq_assert(x, x.eng.input_stopped, "restart_input"))
  IN CASE y.rc = "again" -> flush(y)
       [] y.rc = "error" \/ y.eng.io_error -> error(y)
       [] OTHER -> in_event(flush([y EXCEPT !.eng.input_stopped = FALSE]), count)

restart_input(x, count) ==
  LET first == write_msg(zmq_assert(x, x.eng.input_stopped, "restart_input"))
      y == IF first.rc = "ok" THEN write_all(first) ELSE first
  IN CASE y.rc = "again" -> flush(y)
       [] y.rc = "error" -> error(y)
       [] y.rc = "ok" /\ y.eng.io_error -> error(y)
       [] OTHER -> in_event(flush([y EXCEPT !.eng.input_stopped = FALSE]), count)

-----------------------------------------------------------------------------
(* Actions.                                                                *)

Counts(x) == IF x.net.data = <<>> THEN {0} ELSE 1 .. Len(x.net.data)

\* The poller: for input unless it is stopped, for an error in any case.
poll_in ==
  /\ eng # None /\ ~ eng.io_error
  /\ net.eof \/ (~ eng.input_stopped /\ net.data # <<>>)
  /\ \E n \in Counts(Now) : Becomes(in_event(Now, n))
  /\ UNCHANGED <<set, mail, got, sent, conns>>

poll_out ==
  /\ eng # None /\ ~ eng.io_error /\ ~ eng.output_stopped
  /\ Becomes(out_event(Now))
  /\ UNCHANGED <<set, mail, got, sent, conns>>

\* A new connection: the connecter attaches an engine, the pipe stays.
attach ==
  /\ eng = None /\ conns < MaxConns
  /\ ~ inpipe.out_active \/ inpipe.written - inpipe.peers_read = Hwm => "full pipe" \in Races
  /\ conns' = conns + 1 /\ eng' = NewEngine
  /\ net' = [data |-> <<Id>>, count |-> 0, eof |-> FALSE]
  /\ UNCHANGED <<set, inpipe, outpipe, mail, got, taken, sent, failed>>

\* write_activated and read_activated of the session.
process_command ==
  /\ mail # <<>> /\ mail' = Tail(mail)
  /\ IF Head(mail) = <<"activate_read", 0>>
     THEN LET x == [Now EXCEPT !.out.in_active = TRUE]
          IN Becomes(IF outpipe.in_active THEN Now
                     ELSE IF eng # None THEN restart_output(x)
                     ELSE [x EXCEPT !.out.in_active = (outpipe.queue # <<>>)])
     ELSE LET x == [Now EXCEPT !.in.peers_read = Head(mail)[2], !.in.out_active = TRUE]
          IN IF inpipe.out_active \/ eng = None THEN Becomes(x)
             ELSE \E n \in Counts(Now) \cup {0} : Becomes(restart_input(x, n))
  /\ UNCHANGED <<set, got, sent, conns>>

\* The socket reads; every Lwm messages it tells the writer.
socket_recv ==
  /\ inpipe.queue # <<>>
  /\ LET msg == Head(inpipe.queue)
         n == inpipe.read + IF msg = Id THEN 0 ELSE 1
     IN /\ inpipe' = [inpipe EXCEPT !.queue = Tail(@), !.read = n]
        /\ got' = Append(got, msg)
        /\ mail' = IF n % Lwm = 0 THEN Append(mail, <<"activate_write", n>>) ELSE mail
  /\ UNCHANGED <<set, eng, outpipe, net, taken, sent, conns, failed>>

socket_send ==
  /\ sent < MaxSend /\ sent' = sent + 1
  /\ outpipe' = [outpipe EXCEPT !.queue = Append(@, sent + 1)]
  /\ mail' = IF outpipe.in_active \/ <<"activate_read", 0>> \in ToSet(mail) THEN mail
             ELSE Append(mail, <<"activate_read", 0>>)
  /\ UNCHANGED <<set, eng, inpipe, net, got, taken, conns, failed>>

peer_sends ==
  /\ ~ net.eof /\ net.count < MaxPeer
  /\ net' = [net EXCEPT !.count = @ + 1,
                        !.data = Append(@, [conn |-> conns, n |-> net.count + 1, sealed |-> set.v3])]
  /\ UNCHANGED <<set, eng, inpipe, outpipe, mail, got, taken, sent, conns, failed>>

\* The connection ends; what has arrived can be read, or is lost.
connection_lost ==
  /\ ~ net.eof
  /\ net' \in {[net EXCEPT !.eof = TRUE], [net EXCEPT !.eof = TRUE, !.data = <<>>]}
  /\ UNCHANGED <<set, eng, inpipe, outpipe, mail, got, taken, sent, conns, failed>>

\* What the I/O thread does, the connecter that connects again included, and
\* the application that reads what there is.
Service == socket_recv \/ attach \/ poll_out \/ process_command \/ poll_in

Next == Service \/ socket_send \/ peer_sends \/ connection_lost

Spec == Init /\ [][Next]_vars

\* They go on as long as there is something to do for one of them.
Fairness == WF_vars(Service)

FairSpec == Spec /\ Fairness

-----------------------------------------------------------------------------
(* Properties.                                                             *)

\* No assertion of the engine fails, and a handshake that ends finds room in
\* the pipe for the identity ("the pipe must be being shut down" otherwise).
EngineAsserts == failed = {}

Of(c) == SelectSeq(got, LAMBDA msg : msg.conn = c)

\* The assertions hold; from each connection the socket gets a gapless
\* beginning of what the peer sent, in order, each message opened once,
\* however often the pipe was full; the other way nothing is repeated, or
\* lost but on the network.
EngineSafe ==
  /\ EngineAsserts
  /\ \A c \in 1 .. MaxConns :
       Of(c) = [i \in 1 .. Len(Of(c)) |-> [conn |-> c, n |-> i, sealed |-> FALSE]]
  /\ taken \o outpipe.queue = [i \in 1 .. sent |-> i]

\* An engine that stopped for a full or an empty pipe takes up again: over a
\* connection that lasts everything passes, in both directions (connections are finitely many).
Flowed ==
  eng # None /\ ~ net.eof =>
    /\ outpipe.queue = <<>> /\ net.data = <<>>
    /\ \A i \in 1 .. net.count : [conn |-> conns, n |-> i, sealed |-> FALSE] \in ToSet(got)
EngineFlows == <>[]Flowed
=============================================================================
