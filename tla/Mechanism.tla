----------------------------- MODULE Mechanism ------------------------------
(***************************************************************************)
(* The security handshake of ZMTP/3.0: mechanism_t with its NULL, PLAIN    *)
(* and CURVE subclasses at the two ends of a connection, driven by the     *)
(* part of stream_engine_t that follows the greeting, and asking the ZAP   *)
(* handler of the process.  a connects, b is the server of PLAIN and CURVE.*)
(*                                                                         *)
(* A command is a record of its fields.  A box of the crypto library is a  *)
(* record too: it opens for whoever has its keys, prefix and nonce.  One   *)
(* out_event () sends one command (out_batch_size is a command), and the   *)
(* network takes it at once.                                               *)
(***************************************************************************)
EXTENDS Integers, Sequences, FiniteSets, SequencesExt

CONSTANTS
  Confs,        \* settings to choose from: mech; by end its socket type and the
                \* answer of its ZAP handler, "none" without one; the server key
                \* that a was given, "S" is right; the first cn_nonce
  Races,        \* {"quick refusal"}: see null_next_handshake_command
  MaxMessages,  \* bound: messages of each end
  Nonces        \* bound: cn_nonce counts modulo this, for 2^64

VARIABLES
  conf,      \* the settings chosen
  m,         \* per end, the fields of its mechanism
  engine,    \* per end, the fields of its engine
  zap,       \* per end: "idle", "asked", "answered" or "read"
  chan,      \* per end, the commands on their way to it
  pending,   \* per end, messages its session holds, -1 before the socket sends
  inbox,     \* per end, messages pushed to its session
  boxes      \* every box made under the connection's keys

vars == <<conf, m, engine, zap, chan, pending, inbox, boxes>>

Ends == {"a", "b"}
Other(p) == IF p = "a" THEN "b" ELSE "a"

None == <<>>

\* curve_client_t does not initialize cn_nonce: it starts anywhere.
Mechanism0(p) ==
  [state |-> IF conf.mech = "NULL" THEN "null" ELSE IF p = "a" THEN "send_hello" ELSE "expect_hello",
   ready_command_sent |-> FALSE, ready_command_received |-> FALSE, zap_request_sent |-> FALSE,
   zap_reply_received |-> FALSE, nonce |-> IF p = "a" THEN conf.nonce ELSE 1,
   cn_other |-> "", cookie |-> None, precom |-> {}, peer |-> None]

Init ==
  /\ conf \in Confs
  /\ m = [p \in Ends |-> Mechanism0(p)]
  /\ engine = [p \in Ends |-> [mode |-> "handshake", output_stopped |-> FALSE, failed |-> FALSE]]
  /\ zap = [p \in Ends |-> "idle"] /\ chan = [p \in Ends |-> <<>>]
  /\ pending = [p \in Ends |-> -1] /\ inbox = [p \in Ends |-> <<>>] /\ boxes = <<>>

Now == [m |-> m, engine |-> engine, zap |-> zap, chan |-> chan, pending |-> pending,
        inbox |-> inbox, boxes |-> boxes, rc |-> "ok"]

Becomes(x) ==
  \E y \in {x} : /\ m' = y.m /\ engine' = y.engine /\ zap' = y.zap /\ chan' = y.chan
                 /\ pending' = y.pending /\ inbox' = y.inbox /\ boxes' = y.boxes /\ UNCHANGED conf

Rc(x, rc) == [x EXCEPT !.rc = rc]
To(x, p, cmd) == [x EXCEPT !.chan[p] = Append(@, cmd), !.rc = "ok"]

-----------------------------------------------------------------------------
(* mechanism_t: the metadata and the ZAP request.                          *)

Identified == {"REQ", "DEALER", "ROUTER"}

\* add_property: the identity is sent by some socket types only.
Metadata(p) == [type |-> conf.type[p],
                identity |-> IF conf.type[p] \in Identified THEN <<p>> ELSE <<>>]

check_socket_type(mine, theirs) ==
  theirs \in CASE mine = "REQ"    -> {"REP", "ROUTER"}
               [] mine = "REP"    -> {"REQ", "DEALER"}
               [] mine = "DEALER" -> {"REP", "DEALER", "ROUTER"}
               [] mine = "ROUTER" -> {"REQ", "DEALER", "ROUTER"}
               [] mine = "PUSH"   -> {"PULL"}
               [] mine = "PULL"   -> {"PUSH"}
               [] mine \in {"PUB", "XPUB"} -> {"SUB", "XSUB"}
               [] mine \in {"SUB", "XSUB"} -> {"PUB", "XPUB"}
               [] mine = "PAIR"   -> {"PAIR"}
               [] OTHER           -> {}

recv_identity(p) == conf.type[p] \in {"ROUTER", "REP"}

parse_metadata(x, p, data) ==
  IF check_socket_type(conf.type[p], data.type)
  THEN [x EXCEPT !.m[p].peer = IF recv_identity(p) THEN data.identity ELSE <<>>, !.rc = "ok"]
  ELSE Rc(x, "error")

\* The request is on its way; a quick handler has answered before the next
\* statement.
send_zap_request(x, p, quick) == [x EXCEPT !.zap[p] = IF quick THEN "answered" ELSE "asked"]

receive_and_process_zap_reply(x, p) ==
  IF x.zap[p] # "answered" THEN Rc(x, "again")
  ELSE [x EXCEPT !.zap[p] = "read", !.rc = IF conf.zap[p] = "200" THEN "ok" ELSE "error"]

\* Plausible bug: a reply that is not there yet does not hold up the server.
authenticate_hasty(x, p, quick, ok, waiting) ==
  IF conf.zap[p] = "none" THEN [Rc(x, "ok") EXCEPT !.m[p].state = ok]
  ELSE LET y == receive_and_process_zap_reply(send_zap_request(x, p, quick), p)
       IN IF y.rc = "error" THEN y ELSE [Rc(y, "ok") EXCEPT !.m[p].state = ok]

\* process_hello of PLAIN and process_initiate of CURVE: without a handler
\* everybody is welcome.
authenticate(x, p, quick, ok, waiting) ==
  IF conf.zap[p] = "none" THEN [Rc(x, "ok") EXCEPT !.m[p].state = ok]
  ELSE LET y == receive_and_process_zap_reply(send_zap_request(x, p, quick), p) IN
       CASE y.rc = "ok"    -> [y EXCEPT !.m[p].state = ok]
         [] y.rc = "again" -> [Rc(y, "ok") EXCEPT !.m[p].state = waiting]
         [] OTHER          -> y

-----------------------------------------------------------------------------
(* null_mechanism_t.                                                       *)

send_null_ready(x, p) ==
  [To(x, Other(p), [cmd |-> "READY", meta |-> Metadata(p)]) EXCEPT !.m[p].ready_command_sent = TRUE]

\* The request and, if it is there at once, the reply.
null_zap(x, p, quick) ==
  receive_and_process_zap_reply(
    [send_zap_request(x, p, quick) EXCEPT !.m[p].zap_request_sent = TRUE], p)

null_next_handshake_command(x, p, quick) ==
  CASE x.m[p].ready_command_sent -> Rc(x, "again")
    [] ~ x.m[p].ready_command_sent /\ (conf.zap[p] = "none" \/ x.m[p].zap_reply_received) ->
         send_null_ready(x, p)
    [] OTHER ->
         IF x.m[p].zap_request_sent THEN Rc(x, "again")
         ELSE LET y == null_zap(x, p, quick)
              IN IF y.rc # "ok" THEN y
                 ELSE send_null_ready([y EXCEPT !.m[p].zap_reply_received = TRUE], p)

null_process_handshake_command(x, p, cmd) ==
  IF x.m[p].ready_command_received \/ cmd.cmd # "READY" THEN Rc(x, "error")
  ELSE [parse_metadata(x, p, cmd.meta) EXCEPT !.m[p].ready_command_received = TRUE]

null_zap_msg_available(x, p) ==
  IF x.m[p].zap_reply_received THEN Rc(x, "error")
  ELSE LET y == receive_and_process_zap_reply(x, p)
       IN [y EXCEPT !.m[p].zap_reply_received = (y.rc = "ok")]

-----------------------------------------------------------------------------
(* plain_mechanism_t.                                                      *)

plain_send(x, p, cmd, next) ==
  [To(x, Other(p), [cmd |-> cmd, meta |-> Metadata(p)]) EXCEPT !.m[p].state = next]

plain_produce_hello(x, p)    == plain_send(x, p, "HELLO", "expect_welcome")
plain_produce_welcome(x, p)  == plain_send(x, p, "WELCOME", "expect_initiate")
plain_produce_initiate(x, p) == plain_send(x, p, "INITIATE", "expect_ready")
plain_produce_ready(x, p)    == plain_send(x, p, "READY", "connected")

plain_next_handshake_command(x, p) ==
  CASE x.m[p].state = "send_hello"    -> plain_produce_hello(x, p)
    [] x.m[p].state = "send_welcome"  -> plain_produce_welcome(x, p)
    [] x.m[p].state = "send_initiate" -> plain_produce_initiate(x, p)
    [] x.m[p].state = "send_ready"    -> plain_produce_ready(x, p)
    [] OTHER                          -> Rc(x, "again")

\* The username and the password are the handler's business.
plain_process_hello(x, p, cmd, quick) ==
  IF cmd.cmd # "HELLO" THEN Rc(x, "error")
  ELSE authenticate(x, p, quick, "send_welcome", "expect_zap_reply")

plain_process_welcome(x, p, cmd) ==
  IF cmd.cmd # "WELCOME" THEN Rc(x, "error")
  ELSE [Rc(x, "ok") EXCEPT !.m[p].state = "send_initiate"]

plain_process_initiate(x, p, cmd) ==
  LET y == parse_metadata(x, p, cmd.meta)
  IN IF cmd.cmd # "INITIATE" \/ y.rc # "ok" THEN Rc(x, "error")
     ELSE [y EXCEPT !.m[p].state = "send_ready"]

plain_process_ready(x, p, cmd) ==
  LET y == parse_metadata(x, p, cmd.meta)
  IN IF cmd.cmd # "READY" \/ y.rc # "ok" THEN Rc(x, "error")
     ELSE [y EXCEPT !.m[p].state = "connected"]

plain_process_handshake_command(x, p, cmd, quick) ==
  CASE x.m[p].state = "expect_hello"    -> plain_process_hello(x, p, cmd, quick)
    [] x.m[p].state = "expect_welcome"  -> plain_process_welcome(x, p, cmd)
    [] x.m[p].state = "expect_initiate" -> plain_process_initiate(x, p, cmd)
    [] x.m[p].state = "expect_ready"    -> plain_process_ready(x, p, cmd)
    [] OTHER                            -> Rc(x, "error")

\* The reply of the handler lets the server go on.
zap_reply_moves(x, p, next) ==
  IF x.m[p].state # "expect_zap_reply" THEN Rc(x, "error")
  ELSE LET y == receive_and_process_zap_reply(x, p)
       IN IF y.rc = "ok" THEN [y EXCEPT !.m[p].state = next] ELSE y

-----------------------------------------------------------------------------
(* curve_client_t and curve_server_t.  The long-term keys are "C" and "S", *)
(* the short-term ones "C'" and "S'"; key pairs are named by their public  *)
(* half, and a shared secret is the pair of keys it is made of.            *)

Short == [a |-> "C'", b |-> "S'"]

Box(keys, prefix, nonce, plain) ==
  [keys |-> keys, prefix |-> prefix, nonce |-> nonce, plain |-> plain]

Opens(box, keys, prefix) == box.keys = keys /\ box.prefix = prefix

\* A command with a box under the connection's keys, which takes a nonce.
Boxed(x, p, cmd, box) ==
  [To(x, Other(p), cmd) EXCEPT !.m[p].nonce = (@ + 1) % Nonces,
                               !.boxes = Append(@, <<box.keys, box.prefix, box.nonce>>)]

produce_hello(x, p) ==
  LET box == Box({Short[p], conf.key}, "HELLO---", x.m[p].nonce, "zeros")
  IN [Boxed(x, p, [cmd |-> "HELLO", key |-> Short[p], box |-> box], box)
        EXCEPT !.m[p].state = "expect_welcome"]

process_hello(x, p, cmd) ==
  IF cmd.cmd = "HELLO" /\ Opens(cmd.box, {cmd.key, "S"}, "HELLO---")
  THEN [Rc(x, "ok") EXCEPT !.m[p].cn_other = cmd.key, !.m[p].state = "send_welcome"]
  ELSE Rc(x, "error")

\* The cookie remembers both short-term keys under a key of the server's.
Cookie(x, p) == Box({"cookie_key"}, "COOKIE--", 0, <<x.m[p].cn_other, Short[p]>>)

produce_welcome(x, p) ==
  LET box == Box({"S", x.m[p].cn_other}, "WELCOME-", 0, [key |-> Short[p], cookie |-> Cookie(x, p)])
  IN [To(x, Other(p), [cmd |-> "WELCOME", box |-> box]) EXCEPT !.m[p].state = "expect_initiate"]

process_welcome(x, p, cmd) ==
  IF cmd.cmd = "WELCOME" /\ Opens(cmd.box, {conf.key, Short[p]}, "WELCOME-")
  THEN [Rc(x, "ok") EXCEPT !.m[p].cn_other = cmd.box.plain.key,
                           !.m[p].cookie = cmd.box.plain.cookie,
                           !.m[p].precom = {cmd.box.plain.key, Short[p]},
                           !.m[p].state = "send_initiate"]
  ELSE Rc(x, "error")

produce_initiate(x, p) ==
  LET vouch == Box({"C", x.m[p].cn_other}, "VOUCH---", 0, <<Short[p], conf.key>>)
      box == Box({Short[p], x.m[p].cn_other}, "INITIATE", x.m[p].nonce,
                 [key |-> "C", vouch |-> vouch, meta |-> Metadata(p)])
  IN [Boxed(x, p, [cmd |-> "INITIATE", cookie |-> x.m[p].cookie, box |-> box], box)
        EXCEPT !.m[p].state = "expect_ready"]

\* The metadata is parsed last, also when the reply of the handler is not
\* there yet.
process_initiate(x, p, cmd, quick) ==
  IF /\ cmd.cmd = "INITIATE" /\ Opens(cmd.cookie, {"cookie_key"}, "COOKIE--")
     /\ cmd.cookie.plain = <<x.m[p].cn_other, Short[p]>>
     /\ Opens(cmd.box, {x.m[p].cn_other, Short[p]}, "INITIATE")
     /\ Opens(cmd.box.plain.vouch, {cmd.box.plain.key, Short[p]}, "VOUCH---")
     /\ cmd.box.plain.vouch.plain[1] = x.m[p].cn_other
  THEN LET y == authenticate([x EXCEPT !.m[p].precom = {x.m[p].cn_other, Short[p]}],
                             p, quick, "send_ready", "expect_zap_reply")
       IN IF y.rc = "ok" THEN parse_metadata(y, p, cmd.box.plain.meta) ELSE y
  ELSE Rc(x, "error")

produce_ready(x, p) ==
  LET box == Box(x.m[p].precom, "READY---", x.m[p].nonce, Metadata(p))
  IN [Boxed(x, p, [cmd |-> "READY", box |-> box], box) EXCEPT !.m[p].state = "connected"]

process_ready(x, p, cmd) ==
  IF cmd.cmd = "READY" /\ Opens(cmd.box, x.m[p].precom, "READY---")
  THEN LET y == parse_metadata(x, p, cmd.box.plain)
       IN IF y.rc = "ok" THEN [y EXCEPT !.m[p].state = "connected"] ELSE y
  ELSE Rc(x, "error")

curve_client_next_handshake_command(x, p) ==
  CASE x.m[p].state = "send_hello"    -> produce_hello(x, p)
    [] x.m[p].state = "send_initiate" -> produce_initiate(x, p)
    [] OTHER                          -> Rc(x, "again")

curve_server_next_handshake_command(x, p) ==
  CASE x.m[p].state = "send_welcome" -> produce_welcome(x, p)
    [] x.m[p].state = "send_ready"   -> produce_ready(x, p)
    [] OTHER                         -> Rc(x, "again")

curve_client_process_handshake_command(x, p, cmd) ==
  CASE x.m[p].state = "expect_welcome" -> process_welcome(x, p, cmd)
    [] x.m[p].state = "expect_ready"   -> process_ready(x, p, cmd)
    [] OTHER                           -> Rc(x, "error")

curve_server_process_handshake_command(x, p, cmd, quick) ==
  CASE x.m[p].state = "expect_hello"    -> process_hello(x, p, cmd)
    [] x.m[p].state = "expect_initiate" -> process_initiate(x, p, cmd, quick)
    [] OTHER                            -> Rc(x, "error")

\* The prefix tells the directions apart; the server's box, then what the
\* client does with one.
MessagePrefix(p) == IF p = "a" THEN "MESSAGEC" ELSE "MESSAGES"

MessageBox(x, p, msg) == Box(x.m[p].precom, MessagePrefix(p), x.m[p].nonce, msg)

OpensMessage(x, p, cmd) ==
  cmd.cmd = "MESSAGE" /\ Opens(cmd.box, x.m[p].precom, MessagePrefix(Other(p)))

encode(x, p, msg) ==
  Boxed(x, p, [cmd |-> "MESSAGE", box |-> MessageBox(x, p, msg)], MessageBox(x, p, msg))

decode(x, p, cmd) ==
  IF OpensMessage(x, p, cmd) THEN [Rc(x, "ok") EXCEPT !.inbox[p] = Append(@, cmd.box.plain)]
  ELSE Rc(x, "error")

-----------------------------------------------------------------------------
(* stream_engine_t after the greeting.                                     *)

is_handshake_complete(x, p) ==
  IF conf.mech = "NULL" THEN x.m[p].ready_command_sent /\ x.m[p].ready_command_received
  ELSE x.m[p].state = "connected"

mechanism_ready(x, p) ==
  [x EXCEPT !.engine[p].mode = "traffic",
            !.inbox[p] = IF recv_identity(p) THEN Append(@, x.m[p].peer) ELSE @]

\* stream_engine_t::next_handshake_command.
next_handshake_command(x, p, quick) ==
  LET y == CASE conf.mech = "NULL"  -> null_next_handshake_command(x, p, quick)
             [] conf.mech = "PLAIN" -> plain_next_handshake_command(x, p)
             [] OTHER -> IF p = "a" THEN curve_client_next_handshake_command(x, p)
                         ELSE curve_server_next_handshake_command(x, p)
  IN IF y.rc = "ok" /\ is_handshake_complete(y, p) THEN mechanism_ready(y, p) ELSE y

pull_and_encode(x, p) ==
  IF x.pending[p] <= 0 THEN Rc(x, "again")
  ELSE LET msg == <<p, MaxMessages - x.pending[p]>>
           y == [x EXCEPT !.pending[p] = @ - 1]
       IN IF conf.mech = "CURVE" THEN encode(y, p, msg)
          ELSE To(y, Other(p), [cmd |-> "MESSAGE", plain |-> msg])

\* out_event: whatever the reason, without a command polling stops.
out_event(x, p, quick) ==
  LET y == IF x.engine[p].mode = "handshake" THEN next_handshake_command(x, p, quick)
           ELSE pull_and_encode(x, p)
  IN [y EXCEPT !.engine[p].output_stopped = (y.rc # "ok")]

restart_output(x, p, quick) == out_event(x, p, quick)

process_handshake_command(x, p, cmd, quick) ==
  LET y == CASE conf.mech = "NULL"  -> null_process_handshake_command(x, p, cmd)
             [] conf.mech = "PLAIN" -> plain_process_handshake_command(x, p, cmd, quick)
             [] OTHER -> IF p = "a" THEN curve_client_process_handshake_command(x, p, cmd)
                         ELSE curve_server_process_handshake_command(x, p, cmd, quick)
      z == IF is_handshake_complete(y, p) THEN mechanism_ready(y, p) ELSE y
  IN IF y.rc # "ok" THEN y
     ELSE IF z.engine[p].output_stopped THEN Rc(restart_output(z, p, quick), "ok") ELSE z

decode_and_push(x, p, cmd) ==
  IF conf.mech = "CURVE" THEN decode(x, p, cmd)
  ELSE IF "plain" \in DOMAIN cmd THEN [Rc(x, "ok") EXCEPT !.inbox[p] = Append(@, cmd.plain)]
  ELSE Rc(x, "error")

\* error (): the engine and its mechanism are gone.
error(x, p) == IF x.rc = "error" THEN [x EXCEPT !.engine[p].failed = TRUE] ELSE x

Alive(p) == ~ engine[p].failed

\* A quick refusal in null_next_handshake_command is an error that out_event
\* takes for "nothing to send".
Quick(p) == IF conf.mech = "NULL" /\ conf.zap[p] # "200" /\ "quick refusal" \notin Races
            THEN {FALSE} ELSE BOOLEAN

engine_out_event(p) ==
  /\ Alive(p) /\ ~ engine[p].output_stopped
  /\ \E quick \in Quick(p) : Becomes(out_event(Now, p, quick))

\* in_event: the next command, or the end of the connection.
engine_in_event(p) ==
  /\ Alive(p)
  /\ \/ /\ chan[p] # <<>>
        /\ LET x == [Now EXCEPT !.chan[p] = Tail(@)]
           IN \E quick \in Quick(p) :
                Becomes(error(IF engine[p].mode = "handshake"
                              THEN process_handshake_command(x, p, Head(chan[p]), quick)
                              ELSE decode_and_push(x, p, Head(chan[p])), p))
     \/ /\ chan[p] = <<>> /\ ~ Alive(Other(p))
        /\ Becomes(error(Rc(Now, "error"), p))

\* zap_msg_available, once the session finds the reply that was not there.
engine_zap_msg_available(p) ==
  /\ Alive(p) /\ zap[p] = "answered"
  /\ LET x == CASE conf.mech = "NULL"  -> null_zap_msg_available(Now, p)
                [] conf.mech = "PLAIN" -> zap_reply_moves(Now, p, "send_welcome")
                [] OTHER               -> zap_reply_moves(Now, p, "send_ready")
     IN Becomes(IF x.rc = "error" THEN error(x, p)
                ELSE IF x.engine[p].output_stopped THEN restart_output(x, p, FALSE) ELSE x)

\* The handler answers.
zap_answers(p) ==
  /\ zap[p] = "asked"
  /\ Becomes([Now EXCEPT !.zap[p] = "answered"])

\* The socket sends its messages, once; a sleeping session is woken.
socket_sends(p) ==
  /\ Alive(p) /\ pending[p] = -1
  /\ LET x == [Now EXCEPT !.pending[p] = MaxMessages]
     IN Becomes(IF engine[p].output_stopped THEN restart_output(x, p, FALSE) ELSE x)

-----------------------------------------------------------------------------
Next == \E p \in Ends :
  \/ engine_out_event(p) \/ engine_in_event(p) \/ engine_zap_msg_available(p)
  \/ zap_answers(p) \/ socket_sends(p)

Spec == Init /\ [][Next]_vars

\* The I/O threads poll, the ZAP handler answers what it is asked: something is
\* done as long as there is something to do.
Service == \E p \in Ends :
  engine_out_event(p) \/ engine_in_event(p) \/ engine_zap_msg_available(p) \/ zap_answers(p)

Fairness == WF_vars(Service)

FairSpec == Spec /\ Fairness

-----------------------------------------------------------------------------
(* Properties.                                                             *)

Ready(p) == engine[p].mode = "traffic"

\* The ends that ask their handler: both in NULL, the server otherwise.
Asks(p) == conf.zap[p] # "none" /\ (conf.mech = "NULL" \/ p = "b")

Sent(p) == IF pending[p] = -1 THEN <<>> ELSE [i \in 1 .. MaxMessages |-> <<p, i - 1>>]

\* An end that is ready for traffic, client or server, is so only after every
\* handler that was to be asked has let the peer in, and after both ends found
\* the other's socket type acceptable; with CURVE the two have computed the
\* same secret.  Its session then gets the peer's identity first, if it wants
\* one, and the peer's messages in order.
HandshakeSafe ==
  \A p \in Ends : Ready(p) =>
    /\ \A q \in Ends : Asks(q) => zap[q] = "read" /\ conf.zap[q] = "200"
    /\ check_socket_type(conf.type[p], conf.type[Other(p)])
    /\ conf.mech = "CURVE" => m[p].precom = {Short[q] : q \in Ends}
    /\ LET id == IF recv_identity(p) THEN <<Metadata(Other(p)).identity>> ELSE <<>>
       IN IsPrefix(inbox[p], id \o Sent(Other(p))) /\ IsPrefix(id, inbox[p])

\* No two boxes of a connection share keys, prefix and nonce, wherever the
\* counter of the client starts (crypto_box needs a nonce once per key).
NoncesFresh == Cardinality(ToSet(boxes)) = Len(boxes)

\* The two together.
MechanismSafe == HandshakeSafe /\ NoncesFresh

Acceptable ==
  /\ check_socket_type(conf.type["a"], conf.type["b"])
  /\ conf.mech = "CURVE" => conf.key = "S"
  /\ \A p \in Ends : Asks(p) => conf.zap[p] = "200"

\* The handshake ends, without a timeout to help it: acceptable ends get ready
\* and all that was sent arrives, the others lose the connection at both ends.
Concluded ==
  \A p \in Ends :
    IF Acceptable THEN Ready(p) /\ pending[p] <= 0 /\ chan[p] = <<>> ELSE ~ Alive(p)
HandshakeEnds == <>[]Concluded
=============================================================================
