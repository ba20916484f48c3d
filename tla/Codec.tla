------------------------------- MODULE Codec --------------------------------
(***************************************************************************)
(* The framing of messages on a connection: encoder_base_t and             *)
(* decoder_base_t with the state machines of v1, v2 and raw framing, run   *)
(* by the buffer loops of stream_engine_t over a connection that cuts the  *)
(* stream anywhere.  A byte is a number up to Escape (255 in the code) and *)
(* a long size takes two bytes (eight in the code).                        *)
(***************************************************************************)
EXTENDS Integers, Sequences, SequencesExt

CONSTANTS
  Escape,      \* the largest byte
  Buffer,      \* in_batch_size and out_batch_size, longer than any header
  MaxSizes,    \* values of the option maxmsgsize, -1 for none
  Queues       \* what the sender may have to send: sequences of [more, command, size]

VARIABLES
  framing,     \* "v1", "v2" or "raw"
  maxmsgsize,
  queue,       \* what the sender was given
  toSend,      \* what it still has to load
  e,           \* the encoder
  outbuf,      \* outpos and outsize: bytes to be written
  wire,        \* bytes under way
  d,           \* the decoder
  received,    \* messages pushed to the session
  dead         \* the receiver has torn down the connection

vars == <<framing, maxmsgsize, queue, toSend, e, outbuf, wire, d, received, dead>>

None == <<>>
Body(m) == [i \in 1 .. m.size |-> (m.size + i) % (Escape + 1)]

put_uint64(n) == <<n \div (Escape + 1), n % (Escape + 1)>>
get_uint64(b) == b[1] * (Escape + 1) + b[2]

Flag(b, value) == IF b THEN value ELSE 0

Init ==
  /\ framing \in {"v1", "v2", "raw"} /\ maxmsgsize \in MaxSizes
  /\ queue \in Queues /\ toSend = queue
  /\ framing = "raw" => \A i \in DOMAIN queue : queue[i].size > 0
  /\ e = [msg |-> None, write |-> <<>>, next |-> "message_ready", new_msg_flag |-> TRUE]
  /\ d = [next |-> IF framing = "v1" THEN "one_byte_size_ready" ELSE "flags_ready",
          to_read |-> 1, tmpbuf |-> <<>>, msg |-> None, data |-> <<>>, flags |-> 0]
  /\ outbuf = <<>> /\ wire = <<>> /\ received = <<>> /\ dead = FALSE

-----------------------------------------------------------------------------
(* Encoders.                                                               *)

v1_next(x) ==
  IF x.next = "size_ready"
  THEN [x EXCEPT !.write = Body(x.msg), !.next = "message_ready", !.new_msg_flag = TRUE]
  ELSE LET size == x.msg.size + 1 IN
       [x EXCEPT !.write = (IF size < Escape THEN <<size>> ELSE <<Escape>> \o put_uint64(size))
                             \o <<Flag(x.msg.more, 1)>>,
                 !.next = "size_ready", !.new_msg_flag = FALSE]

\* Plausible bug: a size that does not fit in a byte is taken for one that does.
v2_next_short(x) ==
  IF x.next = "size_ready"
  THEN [x EXCEPT !.write = Body(x.msg), !.next = "message_ready", !.new_msg_flag = TRUE]
  ELSE LET large == x.msg.size > Escape + 1 IN
       [x EXCEPT !.write = <<Flag(x.msg.more, 1) + Flag(large, 2)>>
                             \o IF large THEN put_uint64(x.msg.size)
                                ELSE <<x.msg.size % (Escape + 1)>>,
                 !.next = "size_ready", !.new_msg_flag = FALSE]

\* The flags: 1 for more, 2 for large, 4 for command.
v2_next(x) ==
  IF x.next = "size_ready"
  THEN [x EXCEPT !.write = Body(x.msg), !.next = "message_ready", !.new_msg_flag = TRUE]
  ELSE LET large == x.msg.size > Escape IN
       [x EXCEPT !.write = <<Flag(x.msg.more, 1) + Flag(large, 2) + Flag(x.msg.command, 4)>>
                             \o IF large THEN put_uint64(x.msg.size) ELSE <<x.msg.size>>,
                 !.next = "size_ready", !.new_msg_flag = FALSE]

raw_message_ready(x) == [x EXCEPT !.write = Body(x.msg), !.new_msg_flag = TRUE]

EncoderNext(x) == CASE framing = "v1" -> v1_next(x)
                    [] framing = "v2" -> v2_next(x)
                    [] OTHER          -> raw_message_ready(x)

load_msg(x, m) == EncoderNext([x EXCEPT !.msg = m])

\* The loop of encode: own when the caller gave no buffer, which lets a large
\* body be handed over without a copy.
RECURSIVE encode_loop(_, _, _, _)
encode_loop(x, own, size, buf) ==
  IF Len(buf) >= size THEN [e |-> x, bytes |-> buf]
  ELSE IF x.write = <<>> /\ x.new_msg_flag THEN [e |-> [x EXCEPT !.msg = None], bytes |-> buf]
  ELSE LET y == IF x.write = <<>> THEN EncoderNext(x) ELSE x
           n == IF Len(y.write) < size - Len(buf) THEN Len(y.write) ELSE size - Len(buf)
       IN IF own /\ buf = <<>> /\ Len(y.write) >= size
          THEN [e |-> [y EXCEPT !.write = <<>>], bytes |-> y.write]
          ELSE encode_loop([y EXCEPT !.write = SubSeq(@, n + 1, Len(@))], own, size,
                           buf \o SubSeq(y.write, 1, n))

encode(x, own, size) ==
  IF x.msg = None THEN [e |-> x, bytes |-> <<>>]
  ELSE encode_loop(x, own, IF own THEN Buffer ELSE size, <<>>)

\* out_event: fill the buffer from the encoder and as many messages as fit.
RECURSIVE fill(_, _, _)
fill(x, buf, todo) ==
  IF Len(buf) >= Buffer \/ todo = <<>> THEN [e |-> x, bytes |-> buf, todo |-> todo]
  ELSE LET r == encode(load_msg(x, Head(todo)), buf = <<>>, Buffer - Len(buf))
       IN fill(r.e, buf \o r.bytes, Tail(todo))

\* Some of the bytes are written, at least one but for an error.
out_event ==
  /\ LET first == encode(e, TRUE, 0)
         r == IF outbuf = <<>> THEN fill(first.e, first.bytes, toSend)
              ELSE [e |-> e, bytes |-> outbuf, todo |-> toSend]
     IN /\ r.bytes # <<>>
        /\ e' = r.e /\ toSend' = r.todo
        /\ \E n \in 1 .. Len(r.bytes) :
             /\ wire' = wire \o SubSeq(r.bytes, 1, n)
             /\ outbuf' = SubSeq(r.bytes, n + 1, Len(r.bytes))
  /\ UNCHANGED <<framing, maxmsgsize, queue, d, received, dead>>

-----------------------------------------------------------------------------
(* Decoders.  A step gives the decoder and rc: 0, 1 (a message) or -1.     *)

Reads(x, n, next) == [d |-> [x EXCEPT !.tmpbuf = <<>>, !.to_read = n, !.next = next], rc |-> 0]
Fails(x) == [d |-> x, rc |-> -1]
TooLarge(size) == maxmsgsize >= 0 /\ size > maxmsgsize

\* The body is read into the message.
Starts(x, size, flags) ==
  [d |-> [x EXCEPT !.msg = [size |-> size, flags |-> flags], !.data = <<>>, !.to_read = size,
                   !.next = "message_ready"], rc |-> 0]

v1_step(x) ==
  CASE x.next = "one_byte_size_ready" ->
         LET b == x.tmpbuf[1] IN
         IF b = Escape THEN Reads(x, 2, "eight_byte_size_ready")
         ELSE IF b = 0 \/ TooLarge(b - 1) THEN Fails(x)
         ELSE Reads([x EXCEPT !.msg = [size |-> b - 1, flags |-> 0]], 1, "flags_ready")
    [] x.next = "eight_byte_size_ready" ->
         LET length == get_uint64(x.tmpbuf) IN
         IF length = 0 \/ TooLarge(length - 1) THEN Fails(x)
         ELSE Reads([x EXCEPT !.msg = [size |-> length - 1, flags |-> 0]], 1, "flags_ready")
    [] x.next = "flags_ready" -> Starts(x, x.msg.size, x.tmpbuf[1] % 2)
    [] x.next = "message_ready" -> [Reads(x, 1, "one_byte_size_ready") EXCEPT !.rc = 1]

v2_step(x) ==
  CASE x.next = "flags_ready" ->
         LET f == x.tmpbuf[1]
             y == [x EXCEPT !.flags = (f % 2) + 4 * (f \div 4)]
         IN IF (f \div 2) % 2 = 1 THEN Reads(y, 2, "eight_byte_size_ready")
            ELSE Reads(y, 1, "one_byte_size_ready")
    [] x.next = "one_byte_size_ready" ->
         IF TooLarge(x.tmpbuf[1]) THEN Fails(x) ELSE Starts(x, x.tmpbuf[1], x.flags)
    [] x.next = "eight_byte_size_ready" ->
         IF TooLarge(get_uint64(x.tmpbuf)) THEN Fails(x)
         ELSE Starts(x, get_uint64(x.tmpbuf), x.flags)
    [] x.next = "message_ready" -> [Reads(x, 1, "flags_ready") EXCEPT !.rc = 1]

\* Where the bytes go: read_pos points into the message or into tmpbuf.
Take(x, bytes) ==
  LET y == [x EXCEPT !.to_read = @ - Len(bytes)]
  IN IF x.next = "message_ready" THEN [y EXCEPT !.data = @ \o bytes]
     ELSE [y EXCEPT !.tmpbuf = @ \o bytes]

\* Run the state machine until it wants bytes, or says 1 or -1.
RECURSIVE steps(_)
steps(x) ==
  IF x.to_read > 0 THEN [d |-> x, rc |-> 0]
  ELSE LET r == IF framing = "v1" THEN v1_step(x) ELSE v2_step(x)
       IN IF r.rc # 0 THEN r ELSE steps(r.d)

\* decode: direct when the bytes were read into the message itself.
RECURSIVE decode(_, _, _, _)
decode(x, bytes, direct, used) ==
  IF direct THEN LET r == steps(Take(x, bytes)) IN [d |-> r.d, rc |-> r.rc, used |-> Len(bytes)]
  ELSE IF used = Len(bytes) THEN [d |-> x, rc |-> 0, used |-> used]
  ELSE LET n == IF x.to_read < Len(bytes) - used THEN x.to_read ELSE Len(bytes) - used
           r == steps(Take(x, SubSeq(bytes, used + 1, used + n)))
       IN IF r.rc # 0 THEN [d |-> r.d, rc |-> r.rc, used |-> used + n]
          ELSE decode(r.d, bytes, direct, used + n)

\* raw_decoder_t: whatever was read is a message.
Raw(bytes) == [flags |-> 0, body |-> bytes]

Message(x) == [flags |-> x.msg.flags, body |-> x.data]

\* The loop of in_event over what was read.
RECURSIVE push_all(_, _, _, _)
push_all(x, bytes, direct, got) ==
  IF bytes = <<>> THEN [d |-> x, rc |-> 0, got |-> got]
  ELSE LET r == decode(x, bytes, direct, 0)
           rest == SubSeq(bytes, r.used + 1, Len(bytes))
       IN IF r.rc = 1 THEN push_all(r.d, rest, FALSE, Append(got, Message(r.d)))
          ELSE [d |-> r.d, rc |-> r.rc, got |-> got]

\* get_buffer: the message itself when it is to be filled with that much.
in_event ==
  /\ ~ dead /\ wire # <<>>
  /\ LET direct == framing # "raw" /\ d.to_read >= Buffer
         room == IF direct THEN d.to_read ELSE Buffer
     IN \E n \in 1 .. Len(wire) :
          /\ n <= room
          /\ wire' = SubSeq(wire, n + 1, Len(wire))
          /\ LET bytes == SubSeq(wire, 1, n)
                 r == IF framing = "raw" THEN [d |-> d, rc |-> 0, got |-> Append(received, Raw(bytes))]
                      ELSE push_all(d, bytes, direct, received)
             IN d' = r.d /\ received' = r.got /\ dead' = (r.rc = -1)
  /\ UNCHANGED <<framing, maxmsgsize, queue, toSend, e, outbuf>>

Next == out_event \/ in_event
Spec == Init /\ [][Next]_vars

-----------------------------------------------------------------------------
(* Properties.                                                             *)

\* The reference: messages as they should come out.
Sent == [i \in DOMAIN queue |->
           [flags |-> Flag(queue[i].more, 1) + Flag(framing = "v2" /\ queue[i].command, 4),
            body |-> Body(queue[i])]]

\* The messages a receiver with this maxmsgsize accepts before it refuses one.
Accepted == LET bad == {i \in DOMAIN queue : TooLarge(queue[i].size)}
            IN IF bad = {} THEN Sent
               ELSE SubSeq(Sent, 1, (CHOOSE i \in bad : \A j \in bad : i <= j) - 1)

Bytes(msgs) == FlattenSeq([i \in DOMAIN msgs |-> msgs[i].body])

\* However the stream is cut into reads and writes, the messages that come out
\* are the ones that went in, in order, with flags and bodies intact, up to
\* the first that is larger than the receiver allows; and when nothing is
\* under way nothing is missing.  Raw framing keeps the bytes.
Framed ==
  LET quiet == toSend = <<>> /\ encode(e, TRUE, 0).bytes = <<>> /\ outbuf = <<>> /\ wire = <<>>
  IN IF framing = "raw"
     THEN /\ IsPrefix(Bytes(received), Bytes(Sent))
          /\ quiet => Bytes(received) = Bytes(Sent)
     ELSE /\ IsPrefix(received, Accepted)
          /\ dead \/ quiet => received = Accepted
          /\ dead => Accepted # Sent
=============================================================================
