------------------------------ MODULE Greeting ------------------------------
(***************************************************************************)
(* How stream_engine_t finds out which protocol its peer speaks: plug,     *)
(* handshake, and in_event and out_event as long as handshaking is set.    *)
(* End a runs this code; end b runs it as well or is an older peer, that   *)
(* just sends its bytes.  The signature has three bytes (ten in the code:  *)
(* 0xff, the length, the flags), the mechanism name and its padding one    *)
(* each.  One read () of the loop is a step, as the loop keeps all of its  *)
(* state in the engine and may be left after any read () and taken up      *)
(* again.                                                                  *)
(***************************************************************************)
EXTENDS Integers, Sequences, SequencesExt

CONSTANTS
  Peers,        \* what b may be: "new", "v2", "v1", "long" and "short"
  Mechanisms    \* mechanisms to choose from

Ends == {"a", "b"}
Other(p) == IF p = "a" THEN "b" ELSE "a"

VARIABLES
  peer,      \* what b is
  mech,      \* per end, options.mechanism
  zap,       \* does a's session have ZAP enabled?
  eng,       \* per end, the fields of its engine
  wire       \* per end, bytes on their way to it

vars == <<peer, mech, zap, eng, wire>>

signature_size   == 3
v2_greeting_size == 5
v3_greeting_size == 7

Signature == <<"ff", "len", "7f">>

\* All that an older peer sends, its identity and a message included; the two
\* without a version have a short identity or one of 254 bytes and more.
Script == CASE peer = "v2"    -> Signature \o <<"1", "type", "msg">>
            [] peer = "v1"    -> Signature \o <<"0", "type", "msg">>
            [] peer = "long"  -> <<"ff", "len", "00", "id", "msg">>
            [] peer = "short" -> <<"len", "00", "id", "msg">>
            [] OTHER          -> <<>>

\* plug () of raw sockets skips all this; put counts the bytes in greeting_send.
plug == [out |-> Signature, put |-> signature_size, greeting_recv |-> <<>>,
         greeting_size |-> v2_greeting_size, handshaking |-> TRUE, pollout |-> TRUE,
         protocol |-> "", encoder |-> <<>>, input |-> <<>>, failed |-> FALSE]

Init ==
  /\ peer \in Peers /\ mech \in [Ends -> Mechanisms] /\ zap \in BOOLEAN
  /\ eng = [p \in Ends |-> plug]
  /\ wire = [p \in Ends |-> IF p = "a" THEN Script ELSE <<>>]

Runs(p) == p = "a" \/ peer = "new"

-----------------------------------------------------------------------------
(* handshake ().                                                           *)

Unversioned(recv) ==
  \/ recv # <<>> /\ recv[1] # "ff"
  \/ Len(recv) >= signature_size /\ recv[signature_size] # "7f"

put_bytes(x, bytes) ==
  [x EXCEPT !.pollout = @ \/ x.out = <<>>, !.out = @ \o bytes, !.put = @ + Len(bytes)]

\* The major version goes out after the peer's signature, the rest when the
\* peer's version is known.
answer(x, p) ==
  LET y == IF x.put = signature_size THEN put_bytes(x, <<"3">>) ELSE x
  IN IF Len(x.greeting_recv) <= signature_size \/ y.put # signature_size + 1 THEN y
     ELSE IF x.greeting_recv[signature_size + 1] \in {"0", "1"} THEN put_bytes(y, <<"type">>)
     ELSE [put_bytes(y, <<"minor", mech[p], "pad">>) EXCEPT !.greeting_size = v3_greeting_size]

\* After the loop: encoder, decoder and mechanism.  Without a version the
\* decoder starts with what was read, and the identity, whose header has been
\* sent, follows.
handshake_done(x, p) ==
  LET recv == x.greeting_recv
      version == IF Unversioned(recv) THEN "unversioned"
                 ELSE CASE recv[signature_size + 1] = "0" -> "1.0"
                        [] recv[signature_size + 1] = "1" -> "2.0"
                        [] OTHER                          -> "3.0"
      refused == IF version = "3.0" THEN recv[signature_size + 3] # mech[p] ELSE zap
  IN IF refused THEN [x EXCEPT !.failed = TRUE]
     ELSE [x EXCEPT !.handshaking = FALSE, !.protocol = version, !.pollout = @ \/ x.out = <<>>,
                    !.encoder = IF version = "unversioned" THEN <<"id", "msg">> ELSE <<"msg">>,
                    !.input = IF version = "unversioned" THEN recv ELSE <<>>]

\* One round of the loop with the bytes just read.
handshake(x, p, bytes) ==
  LET y == [x EXCEPT !.greeting_recv = @ \o bytes]
      z == IF Len(y.greeting_recv) < signature_size THEN y ELSE answer(y, p)
  IN IF Unversioned(y.greeting_recv) THEN handshake_done(y, p)
     ELSE IF Len(z.greeting_recv) < z.greeting_size THEN z
     ELSE handshake_done(z, p)

-----------------------------------------------------------------------------
Up(p) == Runs(p) /\ ~ eng[p].failed

\* in_event: a peer that is gone is an error once its bytes are read.
in_event(p) ==
  /\ Up(p)
  /\ \/ /\ eng[p].handshaking
        /\ \E n \in 1 .. Len(wire[p]) :
             /\ n <= eng[p].greeting_size - Len(eng[p].greeting_recv)
             /\ wire' = [wire EXCEPT ![p] = SubSeq(@, n + 1, Len(@))]
             /\ eng' = [eng EXCEPT ![p] = handshake(@, p, SubSeq(wire[p], 1, n))]
     \/ /\ ~ eng[p].handshaking /\ wire[p] # <<>>
        /\ wire' = [wire EXCEPT ![p] = <<>>]
        /\ eng' = [eng EXCEPT ![p].input = @ \o wire[p]]
     \/ /\ wire[p] = <<>> /\ eng[Other(p)].failed
        /\ eng' = [eng EXCEPT ![p].failed = TRUE] /\ UNCHANGED wire
  /\ UNCHANGED <<peer, mech, zap>>

\* out_event: write some of the buffer, which the encoder fills once there is
\* one; with nothing to send polling stops.
out_event(p) ==
  /\ Up(p) /\ eng[p].pollout
  /\ LET x == IF eng[p].out # <<>> \/ eng[p].handshaking THEN eng[p]
              ELSE [eng[p] EXCEPT !.out = @ \o eng[p].encoder, !.encoder = <<>>]
     IN \E n \in 0 .. Len(x.out) :
          /\ wire' = [wire EXCEPT ![Other(p)] = @ \o SubSeq(x.out, 1, n)]
          /\ eng' = [eng EXCEPT ![p] =
                       [x EXCEPT !.out = SubSeq(@, n + 1, Len(@)),
                                 !.pollout = ~ (x.out = <<>> \/ (x.handshaking /\ n = Len(x.out)))]]
  /\ UNCHANGED <<peer, mech, zap>>

Next == \E p \in Ends : in_event(p) \/ out_event(p)
Spec == Init /\ [][Next]_vars

\* The I/O threads poll, and the network takes bytes again and again.
Fairness == \A p \in Ends :
  WF_vars(in_event(p)) /\ SF_vars(out_event(p) /\ (eng[p].out # <<>> => wire' # wire))

FairSpec == Spec /\ Fairness

-----------------------------------------------------------------------------
(* Properties.                                                             *)

Version == CASE peer = "v2" -> "2.0" [] peer = "v1" -> "1.0" [] peer = "new" -> "3.0"
             [] OTHER -> "unversioned"

Refusable == IF peer = "new" THEN mech["a"] # mech["b"] ELSE zap

\* What each end has to send and to read, when all goes well.
ToOld == Signature \o IF Version = "unversioned" THEN <<"id", "msg">> ELSE <<"3", "type", "msg">>
Content == IF Version = "unversioned" THEN Script ELSE <<"msg">>

\* Whatever the sizes of the reads and writes, the ends settle on the protocol
\* of the older one; no byte of the stream that follows is lost, repeated or
\* taken for a part of the greeting, in either direction; and a connection is
\* refused only for its mechanism, or because an old peer cannot be
\* authenticated.
Negotiated ==
  /\ \A p \in Ends : Runs(p) =>
       /\ ~ eng[p].handshaking => eng[p].protocol = Version /\ ~ Refusable
       /\ IsPrefix(eng[p].input, Content)
       /\ eng[p].failed => Refusable
  /\ peer # "new" => IsPrefix(wire["b"], ToOld)

\* The negotiation ends, and then both ends get the whole of what follows.
Negotiation ==
  \A p \in Ends : Runs(p) => IF Refusable THEN eng[p].failed ELSE eng[p].input = Content
GreetingEnds == <>[]Negotiation
=============================================================================
