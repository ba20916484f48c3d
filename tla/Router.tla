------------------------------- MODULE Router -------------------------------
(***************************************************************************)
(* router_t, rep_t over it, and stream_t, with their pipes and the peers   *)
(* behind them.  Which pipe fq_t reads next is left open; it keeps to it   *)
(* until the end of a message.  A frame is [id, n, i, more, kind, empty]:  *)
(* the identity it spells, if any, and for the properties the message it   *)
(* is of and its place in it.                                              *)
(***************************************************************************)
EXTENDS Integers, Sequences, SequencesExt, FiniteSets

CONSTANTS
  Pipes,
  Kinds,     \* "ROUTER", "MANDATORY", "RAW", "REP" or "STREAM"
  Names,     \* the identities peers choose
  Races,     \* {"malformed"}: an identity with nothing after it, or no delimiter
  Hwm,       \* messages a pipe holds
  MaxSent,   \* bound: by kind, messages sent
  MaxReceived, MaxConnections   \* bounds

VARIABLES
  kind,
  r,       \* the socket
  pipe,    \* per pipe: state, identity, messages in and out, the part not flushed
  app,     \* the message the application sends: its number, aim and next frame
  got,     \* the frames of the message received last
  total    \* messages the peers sent

vars == <<kind, r, pipe, app, got, total>>

None == "none"

\* Identities: none, made up (they begin with a zero byte), chosen.
NoId == <<"", 0>>
Generated(k) == <<"", k>>
Named(name) == <<name, 0>>
Claims == {NoId} \cup {Named(name) : name \in Names}
Nobody == Named("nobody")

Init ==
  /\ kind \in Kinds
  /\ r = [outpipes |-> <<>>, anonymous_pipes |-> {}, current_out |-> None, more_out |-> FALSE,
          prefetched |-> <<>>, identity_sent |-> FALSE, more_in |-> FALSE, next_peer_id |-> 1,
          fq |-> None, sending_reply |-> FALSE, request_begins |-> TRUE, rc |-> 0, ok |-> TRUE]
  /\ pipe = [c \in Pipes |-> [state |-> "new", identity |-> NoId, in |-> <<>>, out |-> <<>>,
                              part |-> <<>>, out_active |-> TRUE, heard |-> FALSE]]
  /\ app = [mid |-> FALSE, aim |-> NoId, n |-> 0, i |-> 0]
  /\ got = <<>> /\ total = 0

Raw == kind \in {"RAW", "STREAM"}

Frame(k, id, n, i, more) ==
  [kind |-> k, id |-> id, n |-> n, i |-> i, more |-> more, empty |-> k = "empty"]

\* What a handler works on: the socket and its pipes.
Now == [r |-> r, pipe |-> pipe]
zmq_assert(s, holds) == [s EXCEPT !.r.ok = @ /\ holds]
Becomes(s) == r' = s.r /\ pipe' = s.pipe

-----------------------------------------------------------------------------
(* Peers that come, are identified, and go.                                *)

\* Pipe c is known by id from now on.
Insert(s, c, id) ==
  [zmq_assert(s, id \notin DOMAIN s.r.outpipes)
     EXCEPT !.r.anonymous_pipes = @ \ {c}, !.pipe[c].identity = id,
            !.r.outpipes = [j \in DOMAIN @ \cup {id} |->
                              IF j = id THEN [pipe |-> c, active |-> TRUE] ELSE @[j]]]

\* stream_t::identify_peer: always a new identity.
stream_identify_peer(s, c) ==
  [Insert(s, c, Generated(s.r.next_peer_id)) EXCEPT !.r.next_peer_id = @ + 1]

\* router_t::identify_peer, when there is an identity to be had: what the peer
\* calls itself, or a new one.  A name that is taken is read and the pipe
\* stays anonymous, unread, for good.
identify_peer(s, c) ==
  LET id == Head(s.pipe[c].in).id
      t == [s EXCEPT !.pipe[c].in = Tail(@), !.pipe[c].heard = TRUE]
  IN CASE Raw -> stream_identify_peer(s, c)
       [] ~ Raw /\ id = NoId -> stream_identify_peer(t, c)
       [] ~ Raw /\ id # NoId /\ id \in DOMAIN s.r.outpipes -> [t EXCEPT !.r.anonymous_pipes = @ \cup {c}]
       [] OTHER -> Insert(t, c, id)

Attachable(c) ==
  pipe[c].state = "new" /\ Cardinality({d \in Pipes : pipe[d].state # "new"}) < MaxConnections

\* The peer's identity may be there already.
xattach_pipe(c) ==
  /\ kind # "STREAM" /\ Attachable(c)
  /\ \E id \in Claims, there \in BOOLEAN :
       LET s == [Now EXCEPT !.pipe[c].state = "active",
                            !.pipe[c].in = IF there /\ ~ Raw
                                           THEN <<Frame("identity", id, 0, 0, FALSE)>> ELSE <<>>]
       IN Becomes(IF Raw \/ there THEN identify_peer(s, c)
                  ELSE [s EXCEPT !.r.anonymous_pipes = @ \cup {c}])
  /\ UNCHANGED <<kind, app, got, total>>

stream_xattach_pipe(c) ==
  /\ kind = "STREAM" /\ Attachable(c)
  /\ Becomes(stream_identify_peer([Now EXCEPT !.pipe[c].state = "active"], c))
  /\ UNCHANGED <<kind, app, got, total>>

\* xread_activated of a pipe that was empty when it was attached.
xread_activated(c) ==
  /\ c \in r.anonymous_pipes /\ pipe[c].state = "active" /\ ~ pipe[c].heard
  /\ \E id \in Claims :
       Becomes(identify_peer([Now EXCEPT !.pipe[c].in = <<Frame("identity", id, 0, 0, FALSE)>>], c))
  /\ UNCHANGED <<kind, app, got, total>>

\* Plausible bug: the pipe stays where the next part is written to.
forget_pipe_out(s, c) ==
  LET id == s.pipe[c].identity
  IN [zmq_assert(s, id \in DOMAIN s.r.outpipes)
        EXCEPT !.r.outpipes = [j \in DOMAIN @ \ {id} |-> @[j]]]

forget_pipe(s, c) ==
  LET id == s.pipe[c].identity
  IN [zmq_assert(s, id \in DOMAIN s.r.outpipes)
        EXCEPT !.r.outpipes = [j \in DOMAIN @ \ {id} |-> @[j]],
               !.r.current_out = IF @ = c THEN None ELSE @]

\* A pipe that was lost is first read to its end; one the socket closed is not.
xpipe_terminated(c) ==
  /\ pipe[c].state = "closing" \/ (pipe[c].state = "active" /\ pipe[c].in = <<>>)
  /\ r.fq # c
  /\ LET s == IF c \in r.anonymous_pipes THEN [Now EXCEPT !.r.anonymous_pipes = @ \ {c}]
              ELSE forget_pipe(Now, c)
     IN Becomes([s EXCEPT !.pipe[c].state = "gone", !.pipe[c].out = <<>>, !.pipe[c].part = <<>>])
  /\ UNCHANGED <<kind, app, got, total>>

\* The peer has read a message and the pipe hears of it.
xwrite_activated(c) ==
  /\ pipe[c].state = "active" /\ pipe[c].out # <<>>
  /\ LET s == [Now EXCEPT !.pipe[c].out = Tail(@), !.pipe[c].out_active = TRUE]
         mine == {id \in DOMAIN r.outpipes : r.outpipes[id].pipe = c}
     IN IF pipe[c].out_active THEN Becomes(s)
        ELSE IF mine = {} THEN Becomes(zmq_assert(s, FALSE))
        ELSE \E id \in mine : Becomes([zmq_assert(s, ~ r.outpipes[id].active)
                                         EXCEPT !.r.outpipes[id].active = TRUE])
  /\ UNCHANGED <<kind, app, got, total>>

-----------------------------------------------------------------------------
(* Sending.  The operators return the state after the call, and its rc.    *)

\* pipe_t::check_write.
check_write(s, c) == s.pipe[c].state = "active" /\ Len(s.pipe[c].out) < Hwm

\* The identity: its pipe takes the message.
Aim(s, f) ==
  [zmq_assert(s, s.r.current_out = None)
     EXCEPT !.r.more_out = TRUE, !.r.current_out = s.r.outpipes[f.id].pipe, !.r.rc = 0]

\* It cannot: it is not there or full.
Miss(s, f) ==
  LET t == zmq_assert(s, s.r.current_out = None)
  IN IF f.id \notin DOMAIN t.r.outpipes THEN t
     ELSE [t EXCEPT !.r.outpipes[f.id].active = FALSE,
                    !.pipe[t.r.outpipes[f.id].pipe].out_active = FALSE]

Reachable(s, f) == f.id \in DOMAIN s.r.outpipes /\ check_write(s, s.r.outpipes[f.id].pipe)

\* What is written to no pipe is dropped.
Write(s, f) ==
  LET c == s.r.current_out
  IN IF c = None THEN s
     ELSE IF ~ check_write(s, c) THEN [s EXCEPT !.pipe[c].out_active = FALSE, !.r.current_out = None]
     ELSE IF f.more THEN [s EXCEPT !.pipe[c].part = Append(@, f)]
     ELSE [s EXCEPT !.pipe[c].out = Append(@, Append(s.pipe[c].part, f)), !.pipe[c].part = <<>>,
                    !.r.current_out = None]

\* An empty frame on a raw connection closes it.
Close(s) == IF s.r.current_out = None THEN s
            ELSE [s EXCEPT !.pipe[s.r.current_out].state = "closing", !.r.current_out = None]

\* An identity with nothing after it is ignored; a message that cannot be
\* sent is dropped, or refused if the socket is mandatory.
router_xsend(s, f) ==
  LET more == f.more /\ ~ Raw
      t == [s EXCEPT !.r.more_out = more, !.r.rc = 0]
  IN IF s.r.more_out
     THEN IF Raw /\ f.empty THEN Close(t) ELSE Write(t, [f EXCEPT !.more = more])
     ELSE IF ~ f.more THEN zmq_assert([s EXCEPT !.r.rc = 0], s.r.current_out = None)
     ELSE IF Reachable(s, f) THEN Aim(s, f)
     ELSE IF kind = "MANDATORY" THEN [Miss(s, f) EXCEPT !.r.rc = -1]
     ELSE [Miss(s, f) EXCEPT !.r.more_out = TRUE, !.r.rc = 0]

\* Each identity is followed by one frame.
stream_xsend(s, f) ==
  LET t == [s EXCEPT !.r.more_out = FALSE, !.r.rc = 0]
  IN IF s.r.more_out
     THEN IF f.empty THEN Close(t) ELSE Write(t, [f EXCEPT !.more = FALSE])
     ELSE IF ~ f.more THEN zmq_assert([s EXCEPT !.r.more_out = TRUE, !.r.rc = 0], s.r.current_out = None)
     ELSE IF Reachable(s, f) THEN Aim(s, f)
     ELSE [Miss(s, f) EXCEPT !.r.rc = -1]

\* router_t::rollback forgets a message that is being written, and only then
\* that there is one.
rollback(s) ==
  LET c == s.r.current_out
  IN IF c = None THEN s
     ELSE [s EXCEPT !.pipe[c].part = <<>>, !.r.current_out = None, !.r.more_out = FALSE]

\* The application sends a frame of a message to an identity.
xsend ==
  /\ kind # "REP" /\ (~ app.mid => app.n < MaxSent[kind])
  /\ \E id \in DOMAIN r.outpipes \cup {Nobody}, more \in BOOLEAN, k \in {"data", "empty"} :
       LET first == ~ app.mid
           n == IF first THEN app.n + 1 ELSE app.n
           i == IF first THEN 0 ELSE app.i + 1
           f == Frame(k, IF first THEN id ELSE NoId, n, i, more)
           s == IF kind = "STREAM" THEN stream_xsend(Now, f) ELSE router_xsend(Now, f)
       IN /\ first => k = "data" /\ (more \/ "malformed" \in Races \/ kind # "STREAM")
          /\ ~ first => id = Nobody /\ i < 3 /\ (Raw \/ i = 2 => ~ more) /\ (k = "empty" => Raw)
          /\ Becomes(s)
          /\ app' = IF s.r.rc # 0 THEN app
                    ELSE [mid |-> more, aim |-> IF first THEN id ELSE app.aim, n |-> n, i |-> i]
          /\ r' # r \/ pipe' # pipe \/ app' # app
  /\ UNCHANGED <<kind, got, total>>

\* rep_t::xsend: the reply follows the labels of the request.
rep_xsend ==
  /\ kind = "REP" /\ r.sending_reply
  /\ \E more \in BOOLEAN :
       LET s == router_xsend(Now, Frame("data", NoId, app.n, app.i + 1, more))
       IN /\ app.i < 3 \/ ~ more
          /\ Becomes([s EXCEPT !.r.sending_reply = more])
          /\ app' = [app EXCEPT !.mid = more, !.i = @ + 1]
  /\ UNCHANGED <<kind, got, total>>

-----------------------------------------------------------------------------
(* Receiving.                                                              *)

\* The pipes fq_t may read from.  A peer that reconnected says who it is
\* again, which is skipped.
Skip(in) == SelectSeq(in, LAMBDA f : f.kind # "identity")
Readable(s) ==
  {c \in Pipes : /\ s.pipe[c].state = "active" /\ s.pipe[c].identity # NoId
                 /\ Skip(s.pipe[c].in) # <<>> /\ s.r.fq \in {None, c}}

\* fq_t::recvpipe from pipe c.
recvpipe(s, c) ==
  LET f == Head(Skip(s.pipe[c].in))
  IN [s EXCEPT !.pipe[c].in = Tail(Skip(@)), !.r.fq = IF f.more THEN c ELSE None]

\* xhas_in fetches a frame, with the identity it came from.
Prefetch(s, c) ==
  [recvpipe(s, c) EXCEPT
     !.r.prefetched = <<Frame("identity", s.pipe[c].identity, 0, 0, TRUE),
                        Head(Skip(s.pipe[c].in))>>,
     !.r.identity_sent = FALSE]

xhas_in ==
  /\ kind # "STREAM" /\ ~ r.more_in /\ r.prefetched = <<>> /\ ~ r.sending_reply
  /\ \E c \in Readable(Now) : Becomes(Prefetch(Now, c))
  /\ UNCHANGED <<kind, app, got, total>>

stream_xhas_in ==
  /\ kind = "STREAM" /\ r.prefetched = <<>>
  /\ \E c \in Readable(Now) : Becomes(Prefetch(Now, c))
  /\ UNCHANGED <<kind, app, got, total>>

\* What was fetched is handed out first: the identity, then the frame.
Hands(s) ==
  IF s.r.identity_sent THEN [s |-> [s EXCEPT !.r.prefetched = <<>>], f |-> s.r.prefetched[2]]
  ELSE [s |-> [s EXCEPT !.r.identity_sent = TRUE], f |-> s.r.prefetched[1]]

\* A frame that begins a message is put aside for its identity.
stream_xrecv(s, c) == Hands(IF s.r.prefetched = <<>> THEN Prefetch(s, c) ELSE s)

router_xrecv(s, c) ==
  IF s.r.prefetched # <<>>
  THEN LET x == Hands(s) IN [x EXCEPT !.s.r.more_in = x.f.more]
  ELSE IF s.r.more_in
  THEN LET f == Head(Skip(s.pipe[c].in))
       IN [s |-> [recvpipe(s, c) EXCEPT !.r.more_in = f.more], f |-> f]
  ELSE Hands(Prefetch(s, c))

\* Where the next frame may come from.
Sources(s) == IF s.r.prefetched # <<>> THEN {None} ELSE Readable(s)

Hand(f) == got' = IF got = <<>> \/ ~ Last(got).more THEN <<f>> ELSE Append(got, f)

xrecv ==
  /\ kind # "REP"
  /\ \E c \in Sources(Now) :
       LET x == IF kind = "STREAM" THEN stream_xrecv(Now, c) ELSE router_xrecv(Now, c)
       IN Becomes(x.s) /\ Hand(x.f)
  /\ UNCHANGED <<kind, app, total>>

\* One pass of rep_t::xrecv over what is in front of the body: each frame is
\* copied to the reply, up to the delimiter or the end of the message.
Labels(s, c) ==
  LET first == IF s.r.prefetched = <<>> THEN Prefetch(s, c) ELSE s
      pf == first.r.prefetched
      from == first.r.fq
      frames == IF from = None THEN pf ELSE pf \o Skip(first.pipe[from].in)
      stop == CHOOSE j \in 2 .. Len(frames) :
                /\ frames[j].kind = "empty" \/ ~ frames[j].more
                /\ \A k \in 2 .. j - 1 : frames[k].kind # "empty" /\ frames[k].more
      good == frames[stop].kind = "empty" /\ frames[stop].more
      read == [first EXCEPT !.r.prefetched = <<>>, !.r.identity_sent = TRUE,
                            !.r.fq = IF good THEN from ELSE None, !.r.more_in = good,
                            !.pipe = IF from = None THEN @
                                     ELSE [@ EXCEPT ![from].in = SubSeq(frames, stop + 1, Len(frames))]]
      copied == FoldLeft(router_xsend, read, SubSeq(frames, 1, IF good THEN stop ELSE stop - 1))
  IN [s |-> IF good THEN [copied EXCEPT !.r.request_begins = FALSE] ELSE rollback(copied),
      good |-> good, n |-> frames[2].n, i |-> stop - 1, aim |-> frames[1].id]

rep_xrecv ==
  /\ kind = "REP" /\ ~ r.sending_reply
  /\ \/ /\ r.request_begins
        /\ \E c \in Sources(Now) :
             LET x == Labels(Now, c)
             IN /\ x.good \/ "malformed" \in Races \/ x.s.r.more_out = FALSE
                /\ Becomes(x.s)
                /\ app' = IF x.good THEN [mid |-> TRUE, aim |-> x.aim, n |-> x.n, i |-> x.i]
                          ELSE [app EXCEPT !.mid = FALSE]
        /\ got' = <<>>
     \/ /\ ~ r.request_begins
        /\ \E c \in Sources(Now) :
             LET x == router_xrecv(Now, c)
             IN /\ Becomes([x.s EXCEPT !.r.sending_reply = ~ x.f.more, !.r.request_begins = ~ x.f.more])
                /\ Hand(x.f)
        /\ UNCHANGED app
  /\ UNCHANGED <<kind, total>>

-----------------------------------------------------------------------------
(* The peer's messages: those of a REQ, or not, to a REP.                  *)

Shapes ==
  CASE kind = "REP" -> {<<"empty", "data">>, <<"data", "empty", "data">>, <<"data">>, <<"data", "data">>}
    [] Raw -> {<<"data">>}
    [] OTHER -> {<<"data">>, <<"data", "data">>, <<"identity", "data">>}

peer_sends(c) ==
  /\ pipe[c].state = "active" /\ pipe[c].identity # NoId /\ total < MaxReceived
  /\ total' = total + 1
  /\ \E shape \in Shapes :
       pipe' = [pipe EXCEPT ![c].in = @ \o
                  [j \in DOMAIN shape |->
                     Frame(shape[j], pipe[c].identity, total',
                           IF shape[1] = "identity" THEN j - 1 ELSE j,
                           j < Len(shape) /\ shape[j] # "identity")]]
  /\ UNCHANGED <<kind, r, app, got>>

Next ==
  \/ \E c \in Pipes : \/ xattach_pipe(c) \/ stream_xattach_pipe(c) \/ xread_activated(c) \/ xpipe_terminated(c)
                      \/ xwrite_activated(c) \/ peer_sends(c)
  \/ xsend \/ rep_xsend \/ xhas_in \/ stream_xhas_in \/ xrecv \/ rep_xrecv

Spec == Init /\ [][Next]_vars

-----------------------------------------------------------------------------
(* Properties.                                                             *)

\* The frames of one message, from its first to its last.
Whole(frames) ==
  \A j \in DOMAIN frames : /\ frames[j].n = frames[1].n /\ frames[j].i = j
                           /\ frames[j].more = (j < Len(frames))

\* The socket takes a frame for an identity when the application begins a
\* message with it, and only then: "If we have malformed message (prefix with
\* no subsequent message) then just silently ignore it."
InPhase == r.more_out = app.mid

\* What reaches a peer is whole messages sent to it (replies to its requests,
\* with their labels), whichever peers come, go, or are too slow; what the
\* application receives is one message, whole, behind the identity of the
\* peer that sent it.  None of the socket's assertions fails.
Routed ==
  /\ r.ok /\ InPhase
  /\ \A c \in Pipes : /\ pipe[c].part # <<>> => r.current_out = c
                      /\ \A m \in Range(pipe[c].out) : Whole(m)
  /\ app.mid /\ r.current_out # None => pipe[r.current_out].identity = app.aim
  /\ got # <<>> /\ kind # "REP" =>
       /\ got[1].kind = "identity"
       /\ \A j \in 2 .. Len(got) : /\ got[j].id = got[1].id /\ got[j].n = got[2].n /\ got[j].i = j - 1
                                   /\ j < Len(got) => got[j].more
=============================================================================
