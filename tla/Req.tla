--------------------------------- MODULE Req --------------------------------
(***************************************************************************)
(* A REQ socket, req_t over dealer_t, with its pipes and the peers behind  *)
(* them.  Which pipe lb_t and fq_t choose is left open; they keep to it    *)
(* until the end of a message.  A reply is [n, id, bottom, parts]: the     *)
(* request it answers, its request id, whether the empty frame is there,   *)
(* and its number of parts.  A peer answers on the pipe the request came   *)
(* from: late, as often as it likes, or with something malformed.          *)
(***************************************************************************)
EXTENDS Integers, Sequences, FiniteSets

CONSTANTS
  Pipes,
  Settings,      \* [strict, correlate : BOOLEAN] to choose from
  Races,         \* {"mid reply"}: a relaxed socket may send before it has a whole reply
  MaxRequests, MaxReplies, MaxIds   \* bounds

VARIABLES
  set, req,
  pipe,       \* per pipe: "new", "active", "terminating" or "gone"
  requests,   \* per pipe, requests that arrived at the peer, with the number of answers (up to 2)
  in,         \* per pipe, replies to be read
  n,          \* the request that is being sent or was sent last
  replies,    \* number of replies
  got         \* the reply received last: the request it was received for, its pipe, and
              \* what its peer had been asked and had answered by then

vars == <<set, req, pipe, requests, in, n, replies, got>>

None == [n |-> 0]

Init ==
  /\ set \in Settings
  /\ req = [receiving_reply |-> FALSE, message_begins |-> TRUE, reply_pipe |-> None,
            request_id |-> 0, lb |-> None, dropping |-> FALSE, fq |-> None, left |-> 0,
            ok |-> TRUE]
  /\ pipe = [p \in Pipes |-> "new"]
  /\ requests = [p \in Pipes |-> {}] /\ in = [p \in Pipes |-> <<>>]
  /\ n = 0 /\ replies = 0 /\ got = None

Active == {p \in Pipes : pipe[p] = "active"}

zmq_assert(x, holds) == [x EXCEPT !.ok = @ /\ holds]

-----------------------------------------------------------------------------
(* req_t::xsend.                                                           *)

\* A relaxed socket gives up the request under way.
Abort(x) == [x EXCEPT !.receiving_reply = FALSE, !.message_begins = TRUE]

\* The first part: the envelope goes out by some pipe, and all replies that
\* are there are dropped.  fq_t asserts that a message it has begun to read
\* can be read to its end.
Begins(x, p) ==
  [zmq_assert(x, x.fq # None => x.fq \in Active /\ x.fq # req.reply_pipe)
     EXCEPT !.reply_pipe = p, !.lb = p, !.message_begins = FALSE, !.fq = None, !.left = 0,
            !.request_id = IF set.correlate THEN @ + 1 ELSE @]

eaten(x, q) == <<>>

xsend(more) ==
  LET aborts == req.receiving_reply
      lost == IF aborts THEN {req.reply_pipe} \cap Pipes ELSE {}
      x == IF aborts THEN Abort(req) ELSE req
      last == [x EXCEPT !.receiving_reply = ~ more, !.message_begins = ~ more,
                        !.lb = IF more THEN @ ELSE None, !.dropping = @ /\ more]
  IN /\ aborts => ~ set.strict /\ (req.fq = None \/ "mid reply" \in Races)
     /\ x.message_begins => n < MaxRequests
     /\ pipe' = [p \in Pipes |-> IF p \in lost THEN "terminating" ELSE pipe[p]]
     /\ IF ~ x.message_begins
        THEN /\ req' = last
             /\ requests' = IF more \/ x.lb = None THEN requests
                            ELSE [requests EXCEPT ![x.lb] = @ \cup {[n |-> n, id |-> x.request_id, answered |-> 0]}]
             /\ UNCHANGED <<in, n, got>>
        ELSE IF Active \ lost = {}
        THEN \* EAGAIN
             /\ req.request_id < MaxIds
             /\ req' = [x EXCEPT !.reply_pipe = None,
                                 !.request_id = IF set.correlate THEN @ + 1 ELSE @]
             /\ req' # req /\ UNCHANGED <<in, requests, n, got>>
        ELSE \E p \in Active \ lost :
             LET y == Begins(x, p)
             IN /\ n' = n + 1 /\ got' = None
                /\ in' = [q \in Pipes |-> IF q \in Active \ lost THEN eaten(x, q) ELSE in[q]]
                /\ req' = [y EXCEPT !.receiving_reply = ~ more, !.message_begins = ~ more,
                                    !.lb = IF more THEN p ELSE None]
                /\ requests' = IF more THEN requests
                               ELSE [requests EXCEPT ![p] = @ \cup {[n |-> n', id |-> y.request_id, answered |-> 0]}]
     /\ UNCHANGED <<set, replies>>

-----------------------------------------------------------------------------
(* req_t::xrecv.                                                           *)

\* Plausible bug: any pipe will do.
recv_reply_pipe_any(p) == TRUE

recv_reply_pipe(p) == req.reply_pipe \in {None, p}

\* The reply has the right first frames, and comes from where it should.
Accepts(p, reply) ==
  recv_reply_pipe(p) /\ reply.bottom /\ (set.correlate => reply.id = req.request_id)

\* The first part of a reply: the pipes are read, in turn, up to one that has
\* an acceptable reply.
xrecv_first ==
  /\ req.receiving_reply /\ req.message_begins
  /\ \E k \in [Active -> 0 .. MaxReplies] :
       /\ \A q \in Active : k[q] <= Len(in[q]) /\ \A i \in 1 .. k[q] : ~ Accepts(q, in[q][i])
       /\ LET after == [q \in Pipes |-> IF q \in Active THEN SubSeq(in[q], k[q] + 1, Len(in[q]))
                                        ELSE in[q]]
          IN \/ \E p \in Active :
                  /\ after[p] # <<>> /\ Accepts(p, Head(after[p]))
                  /\ LET reply == Head(after[p])
                         more == reply.parts > 1
                     IN /\ in' = [after EXCEPT ![p] = Tail(@)]
                        /\ got' = [n |-> reply.n, for |-> n, from |-> p, asked |-> requests[p]]
                        /\ req' = [req EXCEPT !.receiving_reply = more, !.message_begins = ~ more,
                                              !.fq = IF more THEN p ELSE None,
                                              !.left = reply.parts - 1]
             \/ \* EAGAIN
                /\ \A q \in Active : after[q] = <<>>
                /\ in' = after /\ in' # in /\ UNCHANGED <<req, got>>
  /\ UNCHANGED <<set, pipe, requests, n, replies>>

\* The others: the rest of the message is there.
xrecv_next ==
  /\ req.receiving_reply /\ ~ req.message_begins
  /\ req' = [zmq_assert(req, req.fq \in Active)
               EXCEPT !.receiving_reply = req.left > 1, !.message_begins = ~ (req.left > 1),
                      !.fq = IF req.left > 1 THEN @ ELSE None, !.left = @ - 1]
  /\ UNCHANGED <<set, pipe, requests, in, n, replies, got>>

-----------------------------------------------------------------------------
(* Pipes come and go; a message that is being sent then is dropped.        *)

xattach_pipe(p) ==
  /\ pipe[p] = "new"
  /\ pipe' = [pipe EXCEPT ![p] = "active"]
  /\ UNCHANGED <<set, req, requests, in, n, replies, got>>

\* A lost connection's pipe is read to its end first: not in mid reply.  A
\* socket that waited for it then takes a reply from anyone.
xpipe_terminated(p) ==
  /\ pipe[p] \in {"active", "terminating"} /\ req.fq # p
  /\ pipe' = [pipe EXCEPT ![p] = "gone"]
  /\ req' = [req EXCEPT !.reply_pipe = IF @ = p THEN None ELSE @,
                        !.dropping = @ \/ req.lb = p, !.lb = IF @ = p THEN None ELSE @]
  /\ in' = [in EXCEPT ![p] = <<>>] /\ requests' = [requests EXCEPT ![p] = {}]
  /\ UNCHANGED <<set, n, replies, got>>

\* The peer answers something it was asked, whether it has done so or not.
peer_replies(p) ==
  /\ pipe[p] # "gone" /\ replies < MaxReplies /\ replies' = replies + 1
  /\ \E r \in requests[p], parts \in 1 .. 2, bottom \in BOOLEAN :
       /\ in' = [in EXCEPT ![p] = Append(@, [n |-> r.n, id |-> r.id, bottom |-> bottom,
                                             parts |-> parts])]
       /\ requests' = [requests EXCEPT ![p] =
                         (@ \ {r}) \cup {[r EXCEPT !.answered = IF @ = 0 THEN 1 ELSE 2]}]
  /\ UNCHANGED <<set, req, pipe, n, got>>

Next ==
  \/ \E more \in BOOLEAN : xsend(more)
  \/ xrecv_first \/ xrecv_next
  \/ \E p \in Pipes : xattach_pipe(p) \/ xpipe_terminated(p) \/ peer_replies(p)

Spec == Init /\ [][Next]_vars

-----------------------------------------------------------------------------
(* Properties.                                                             *)

\* "If we've already received the first part of the message we should get the
\* remaining parts without blocking": the rest of a reply is there, whatever
\* the socket was told to do after its first part.
RestIsThere == req.ok

\* Among these requests is one that was answered more than once.
Twice(asked) == \E r \in asked : r.answered > 1

\* A reply the socket hands out comes from the pipe its last request went to,
\* or that pipe is gone.  It answers that request, with one exception: without
\* request ids a peer that has itself answered a request more than once may be
\* taken at its old word.  This is so however late, malformed or superfluous
\* the replies are, whatever requests are given up and whichever pipes go.
RightReply ==
  /\ RestIsThere
  /\ got # None =>
       /\ got.n # got.for => ~ set.correlate /\ Twice(got.asked)
       /\ \A p \in Pipes : (\E r \in requests[p] : r.n = got.for) => p = got.from
=============================================================================
