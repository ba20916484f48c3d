------------------------------- MODULE PubSub -------------------------------
(***************************************************************************)
(* A PUB or XPUB socket and its subscribers: xpub_t, xsub_t with the       *)
(* overloads of pub_t and sub_t, and dist_t, over connections that break   *)
(* and are made again.  Connection <<s, k>> is the k-th of subscriber s:   *)
(* the publisher has a pipe for each, the subscriber one pipe whose other  *)
(* half is replaced (hiccup) when a connection is lost.  What is on its    *)
(* way in sessions and on the network counts as being in the pipe.         *)
(***************************************************************************)
EXTENDS Trie, PipeArray

CONSTANTS
  Subscribers,
  Settings,     \* [xpub, verbose, filter, messages, calls, losses] to choose from: the
                \* sockets, and the bounds on what happens
  Prefixes_,    \* what may be subscribed to
  Topics,       \* first parts of messages
  Hwm,          \* of the publisher's pipes
  SubHwm,       \* of the subscribers' pipes
  MaxConnections,  \* bound: connections of a subscriber
  Fragile          \* bound: subscribers whose connections may break

VARIABLES
  set,        \* the settings
  pub,        \* subscriptions, dist, more and pending_data of the publisher
  pipe,       \* per connection, the publisher's end of the pipe
  sub,        \* per subscriber: subscriptions, dist, message and its end of the pipe
  net,        \* per connection: "new", "up" or "lost"
  up, acks,   \* per connection, subscriptions and reads on their way to the publisher
  down,       \* per subscriber, parts to be read
  calls, sent,      \* counters: calls of the subscribers, messages
  expect, parts,    \* history: who is to get how many parts of the message, who has how many
  got, told         \* history: parts received, what the XPUB user knows

vars == <<set, pub, pipe, sub, net, up, acks, down, calls, sent, expect, parts, got, told>>

Connections == Subscribers \X (1 .. MaxConnections)

Dist(pipes) == [pipes |-> pipes, matching |-> 0, active |-> Len(pipes), eligible |-> Len(pipes),
                more |-> FALSE, ok |-> TRUE]

Init ==
  /\ set \in Settings
  /\ pub = [subscriptions |-> NewMtrie, dist |-> Dist(<<>>), more |-> FALSE, topic |-> <<>>, pending |-> <<>>]
  /\ pipe = [c \in Connections |-> [state |-> "none", out_active |-> TRUE, unread |-> 0]]
  /\ sub = [s \in Subscribers |->
              [subscriptions |-> NewTrie, dist |-> Dist(<<>>), message |-> Null, more |-> FALSE,
               conn |-> 0, out_active |-> TRUE, unread |-> 0, acks |-> 0]]
  /\ net = [c \in Connections |-> "new"]
  /\ up = [c \in Connections |-> <<>>] /\ acks = [c \in Connections |-> 0]
  /\ down = [s \in Subscribers |-> <<>>] /\ got = [s \in Subscribers |-> <<>>]
  /\ calls = 0 /\ sent = 0 /\ expect = [to |-> {}, parts |-> 0] /\ parts = [c \in Connections |-> 0]
  /\ told = {}

-----------------------------------------------------------------------------
(* dist_t: the pipes before matching get the message, those before active  *)
(* may, those before eligible may get the next one.                        *)

\* array_t::swap; an index past the end is undefined behaviour.
dist_swap(d, i, j) ==
  IF i < Len(d.pipes) /\ j < Len(d.pipes) THEN [d EXCEPT !.pipes = swap(@, i, j)]
  ELSE [d EXCEPT !.ok = FALSE]

dist_attach(d, p) ==
  LET x == [d EXCEPT !.pipes = Append(@, p), !.eligible = @ + 1]
  IN IF d.more THEN dist_swap(x, d.eligible, Len(d.pipes))
     ELSE [dist_swap(x, d.active, Len(d.pipes)) EXCEPT !.active = @ + 1]

dist_match(d, p) ==
  LET i == index(d.pipes, p)
  IN IF i < d.matching \/ i >= d.eligible THEN d
     ELSE [dist_swap(d, i, d.matching) EXCEPT !.matching = @ + 1]

\* Plausible bug: the pipe is not taken out of the matching ones first.
dist_pipe_terminated_active(d, p) ==
  LET a == IF index(d.pipes, p) < d.active
           THEN [dist_swap(d, index(d.pipes, p), d.active - 1) EXCEPT !.active = @ - 1] ELSE d
      e == IF index(a.pipes, p) < a.eligible
           THEN [dist_swap(a, index(a.pipes, p), a.eligible - 1) EXCEPT !.eligible = @ - 1] ELSE a
  IN [e EXCEPT !.pipes = erase(@, p)]

dist_pipe_terminated(d, p) ==
  LET m == IF index(d.pipes, p) < d.matching
           THEN [dist_swap(d, index(d.pipes, p), d.matching - 1) EXCEPT !.matching = @ - 1] ELSE d
      a == IF index(m.pipes, p) < m.active
           THEN [dist_swap(m, index(m.pipes, p), m.active - 1) EXCEPT !.active = @ - 1] ELSE m
      e == IF index(a.pipes, p) < a.eligible
           THEN [dist_swap(a, index(a.pipes, p), a.eligible - 1) EXCEPT !.eligible = @ - 1] ELSE a
  IN [e EXCEPT !.pipes = erase(@, p)]

dist_activated(d, p) ==
  LET x == [dist_swap(d, index(d.pipes, p), d.eligible) EXCEPT !.eligible = @ + 1]
  IN IF d.more THEN x ELSE [dist_swap(x, x.eligible - 1, d.active) EXCEPT !.active = @ + 1]

\* A pipe that takes no more is moved behind the eligible ones.
dist_write_failed(d, p) ==
  LET m == [dist_swap(d, index(d.pipes, p), d.matching - 1) EXCEPT !.matching = @ - 1]
      a == [dist_swap(m, index(m.pipes, p), m.active - 1) EXCEPT !.active = @ - 1]
  IN [dist_swap(a, a.active, a.eligible - 1) EXCEPT !.eligible = @ - 1]

\* distribute: the pipes written to, given the ones that can be.
RECURSIVE distribute(_, _, _)
distribute(d, i, writable) ==
  IF i >= d.matching THEN [dist |-> d, to |-> {}]
  ELSE LET p == Item(d.pipes, i) IN
       IF p \notin writable THEN distribute(dist_write_failed(d, p), i, writable)
       ELSE LET r == distribute(d, i + 1, writable) IN [r EXCEPT !.to = @ \cup {p}]

send_to_matching(d, more, writable) ==
  LET r == distribute(d, 0, writable)
  IN [r EXCEPT !.dist.more = more, !.dist.active = IF more THEN @ ELSE r.dist.eligible]

send_to_all(d, more, writable) == send_to_matching([d EXCEPT !.matching = d.active], more, writable)

-----------------------------------------------------------------------------
(* xsub_t, and zmq_setsockopt of sub_t.                                    *)

Message(op, prefix) == [op |-> op, prefix |-> prefix]

\* pipe_t::write for one message.
write(u, c, queue, msg) ==
  IF ~ u.out_active \/ u.unread = SubHwm THEN [u |-> [u EXCEPT !.out_active = FALSE], queue |-> queue]
  ELSE [u |-> [u EXCEPT !.unread = @ + 1], queue |-> Append(queue, msg)]

\* send_subscription of each prefix; what does not fit is dropped.
send_subscriptions(u, c, queue) ==
  FoldLeft(LAMBDA x, p : write(x.u, c, x.queue, Message("subscribe", p)),
           [u |-> u, queue |-> queue], apply(u.subscriptions))

\* zmq_connect: the pipe is there at once.
xsub_attach_pipe(s) ==
  /\ sub[s].conn = 0
  /\ LET r == send_subscriptions([sub[s] EXCEPT !.dist = dist_attach(@, s), !.conn = 1],
                                 <<s, 1>>, <<>>)
     IN sub' = [sub EXCEPT ![s] = r.u] /\ up' = [up EXCEPT ![<<s, 1>>] = r.queue]
  /\ UNCHANGED <<set, pub, pipe, net, acks, down, calls, sent, expect, parts, got, told>>

\* process_hiccup takes back what was not read of the old half.
xsub_hiccuped(s) ==
  LET c == <<s, sub[s].conn>>
      d == <<s, sub[s].conn + 1>>
  IN /\ sub[s].conn \in 1 .. MaxConnections - 1 /\ net[c] = "lost"
     /\ LET r == send_subscriptions([sub[s] EXCEPT !.conn = @ + 1, !.out_active = TRUE,
                                                   !.unread = @ - Len(up[c])], d, <<>>)
        IN sub' = [sub EXCEPT ![s] = r.u] /\ up' = [up EXCEPT ![c] = <<>>, ![d] = r.queue]
     /\ UNCHANGED <<set, pub, pipe, net, acks, down, calls, sent, expect, parts, got, told>>

\* xsend: each subscription is passed on, of the unsubscriptions the last.
xsub_send(s, op, p) ==
  /\ calls < set.calls /\ calls' = calls + 1
  /\ LET u == sub[s]
         r == IF op = "subscribe" THEN trie_add(u.subscriptions, p) ELSE trie_rm(u.subscriptions, p)
         w == IF u.out_active /\ u.unread # SubHwm THEN {s} ELSE {}
         d == IF op = "subscribe" \/ r.ret THEN send_to_all(u.dist, FALSE, w)
              ELSE [dist |-> u.dist, to |-> {}]
         tried == (op = "subscribe" \/ r.ret) /\ u.dist.active > 0
     IN /\ sub' = [sub EXCEPT ![s].subscriptions = r.n, ![s].dist = d.dist,
                              ![s].unread = @ + IF d.to = {} THEN 0 ELSE 1,
                              ![s].out_active = @ /\ ~ (tried /\ d.to = {})]
        /\ up' = IF d.to = {} THEN up ELSE [up EXCEPT ![<<s, u.conn>>] = Append(@, Message(op, p))]
  /\ UNCHANGED <<set, pub, pipe, net, acks, down, sent, expect, parts, got, told>>

\* xwrite_activated: the peer has read.
xsub_write_activated(s) ==
  /\ sub[s].acks > 0
  /\ LET u == [sub[s] EXCEPT !.unread = @ - sub[s].acks, !.acks = 0]
     IN sub' = [sub EXCEPT ![s] = IF u.out_active THEN u
                                  ELSE [u EXCEPT !.out_active = TRUE, !.dist = dist_activated(@, s)]]
  /\ UNCHANGED <<set, pub, pipe, net, up, acks, down, calls, sent, expect, parts, got, told>>

\* Reading ahead to a message that passes the filter: what is left, and the
\* connections whose messages were read to the end.
RECURSIVE skip(_, _, _)
skip(s, queue, ends) ==
  IF queue = <<>> THEN [queue |-> queue, ends |-> ends]
  ELSE IF ~ set.filter \/ check(sub[s].subscriptions, Head(queue).topic)
       THEN [queue |-> queue, ends |-> ends]
  ELSE LET n == Min({i \in DOMAIN queue : ~ queue[i].more})
       IN skip(s, SubSeq(queue, n + 1, Len(queue)), Append(ends, queue[n].conn))

\* The writer of a connection that is still there hears of what was read.
Acknowledge(ends) ==
  acks' = [c \in Connections |-> acks[c] + Cardinality({i \in DOMAIN ends : ends[i] = c /\ net[c] = "up"})]

\* The read of the part that passed: a non-empty queue.
Ends(r) == IF Head(r.queue).more THEN r.ends ELSE Append(r.ends, Head(r.queue).conn)

\* xhas_in: a message may be put aside.
xsub_has_in(s) ==
  /\ ~ sub[s].more /\ sub[s].message = Null /\ down[s] # <<>>
  /\ LET r == skip(s, down[s], <<>>)
     IN IF r.queue = <<>>
        THEN /\ down' = [down EXCEPT ![s] = <<>>] /\ Acknowledge(r.ends) /\ UNCHANGED sub
        ELSE /\ sub' = [sub EXCEPT ![s].message = Head(r.queue)]
             /\ down' = [down EXCEPT ![s] = Tail(r.queue)] /\ Acknowledge(Ends(r))
  /\ UNCHANGED <<set, pub, pipe, net, up, calls, sent, expect, parts, got, told>>

xsub_recv(s) ==
  /\ IF sub[s].message # Null
     THEN /\ got' = [got EXCEPT ![s] = Append(@, sub[s].message)]
          /\ sub' = [sub EXCEPT ![s].message = Null, ![s].more = sub[s].message.more]
          /\ UNCHANGED <<down, acks>>
     ELSE LET r == IF sub[s].more THEN [queue |-> down[s], ends |-> <<>>]
                   ELSE skip(s, down[s], <<>>)
          IN /\ down[s] # <<>>
             /\ IF r.queue = <<>>
                THEN /\ down' = [down EXCEPT ![s] = <<>>] /\ Acknowledge(r.ends)
                     /\ UNCHANGED <<sub, got>>
                ELSE /\ got' = [got EXCEPT ![s] = Append(@, Head(r.queue))]
                     /\ sub' = [sub EXCEPT ![s].more = Head(r.queue).more]
                     /\ down' = [down EXCEPT ![s] = Tail(r.queue)] /\ Acknowledge(Ends(r))
  /\ UNCHANGED <<set, pub, pipe, net, up, calls, sent, expect, parts, told>>

-----------------------------------------------------------------------------
(* xpub_t.                                                                 *)

\* What one message does to the subscriptions, and what the user is told.
process_subscription(x, c, msg) ==
  LET r == IF msg.op = "subscribe" THEN mtrie_add(x.subscriptions, msg.prefix, c)
           ELSE mtrie_rm(x.subscriptions, msg.prefix, c)
      tell == set.xpub /\ (r.ret \/ (msg.op = "subscribe" /\ set.verbose))
  IN [x EXCEPT !.subscriptions = r.n, !.pending = IF tell THEN Append(@, msg) ELSE @]

\* xread_activated: all there is.
read_subscriptions(x, c) == FoldLeft(LAMBDA y, msg : process_subscription(y, c, msg), x, up[c])

\* The subscriber hears of the reads, as long as it uses that connection.
Reads(c, n) ==
  IF sub[c[1]].conn = c[2] THEN sub' = [sub EXCEPT ![c[1]].acks = @ + n] ELSE UNCHANGED sub

\* A connection is made: its session brings a pipe.
xpub_attach_pipe(c) ==
  /\ net[c] = "new" /\ sub[c[1]].conn > 0
  /\ c[2] > 1 => net[<<c[1], c[2] - 1>>] = "lost"
  /\ pub' = read_subscriptions([pub EXCEPT !.dist = dist_attach(@, c)], c)
  /\ Reads(c, Len(up[c])) /\ up' = [up EXCEPT ![c] = <<>>]
  /\ pipe' = [pipe EXCEPT ![c].state = "active"] /\ net' = [net EXCEPT ![c] = "up"]
  /\ UNCHANGED <<set, acks, down, calls, sent, expect, parts, got, told>>

xpub_read_activated(c) ==
  /\ net[c] = "up" /\ pipe[c].state = "active" /\ up[c] # <<>>
  /\ pub' = read_subscriptions(pub, c)
  /\ Reads(c, Len(up[c])) /\ up' = [up EXCEPT ![c] = <<>>]
  /\ UNCHANGED <<set, pipe, net, acks, down, calls, sent, expect, parts, got, told>>

xpub_write_activated(c) ==
  /\ pipe[c].state = "active" /\ acks[c] > 0
  /\ pipe' = [pipe EXCEPT ![c].unread = @ - acks[c], ![c].out_active = TRUE]
  /\ acks' = [acks EXCEPT ![c] = 0]
  /\ pub' = IF pipe[c].out_active THEN pub ELSE [pub EXCEPT !.dist = dist_activated(@, c)]
  /\ UNCHANGED <<set, sub, net, up, down, calls, sent, expect, parts, got, told>>

\* The pipe is being terminated: it takes no more.
xpub_pipe_term(c) ==
  /\ net[c] = "lost" /\ pipe[c].state = "active"
  /\ pipe' = [pipe EXCEPT ![c].state = "terminating"]
  /\ expect' = [expect EXCEPT !.to = @ \ {c}] /\ parts' = [parts EXCEPT ![c] = 0]
  /\ UNCHANGED <<set, pub, sub, net, up, acks, down, calls, sent, got, told>>

xpub_pipe_terminated(c) ==
  /\ pipe[c].state = "terminating"
  /\ LET r == mtrie_rm_pipe(pub.subscriptions, c, <<>>)
         unsubs == [i \in DOMAIN r.last |-> Message("unsubscribe", r.last[i])]
     IN pub' = [pub EXCEPT !.subscriptions = r.n, !.dist = dist_pipe_terminated(@, c),
                           !.pending = IF set.xpub THEN @ \o unsubs ELSE @]
  /\ pipe' = [pipe EXCEPT ![c].state = "gone"]
  /\ UNCHANGED <<set, sub, net, up, acks, down, calls, sent, expect, parts, got, told>>

\* Connections whose pipe can be written to.
Writable == {c \in Connections : /\ pipe[c].state = "active" /\ pipe[c].out_active
                                 /\ pipe[c].unread # Hwm}

MatchAll(d, lists) ==
  FoldLeft(LAMBDA x, pipes : FoldLeft(LAMBDA y, c : dist_match(y, c), x, SetToSeq(pipes)), d, lists)

\* The prefixes connection c has subscribed to.
RECURSIVE Subscribed(_, _, _)
Subscribed(n, c, prefix) ==
  (IF c \in n.val THEN {prefix} ELSE {})
    \cup UNION {Subscribed(n.next[i], c, Append(prefix, n.min + i - 1)) : i \in Live(n)}

Matches(c, topic) == \E p \in Subscribed(pub.subscriptions, c, <<>>) : IsPrefix(p, topic)

\* xsend of one part, two at most; a message is flushed with its last one.
xpub_send(topic, more) ==
  /\ pub.more => ~ more /\ topic = pub.topic
  /\ ~ pub.more => sent < set.messages
  /\ sent' = IF pub.more THEN sent ELSE sent + 1
  /\ LET d == IF pub.more THEN pub.dist ELSE MatchAll(pub.dist, match(pub.subscriptions, topic))
         r == send_to_matching(d, more, Writable)
         tried == {Item(d.pipes, i) : i \in 0 .. d.matching - 1}
         Msg(c, k) == [id |-> sent', part |-> k, topic |-> topic, more |-> k = 1 /\ pub.more, conn |-> c]
         New(s) == {c \in r.to : c[1] = s /\ net[c] = "up"}
     IN /\ pub' = [pub EXCEPT !.dist = IF more THEN r.dist ELSE [r.dist EXCEPT !.matching = 0],
                              !.more = more, !.topic = topic]
        /\ expect' = IF pub.more THEN [expect EXCEPT !.parts = @ + 1]
                     ELSE [to |-> {c \in Writable : Matches(c, topic)}, parts |-> 1]
        /\ parts' = [c \in Connections |-> (IF pub.more THEN parts[c] ELSE 0)
                                             + IF c \in r.to THEN 1 ELSE 0]
        /\ pipe' = [c \in Connections |->
                      [pipe[c] EXCEPT !.out_active = @ /\ c \notin tried \ r.to,
                                      !.unread = @ + IF c \in r.to /\ ~ more THEN 1 ELSE 0]]
        /\ down' = [s \in Subscribers |->
                      IF more \/ New(s) = {} THEN down[s]
                      ELSE LET c == CHOOSE c \in New(s) : TRUE
                           IN down[s] \o [k \in 1 .. parts'[c] |-> Msg(c, k)]]
  /\ UNCHANGED <<set, sub, net, up, acks, calls, got, told>>

\* xrecv of an XPUB: its user learns who is interested in what.
xpub_recv ==
  /\ pub.pending # <<>>
  /\ LET msg == Head(pub.pending)
     IN told' = IF msg.op = "subscribe" THEN told \cup {msg.prefix} ELSE told \ {msg.prefix}
  /\ pub' = [pub EXCEPT !.pending = Tail(@)]
  /\ UNCHANGED <<set, pipe, sub, net, up, acks, down, calls, sent, expect, parts, got>>

-----------------------------------------------------------------------------
(* The network: a connection breaks.                                       *)

lose(c) ==
  /\ net[c] = "up" /\ c[2] < MaxConnections /\ c[1] \in Fragile
  /\ Cardinality({d \in Connections : net[d] = "lost"}) < set.losses
  /\ net' = [net EXCEPT ![c] = "lost"]
  /\ UNCHANGED <<set, pub, pipe, sub, up, acks, down, calls, sent, expect, parts, got, told>>

Next ==
  \/ \E s \in Subscribers :
       \/ xsub_attach_pipe(s) \/ xsub_hiccuped(s) \/ xsub_write_activated(s)
       \/ xsub_has_in(s) \/ xsub_recv(s)
       \/ \E op \in {"subscribe", "unsubscribe"}, p \in Prefixes_ : xsub_send(s, op, p)
  \/ \E c \in Connections :
       \/ xpub_attach_pipe(c) \/ xpub_read_activated(c) \/ xpub_write_activated(c)
       \/ xpub_pipe_term(c) \/ xpub_pipe_terminated(c) \/ lose(c)
  \/ \E topic \in Topics, more \in BOOLEAN : xpub_send(topic, more)
  \/ xpub_recv

Spec == Init /\ [][Next]_vars
-----------------------------------------------------------------------------
(* Properties.                                                             *)

Partitioned(d) ==
  /\ d.ok /\ d.matching <= d.active /\ d.active <= d.eligible /\ d.eligible <= Len(d.pipes)
  /\ Cardinality(ToSet(d.pipes)) = Len(d.pipes)
  /\ ~ d.more => d.active = d.eligible

Eligible(d) == {d.pipes[i] : i \in 1 .. d.eligible}

\* "Move the pipe from passive to eligible state": the pipe that is activated
\* is a passive one, and the partitions of dist_t stay what they are, at the
\* publisher and at the subscribers.
PartitionsHold == Partitioned(pub.dist) /\ \A s \in Subscribers : Partitioned(sub[s].dist)

\* However messages, their parts, new, full and lost pipes mix, the partition
\* of dist_t stays in order and says which pipes can be written to; and all
\* parts of a message go to exactly the subscribers that wanted it, and had
\* room, when its first part was sent.
Distributed ==
  /\ PartitionsHold
  /\ \A c \in Connections : pipe[c].state = "active" =>
       (c \in Eligible(pub.dist)) = pipe[c].out_active
  /\ \A s \in Subscribers :
       sub[s].conn > 0 => (s \in Eligible(sub[s].dist)) = sub[s].out_active
  /\ \A c \in Connections : parts[c] = IF c \in expect.to THEN expect.parts ELSE 0

Replay(msgs, known) ==
  FoldLeft(LAMBDA k, msg : IF msg.op = "subscribe" THEN k \cup {msg.prefix} ELSE k \ {msg.prefix},
           known, msgs)

\* Across reconnections, what the publisher has for a connection, with what is
\* on its way, is what the subscriber wants; what an XPUB tells its user adds
\* up to what anybody wants; no assertion of the tries fails; and what a
\* subscriber receives are whole messages, in order, none twice.
SubscriptionsAgree ==
  /\ AllOk(pub.subscriptions) /\ \A s \in Subscribers : AllOk(sub[s].subscriptions)
  /\ \A s \in Subscribers :
       LET c == <<s, sub[s].conn>>
       IN c \in Connections /\ net[c] # "lost" =>
            Replay(up[c], Subscribed(pub.subscriptions, c, <<>>)) = ToSet(apply(sub[s].subscriptions))
  /\ set.xpub => Replay(pub.pending, told) =
                   UNION {Subscribed(pub.subscriptions, c, <<>>) : c \in Connections}
  /\ \A s \in Subscribers : \A i \in 1 .. Len(got[s]) :
       IF i = 1 \/ ~ got[s][i - 1].more THEN got[s][i].part = 1 /\ (i > 1 => got[s][i].id > got[s][i - 1].id)
       ELSE got[s][i].part = 2 /\ got[s][i].id = got[s][i - 1].id
=============================================================================
