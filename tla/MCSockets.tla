----------------------------- MODULE MCSockets ------------------------------
(***************************************************************************)
(* TLC model of the socket types and what they look things up in:          *)
(* Subscriptions, PubSub, Router or Poller.  Which one is chosen in the    *)
(* initial state; the others then stay as they are, so the four are        *)
(* checked side by side and not multiplied.                                *)
(***************************************************************************)
EXTENDS Integers, Sequences

CONSTANTS
  Models,
  Keys, SubscriptionPipes, MaxTrie, MaxMtrie,                          \* Subscriptions
  Subscribers, Settings, Prefixes_, Topics, Hwm, SubHwm, Fragile,      \* PubSub
  RouterPipes, RouterKinds, Names, RouterRaces, MaxSent, MaxReceived,  \* Router
  MaxConnections,                                                      \* PubSub and Router
  Kinds, Sinks, Timed, MaxFd, MaxEntries, MaxCalls, max_io_events, PollerRaces \* Poller

VARIABLES
  model,
  trie, mtrie, count, who, right,
  set, pub, pipe, sub, net, up, acks, down, calls, sent, expect, parts, got, told,
  r_kind, r, r_pipe, app, r_got, total,
  kind, p, pc, reg, fresh, timers

S == INSTANCE Subscriptions WITH Pipes <- SubscriptionPipes
P == INSTANCE PubSub
R == INSTANCE Router WITH Pipes <- RouterPipes, Kinds <- RouterKinds, Races <- RouterRaces,
                          kind <- r_kind, pipe <- r_pipe, got <- r_got
L == INSTANCE Poller WITH Races <- PollerRaces

subscriptionsVars == <<trie, mtrie, count, who, right>>
pubsubVars == <<set, pub, pipe, sub, net, up, acks, down, calls, sent, expect, parts, got, told>>
routerVars == <<r_kind, r, r_pipe, app, r_got, total>>
pollerVars == <<kind, p, pc, reg, fresh, timers>>

vars == <<model, subscriptionsVars, pubsubVars, routerVars, pollerVars>>

\* The setting of a model that is not chosen makes no difference.
Pick(name, values) == IF model = name THEN values ELSE {CHOOSE v \in values : TRUE}

MCInit ==
  /\ model \in Models
  /\ set \in Pick("pubsub", Settings)
  /\ r_kind \in Pick("router", RouterKinds) /\ kind \in Pick("poller", Kinds)
  /\ S!Init /\ P!Init /\ R!Init /\ L!Init

MCNext ==
  \/ /\ model = "subscriptions" /\ S!Next
     /\ UNCHANGED <<model, pubsubVars, routerVars, pollerVars>>
  \/ /\ model = "pubsub" /\ P!Next
     /\ UNCHANGED <<model, subscriptionsVars, routerVars, pollerVars>>
  \/ /\ model = "router" /\ R!Next
     /\ UNCHANGED <<model, subscriptionsVars, pubsubVars, pollerVars>>
  \/ /\ model = "poller" /\ L!Next
     /\ UNCHANGED <<model, subscriptionsVars, pubsubVars, routerVars>>

MCSpec == MCInit /\ [][MCNext]_vars
-----------------------------------------------------------------------------
(* Settings.                                                               *)

\* Prefixes of each other, neighbours with gaps between them, and a branch
\* that has to be split and joined.
MCKeys == {<<>>} \cup {<<b>> : b \in 0 .. 3} \cup {<<1, 0>>, <<1, 3>>, <<3, 2>>}

\* XPUB with connections that break, verbose XPUB, PUB with the subscriber's
\* filter, and two messages over a full pipe.
Setting(x, v, f, messages, c, losses) ==
  [xpub |-> x, verbose |-> v, filter |-> f, messages |-> messages, calls |-> c, losses |-> losses]
MCSettings == {Setting(TRUE, FALSE, FALSE, 0, 2, 1), Setting(TRUE, TRUE, FALSE, 0, 3, 0),
               Setting(FALSE, FALSE, TRUE, 1, 1, 1), Setting(FALSE, FALSE, FALSE, 2, 2, 0)}
MCPrefixes == {<<>>, <<1>>}
MCTopics == {<<1>>}

\* ROUTER and MANDATORY differ in what a message without a peer comes to.
MCMaxSent == [k \in RouterKinds |-> IF k = "ROUTER" THEN 1 ELSE 2]

\* The timers are those of poller_base_t, whatever the kind.
MCTimed == [k \in Kinds |-> IF k = "kqueue" THEN {CHOOSE s \in Sinks : TRUE} ELSE {}]
-----------------------------------------------------------------------------
\* The tries hold what was subscribed to, and say when it changes (Subscriptions).
TriesExact == model = "subscriptions" => S!TriesExact

\* A message goes, whole and once, to the subscribers of its topic; and both ends
\* of a connection agree on the subscriptions (PubSub).
PubSubRight == model = "pubsub" => P!Distributed /\ P!SubscriptionsAgree

\* A message goes, whole, where its address frame says (Router).
Routed == model = "router" => R!Routed

\* An event is handled by the sink that is registered for it (Poller).
RightHandler == model = "poller" => L!RightHandler
=============================================================================
