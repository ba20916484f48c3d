------------------------------ MODULE MCCalls -------------------------------
(***************************************************************************)
(* TLC model of the calls of the application, and of what serves them:     *)
(* SocketCall, Monitor, Proxy or Listener.  Which one is chosen in the     *)
(* initial state; the others then stay as they are, so the four are        *)
(* checked side by side and not multiplied.                                *)
(***************************************************************************)
EXTENDS Integers, Sequences

CONSTANTS
  Models,
  s1, s2, Sockets, Timeouts, Called, ItemSets, Hwm, inbound_poll_rate, MaxMessages,  \* SocketCall
  IoThreads, Reported, MonitorHwm, MaxEvents, MonitorRaces,                          \* Monitor
  ProxyHwm, ProxyMessages, Commands, Captures,                                       \* Proxy
  Listeners, Addresses, Clients, Allowed, MaxFds, ListenRaces                        \* Listener

ASSUME CallsAssumption ==
  /\ Timeouts \subseteq Int /\ Called \subseteq Sockets
  /\ ItemSets \subseteq [Sockets -> SUBSET {"in", "out"}]
  /\ Hwm \in Nat /\ inbound_poll_rate \in Nat \ {0}
  /\ MaxFds \in Nat

VARIABLES
  model,
  sock, app, sent,
  monitor_socket, monitor_events, pair, pipe, partial, emitting, monitored, reported, client,
  first, got,
  arrived, taken, out, unread, captured, orders, control, state, at, revents, frame, capture,
  same,
  lis, name, backlog, con, engine, fds, failed

S == INSTANCE SocketCall
M == INSTANCE Monitor
P == INSTANCE Proxy
L == INSTANCE Listener

callVars    == <<sock, app, sent>>
monitorVars == <<monitor_socket, monitor_events, pair, pipe, partial, emitting, monitored,
                 reported, client, first, got>>
proxyVars   == <<arrived, taken, out, unread, captured, orders, control, state, at, revents,
                 frame, capture, same>>
listenVars  == <<lis, name, backlog, con, engine, fds, failed>>

vars == <<model, callVars, monitorVars, proxyVars, listenVars>>

\* The setting of a model that is not chosen makes no difference.
Pick(m, values) == IF model = m THEN values ELSE {CHOOSE v \in values : TRUE}

MCInit ==
  /\ model \in Models
  /\ orders \in Pick("proxy", Commands) /\ capture \in Pick("proxy", Captures)
  /\ same \in Pick("proxy", BOOLEAN)
  /\ con \in Pick("listener", [Clients -> [state : {"start"}, addr : Addresses]])
  /\ name \in Pick("listener", {f \in [Addresses -> {"nobody", "stale"}] :
                                 \A a \in Addresses : a.protocol = "tcp" => f[a] = "nobody"})
  /\ S!CallInit /\ M!MonitorInit /\ P!ProxyInit /\ L!ListenInit

MCNext ==
  \/ model = "call"     /\ S!CallNext    /\ UNCHANGED <<model, monitorVars, proxyVars, listenVars>>
  \/ model = "monitor"  /\ M!MonitorNext /\ UNCHANGED <<model, callVars, proxyVars, listenVars>>
  \/ model = "proxy"    /\ P!ProxyNext   /\ UNCHANGED <<model, callVars, monitorVars, listenVars>>
  \/ model = "listener" /\ L!ListenNext  /\ UNCHANGED <<model, callVars, monitorVars, proxyVars>>

\* The fairness of the model chosen, action by action.
MCFairness ==
  /\ WF_callVars(model = "call" /\ S!AppStep) /\ WF_callVars(model = "call" /\ S!Tick)
  /\ \A t \in M!Threads : WF_monitorVars(model = "monitor" /\ M!EmitterStep(t))
  /\ WF_monitorVars(model = "monitor" /\ M!StopperStep(M!reaper))
  /\ WF_monitorVars(model = "monitor" /\ M!stopped_monitor(M!application))
  /\ WF_monitorVars(model = "monitor" /\ M!ClientStep)
  /\ WF_proxyVars(model = "proxy" /\ P!proxy)
  /\ WF_proxyVars(model = "proxy" /\ P!reads("capture"))
  /\ \A l \in Listeners :
       /\ WF_listenVars(model = "listener" /\ (L!process_plug(l) \/ L!process_term(l)))
       /\ WF_listenVars(model = "listener" /\ L!in_event(l))
  /\ \A c \in Clients : WF_listenVars(model = "listener" /\ L!ConnecterStep(c))

MCSpec == MCInit /\ [][MCNext]_vars /\ MCFairness
-----------------------------------------------------------------------------
(* Settings.                                                               *)

\* No timeout, none at all, and one that passes; what a poll asks for: input on
\* both sockets, on one, or input on one and output on the other.
MCTimeouts == {-1, 0, 1}
MCItemSets == {[s \in Sockets |-> {"in"}],
               [s \in Sockets |-> IF s = s1 THEN {} ELSE {"in"}],
               [s \in Sockets |-> IF s = s1 THEN {"in"} ELSE {"out"}]}

MCCommands == {<<"PAUSE", "RESUME", "TERMINATE">>, <<"PAUSE", "TERMINATE">>, <<"PARTS">>}

MCAddresses == {[protocol |-> "tcp", n |-> 1], [protocol |-> "ipc", n |-> 1]}
-----------------------------------------------------------------------------
\* What send, recv and zmq_poll answer is true (SocketCall).
CallsHonest == [][model = "call" => S!TrueAnswer]_callVars

\* A call that waits for something that is there comes back (SocketCall).
CallsReturn == model = "call" => S!CallsReturn

\* The handlers of a Monitor get the events that were reported (Monitor).
EventsTrue == model = "monitor" => M!EventsTrue

\* Each event goes to its own handler, a BIND_FAILED too (Monitor).
OwnHandler == model = "monitor" => M!OwnHandler

\* Nobody is held up by a Monitor for good (Monitor).
MonitorEnds == model = "monitor" => M!MonitorEnds

\* A proxy obeys its control socket, though its peers do not read, unless it has only
\* one socket; and what it takes it passes on whole and shows to the capture (Proxy).
ProxyObeys == <>[](model = "proxy" => P!Obeyed) /\ [](model = "proxy" => P!PassedWhole)

\* No descriptor is lost, and a listener keeps its address (Listener).
ListenerSafe == [][model = "listener" => L!ListenerStep]_listenVars

\* A client is accepted in the end (Listener).
ClientsServed == model = "listener" => L!ClientsServed
=============================================================================
