------------------------------ MODULE Listener ------------------------------
(***************************************************************************)
(* tcp_listener_t and ipc_listener_t, socket_base_t::bind and unbind, and    *)
(* the ipc_connecter_t at the other end.  A bind runs in the application's   *)
(* thread; plugging, accepting and closing run in an I/O thread, some time   *)
(* after the call that asked for them has returned.  An ipc address is a     *)
(* file, which a bind removes before it makes its own and a close removes    *)
(* by its name.                                                              *)
(*                                                                         *)
(* The process has MaxFds descriptors.  Clients are in other processes; one  *)
(* that loses its connection is given a new connecter with a delayed start.  *)
(***************************************************************************)
EXTENDS Naturals, Sequences, FiniteSets, SequencesExt
CONSTANTS
  Listeners,        \* one object per bind
  Addresses,        \* a listener's protocol and address: see Address
  Clients,
  Allowed,          \* the clients the tcp accept filters let in
  MaxFds,
  ListenRaces       \* "rebind", "no descriptors": see bind and accept
VARIABLES
  lis,      \* per listener: state, address, descriptor, has_file
  name,     \* per address, whom it leads to: a listener, "nobody" or, an ipc
            \* file of an earlier run, "stale"
  backlog,  \* per listener, clients connected and not accepted
  con,      \* per client: its connecter's state and address
  engine,   \* per client, the descriptor of the engine that serves it
  fds,      \* the open descriptors
  failed    \* an errno_assert has failed

listenVars == <<lis, name, backlog, con, engine, fds, failed>>

retired_fd == 0
Protocol(a) == a.protocol
Fds == 1..MaxFds

ListenInit ==
  /\ lis = [l \in Listeners |-> [state |-> "new", addr |-> CHOOSE a \in Addresses : TRUE,
                                 s |-> retired_fd, has_file |-> FALSE]]
  /\ name \in [Addresses -> {"nobody", "stale"}]
  /\ \A a \in Addresses : Protocol(a) = "tcp" => name[a] = "nobody"
  /\ backlog = [l \in Listeners |-> <<>>]
  /\ con \in [Clients -> [state : {"start"}, addr : Addresses]]
  /\ engine = [c \in Clients |-> retired_fd]
  /\ fds = {} /\ failed = FALSE

Listens(l) == lis[l].state \in {"bound", "plugged", "terminating"}
Free == Fds \ fds
Smallest(S) == CHOOSE f \in S : \A g \in S : f <= g
-----------------------------------------------------------------------------
(* bind: set_address, then the listener is launched.                       *)

Fails(l, a, names) ==
  /\ lis' = [lis EXCEPT ![l].state = "failed", ![l].addr = a]
  /\ name' = names /\ UNCHANGED fds

Succeeds(l, a, f, names) ==
  /\ lis' = [lis EXCEPT ![l] = [state |-> "bound", addr |-> a, s |-> f,
                                has_file |-> Protocol(a) = "ipc"]]
  /\ name' = names /\ fds' = fds \cup {f}

\* A descriptor that was opened is closed again when bind or listen fails.
set_address_tcp(l, a, ok) ==
  IF Free = {} \/ name[a] # "nobody" \/ ~ ok THEN Fails(l, a, name)
  ELSE Succeeds(l, a, Smallest(Free), [name EXCEPT ![a] = l])

\* "Get rid of the file [...] that may have been left behind by the previous
\* run": whoever's it is.
set_address_ipc(l, a, ok) ==
  LET removed == [name EXCEPT ![a] = "nobody"]
  IN IF Free = {} \/ ~ ok THEN Fails(l, a, removed)
     ELSE Succeeds(l, a, Smallest(Free), [name EXCEPT ![a] = l])

\* An ipc address is bound again while a listener has it, or has not closed it
\* yet after zmq_unbind, in a "rebind".
bind(l, a, ok) ==
  /\ lis[l].state = "new"
  /\ \/ Protocol(a) = "tcp" /\ set_address_tcp(l, a, ok)
     \/ /\ Protocol(a) = "ipc" /\ set_address_ipc(l, a, ok)
        /\ "rebind" \in ListenRaces \/ \A k \in Listeners : Listens(k) => lis[k].addr # a
  /\ UNCHANGED <<backlog, con, engine, failed>>

process_plug(l) ==
  /\ lis[l].state = "bound"
  /\ lis' = [lis EXCEPT ![l].state = "plugged"]
  /\ UNCHANGED <<name, backlog, con, engine, fds, failed>>

\* zmq_unbind sends the command and returns.
unbind(l) ==
  /\ lis[l].state = "plugged"
  /\ lis' = [lis EXCEPT ![l].state = "terminating"]
  /\ UNCHANGED <<name, backlog, con, engine, fds, failed>>

Lost(c) == [c EXCEPT !.state = "start_delayed"]

\* The names close leaves: an ipc file is unlinked by its name, whoever's it is.
close_tcp(l) ==
  IF name[lis[l].addr] = l THEN [name EXCEPT ![lis[l].addr] = "nobody"] ELSE name
close_ipc(l) ==
  IF lis[l].has_file THEN [name EXCEPT ![lis[l].addr] = "nobody"] ELSE name

\* rm_fd and close.  The kernel resets the connections of the backlog.
process_term(l) ==
  /\ lis[l].state = "terminating"
  /\ lis' = [lis EXCEPT ![l].state = "gone", ![l].s = retired_fd]
  /\ fds' = fds \ {lis[l].s}
  /\ name' = IF Protocol(lis[l].addr) = "tcp" THEN close_tcp(l) ELSE close_ipc(l)
  /\ con' = [c \in Clients |-> IF Contains(backlog[l], c) THEN Lost(con[c]) ELSE con[c]]
  /\ backlog' = [backlog EXCEPT ![l] = <<>>]
  /\ UNCHANGED <<engine, failed>>
-----------------------------------------------------------------------------
(* in_event: accept one connection.                                        *)

\* Plausible bug: a refused connection is left open.
refuse_leaks(l, c) ==
  /\ con' = [con EXCEPT ![c] = Lost(@)] /\ backlog' = [backlog EXCEPT ![l] = Tail(@)]
  /\ fds' = fds \cup {Smallest(Free)}
  /\ UNCHANGED <<engine, failed>>

\* No accept filter matches: the connection is closed.
refuse(l, c) ==
  /\ con' = [con EXCEPT ![c] = Lost(@)] /\ backlog' = [backlog EXCEPT ![l] = Tail(@)]
  /\ UNCHANGED <<engine, fds, failed>>

\* An engine and a session are made for the connection.
launch(l, c) ==
  /\ backlog' = [backlog EXCEPT ![l] = Tail(@)]
  /\ engine' = [engine EXCEPT ![c] = Smallest(Free)] /\ fds' = fds \cup {Smallest(Free)}
  /\ UNCHANGED <<con, failed>>

\* EMFILE.  The tcp listener ignores it, and the connection waits.
accept_tcp_fails == UNCHANGED failed

\* The ipc listener's errno_assert does not know it ("no descriptors").
accept_ipc_fails == "no descriptors" \in ListenRaces /\ failed' = TRUE

no_descriptor(l) ==
  /\ IF Protocol(lis[l].addr) = "ipc" THEN accept_ipc_fails ELSE accept_tcp_fails
  /\ UNCHANGED <<backlog, con, engine, fds>>

in_event(l) ==
  /\ lis[l].state \in {"plugged", "terminating"} /\ backlog[l] # <<>>
  /\ LET c == Head(backlog[l])
     IN IF Free = {} THEN no_descriptor(l)
        ELSE IF Protocol(lis[l].addr) = "tcp" /\ c \notin Allowed THEN refuse(l, c)
        ELSE launch(l, c)
  /\ UNCHANGED <<lis, name>>

\* A connection ends: its engine closes the descriptor.
engine_ends(c) ==
  /\ engine[c] # retired_fd
  /\ engine' = [engine EXCEPT ![c] = retired_fd] /\ fds' = fds \ {engine[c]}
  /\ con' = [con EXCEPT ![c] = Lost(@)]
  /\ UNCHANGED <<lis, name, backlog, failed>>
-----------------------------------------------------------------------------
(* The connecter.                                                          *)

Target(c) == name[con[c].addr]
Connects(c) == backlog' = [backlog EXCEPT ![Target(c)] = Append(@, c)]
Goes(c, state) == con' = [con EXCEPT ![c].state = state]

\* Plausible bug: no timer after a failure.
out_event_forgets(c, ok) == Goes(c, IF ok THEN "attached" ELSE "closed")

\* out_event: attach an engine, or close and try again later.
out_event(c, ok) == Goes(c, IF ok THEN "attached" ELSE "timer")

\* start_connecting: the connect succeeds or fails at once, or is interrupted.
start_connecting(c) ==
  \/ Target(c) \in Listeners /\ Connects(c) /\ out_event(c, TRUE)
  \/ Target(c) \in Listeners /\ Goes(c, "polling") /\ UNCHANGED backlog
  \/ Target(c) \notin Listeners /\ out_event(c, FALSE) /\ UNCHANGED backlog

connecter_plug(c) ==
  /\ \/ con[c].state = "start" /\ start_connecting(c)
     \/ con[c].state = "start_delayed" /\ Goes(c, "timer") /\ UNCHANGED backlog
  /\ UNCHANGED <<lis, name, engine, fds, failed>>

connecter_timer_event(c) ==
  /\ con[c].state = "timer" /\ start_connecting(c)
  /\ UNCHANGED <<lis, name, engine, fds, failed>>

\* The interrupted connect has been established or refused.
connecter_out_event(c) ==
  /\ con[c].state = "polling"
  /\ \/ Target(c) \in Listeners /\ Connects(c) /\ out_event(c, TRUE)
     \/ Target(c) \notin Listeners /\ out_event(c, FALSE) /\ UNCHANGED backlog
  /\ UNCHANGED <<lis, name, engine, fds, failed>>
-----------------------------------------------------------------------------
ConnecterStep(c) == connecter_plug(c) \/ connecter_timer_event(c) \/ connecter_out_event(c)

ListenNext ==
  \/ \E l \in Listeners, a \in Addresses, ok \in BOOLEAN : bind(l, a, ok)
  \/ \E l \in Listeners : process_plug(l) \/ unbind(l) \/ process_term(l) \/ in_event(l)
  \/ \E c \in Clients : engine_ends(c) \/ ConnecterStep(c)

\* The I/O threads run and reconnect timers fire; nobody has to unbind.
ListenFairness ==
  /\ \A l \in Listeners : WF_listenVars(process_plug(l) \/ process_term(l)) /\ WF_listenVars(in_event(l))
  /\ \A c \in Clients : WF_listenVars(ConnecterStep(c))
-----------------------------------------------------------------------------
\* accept: "The situation where connection cannot be accepted due to insufficient
\* resources is considered valid and treated by ignoring the connection."
AcceptIgnores == ~ failed

\* Every descriptor that is open belongs to one listener or one engine, and what
\* they hold is open: no path of bind, accept, refusal or close loses one.
Holders(f) == {<<"listener", l>> : l \in {k \in Listeners : lis[k].s = f}}
              \cup {<<"engine", c>> : c \in {d \in Clients : engine[d] = f}}
FdsHeld ==
  /\ AcceptIgnores
  /\ \A f \in Fds : Cardinality(Holders(f)) = IF f \in fds THEN 1 ELSE 0

\* A listener is reached under its address from its bind until it is closed; only
\* another bind takes an ipc address from it ("if a second process binds to an
\* endpoint already bound by a process, this will succeed and the first process
\* will lose its binding"), never the close of a listener that had it before.
Bound(l) == lis[l].state \in {"bound", "plugged"}
KeepsItsName(l) ==
  LET a == lis'[l].addr
  IN /\ lis[l].state = "new" /\ Bound(l)' => name'[a] = l
     /\ Bound(l) /\ Bound(l)' /\ name[a] = l =>
          name'[a] = l \/ \E k \in Listeners : lis[k].state = "new" /\ lis'[k] # lis[k]
BoundIsReachable == [][\A l \in Listeners : KeepsItsName(l)]_listenVars

\* The two, of a step.
ListenerStep == FdsHeld' /\ \A l \in Listeners : KeepsItsName(l)

\* A client is served in the end, if the address it asks for stays bound and
\* there stays a descriptor for it: refusals and lost connections are retried.
Welcome(c) == /\ Free # {} \/ engine[c] # retired_fd
              /\ \E l \in Listeners : lis[l].state = "plugged" /\ Target(c) = l
              /\ Protocol(con[c].addr) = "tcp" => c \in Allowed
ClientsServed == \A c \in Clients : <>[]Welcome(c) => []<>(engine[c] # retired_fd)
=============================================================================
