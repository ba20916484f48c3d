------------------------------- MODULE Monitor -------------------------------
(***************************************************************************)
(* Socket monitoring: the library's side (socket_base_t::monitor, the        *)
(* event_* functions, monitor_event and stop_monitor) and zmqcpp::Monitor,   *)
(* which the client reads the events with.  They are joined by two PAIR      *)
(* sockets over inproc.  An event is a message of two frames, the event and  *)
(* the address, sent with two blocking calls by whichever thread met it, and *)
(* MonitorRecv takes it apart with two receives, each with a timeout of its  *)
(* own.  Nothing else keeps the two sides in step.                           *)
(*                                                                         *)
(* The client polls the monitor socket while it runs; it then closes the     *)
(* monitored socket and calls MonitorRecv until the MONITOR_STOPPED event    *)
(* has come.  The reaper sends it from the socket's destructor; but a        *)
(* context that is terminated tells each of the three sockets to stop, and   *)
(* the monitored one then ends its monitor in whichever thread it processes  *)
(* the command: the application's, or the reaper's once it was closed.       *)
(***************************************************************************)
EXTENDS Naturals, Sequences, SequencesExt
CONSTANTS
  IoThreads,       \* the threads whose objects report events
  Reported,        \* the events they report
  MonitorHwm,      \* messages the inproc pipe holds
  MaxEvents,
  MonitorRaces     \* what the environment may do, see the guards that name them
VARIABLES
  monitor_socket,  \* "null", "open" (bound to the monitor's address)
  monitor_events,
  pair,            \* the library's PAIR: has a peer; the context's stop, "none", "sent"
                   \* to every socket, or "taken" from the PAIR's mailbox
  pipe, partial,   \* frames the reader can see; frames written and not flushed
  emitting,        \* per thread, the event monitor_event is sending
  monitored,       \* "open", "closing": the monitored socket
  reported,        \* the events reported so far
  client, first, got

monitorVars == <<monitor_socket, monitor_events, pair, pipe, partial, emitting,
                 monitored, reported, client, first, got>>

STOPPED == "MONITOR_STOPPED"
reaper == "reaper"
application == "application"
Stoppers == {reaper, application}
Threads == IoThreads \cup Stoppers
None == [at |-> "idle", event |-> "none", id |-> 0]
Frame(part, e) == [part |-> part, event |-> e.event, id |-> e.id]
NoFrame == [part |-> "none", event |-> "none", id |-> 0]

MonitorInit ==
  /\ monitor_socket = "null" /\ monitor_events = {}
  /\ pair = [peer |-> FALSE, stop |-> "none"]
  /\ pipe = <<>> /\ partial = <<>>
  /\ emitting = [t \in Threads |-> None]
  /\ monitored = "open" /\ reported = <<>>
  /\ client = "new" /\ first = NoFrame /\ got = <<>>
-----------------------------------------------------------------------------
\* zmq_socket_monitor: a PAIR socket is created and bound.
monitor ==
  /\ client = "new"
  /\ monitor_socket' = "open"
  /\ monitor_events' = Reported \cup {STOPPED}
  /\ client' = "connecting"
  /\ UNCHANGED <<pair, pipe, partial, emitting, monitored, reported, first, got>>

\* The rest of SetSocket: the Monitor's own PAIR is connected, or the context was
\* terminated and there is none.
SetSocket ==
  /\ client = "connecting"
  /\ pair' = [pair EXCEPT !.peer = pair.stop = "none"]
  /\ client' = IF pair.stop = "none" THEN "polling" ELSE "closed"
  /\ UNCHANGED <<monitor_socket, monitor_events, pipe, partial, emitting, monitored, reported,
                 first, got>>

Starts(t, event) ==
  /\ emitting' = [emitting EXCEPT ![t] = [at |-> "event", event |-> event, id |-> Len(reported) + 1]]
  /\ reported' = Append(reported, event)

\* Nobody is inside monitor_event, or "two threads" may be there at once: they
\* mix their frames, and what else two threads in one PAIR do to each other the
\* library does not define.
Alone == "two threads" \in MonitorRaces \/ \A u \in Threads : emitting[u] = None

\* A thread reports an event: event_connected and its like.
event_(t, event) ==
  /\ emitting[t] = None /\ Alone
  /\ event \in monitor_events /\ monitor_socket # "null"
  /\ Len(reported) < MaxEvents
  /\ Starts(t, event)
  /\ UNCHANGED <<monitor_socket, monitor_events, pair, pipe, partial, monitored, client, first, got>>

Messages(frames) == Len(SelectSeq(frames, LAMBDA f : f.part = "address"))

\* zmq_sendmsg on the PAIR blocks while there is no peer or no room, and fails
\* once it has taken the stop; its result is not looked at.
Fails == pair.stop # "none" /\ pair' = [pair EXCEPT !.stop = "taken"]
Writes == pair.stop # "taken" /\ pair.peer /\ Messages(pipe) < MonitorHwm /\ UNCHANGED pair

send_event(t) ==
  /\ emitting[t].at = "event"
  /\ \/ Writes /\ partial' = Append(partial, Frame("event", emitting[t]))
     \/ Fails /\ UNCHANGED partial
  /\ emitting' = [emitting EXCEPT ![t].at = "address"]
  /\ UNCHANGED <<monitor_socket, monitor_events, pipe, monitored, reported, client, first, got>>

\* The last frame flushes the message.
send_address(t) ==
  /\ emitting[t].at = "address"
  /\ \/ Writes /\ pipe' = Append(pipe \o partial, Frame("address", emitting[t])) /\ partial' = <<>>
     \/ Fails /\ UNCHANGED <<pipe, partial>>
  /\ emitting' = [emitting EXCEPT ![t] = IF t \in Stoppers THEN [@ EXCEPT !.at = "sent"] ELSE None]
  /\ UNCHANGED <<monitor_socket, monitor_events, monitored, reported, client, first, got>>
-----------------------------------------------------------------------------
\* zmq_ctx_term: every socket, the two PAIRs included, is told to stop.
context_stops ==
  /\ client # "new" /\ pair.stop = "none"
  /\ pair' = [pair EXCEPT !.stop = "sent"]
  /\ UNCHANGED <<monitor_socket, monitor_events, pipe, partial, emitting, monitored, reported,
                 client, first, got>>

\* Who calls stop_monitor: process_stop in a call of the application on the
\* monitored socket, process_stop in the reaper, or the destructor, in the reaper
\* too, once the sessions and connecters are gone.
Stops(t) ==
  \/ /\ t = application /\ monitored = "open" /\ pair.stop # "none"
     /\ client \in {"polling", "closed"} /\ first = NoFrame /\ Alone
  \/ t = reaper /\ monitored = "closing" /\ pair.stop # "none" /\ Alone
  \/ t = reaper /\ monitored = "closing" /\ \A u \in Threads : emitting[u] = None

\* Plausible bug: the monitor stops without MONITOR_STOPPED.
stop_monitor_silent(t) ==
  /\ Stops(t) /\ monitor_socket # "null" /\ emitting[t] = None
  /\ emitting' = [emitting EXCEPT ![t].at = "sent"]
  /\ UNCHANGED <<monitor_socket, monitor_events, pair, pipe, partial, monitored, reported,
                 client, first, got>>

\* stop_monitor, but for a monitor that was stopped: reports that it stops.
stop_monitor(t) ==
  /\ Stops(t) /\ monitor_socket # "null" /\ emitting[t] = None
  /\ IF STOPPED \in monitor_events
     THEN Starts(t, STOPPED)
     ELSE emitting' = [emitting EXCEPT ![t].at = "sent"] /\ UNCHANGED reported
  /\ UNCHANGED <<monitor_socket, monitor_events, pair, pipe, partial, monitored, client, first, got>>

\* ... and the PAIR is closed; with a linger of zero, but what was flushed into
\* the inproc pipe precedes the delimiter and is read.
stopped_monitor(t) ==
  /\ emitting[t].at = "sent"
  /\ emitting' = [emitting EXCEPT ![t] = None]
  /\ monitor_socket' = "null" /\ monitor_events' = {}
  /\ pair' = [pair EXCEPT !.peer = FALSE] /\ partial' = <<>>
  /\ UNCHANGED <<pipe, monitored, reported, client, first, got>>
-----------------------------------------------------------------------------
\* MonitorRecv, the first receive.  While polling it follows a POLLIN; a receive
\* that times out leaves an empty message, whose bytes are anything.  Once the
\* context stops it goes on reading until the client's PAIR has taken its own stop.
recv_event ==
  /\ client \in {"polling", "draining"} /\ first = NoFrame /\ emitting[application] = None
  /\ \/ pipe # <<>> /\ first' = Head(pipe) /\ pipe' = Tail(pipe)
     \/ /\ "timeout" \in MonitorRaces /\ client = "draining" /\ pipe = <<>>
        /\ \E event \in Reported \cup {STOPPED} : first' = [part |-> "event", event |-> event, id |-> 0]
        /\ UNCHANGED pipe
  /\ UNCHANGED <<monitor_socket, monitor_events, pair, partial, emitting, monitored, reported,
                 client, got>>

\* Whose handler runs: a BIND_FAILED is given to the handler of LISTENING.
handler(event) == IF event = "BIND_FAILED" THEN "LISTENING" ELSE event

\* The event is given to its handler.  What is in the first frame is taken for
\* an event, whatever it is: an address has no number of an event but by chance.
Dispatch(address) ==
  /\ got' = Append(got, [handler |-> IF first.part = "event" THEN handler(first.event) ELSE "UNKNOWN",
                         id |-> first.id, address |-> address.id])
  /\ first' = NoFrame

\* Plausible bug: the address frame is left in the pipe.
recv_address_unread ==
  /\ client \in {"polling", "draining"} /\ first # NoFrame
  /\ Dispatch(first) /\ UNCHANGED pipe
  /\ UNCHANGED <<monitor_socket, monitor_events, pair, partial, emitting, monitored, reported, client>>

\* The second receive.
recv_address ==
  /\ client \in {"polling", "draining"} /\ first # NoFrame
  /\ \/ pipe # <<>> /\ Dispatch(Head(pipe)) /\ pipe' = Tail(pipe)
     \/ "timeout" \in MonitorRaces /\ pipe = <<>> /\ Dispatch(NoFrame) /\ UNCHANGED pipe
  /\ UNCHANGED <<monitor_socket, monitor_events, pair, partial, emitting, monitored, reported, client>>

\* The poll loop ends and the monitored socket is closed.
close_socket ==
  /\ client = "polling" /\ first = NoFrame /\ emitting[application] = None
  /\ client' = "draining" /\ monitored' = "closing"
  /\ UNCHANGED <<monitor_socket, monitor_events, pair, pipe, partial, emitting, reported, first, got>>

m_bStopMonitor == \E i \in DOMAIN got : got[i].handler = STOPPED

\* The loop ends at the event, at ETERM or, some time, by its count of a thousand; then
\* the Monitor is destroyed.
Close ==
  /\ client = "draining"
  /\ \/ m_bStopMonitor /\ first = NoFrame
     \/ pair.stop # "none"
     \/ "drain timeout" \in MonitorRaces
  /\ client' = "closed" /\ pair' = [pair EXCEPT !.peer = FALSE]
  /\ pipe' = <<>> /\ first' = NoFrame
  /\ UNCHANGED <<monitor_socket, monitor_events, partial, emitting, monitored, reported, got>>
-----------------------------------------------------------------------------
EmitterStep(t) == send_event(t) \/ send_address(t)
StopperStep(t) == stop_monitor(t) \/ stopped_monitor(t)
ClientStep == monitor \/ SetSocket \/ recv_event \/ recv_address \/ Close

MonitorNext ==
  \/ \E t \in IoThreads, event \in Reported : event_(t, event)
  \/ \E t \in Threads : EmitterStep(t)
  \/ \E t \in Stoppers : StopperStep(t)
  \/ context_stops \/ ClientStep \/ close_socket

\* The threads run; the client goes on calling MonitorRecv, as its loops do, but
\* may never again call the monitored socket.
MonitorFairness ==
  /\ \A t \in Threads : WF_monitorVars(EmitterStep(t))
  /\ WF_monitorVars(StopperStep(reaper)) /\ WF_monitorVars(stopped_monitor(application))
  /\ WF_monitorVars(ClientStep)
-----------------------------------------------------------------------------
\* What the handlers are given are the events that were reported, each once, in
\* their order, each with the address it was reported with ("Messages consist of
\* 2 Frames, the first containing the event-id [...]. The second frame holds the
\* affected endpoint"), and each goes to the handler set for it.  A BIND_FAILED
\* does not; "timeout" and "two threads" break the rest.
EventsTrue ==
  \A i \in DOMAIN got : /\ got[i].id = i /\ got[i].address = i
                        /\ got[i].handler = reported[i]

\* An event goes to the handler that was set for it.  This is what SetOnEventBindFailed
\* promises of a BIND_FAILED, which the switch of MonitorRecv gives to the handler of
\* LISTENING.
OwnHandler == \A i \in DOMAIN got : got[i].handler = reported[i]

\* A thread that reports an event or stops the monitor comes back from it, and the
\* client's drain ends, with and without the context's stop in between: a full
\* pipe or a Monitor that does not read holds up the I/O thread, the application
\* and the reaper, with everything else they serve (events are finitely many).
\* Two threads in one PAIR are left out ("two threads").
NobodyStuck == (\A t \in Threads : emitting[t] = None) /\ client # "draining"
MonitorEnds == <>[]NobodyStuck
=============================================================================
