-------------------------------- MODULE Proxy --------------------------------
(***************************************************************************)
(* zmq::proxy, behind zmq_proxy, zmq_proxy_steerable and zmq_device: it       *)
(* moves messages between a frontend and a backend, shows every frame to a    *)
(* capture socket and obeys PAUSE, RESUME and TERMINATE from a control        *)
(* socket.  It polls for input without a time limit, then for output without  *)
(* waiting, and acts on the two answers; its sends and receives block.        *)
(* Frontend and backend may be one socket: then it sends back what it         *)
(* receives, and looks at no output.  Any call that fails, as each does once  *)
(* the context is terminated, makes it return where it stands.                *)
(*                                                                          *)
(* A message is a number; odd ones have two frames, even ones have one.  What *)
(* SocketCall checks is taken from it: a reported POLLIN means a recv that    *)
(* does not wait, a reported POLLOUT a message that can be sent.              *)
(***************************************************************************)
EXTENDS Naturals, Sequences, SequencesExt
CONSTANTS
  ProxyHwm,        \* messages a peer lets wait on it
  ProxyMessages,   \* messages that arrive on each side
  Commands,        \* the sequences of commands the control socket may be sent
  Captures         \* "none", "pub" (never blocks), "push" (blocks)
VARIABLES
  arrived,     \* per side, how many messages have arrived
  taken,       \* per side, how many the proxy has begun to move
  out,         \* per side, the frames sent to it
  unread,      \* per socket that is sent to, messages its peer has not read
  captured,
  orders,      \* commands still to be given
  control,     \* commands given and not yet received
  state, at, revents, frame, capture,
  same         \* frontend_ == backend_

Sides == {"front", "back"}
Other(x) == IF x = "front" THEN "back" ELSE "front"
To(x) == IF same THEN x ELSE Other(x)
Frames(m) == IF m % 2 = 1 THEN 2 ELSE 1
FrameOf(x, m, f) == [from |-> x, msg |-> m, part |-> f]
None == [in |-> {}, out |-> {}, control |-> FALSE]

proxyVars == <<arrived, taken, out, unread, captured, orders, control, state, at, revents, frame,
               capture, same>>
env == <<arrived, orders, control, capture, same>>

ProxyInit ==
  /\ arrived = [x \in Sides |-> 0] /\ taken = [x \in Sides |-> 0]
  /\ out = [x \in Sides |-> <<>>]
  /\ unread = [x \in Sides \cup {"capture"} |-> 0]
  /\ captured = <<>> /\ orders \in Commands /\ control = <<>> /\ capture \in Captures
  /\ state = "active" /\ at = "poll" /\ revents = None /\ frame = 0
  /\ same \in BOOLEAN
-----------------------------------------------------------------------------
arrives(x) ==
  /\ arrived[x] < ProxyMessages /\ ~ (same /\ x = "back")
  /\ arrived' = [arrived EXCEPT ![x] = @ + 1]
  /\ UNCHANGED <<taken, out, unread, captured, orders, control, state, at, revents, frame, capture,
                 same>>

\* The control socket is sent a command.
order ==
  /\ orders # <<>>
  /\ control' = Append(control, Head(orders)) /\ orders' = Tail(orders)
  /\ UNCHANGED <<arrived, taken, out, unread, captured, state, at, revents, frame, capture, same>>

\* A peer reads; it need not ever.
reads(x) ==
  /\ unread[x] > 0 /\ at # "returned"
  /\ unread' = [unread EXCEPT ![x] = @ - 1]
  /\ UNCHANGED <<arrived, taken, out, captured, orders, control, state, at, revents, frame, capture,
                 same>>
-----------------------------------------------------------------------------
Input == [in |-> {x \in Sides : taken[x] < arrived[x]},
          out |-> {x \in Sides : ~ same /\ unread[x] < ProxyHwm},
          control |-> control # <<>>]

\* Both polls.  The first waits for input, and for input only; there is a second
\* only if the sockets differ.
poll ==
  /\ at = "poll" /\ state # "terminated"
  /\ Input.in # {} \/ Input.control
  /\ revents' = Input /\ at' = "control"
  /\ UNCHANGED <<taken, out, unread, captured, state, frame>> /\ UNCHANGED env

\* A blocking send to the capture socket.
CaptureReady == capture = "push" => unread["capture"] < ProxyHwm
Captures_(f) ==
  IF capture = "none" THEN UNCHANGED captured ELSE captured' = Append(captured, f)
Counted(u, last) == IF capture = "push" /\ last THEN [u EXCEPT !["capture"] = @ + 1] ELSE u

command ==
  /\ at = "control" /\ revents.control /\ Head(control) # "PARTS"
  /\ CaptureReady
  /\ state' = CASE Head(control) = "PAUSE" -> "paused"
                [] Head(control) = "RESUME" -> "active"
                [] Head(control) = "TERMINATE" -> "terminated"
  /\ control' = Tail(control)
  /\ Captures_([from |-> "control", msg |-> 0, part |-> 1]) /\ unread' = Counted(unread, TRUE)
  /\ at' = "front"
  /\ UNCHANGED <<arrived, taken, out, orders, revents, frame, capture, same>>

\* A command of several parts ends the proxy with an error.
bad_command ==
  /\ at = "control" /\ revents.control /\ Head(control) = "PARTS"
  /\ control' = Tail(control) /\ at' = "returned"
  /\ UNCHANGED <<arrived, taken, out, unread, captured, orders, state, revents, frame, capture, same>>

no_command ==
  /\ at = "control" /\ ~ revents.control
  /\ at' = "front"
  /\ UNCHANGED <<taken, out, unread, captured, state, revents, frame>> /\ UNCHANGED env

\* Plausible bug: the room on the other side is not looked at.
moves_blindly(x) == state = "active" /\ x \in revents.in

\* A message is moved when its side has one and the other side has room; one
\* socket's without looking for room.
moves(x) ==
  /\ state = "active" /\ x \in revents.in
  /\ IF same THEN x = "front" ELSE Other(x) \in revents.out

Then(x) == IF x = "front" THEN "back" ELSE "poll"

skip(x) ==
  /\ at = x /\ frame = 0 /\ ~ moves(x)
  /\ at' = Then(x)
  /\ UNCHANGED <<taken, out, unread, captured, state, revents, frame>> /\ UNCHANGED env

\* The frame that is received next, and what else is changed by receiving it.
Coming(x) == IF frame = 0 THEN taken[x] + 1 ELSE taken[x]
NextFrame(x) == FrameOf(x, Coming(x), frame + 1)
Receives(x) == at = x /\ (frame > 0 \/ moves(x)) /\ taken' = [taken EXCEPT ![x] = Coming(x)]

\* One frame: received, its copy sent to the capture socket, and sent on.  The
\* high watermark counts messages, and stops the first frame only.
move_frame(x) ==
  /\ Receives(x)
  /\ frame = 0 => CaptureReady /\ unread[To(x)] < ProxyHwm
  /\ Captures_(NextFrame(x))
  /\ out' = [out EXCEPT ![To(x)] = Append(@, NextFrame(x))]
  /\ LET last == frame + 1 = Frames(Coming(x))
     IN /\ unread' = Counted(IF last THEN [unread EXCEPT ![To(x)] = @ + 1] ELSE unread, last)
        /\ frame' = IF last THEN 0 ELSE frame + 1
        /\ at' = IF last THEN Then(x) ELSE x
  /\ UNCHANGED <<state, revents>> /\ UNCHANGED env

\* A poll, a receive or a send fails, with ETERM when the context is terminated;
\* the frame it was about is lost, with its copy in the capture socket or without.
fails ==
  /\ at # "returned" /\ ~ (at = "poll" /\ state = "terminated")
  /\ at' = "returned"
  /\ \/ UNCHANGED <<taken, captured>>
     \/ \E x \in Sides : Receives(x) /\ (UNCHANGED captured \/ Captures_(NextFrame(x)))
  /\ UNCHANGED <<out, unread, state, revents, frame>> /\ UNCHANGED env

proxy == poll \/ command \/ bad_command \/ no_command
         \/ \E x \in Sides : skip(x) \/ move_frame(x)

ProxyNext ==
  \/ proxy \/ fails \/ order
  \/ \E x \in Sides : arrives(x)
  \/ \E x \in Sides \cup {"capture"} : reads(x)

\* The proxy's thread runs; no call has to fail.  Its peers owe it nothing, but
\* whoever reads a capture socket that blocks goes on reading.
ProxyFairness == WF_proxyVars(proxy) /\ WF_proxyVars(reads("capture"))
-----------------------------------------------------------------------------
\* A command is obeyed though a side is full and its peer never reads again:
\* that is what the output is polled for.  One socket's is not polled, and a send
\* to a peer that does not read may hold the commands up for ever.
HeldUp == same /\ at = "front" /\ frame = 0 /\ moves("front") /\ unread["front"] >= ProxyHwm
Obeyed == orders = <<>> => control = <<>> \/ state = "terminated" \/ at = "returned" \/ HeldUp

\* What came in on a side has gone out on the other, in order and frame by frame,
\* up to the frame the proxy is at or failed at; the capture socket was shown the
\* same frames, each before it was sent.
Came(x) == FlattenSeq([m \in 1 .. taken[x] |-> [f \in 1 .. Frames(m) |-> FrameOf(x, m, f)]])
From(x, frames) == SelectSeq(frames, LAMBDA f : f.from = x)
Passed(x) ==
  LET gone == From(x, out[To(x)])
      shown == From(x, captured)
  IN /\ IsPrefix(gone, Came(x))
     /\ at = x /\ frame > 0 => Len(Came(x)) - Len(gone) = Frames(taken[x]) - frame
     /\ at # x /\ at # "returned" => gone = Came(x)
     /\ capture # "none" => IsPrefix(gone, shown) /\ IsPrefix(shown, Came(x))
     /\ capture # "none" /\ at # "returned" => shown = gone

PassedWhole == \A x \in Sides : Passed(x)
=============================================================================
