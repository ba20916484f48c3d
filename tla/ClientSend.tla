----------------------------- MODULE ClientSend -----------------------------
(***************************************************************************)
(* The way of a message through ZmqClientDealer: SendDataAndCommand sends  *)
(* a command part and a data part on the calling thread's front socket,    *)
(* the poll thread receives them on the back socket (BackSocketRecv) and   *)
(* sends them part by part on the client socket, which has a pipe only     *)
(* while the connection is up (ZMQ_IMMEDIATE).  A send that times out      *)
(* returns success with size 0, and every caller has its own idea of what  *)
(* that means.  ZmqClientStream sends one part, and its poll thread an     *)
(* identity before it, for a STREAM socket that tells the two by counting. *)
(*                                                                         *)
(* The module follows one poll thread (what Stop and a restart do is in    *)
(* ZmqClient).  The sockets are modelled by what Lb, Fq and Pipe promise:  *)
(* queues of whole messages, full only between messages.  The client       *)
(* socket's pipe never fills (ZMQ_SNDHWM is 0), and a connection that is   *)
(* lost does not come back on its own (ZMQ_RECONNECT_IVL is -1).           *)
(***************************************************************************)
EXTENDS Integers, Sequences, FiniteSetsExt

CONSTANTS
  Clients,        \* "dealer" or "stream": the clients to choose from
  Threads,        \* the application's sending threads
  Overloads,      \* "string" or "chars": the SendDataAndCommand in use
  CommandSizes,   \* sizes of the commands; 0 is the default argument
  Hwm,            \* messages that a front pipe takes
  IovSize,        \* IOVET_SIZE: parts that BackSocketRecv takes at a time
  MaxCalls,       \* bound: calls of SendDataAndCommand or Send
  ConnectedFirst  \* does the poll thread forward only after the connection?

DataSize == 1

VARIABLES
  client,     \* which client it is
  place,      \* by thread: "idle", "command" or "data": its next SendData
  current,    \* by thread: the call it is in
  partial,    \* by thread: parts written with ZMQ_SNDMORE, not yet flushed
  queue,      \* by thread: messages in its front pipe
  result,     \* by call: "open", "true" or "false"
  calls,      \* calls so far
  connection, \* "down", "up" or "lost"
  vec,        \* BackSocketRecv: parts received and not yet sent
  midMessage, \* threads of whose message the last receive took only a part
  cliPartial, \* client socket: parts written and not flushed
  dropping,   \* client socket: lb_t::dropping
  more_out, current_out,  \* stream_t: the identity has come; its pipe was found
  server,     \* messages that reached the server's pipe
  lost        \* calls with a part that was sent while there was no connection

app  == <<place, current, partial, result, calls>>
poll == <<vec, midMessage, cliPartial, dropping, more_out, current_out, server, lost>>
vars == <<client, app, queue, connection, poll>>

Calls == 1 .. MaxCalls
NoCall == [id |-> 0, overload |-> "string", size |-> 0]

\* What ZMQ_IDENTITY is: the name that was set, until a pipe is attached and
\* stream_t::identify_peer overwrites it.
Identity == <<0, IF connection = "down" THEN "name" ELSE "pipe">>

Init ==
  /\ client \in Clients
  /\ place = [t \in Threads |-> "idle"] /\ current = [t \in Threads |-> NoCall]
  /\ partial = [t \in Threads |-> <<>>] /\ queue = [t \in Threads |-> <<>>]
  /\ result = [n \in Calls |-> "open"] /\ calls = 0
  /\ connection = "down" /\ vec = <<>> /\ midMessage = {}
  /\ cliPartial = <<>> /\ dropping = FALSE /\ server = <<>> /\ lost = {}
  /\ more_out = FALSE /\ current_out = FALSE

-----------------------------------------------------------------------------
(* The sending threads.                                                    *)

Begins(t, overload, size, first) ==
  /\ place[t] = "idle" /\ calls < MaxCalls
  /\ calls' = calls + 1
  /\ current' = [current EXCEPT ![t] = [id |-> calls + 1, overload |-> overload, size |-> size]]
  /\ place' = [place EXCEPT ![t] = first]
  /\ UNCHANGED <<client, partial, queue, result, connection, poll>>

SendDataAndCommand(t, overload, size) ==
  client = "dealer" /\ Begins(t, overload, size, "command")

\* ZmqClientStream::Send; empty data, which closes the connection, is left out.
Send(t, overload) == client = "stream" /\ Begins(t, overload, 0, "data")

\* The front socket takes no part only when its pipe is full between messages.
Full(t) == partial[t] = <<>> /\ Len(queue[t]) = Hwm

\* What the two SendData make of a sendSize, which is 0 after a time-out.
Sent(t, sendSize, size) ==
  IF current[t].overload = "string" THEN sendSize = size ELSE sendSize # size

Return(t, value) == /\ result' = [result EXCEPT ![current[t].id] = value]
                    /\ place' = [place EXCEPT ![t] = "idle"]

sendCommand(t) ==
  /\ place[t] = "command"
  /\ LET size == current[t].size IN
     /\ IF Full(t) THEN UNCHANGED partial
        ELSE partial' = [partial EXCEPT ![t] = Append(@, <<current[t].id, "command">>)]
     /\ IF Sent(t, IF Full(t) THEN 0 ELSE size, size)
        THEN place' = [place EXCEPT ![t] = "data"] /\ UNCHANGED result
        ELSE Return(t, "false")
  /\ UNCHANGED <<client, current, queue, calls, connection, poll>>

sendData(t) ==
  /\ place[t] = "data"
  /\ IF Full(t) THEN UNCHANGED <<partial, queue>>
     ELSE /\ queue' = [queue EXCEPT ![t] =
                         Append(@, Append(partial[t], <<current[t].id, "data">>))]
          /\ partial' = [partial EXCEPT ![t] = <<>>]
  /\ Return(t, IF Sent(t, IF Full(t) THEN 0 ELSE DataSize, DataSize) THEN "true" ELSE "false")
  /\ UNCHANGED <<client, current, calls, connection, poll>>

-----------------------------------------------------------------------------
(* The connection, and the client socket's pipe with it.                   *)

connected ==
  /\ connection = "down" /\ connection' = "up"
  /\ UNCHANGED <<client, app, queue, poll>>

\* Parts that were not flushed go with the pipe, and the rest of their message
\* is dropped; stream_t forgets the pipe, and not that it had the identity.
disconnected ==
  /\ connection = "up" /\ connection' = "lost"
  /\ cliPartial' = <<>> /\ dropping' = (cliPartial # <<>>)
  /\ lost' = lost \cup {cliPartial[i][1] : i \in 1 .. Len(cliPartial)}
  /\ current_out' = FALSE
  /\ UNCHANGED <<client, app, queue, vec, midMessage, more_out, server>>

-----------------------------------------------------------------------------
(* The poll thread.                                                        *)

\* At most max parts of one message, and for a STREAM socket the identity that
\* is sent before them; the rest is received in the next round.
Receives(t, max) ==
  /\ vec = <<>> /\ queue[t] # <<>> /\ midMessage \subseteq {t}
  /\ ConnectedFirst => connection # "down"
  /\ LET m == Head(queue[t])
         n == Min({Len(m), max}) IN
     /\ vec' = (IF client = "stream" THEN <<Identity>> ELSE <<>>) \o SubSeq(m, 1, n)
     /\ IF n = Len(m)
        THEN queue' = [queue EXCEPT ![t] = Tail(@)] /\ midMessage' = {}
        ELSE /\ queue' = [queue EXCEPT ![t] = <<SubSeq(m, n + 1, Len(m))>> \o Tail(@)]
             /\ midMessage' = {t}
  /\ UNCHANGED <<client, app, connection, cliPartial, dropping, more_out, current_out, server, lost>>

\* Plausible bug: the receive stops after one part.
RecviovOne(t) == Receives(t, 1)

\* zmq_recviov.
Recviov(t) == Receives(t, IovSize)

\* One clisock.Send of BackSocketRecv's loop, its result ignored.
forwardPart ==
  /\ client = "dealer" /\ vec # <<>> /\ vec' = Tail(vec)
  /\ LET part == Head(vec)
         last == Len(vec) = 1 IN
     \/ /\ dropping /\ dropping' = ~ last
        /\ lost' = lost \cup {part[1]} /\ UNCHANGED <<cliPartial, server>>
     \/ /\ ~ dropping /\ connection # "up"
        /\ lost' = lost \cup {part[1]} /\ UNCHANGED <<cliPartial, dropping, server>>
     \/ /\ ~ dropping /\ connection = "up" /\ UNCHANGED <<dropping, lost>>
        /\ IF last
           THEN cliPartial' = <<>> /\ server' = Append(server, Append(cliPartial, part))
           ELSE cliPartial' = Append(cliPartial, part) /\ UNCHANGED server
  /\ UNCHANGED <<client, app, queue, connection, midMessage, more_out, current_out>>

\* ZmqClientStream::BackSocketRecv: the identity, with ZMQ_SNDMORE, then the data
\* without it, whatever became of the identity.  stream_t::xsend finds the pipe
\* by the identity (EHOSTUNREACH changes nothing), takes a first part without
\* ZMQ_SNDMORE for a malformed message and whatever comes next for its end.
forwardStream ==
  /\ client = "stream" /\ vec # <<>> /\ vec' = Tail(vec)
  /\ LET part == Head(vec)
         identity == part[1] = 0
         found == connection = "up" /\ part[2] = "pipe" IN
     /\ more_out' = IF more_out THEN FALSE ELSE identity => found
     /\ current_out' = (~ more_out /\ identity /\ found)
     /\ server' = IF more_out /\ current_out THEN Append(server, <<part>>) ELSE server
     /\ lost' = IF connection # "up" /\ ~ identity THEN lost \cup {part[1]} ELSE lost
  /\ UNCHANGED <<client, app, queue, connection, midMessage, cliPartial, dropping>>

-----------------------------------------------------------------------------
Next ==
  \/ \E t \in Threads :
       \/ \E o \in Overloads : Send(t, o) \/ \E s \in CommandSizes : SendDataAndCommand(t, o, s)
       \/ sendCommand(t) \/ sendData(t) \/ Recviov(t)
  \/ connected \/ disconnected \/ forwardPart \/ forwardStream

Spec == Init /\ [][Next]_vars

\* Threads inside a call go on, the connection comes, and the poll thread goes
\* on polling; zmq_poll reports every front socket's messages (fair queueing).
Fairness ==
  /\ \A t \in Threads : WF_vars(sendCommand(t)) /\ WF_vars(sendData(t)) /\ SF_vars(Recviov(t))
  /\ WF_vars(connected) /\ WF_vars(forwardPart) /\ WF_vars(forwardStream)

FairSpec == Spec /\ Fairness

-----------------------------------------------------------------------------
(* Properties.                                                             *)

MessageOf(n) == (IF client = "dealer" THEN <<<<n, "command">>>> ELSE <<>>) \o <<<<n, "data">>>>

\* ReadMe.md:10, "DEALER mode takes care of message boundaries": what the server
\* receives is the command and the data of one call, no more and no less, and
\* no call arrives twice; a STREAM client sends the data alone.
ServerGetsCalls ==
  /\ \A i \in 1 .. Len(server) : server[i] = MessageOf(server[i][1][1])
  /\ \A i, j \in 1 .. Len(server) : i # j => server[i] # server[j]

\* And a call that returned true arrives, unless the connection was lost when it
\* was forwarded.
Arrived ==
  /\ ServerGetsCalls
  /\ \A n \in Calls : result[n] = "true" => n \in lost \/ MessageOf(n) \in Range(server)

CallsArrive == <>[]Arrived
=============================================================================
