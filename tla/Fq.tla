--------------------------------- MODULE Fq ---------------------------------
(***************************************************************************)
(* fq_t (fq.cpp): the fair queue of DEALER, PULL, REP, ROUTER and SUB      *)
(* sockets.  Messages are taken round-robin from the active pipes, all     *)
(* parts of one message from one pipe; pipes come, run dry, wake up and go *)
(* between the parts.                                                      *)
(*                                                                         *)
(* A pipe is modelled by what read () and the other end promise (Pipe):    *)
(* whole messages arrive, an empty pipe falls asleep until activate_read,  *)
(* and reading stops at the delimiter or when this end is told to          *)
(* terminate.  One iteration of recvpipe ()'s loop is one step.            *)
(***************************************************************************)
EXTENDS PipeArray, FiniteSets

CONSTANTS
  Pipes,
  MaxArrivals,      \* bound: message parts that arrive
  MaxParts,         \* bound: parts of a message
  CloseMidMessage,  \* may the application disconnect an endpoint in mid-message?
  ThirdGoes         \* may one of three active pipes go while a message from
                    \* another is unfinished?

VARIABLES
  pipes, active, current, more,
  state,      \* by pipe: "new", "open", "asleep", "done" or "gone"
  inbox,      \* by pipe: parts to read
  delimited,  \* by pipe: does the delimiter follow them?
  received,   \* the last two parts the application got: pipe, number, last?
  call,       \* "none", "recv" or "has_in": the call under way
  arrived,    \* message parts so far
  bypassed,   \* by pipe: messages from others while it had one,
              \* counted from when a pipe went last
  asserted    \* an assertion has failed

fq   == <<pipes, active, current, more>>
vars == <<fq, state, inbox, delimited, received, call, arrived, bypassed, asserted>>

\* Before the first part: as if a message had just ended.
Nothing == <<"none", 0, TRUE>>

Init ==
  /\ pipes = <<>> /\ active = 0 /\ current = 0 /\ more = FALSE
  /\ state = [p \in Pipes |-> "new"] /\ inbox = [p \in Pipes |-> <<>>]
  /\ delimited = [p \in Pipes |-> FALSE] /\ received = <<Nothing, Nothing>>
  /\ call = "none" /\ arrived = 0
  /\ bypassed = [p \in Pipes |-> 0] /\ asserted = FALSE

-----------------------------------------------------------------------------
(* The other end of the pipes.                                             *)

\* A message of n parts is flushed.
arrive(p, n) ==
  /\ arrived + n <= MaxArrivals /\ state[p] \in {"open", "asleep"} /\ ~ delimited[p]
  /\ arrived' = arrived + n
  /\ inbox' = [inbox EXCEPT ![p] = @ \o [i \in 1 .. n |-> <<i, i = n>>]]
  /\ UNCHANGED <<fq, state, delimited, received, call, bypassed, asserted>>

\* It terminates and writes the delimiter.
delimit(p) ==
  /\ state[p] \in {"open", "asleep"} /\ ~ delimited[p]
  /\ delimited' = [delimited EXCEPT ![p] = TRUE]
  /\ UNCHANGED <<fq, state, inbox, received, call, arrived, bypassed, asserted>>

-----------------------------------------------------------------------------
(* Pipe events, between two calls of the application.                      *)

attach(p) ==
  /\ call = "none" /\ state[p] = "new"
  /\ pipes' = swap(Append(pipes, p), active, Len(pipes))
  /\ active' = active + 1
  /\ state' = [state EXCEPT ![p] = "open"]
  /\ UNCHANGED <<current, more, inbox, delimited, received, call, arrived, bypassed, asserted>>

\* The activate_read command of a flush into a sleeping pipe.
activated(p) ==
  /\ call = "none" /\ state[p] = "asleep" /\ (inbox[p] # <<>> \/ delimited[p])
  /\ pipes' = swap(pipes, index(pipes, p), active)
  /\ active' = active + 1
  /\ state' = [state EXCEPT ![p] = "open"]
  /\ UNCHANGED <<current, more, inbox, delimited, received, call, arrived, bypassed, asserted>>

\* term_endpoint () terminates the pipe without delay: what it holds is not
\* read any more.
term_endpoint(p) ==
  /\ call = "none" /\ state[p] \in {"open", "asleep"}
  /\ CloseMidMessage \/ ~ more
  /\ state' = [state EXCEPT ![p] = "done"]
  /\ UNCHANGED <<fq, inbox, delimited, received, call, arrived, bypassed, asserted>>

\* Is it harmless, or part of the run, that p goes now?
MayGo(p) ==
  \/ ThirdGoes \/ ~ more \/ active <= 2
  \/ index(pipes, p) = current \/ index(pipes, p) >= active

\* The termination is acknowledged.
pipe_terminated(p) ==
  /\ call = "none" /\ state[p] = "done" /\ MayGo(p)
  /\ LET i == index(pipes, p) IN
     IF i < active
     THEN /\ active' = active - 1
          /\ pipes' = erase(swap(pipes, i, active - 1), p)
          /\ current' = IF current = active - 1 THEN 0 ELSE current
     ELSE pipes' = erase(pipes, p) /\ UNCHANGED <<active, current>>
  /\ bypassed' = [q \in Pipes |-> 0]
  /\ state' = [state EXCEPT ![p] = "gone"] /\ inbox' = [inbox EXCEPT ![p] = <<>>]
  /\ UNCHANGED <<more, delimited, received, call, arrived, asserted>>

-----------------------------------------------------------------------------
(* recvpipe () and has_in ().                                              *)

recv ==
  /\ call = "none" /\ call' = "recv"
  /\ UNCHANGED <<fq, state, inbox, delimited, received, arrived, bypassed, asserted>>

Readable(p) == state[p] = "open" /\ inbox[p] # <<>>

\* An iteration that fetches nothing: the pipe is moved behind the active ones,
\* asleep or, at the delimiter, done.
deactivate ==
  /\ call \in {"recv", "has_in"} /\ active > 0
  /\ LET p == Item(pipes, current) IN
     /\ ~ Readable(p)
     /\ state' = [state EXCEPT ![p] = IF @ = "open" /\ ~ delimited[p] THEN "asleep" ELSE "done"]
     /\ active' = active - 1
     /\ pipes' = swap(pipes, current, active - 1)
     /\ current' = IF current = active - 1 THEN 0 ELSE current
  /\ asserted' = (asserted \/ (call = "recv" /\ more))
  /\ UNCHANGED <<more, inbox, delimited, received, call, arrived, bypassed>>

\* Plausible bug: the pointer is advanced after every part.
fetched_advance ==
  /\ call = "recv" /\ active > 0
  /\ LET p == Item(pipes, current)
         x == Head(inbox[p]) IN
     /\ Readable(p)
     /\ inbox' = [inbox EXCEPT ![p] = Tail(@)]
     /\ received' = <<received[2], <<p, x[1], x[2]>>>>
     /\ more' = ~ x[2]
     /\ current' = (current + 1) % active
  /\ call' = "none"
  /\ UNCHANGED <<pipes, active, state, delimited, arrived, bypassed, asserted>>

\* The iteration that fetches a part.
fetched ==
  /\ call = "recv" /\ active > 0
  /\ LET p == Item(pipes, current)
         x == Head(inbox[p]) IN
     /\ Readable(p)
     /\ inbox' = [inbox EXCEPT ![p] = Tail(@)]
     /\ received' = <<received[2], <<p, x[1], x[2]>>>>
     /\ more' = ~ x[2]
     /\ current' = IF x[2] THEN (current + 1) % active ELSE current
     /\ bypassed' = IF x[2] THEN [q \in Pipes |-> IF Readable(q) /\ q # p
                                                  THEN bypassed[q] + 1 ELSE 0]
                    ELSE bypassed
  /\ call' = "none"
  /\ UNCHANGED <<pipes, active, state, delimited, arrived, asserted>>

\* No pipe left: EAGAIN.
eagain ==
  /\ call \in {"recv", "has_in"} /\ active = 0
  /\ call' = "none"
  /\ UNCHANGED <<fq, state, inbox, delimited, received, arrived, bypassed, asserted>>

\* has_in () asks nobody in mid-message, and returns at a pipe with a message.
has_in ==
  /\ \/ call = "none" /\ ~ more /\ call' = "has_in"
     \/ call = "has_in" /\ active > 0 /\ Readable(Item(pipes, current)) /\ call' = "none"
  /\ UNCHANGED <<fq, state, inbox, delimited, received, arrived, bypassed, asserted>>

-----------------------------------------------------------------------------
Next ==
  \/ \E p \in Pipes : \/ \E n \in 1 .. MaxParts : arrive(p, n)
                      \/ delimit(p) \/ attach(p) \/ activated(p) \/ term_endpoint(p)
                      \/ pipe_terminated(p)
  \/ recv \/ deactivate \/ fetched \/ eagain \/ has_in

Spec == Init /\ [][Next]_vars

-----------------------------------------------------------------------------
(* Properties.                                                             *)

\* zmq_msg_recv.txt: an application receives all parts of a message or none.
\* After a part that is not the last one it gets the next one of the same
\* message, and after a last part the first part of another.
WholeReceived ==
  LET x == received[1]
      y == received[2]
  IN IF x[3] THEN y[2] <= 1 ELSE y[1] = x[1] /\ y[2] = x[2] + 1

\* A pipe that is awake is among the active ones, and one that sleeps is not:
\* otherwise its messages are never read, or it is activated twice.  And the
\* pipe in mid-message is still the one tried next: fq.cpp:99, zmq_assert
\* (!more), never fails, "we should get the remaining parts without blocking".
AwakeExact ==
  /\ ~ asserted
  /\ active \in 0 .. Len(pipes) /\ (active > 0 => current < active)
  /\ \A i \in 0 .. Len(pipes) - 1 :
       /\ state[Item(pipes, i)] = "open" => i < active
       /\ state[Item(pipes, i)] = "asleep" => i >= active
  /\ \A p \in Pipes : state[p] \in {"open", "asleep", "done"} <=>
                        Cardinality({i \in 1 .. Len(pipes) : pipes[i] = p}) = 1

\* Fair queueing: while no pipe goes, one with a message is passed over by fewer
\* messages than there are pipes.
NotStarved == \A p \in Pipes : bypassed[p] < Cardinality(Pipes)
=============================================================================
