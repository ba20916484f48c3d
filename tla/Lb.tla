--------------------------------- MODULE Lb ---------------------------------
(***************************************************************************)
(* lb_t (lb.cpp): the load balancer of DEALER, PUSH and REQ sockets.       *)
(* Messages go round-robin to the active pipes, all parts of one message   *)
(* to one pipe; pipes come, fill up, drain and go between the parts.       *)
(*                                                                         *)
(* A pipe is modelled by what write () and flush () promise (Pipe): it may *)
(* be full between messages only, it refuses writes from the moment its    *)
(* termination began, and what was not flushed when it goes is rolled      *)
(* back.  One iteration of sendpipe ()'s loop is one step.                 *)
(***************************************************************************)
EXTENDS PipeArray, FiniteSets

CONSTANTS
  Pipes,
  MaxMessages,        \* bound: messages the application sends
  MaxParts,           \* bound: parts of a message
  ClosingMidMessage,  \* may a pipe begin to terminate in mid-message?
  ThirdGoes           \* may one of three active pipes go while a message to
                      \* another is unfinished?

ASSUME LbAssumption == /\ MaxMessages \in Nat /\ MaxParts \in Nat \ {0}
                       /\ ClosingMidMessage \in BOOLEAN /\ ThirdGoes \in BOOLEAN
                       /\ IsFiniteSet(Pipes)

VARIABLES
  pipes, active, current, more, dropping,
  state,      \* by pipe: "new", "open", "full", "closing" or "gone"
  buffer,     \* by pipe: parts written and not flushed
  flushed,    \* the parts of the last flush
  call,       \* "none", "send" or "has_out": the call under way
  msg, part,  \* the part the application sends: its message and number
  last,       \* is it the last one?
  bypassed,   \* by pipe: messages to others while it could have had one,
              \* counted from when a pipe went last
  asserted    \* an assertion has failed

lb   == <<pipes, active, current, more, dropping>>
app  == <<call, msg, part, last>>
vars == <<lb, state, buffer, flushed, app, bypassed, asserted>>

Init ==
  /\ pipes = <<>> /\ active = 0 /\ current = 0 /\ more = FALSE /\ dropping = FALSE
  /\ state = [p \in Pipes |-> "new"]
  /\ buffer = [p \in Pipes |-> <<>>] /\ flushed = <<>>
  /\ call = "none" /\ msg = 1 /\ part = 1 /\ last = FALSE
  /\ bypassed = [p \in Pipes |-> 0] /\ asserted = FALSE

-----------------------------------------------------------------------------
(* Pipe events, between two calls of the application.                      *)

attach(p) ==
  /\ call = "none" /\ state[p] = "new"
  /\ pipes' = swap(Append(pipes, p), Len(pipes), active)
  /\ active' = active + 1
  /\ state' = [state EXCEPT ![p] = "open"]
  /\ UNCHANGED <<current, more, dropping, buffer, flushed, app, bypassed, asserted>>

\* The peer has read enough (process_activate_write).
activated(p) ==
  /\ call = "none" /\ state[p] = "full"
  /\ pipes' = swap(pipes, index(pipes, p), active)
  /\ active' = active + 1
  /\ state' = [state EXCEPT ![p] = "open"]
  /\ UNCHANGED <<current, more, dropping, buffer, flushed, app, bypassed, asserted>>

\* Either end asked for termination; pipe_terminated follows.
closing(p) ==
  /\ call = "none" /\ state[p] \in {"open", "full"}
  /\ ClosingMidMessage \/ ~ more
  /\ state' = [state EXCEPT ![p] = "closing"]
  /\ UNCHANGED <<lb, buffer, flushed, app, bypassed, asserted>>

\* Is it harmless, or part of the run, that p goes now?
MayGo(p) ==
  \/ ThirdGoes \/ ~ more \/ active <= 2
  \/ index(pipes, p) = current \/ index(pipes, p) >= active

\* Plausible bug: the rest of an unfinished message goes to the next pipe.
pipe_terminated_no_drop(p) ==
  /\ call = "none" /\ state[p] \in {"open", "full", "closing"}
  /\ MayGo(p)
  /\ LET i == index(pipes, p) IN
     /\ UNCHANGED dropping
     /\ IF i < active
        THEN /\ active' = active - 1
             /\ pipes' = erase(swap(pipes, i, active - 1), p)
             /\ current' = IF current = active - 1 THEN 0 ELSE current
        ELSE pipes' = erase(pipes, p) /\ UNCHANGED <<active, current>>
  /\ bypassed' = [q \in Pipes |-> 0]
  /\ state' = [state EXCEPT ![p] = "gone"] /\ buffer' = [buffer EXCEPT ![p] = <<>>]
  /\ UNCHANGED <<more, flushed, app, asserted>>

pipe_terminated(p) ==
  /\ call = "none" /\ state[p] \in {"open", "full", "closing"}
  /\ MayGo(p)
  /\ LET i == index(pipes, p) IN
     /\ dropping' = (dropping \/ (i = current /\ more))
     /\ IF i < active
        THEN /\ active' = active - 1
             /\ pipes' = erase(swap(pipes, i, active - 1), p)
             /\ current' = IF current = active - 1 THEN 0 ELSE current
        ELSE pipes' = erase(pipes, p) /\ UNCHANGED <<active, current>>
  /\ bypassed' = [q \in Pipes |-> 0]
  /\ state' = [state EXCEPT ![p] = "gone"] /\ buffer' = [buffer EXCEPT ![p] = <<>>]
  /\ UNCHANGED <<more, flushed, app, asserted>>

-----------------------------------------------------------------------------
(* sendpipe () and has_out ().                                             *)

\* The application takes the next part to send.
nextPart(isLast) ==
  /\ last' = FALSE
  /\ IF isLast THEN msg' = msg + 1 /\ part' = 1 ELSE msg' = msg /\ part' = part + 1

\* The application sends a part; while dropping it is thrown away.
send(isLast) ==
  /\ call = "none" /\ msg <= MaxMessages
  /\ part = MaxParts => isLast
  /\ IF dropping
     THEN /\ more' = ~ isLast /\ dropping' = ~ isLast
          /\ nextPart(isLast)
          /\ UNCHANGED call
     ELSE /\ call' = "send" /\ last' = isLast
          /\ UNCHANGED <<more, dropping, msg, part>>
  /\ UNCHANGED <<pipes, active, current, state, buffer, flushed, bypassed, asserted>>

\* May write () to pipe p fail, and how does that leave the pipe?
Refuses(p) == state[p] = "closing" \/ (state[p] = "open" /\ buffer[p] = <<>>)
Refused(p) == IF state[p] = "open" THEN "full" ELSE state[p]

\* The loop's failing iteration: the pipe is moved behind the active ones.
deactivate ==
  /\ call \in {"send", "has_out"} /\ active > 0
  /\ LET p == Item(pipes, current) IN
     /\ Refuses(p)
     /\ state' = [state EXCEPT ![p] = Refused(p)]
     /\ active' = active - 1
     /\ IF current < active - 1
        THEN pipes' = swap(pipes, current, active - 1) /\ UNCHANGED current
        ELSE current' = 0 /\ UNCHANGED pipes
     /\ bypassed' = [bypassed EXCEPT ![p] = 0]
  /\ asserted' = (asserted \/ (call = "send" /\ more))
  /\ UNCHANGED <<more, dropping, buffer, flushed, app>>

\* The loop's last iteration: the part is written, a whole message flushed.
written ==
  /\ call = "send" /\ active > 0
  /\ LET p == Item(pipes, current)
         b == Append(buffer[p], <<part, last>>) IN
     /\ state[p] = "open"
     /\ more' = ~ last
     /\ buffer' = [buffer EXCEPT ![p] = IF last THEN <<>> ELSE b]
     /\ flushed' = IF last THEN b ELSE flushed
     /\ current' = IF last THEN (current + 1) % active ELSE current
     /\ bypassed' = IF last
                    THEN [q \in Pipes |-> IF state[q] = "open" /\ q # p
                                          THEN bypassed[q] + 1 ELSE 0]
                    ELSE bypassed
  /\ call' = "none" /\ nextPart(last)
  /\ UNCHANGED <<pipes, active, dropping, state, asserted>>

\* No pipe left: EAGAIN.  The application may try again.
eagain ==
  /\ call \in {"send", "has_out"} /\ active = 0
  /\ call' = "none" /\ last' = FALSE
  /\ UNCHANGED <<lb, state, buffer, flushed, msg, part, bypassed, asserted>>

\* has_out () asks nobody in mid-message, and returns at a pipe with room.
has_out ==
  /\ \/ call = "none" /\ ~ more /\ call' = "has_out"
     \/ call = "has_out" /\ active > 0 /\ state[Item(pipes, current)] = "open"
        /\ call' = "none"
  /\ UNCHANGED <<lb, state, buffer, flushed, msg, part, last, bypassed, asserted>>

-----------------------------------------------------------------------------
Next ==
  \/ \E p \in Pipes : attach(p) \/ activated(p) \/ closing(p) \/ pipe_terminated(p)
  \/ \E isLast \in BOOLEAN : send(isLast)
  \/ deactivate \/ written \/ eagain \/ has_out

Spec == Init /\ [][Next]_vars

-----------------------------------------------------------------------------
(* Properties.                                                             *)

\* zmq_send.txt:39: peers receive all parts of a message or none.  What one
\* flush hands to a pipe is a message from its first part to its last.
WholeMessages == \A i \in 1 .. Len(flushed) : flushed[i] = <<i, i = Len(flushed)>>

\* A pipe with room is among the active ones (nothing would ever activate it
\* again) and a full one is not (it would be activated twice).  And the pipe
\* that took the first part of a message is still the one tried next and takes
\* the others: lb.cpp:100, zmq_assert (!more), never fails.
ActiveExact ==
  /\ ~ asserted
  /\ active \in 0 .. Len(pipes) /\ (active > 0 => current < active)
  /\ \A i \in 0 .. Len(pipes) - 1 :
       /\ state[Item(pipes, i)] = "open" => i < active
       /\ state[Item(pipes, i)] = "full" => i >= active
  /\ \A p \in Pipes : state[p] \in {"open", "full", "closing"} <=>
                        Cardinality({i \in 1 .. Len(pipes) : pipes[i] = p}) = 1

\* Load balancing: while no pipe goes, one that has room all the time is passed
\* over by fewer messages than there are pipes.
NotBypassed == \A p \in Pipes : bypassed[p] < Cardinality(Pipes)

\* All of these.
LbRight == WholeMessages /\ ActiveExact /\ NotBypassed
=============================================================================
