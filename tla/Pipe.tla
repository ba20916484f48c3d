-------------------------------- MODULE Pipe --------------------------------
(***************************************************************************)
(* pipe_t (pipe.cpp): a bidirectional message pipe whose two ends live in  *)
(* different threads, a session's in an I/O thread and a socket's in the   *)
(* application's (an inproc pipe has a socket at both ends and no hiccup). *)
(* The ends share two upipes, one per direction, each used as YpipeAbs     *)
(* specifies, and send each other commands through their threads'          *)
(* mailboxes (Mailbox), which deliver in order.                            *)
(***************************************************************************)
EXTENDS Integers, Sequences, SequencesExt

CONSTANTS
  Hwm,          \* by end: high watermark of what it writes, 0 for none
  MaxWmDelta,   \* config.hpp max_wm_delta
  MaxMsgs,      \* bound, by end: messages it writes
  MaxTerms,     \* bound, by end: calls of terminate ()
  MaxHiccups    \* bound: calls of hiccup () by the session

Ends    == {"session", "socket"}
Peer(e) == IF e = "session" THEN "socket" ELSE "session"

compute_lwm(hwm) ==
  IF hwm > MaxWmDelta * 2 THEN hwm - MaxWmDelta ELSE (hwm + 1) \div 2

\* The low watermark of what e reads: half, or just below, its peer's Hwm.
Lwm(e) == compute_lwm(Hwm[Peer(e)])

ASSUME PipeAssumption ==
  /\ Hwm \in [Ends -> Nat] /\ MaxMsgs \in [Ends -> Nat] /\ MaxTerms \in [Ends -> Nat]
  /\ MaxWmDelta \in Nat \ {0} /\ MaxHiccups \in Nat

Upipes == 1 .. 2 + MaxHiccups
NULL   == 0

VARIABLES
  state,            \* by end; "deleted" once the object is deallocated
  in_active, out_active, delay,
  inpipe, outpipe,  \* by end: the upipe it reads, the upipe it writes
  msgs_read, msgs_written, peers_msgs_read,
  upipe,            \* by upipe: flushed items, held back ones, sleeping reader
  cmds,             \* by end: the commands on their way to it
  terms             \* by end: calls of terminate () so far

flow == <<msgs_read, msgs_written, peers_msgs_read>>
vars == <<state, in_active, out_active, delay, inpipe, outpipe, flow, upipe, cmds, terms>>

Fresh == [done |-> <<>>, held |-> <<>>, asleep |-> FALSE, life |-> "live"]
Unborn == [Fresh EXCEPT !.life = "unborn"]
Deleted == [Fresh EXCEPT !.life = "deleted"]

Init ==
  /\ state = [e \in Ends |-> "active"]
  /\ in_active = [e \in Ends |-> TRUE] /\ out_active = [e \in Ends |-> TRUE]
  /\ delay \in [Ends -> BOOLEAN]                   \* set_nodelay ()
  /\ inpipe = [e \in Ends |-> IF e = "session" THEN 1 ELSE 2]
  /\ outpipe = [e \in Ends |-> IF e = "session" THEN 2 ELSE 1]
  /\ msgs_read = [e \in Ends |-> 0] /\ msgs_written = [e \in Ends |-> 0]
  /\ peers_msgs_read = [e \in Ends |-> 0]
  /\ upipe = [u \in Upipes |-> IF u <= 2 THEN Fresh ELSE Unborn]
  /\ cmds = [e \in Ends |-> <<>>]
  /\ terms = [e \in Ends |-> 0]

-----------------------------------------------------------------------------
(* upipes: ypipe_t as YpipeAbs specifies it.  An item is "more" (a part    *)
(* that others follow), "last" (the last part of a message) or "delim".    *)

\* Items up to the end of the last complete message.
CompleteLen(s) == IF \E i \in 1 .. Len(s) : s[i] # "more"
                  THEN CHOOSE i \in 1 .. Len(s) :
                         s[i] # "more" /\ \A j \in i + 1 .. Len(s) : s[j] = "more"
                  ELSE 0

Flushed(p) ==
  LET n == CompleteLen(p.held)
  IN IF n = 0 THEN p
     ELSE [p EXCEPT !.done = @ \o SubSeq(p.held, 1, n),
                    !.held = SubSeq(@, n + 1, Len(@)),
                    !.asleep = FALSE]

\* What the flush () of a pipe end sends when it finds the reader asleep.
Wake(p) == IF CompleteLen(p.held) > 0 /\ p.asleep THEN <<[type |-> "activate_read"]>> ELSE <<>>

RolledBack(p) == [p EXCEPT !.held = SubSeq(@, 1, CompleteLen(@))]

WithDelimiter(p) == [RolledBack(p) EXCEPT !.held = Append(@, "delim")]

\* How many items of s are of those kinds.
Count(s, kinds) == Cardinality({i \in 1 .. Len(s) : s[i] \in kinds})

\* Complete messages somewhere in the upipe.
Messages(p) == Count(p.done \o p.held, {"last"})

Term    == [type |-> "pipe_term"]
TermAck == [type |-> "pipe_term_ack"]

Send(e, s) == [cmds EXCEPT ![e] = @ \o s]

-----------------------------------------------------------------------------
(* Operations of the end's owner.                                          *)

Readable(e) == in_active[e] /\ state[e] \in {"active", "waiting_for_delimiter"}

In(e)  == upipe[inpipe[e]]
Out(e) == upipe[outpipe[e]]

\* check_read () or read () finds nothing: the end goes to sleep.
readEmpty(e) ==
  /\ Readable(e) /\ In(e).done = <<>>
  /\ in_active' = [in_active EXCEPT ![e] = FALSE]
  /\ upipe' = [upipe EXCEPT ![inpipe[e]].asleep = TRUE]
  /\ UNCHANGED <<state, out_active, delay, inpipe, outpipe, flow, cmds, terms>>

\* read () of a message part.
read(e) ==
  /\ Readable(e) /\ In(e).done # <<>> /\ Head(In(e).done) # "delim"
  /\ upipe' = [upipe EXCEPT ![inpipe[e]].done = Tail(@)]
  /\ LET n == msgs_read[e] + (IF Head(In(e).done) = "last" THEN 1 ELSE 0)
     IN /\ msgs_read' = [msgs_read EXCEPT ![e] = n]
        /\ cmds' = IF Lwm(e) > 0 /\ n % Lwm(e) = 0
                   THEN Send(Peer(e), <<[type |-> "activate_write", n |-> n]>>)
                   ELSE cmds
  /\ UNCHANGED <<state, in_active, out_active, delay, inpipe, outpipe,
                 msgs_written, peers_msgs_read, terms>>

\* check_read () or read () meets the delimiter: process_delimiter ().
readDelimiter(e) ==
  /\ Readable(e) /\ In(e).done # <<>> /\ Head(In(e).done) = "delim"
  /\ upipe' = [upipe EXCEPT ![inpipe[e]].done = Tail(@)]
  /\ IF state[e] = "active"
     THEN /\ state' = [state EXCEPT ![e] = "delimiter_received"]
          /\ UNCHANGED <<outpipe, cmds>>
     ELSE /\ state' = [state EXCEPT ![e] = "term_ack_sent"]
          /\ outpipe' = [outpipe EXCEPT ![e] = NULL]
          /\ cmds' = Send(Peer(e), <<TermAck>>)
  /\ UNCHANGED <<in_active, out_active, delay, inpipe, flow, terms>>

Full(e) == Hwm[e] > 0 /\ msgs_written[e] - peers_msgs_read[e] = Hwm[e]

\* check_write () of a full pipe: the end stops writing until activate_write.
checkWriteFull(e) ==
  /\ out_active[e] /\ state[e] = "active" /\ Full(e)
  /\ out_active' = [out_active EXCEPT ![e] = FALSE]
  /\ UNCHANGED <<state, in_active, delay, inpipe, outpipe, flow, upipe, cmds, terms>>

\* write () of a part; messages have at most two parts here.
write(e, part) ==
  /\ out_active[e] /\ state[e] = "active" /\ ~ Full(e)
  /\ msgs_written[e] < MaxMsgs[e]
  /\ part = "more" => CompleteLen(Out(e).held) = Len(Out(e).held)
  /\ upipe' = [upipe EXCEPT ![outpipe[e]].held = Append(@, part)]
  /\ msgs_written' = [msgs_written EXCEPT ![e] = IF part = "last" THEN @ + 1 ELSE @]
  /\ UNCHANGED <<state, in_active, out_active, delay, inpipe, outpipe, msgs_read,
                 peers_msgs_read, cmds, terms>>

\* rollback () of an unfinished message.
rollback(e) ==
  /\ state[e] # "deleted" /\ outpipe[e] # NULL
  /\ RolledBack(Out(e)) # Out(e)
  /\ upipe' = [upipe EXCEPT ![outpipe[e]] = RolledBack(@)]
  /\ UNCHANGED <<state, in_active, out_active, delay, inpipe, outpipe, flow, cmds, terms>>

flush(e) ==
  /\ state[e] \notin {"deleted", "term_ack_sent"} /\ outpipe[e] # NULL
  /\ Flushed(Out(e)) # Out(e)
  /\ upipe' = [upipe EXCEPT ![outpipe[e]] = Flushed(@)]
  /\ cmds' = Send(Peer(e), Wake(Out(e)))
  /\ UNCHANGED <<state, in_active, out_active, delay, inpipe, outpipe, flow, terms>>

\* The part of terminate () that changes more than delay: what end e sends
\* with outpipe[e] = u holding p, and the new value of that upipe.
TerminateSends(e, p) ==
  (IF state[e] \in {"active", "delimiter_received"} THEN <<Term>> ELSE <<>>)
  \o Wake(WithDelimiter(p))

terminate(e, d) ==
  /\ state[e] # "deleted" /\ terms[e] < MaxTerms[e]
  /\ terms' = [terms EXCEPT ![e] = @ + 1]
  /\ delay' = [delay EXCEPT ![e] = d]
  /\ \/ /\ state[e] \in {"term_req_sent1", "term_req_sent2", "term_ack_sent"}
        /\ UNCHANGED <<state, out_active, outpipe, upipe, cmds>>
     \/ /\ state[e] = "waiting_for_delimiter" /\ ~ d
        /\ state' = [state EXCEPT ![e] = "term_ack_sent"]
        /\ outpipe' = [outpipe EXCEPT ![e] = NULL]
        /\ out_active' = [out_active EXCEPT ![e] = FALSE]
        /\ cmds' = Send(Peer(e), <<TermAck>>)
        /\ UNCHANGED upipe
     \/ /\ state[e] \in {"active", "delimiter_received", "waiting_for_delimiter"}
        /\ state[e] = "waiting_for_delimiter" => d
        /\ state' = [state EXCEPT ![e] =
                       IF @ = "waiting_for_delimiter" THEN @ ELSE "term_req_sent1"]
        /\ out_active' = [out_active EXCEPT ![e] = FALSE]
        /\ upipe' = [upipe EXCEPT ![outpipe[e]] = Flushed(WithDelimiter(@))]
        /\ cmds' = Send(Peer(e), TerminateSends(e, Out(e)))
        /\ UNCHANGED outpipe
  /\ UNCHANGED <<in_active, inpipe, flow>>

\* hiccup (), by a session whose connection broke.  Its owner has flushed and
\* has completed any half-read message before (clean_pipes).
hiccup ==
  LET e == "session" IN
  /\ state[e] = "active"
  /\ \E u \in Upipes :
       /\ upipe[u] = Unborn /\ \A v \in 1 .. u - 1 : upipe[v] # Unborn
       /\ inpipe' = [inpipe EXCEPT ![e] = u]
       /\ upipe' = [upipe EXCEPT ![u] = Fresh]
       /\ cmds' = Send(Peer(e), <<[type |-> "hiccup", pipe |-> u]>>)
  /\ in_active' = [in_active EXCEPT ![e] = TRUE]
  /\ UNCHANGED <<state, out_active, delay, outpipe, flow, terms>>

-----------------------------------------------------------------------------
(* Commands.                                                               *)

\* e takes the command at the head of its mailbox.
Receives(e, type) == state[e] # "deleted" /\ cmds[e] # <<>> /\ Head(cmds[e]).type = type

Taken(e) == [cmds EXCEPT ![e] = Tail(@)]

\* Plausible bug: the end is re-activated only while it is active, not while
\* it waits for the delimiter.
process_activate_read_active(e) ==
  /\ Receives(e, "activate_read")
  /\ cmds' = Taken(e)
  /\ in_active' = [in_active EXCEPT ![e] = @ \/ state[e] = "active"]
  /\ UNCHANGED <<state, out_active, delay, inpipe, outpipe, flow, upipe, terms>>

process_activate_read(e) ==
  /\ Receives(e, "activate_read")
  /\ cmds' = Taken(e)
  /\ in_active' = [in_active EXCEPT
                     ![e] = @ \/ state[e] \in {"active", "waiting_for_delimiter"}]
  /\ UNCHANGED <<state, out_active, delay, inpipe, outpipe, flow, upipe, terms>>

process_activate_write(e) ==
  /\ Receives(e, "activate_write")
  /\ cmds' = Taken(e)
  /\ peers_msgs_read' = [peers_msgs_read EXCEPT ![e] = Head(cmds[e]).n]
  /\ out_active' = [out_active EXCEPT ![e] = @ \/ state[e] = "active"]
  /\ UNCHANGED <<state, in_active, delay, inpipe, outpipe, msgs_read, msgs_written,
                 upipe, terms>>

\* Plausible bug: the unread messages are not taken off msgs_written.
process_hiccup_uncounted(e) ==
  /\ Receives(e, "hiccup")
  /\ LET old == outpipe[e]
         new == Head(cmds[e]).pipe
     IN /\ upipe' = [upipe EXCEPT ![old] = Deleted]
        /\ outpipe' = [outpipe EXCEPT ![e] = new]
  /\ out_active' = [out_active EXCEPT ![e] = TRUE]
  /\ cmds' = Taken(e)
  /\ UNCHANGED <<state, in_active, delay, inpipe, msgs_written, msgs_read, peers_msgs_read,
                 terms>>

\* The old outpipe is flushed, drained and deleted, the new one plugged in.
\* An active end then tells its sink: with ZMQ_IMMEDIATE the socket terminates
\* the pipe, without it the socket type re-sends what it has to (a write).
process_hiccup(e) ==
  /\ Receives(e, "hiccup")
  /\ LET old  == outpipe[e]
         new  == Head(cmds[e]).pipe
         gone == Flushed(upipe[old]).done
     IN /\ outpipe' = [outpipe EXCEPT ![e] = new]
        /\ msgs_written' = [msgs_written EXCEPT
                              ![e] = @ - Count(gone, {"last", "delim"})]
        /\ \/ /\ upipe' = [upipe EXCEPT ![old] = Deleted]
              /\ out_active' = [out_active EXCEPT ![e] = TRUE]
              /\ cmds' = Taken(e)
              /\ UNCHANGED <<state, delay>>
           \/ /\ state[e] = "active"
              /\ upipe' = [upipe EXCEPT ![old] = Deleted,
                                        ![new] = Flushed(WithDelimiter(@))]
              /\ state' = [state EXCEPT ![e] = "term_req_sent1"]
              /\ delay' = [delay EXCEPT ![e] = FALSE]
              /\ out_active' = [out_active EXCEPT ![e] = FALSE]
              /\ cmds' = [Taken(e) EXCEPT ![Peer(e)] = @ \o TerminateSends(e, upipe[new])]
  /\ UNCHANGED <<in_active, inpipe, msgs_read, peers_msgs_read, terms>>

process_pipe_term(e) ==
  /\ Receives(e, "pipe_term")
  /\ \/ /\ state[e] = "active" /\ delay[e]
        /\ state' = [state EXCEPT ![e] = "waiting_for_delimiter"]
        /\ cmds' = Taken(e)
        /\ UNCHANGED outpipe
     \/ /\ \/ state[e] = "active" /\ ~ delay[e]
           \/ state[e] \in {"delimiter_received", "term_req_sent1"}
        /\ state' = [state EXCEPT ![e] =
                       IF @ = "term_req_sent1" THEN "term_req_sent2" ELSE "term_ack_sent"]
        /\ outpipe' = [outpipe EXCEPT ![e] = NULL]
        /\ cmds' = [Taken(e) EXCEPT ![Peer(e)] = Append(@, TermAck)]
  /\ UNCHANGED <<in_active, out_active, delay, inpipe, flow, upipe, terms>>

\* Acknowledge if this end asked first, then deallocate it and its inpipe.
process_pipe_term_ack(e) ==
  /\ Receives(e, "pipe_term_ack")
  /\ state[e] \in {"term_req_sent1", "term_ack_sent", "term_req_sent2"}
  /\ state' = [state EXCEPT ![e] = "deleted"]
  /\ cmds' = IF state[e] = "term_req_sent1"
             THEN [Taken(e) EXCEPT ![Peer(e)] = Append(@, TermAck)]
             ELSE Taken(e)
  /\ outpipe' = [outpipe EXCEPT ![e] = NULL]
  /\ upipe' = [upipe EXCEPT ![inpipe[e]] = Deleted]
  /\ inpipe' = [inpipe EXCEPT ![e] = NULL]
  /\ UNCHANGED <<in_active, out_active, delay, flow, terms>>

-----------------------------------------------------------------------------
Reads(e) == readEmpty(e) \/ read(e) \/ readDelimiter(e)

Command(e) == \/ process_activate_read(e) \/ process_activate_write(e) \/ process_hiccup(e)
              \/ process_pipe_term(e) \/ process_pipe_term_ack(e)

Next == \/ \E e \in Ends : \/ Reads(e) \/ checkWriteFull(e) \/ rollback(e) \/ flush(e)
                           \/ Command(e)
                           \/ \E part \in {"more", "last"} : write(e, part)
                           \/ \E d \in BOOLEAN : terminate(e, d)
        \/ hiccup

Spec == Init /\ [][Next]_vars

\* Both threads process their commands; the owner of an end reads it as long
\* as it is readable and flushes what it wrote.  Nobody has to terminate.
Fairness == \A e \in Ends : WF_vars(Command(e)) /\ WF_vars(Reads(e)) /\ WF_vars(flush(e))

FairSpec == Spec /\ Fairness

-----------------------------------------------------------------------------
(* Properties.                                                             *)

\* The assertions of the command handlers: pipe_term only in a state that can
\* take it, the ack only after one was asked for or given, a hiccup only while
\* there is an outpipe to replace.
HandlersAssert ==
  \A e \in Ends : \A i \in 1 .. Len(cmds[e]) :
    LET c == cmds[e][i] IN
    /\ i = 1 /\ c.type = "pipe_term" =>
         state[e] \in {"active", "delimiter_received", "term_req_sent1"}
    /\ i = 1 /\ c.type = "pipe_term_ack" =>
         state[e] \in {"term_req_sent1", "term_req_sent2", "term_ack_sent"}
    /\ i = 1 /\ c.type = "hiccup" => outpipe[e] # NULL

\* An end is deallocated only when nothing can reach it any more: no command
\* is on its way to it, its peer will send none, and no upipe that a living
\* end still reads or writes has been freed.
NoDanglingReferences ==
  \A e \in Ends :
    /\ state[e] = "deleted" => cmds[e] = <<>>
    /\ state[e] = "deleted" /\ state[Peer(e)] # "deleted" =>
         /\ TermAck \in ToSet(cmds[Peer(e)])
         /\ outpipe[Peer(e)] = NULL
    /\ state[e] # "deleted" => In(e).life = "live"
    /\ outpipe[e] # NULL => Out(e).life = "live"

\* Both watermarks hold across terminations and hiccups: an end never has more
\* than Hwm unread messages outstanding, and its account of what the peer has
\* read never runs ahead of what it wrote (the unsigned difference in
\* check_write would wrap and the pipe never be full again).
HwmRespected ==
  \A e \in Ends : Hwm[e] > 0 /\ state[e] = "active" =>
    /\ Messages(Out(e)) <= Hwm[e]
    /\ msgs_written[e] - peers_msgs_read[e] \in 0 .. Hwm[e]

\* An end that met the delimiter has read every message its peer counted.
DelimiterAfterAll ==
  \A e \in Ends : state[e] = "delimiter_received" /\ state[Peer(e)] # "deleted" =>
    msgs_read[e] = msgs_written[Peer(e)]

\* All of these.
PipeSafe == HandlersAssert /\ NoDanglingReferences /\ HwmRespected /\ DelimiterAfterAll

\* Once an end asks for termination both ends are deallocated, whatever the
\* other end is doing; process_pipe_term: the peer hangs up in
\* waiting_for_delimiter "till all pending messages are read", not longer.
TerminationCompletes ==
  \A e \in Ends : state[e] = "term_req_sent1" ~> \A x \in Ends : state[x] = "deleted"

\* The same as long as the session does not replace its inpipe: whoever asks,
\* once or twice, with or without delay, and whatever is still unread.
Hiccuped == \E u \in Upipes : u > 2 /\ upipe[u].life # "unborn"

TerminationWithoutHiccup ==
  \A e \in Ends : state[e] = "term_req_sent1"
                  ~> (Hiccuped \/ \A x \in Ends : state[x] = "deleted")

\* A writer that met the high watermark is re-activated by its reader, or the
\* pipe is being terminated: no lwm makes the pipe stall.
WriterResumes ==
  \A e \in Ends : (state[e] = "active" /\ Full(e))
                  ~> (state[e] # "active" \/ state[Peer(e)] # "active" \/ ~ Full(e))

\* A pipe ends when asked to, and does not stall before.
PipeLives == TerminationWithoutHiccup /\ WriterResumes
=============================================================================
