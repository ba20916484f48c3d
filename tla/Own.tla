--------------------------------- MODULE Own --------------------------------
(***************************************************************************)
(* own_t (own.cpp): the tree of objects below a socket (sessions,          *)
(* listeners, connecters) and its asynchronous shutdown.  An object lives  *)
(* in one thread, is created by its owner and is talked to by commands     *)
(* through the mailbox of its thread.  sent_seqnum counts the commands     *)
(* that refer to the object and are on their way, because an object must   *)
(* not go before it has processed them all.                                *)
(*                                                                         *)
(* Each action is one API call, event or command handler; it runs in the   *)
(* thread of its object, and only inc_seqnum () reaches into another one.  *)
(***************************************************************************)
EXTENDS Integers, Sequences, FiniteSets, SequencesExt

CONSTANTS
  Objects,     \* the objects that may come to exist
  Root,        \* the socket
  Parent,      \* by object: the one that launches it
  Thread,      \* by object: the thread it runs in
  Lingering,   \* the sessions: their termination waits for a pipe first
  Connecters,  \* the objects that attach an engine to their owner
  MaxBinds     \* bound: binds from sockets of other threads

ASSUME OwnAssumption ==
  /\ Root \in Objects
  /\ Parent \in [Objects \ {Root} -> Objects]
  /\ DOMAIN Thread = Objects
  /\ Lingering \subseteq Objects /\ Connecters \subseteq Objects \ {Root}
  /\ MaxBinds \in Nat

Threads == {Thread[o] : o \in Objects}

VARIABLES
  obj,      \* by object: its fields, see Unborn
  inbox,    \* by thread: the commands in its mailbox
  binding,  \* binds announced with inc_seqnum () and not yet sent
  binds     \* binds so far

vars == <<obj, inbox, binding, binds>>

Unborn == [life |-> "unborn", plugged |-> FALSE, terminating |-> FALSE, pending |-> FALSE,
           sent_seqnum |-> 0, processed_seqnum |-> 0, owned |-> {}, term_acks |-> 0,
           attached |-> FALSE]

Init ==
  /\ obj = [o \in Objects |->
              IF o = Root THEN [Unborn EXCEPT !.life = "alive", !.plugged = TRUE] ELSE Unborn]
  /\ inbox = [t \in Threads |-> <<>>]
  /\ binding = 0 /\ binds = 0

-----------------------------------------------------------------------------
(* Commands (object.cpp) and the checks every handler ends with.           *)

Cmd(type, dest, arg) == [type |-> type, dest |-> dest, arg |-> arg]

\* The mailboxes after the command m was sent ...
Post(mail, m) == [mail EXCEPT ![Thread[m.dest]] = Append(@, m)]

\* ... and after send_term () to each of the children, in the order of the set.
TermsFor(children, t) == {Cmd("term", c, Parent[c]) : c \in {x \in children : Thread[x] = t}}

PostTerms(mail, children) == [t \in Threads |-> mail[t] \o SetToSeq(TermsFor(children, t))]

\* Plausible bug: commands still on their way are not waited for.
FinishedNoSeqnum(r) == r.terminating /\ r.term_acks = 0

Finished(r) == r.terminating /\ r.processed_seqnum = r.sent_seqnum /\ r.term_acks = 0

\* The handler of o ends with fields r and the mailboxes mail: check_term_acks ()
\* acknowledges to the owner and destroys a finished o.
HandlerEnd(o, r, mail, done) ==
  /\ obj' = [obj EXCEPT ![o] = IF done THEN [r EXCEPT !.life = "deleted"] ELSE r]
  /\ inbox' = IF done /\ o # Root THEN Post(mail, Cmd("term_ack", Parent[o], o)) ELSE mail

check_term_acks(o, r, mail) == HandlerEnd(o, r, mail, Finished(r))

\* Without a check_term_acks () at the end.
NoCheck(o, r, mail) == HandlerEnd(o, r, mail, FALSE)

Alive(o) == obj[o].life = "alive" /\ obj[o].plugged

-----------------------------------------------------------------------------
(* API calls and events.                                                   *)

\* launch_child (): plug to the child, own to this object, each counted.
launch_child(c) ==
  LET o == Parent[c] IN
  /\ c # Root /\ obj[c].life = "unborn" /\ Alive(o)
  /\ obj' = [obj EXCEPT ![c] = [Unborn EXCEPT !.life = "alive", !.sent_seqnum = 1],
                        ![o].sent_seqnum = @ + 1]
  /\ inbox' = Post(Post(inbox, Cmd("plug", c, o)), Cmd("own", o, c))
  /\ UNCHANGED <<binding, binds>>

\* tcp_connecter_t::out_event: attach the engine to the session, then
\* terminate () itself, which asks the owner for it.
connected(c) ==
  LET o == Parent[c] IN
  /\ c \in Connecters /\ Alive(c) /\ ~ obj[c].attached /\ ~ obj[c].terminating
  /\ obj' = [obj EXCEPT ![c].attached = TRUE, ![o].sent_seqnum = @ + 1]
  /\ inbox' = Post(Post(inbox, Cmd("attach", o, c)), Cmd("term_req", o, c))
  /\ UNCHANGED <<binding, binds>>

\* What process_term (o) does once nothing has to be waited for.
own_process_term(o, r, mail) ==
  check_term_acks(o, [r EXCEPT !.terminating = TRUE, !.pending = FALSE, !.owned = {},
                               !.term_acks = @ + Cardinality(r.owned)],
                  PostTerms(mail, r.owned))

\* terminate () of the root, by close () and the reaper.
terminateRoot ==
  /\ ~ obj[Root].terminating /\ obj[Root].life = "alive"
  /\ own_process_term(Root, obj[Root], inbox)
  /\ UNCHANGED <<binding, binds>>

\* terminate () of an owned object, on an error of its own; one request on its
\* way at a time bounds the model.
terminate(o) ==
  /\ o # Root /\ Alive(o) /\ ~ obj[o].terminating
  /\ ~ \E t \in Threads : Cmd("term_req", Parent[o], o) \in ToSet(inbox[t])
  /\ inbox' = Post(inbox, Cmd("term_req", Parent[o], o))
  /\ UNCHANGED <<obj, binding, binds>>

\* process_term_req (), for term_child () and for the command.
term_req(o, c, mail) ==
  IF obj[o].terminating \/ c \notin obj[o].owned
  THEN NoCheck(o, obj[o], mail)
  ELSE NoCheck(o, [obj[o] EXCEPT !.owned = @ \ {c}, !.term_acks = @ + 1],
               Post(mail, Cmd("term", c, o)))

\* term_child (), by term_endpoint () on the socket.
term_child(c) ==
  /\ c # Root /\ Parent[c] = Root /\ obj[Root].life = "alive"
  /\ c \in obj[Root].owned /\ ~ obj[Root].terminating
  /\ term_req(Root, c, inbox)
  /\ UNCHANGED <<binding, binds>>

\* The pipe of a session that was asked to terminate is gone:
\* proceed_with_term ().
proceed_with_term(o) ==
  /\ obj[o].life = "alive" /\ obj[o].pending
  /\ own_process_term(o, obj[o], inbox)
  /\ UNCHANGED <<binding, binds>>

\* Another socket connects to the root over inproc: find_endpoint () counts the
\* command while it holds the lock under which the root un-registers.
find_endpoint ==
  /\ binds < MaxBinds /\ obj[Root].life = "alive" /\ ~ obj[Root].terminating
  /\ binds' = binds + 1 /\ binding' = binding + 1
  /\ obj' = [obj EXCEPT ![Root].sent_seqnum = @ + 1]
  /\ UNCHANGED inbox

\* ... and sends it after it let go of the lock.
send_bind ==
  /\ binding > 0
  /\ binding' = binding - 1
  /\ inbox' = Post(inbox, Cmd("bind", Root, Root))
  /\ UNCHANGED <<obj, binds>>

-----------------------------------------------------------------------------
(* Command handlers: process_command () on the head of a thread's mailbox. *)

\* Thread t takes a command of that type for a living object.
Takes(t, type) ==
  /\ inbox[t] # <<>> /\ Head(inbox[t]).type = type
  /\ obj[Head(inbox[t]).dest].life = "alive"

Rest(t) == [inbox EXCEPT ![t] = Tail(@)]

Seen(r) == [r EXCEPT !.processed_seqnum = @ + 1]

\* plug, attach and bind: the object's own reaction, then process_seqnum ().
process_counted(t) ==
  /\ \E type \in {"plug", "attach", "bind"} : Takes(t, type)
  /\ LET m == Head(inbox[t])
     IN check_term_acks(m.dest, [Seen(obj[m.dest]) EXCEPT !.plugged = TRUE], Rest(t))
  /\ UNCHANGED <<binding, binds>>

\* own: store the child, or ask it to go at once; then process_seqnum ().
process_own(t) ==
  /\ Takes(t, "own")
  /\ LET m == Head(inbox[t])
         r == Seen(obj[m.dest])
     IN IF r.terminating
        THEN check_term_acks(m.dest, [r EXCEPT !.term_acks = @ + 1],
                             Post(Rest(t), Cmd("term", m.arg, m.dest)))
        ELSE check_term_acks(m.dest, [r EXCEPT !.owned = @ \cup {m.arg}], Rest(t))
  /\ UNCHANGED <<binding, binds>>

process_term_req(t) ==
  /\ Takes(t, "term_req")
  /\ term_req(Head(inbox[t]).dest, Head(inbox[t]).arg, Rest(t))
  /\ UNCHANGED <<binding, binds>>

\* A session may have to wait for its pipe first (session_base_t::process_term).
process_term(t) ==
  /\ Takes(t, "term")
  /\ LET o == Head(inbox[t]).dest IN
     \/ own_process_term(o, obj[o], Rest(t))
     \/ /\ o \in Lingering
        /\ NoCheck(o, [obj[o] EXCEPT !.pending = TRUE], Rest(t))
  /\ UNCHANGED <<binding, binds>>

process_term_ack(t) ==
  /\ Takes(t, "term_ack")
  /\ LET o == Head(inbox[t]).dest
     IN check_term_acks(o, [obj[o] EXCEPT !.term_acks = @ - 1], Rest(t))
  /\ UNCHANGED <<binding, binds>>

process_command(t) ==
  \/ process_counted(t) \/ process_own(t) \/ process_term_req(t)
  \/ process_term(t) \/ process_term_ack(t)

-----------------------------------------------------------------------------
Next ==
  \/ \E o \in Objects : \/ launch_child(o) \/ connected(o) \/ terminate(o)
                        \/ term_child(o) \/ proceed_with_term(o)
  \/ terminateRoot \/ find_endpoint \/ send_bind
  \/ \E t \in Threads : process_command(t)

Spec == Init /\ [][Next]_vars

\* Threads process their mailboxes, an announced bind is sent, and a session's
\* pipe does terminate (Pipe).  Nobody has to terminate.
Fairness ==
  /\ \A t \in Threads : WF_vars(process_command(t))
  /\ WF_vars(send_bind)
  /\ \A o \in Lingering : WF_vars(proceed_with_term(o))

FairSpec == Spec /\ Fairness

-----------------------------------------------------------------------------
(* Properties.                                                             *)

Mail == UNION {ToSet(inbox[t]) : t \in Threads}

\* No object is destroyed while a command for it, or the announcement of one,
\* is on its way; and, as own.cpp says, "double termination should never
\* happen": term finds its object neither terminating nor, for a session,
\* waiting to.
NobodyCallsTheDead ==
  /\ \A m \in Mail : obj[m.dest].life = "alive"
  /\ binding > 0 => obj[Root].life = "alive"
  /\ \A m \in Mail : m.type = "term" =>
       ~ obj[m.dest].terminating /\ ~ obj[m.dest].pending

\* An owner outlives its children, and counts each one exactly once: as owned,
\* as an own command, or as an acknowledgement to come (the assertion that
\* term_acks is positive when one arrives, and that owned is empty at the end).
OwnerOutlivesChildren ==
  \A o \in Objects :
    LET children == {c \in Objects \ {Root} : Parent[c] = o /\ obj[c].life = "alive"}
        announced == {c \in Objects : Cmd("own", o, c) \in Mail}
        acks == {c \in Objects : Cmd("term_ack", o, c) \in Mail}
    IN /\ children # {} => obj[o].life = "alive"
       /\ obj[o].life = "alive" =>
            /\ obj[o].owned \cup announced \subseteq children
            /\ obj[o].owned \cap announced = {}
            /\ obj[o].term_acks = Cardinality(children \ (obj[o].owned \cup announced))
                                  + Cardinality(acks)
       /\ obj[o].life = "deleted" => obj[o].owned = {}

\* Both of these.
OwnSafe == NobodyCallsTheDead /\ OwnerOutlivesChildren

\* Once the socket terminates, every object that was ever launched is
\* destroyed, children launched in the meantime included.
Shut == obj[Root].terminating => \A o \in Objects : obj[o].life # "alive"
ShutdownCompletes == <>[]Shut
=============================================================================
