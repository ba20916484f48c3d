-------------------------------- MODULE Msg ---------------------------------
(***************************************************************************)
(* msg_t: messages that hold their data (vsm), refer to it (cmsg) or share *)
(* a counted content (lmsg), and dist_t's way of giving one to many pipes. *)
(* A message is a slot; it is closed and moved by whichever thread has it, *)
(* and the counter is changed atomically.                                  *)
(***************************************************************************)
EXTENDS Integers, FiniteSets

CONSTANTS
  Slots, Contents,
  MaxPipes    \* bound: the pipes a message is distributed to

VARIABLES
  msg,       \* per slot: type, content, shared
  refcnt,    \* per content
  alloc,     \* contents that are allocated
  sending,   \* dist_t::distribute: the slot, the pipes to come, those that failed
  sound      \* nothing was freed twice or used after it was freed

msgVars == <<msg, refcnt, alloc, sending, sound>>

NoContent == "none"
Invalid == [type |-> "invalid", content |-> NoContent, shared |-> FALSE]
Vsm == [Invalid EXCEPT !.type = "vsm"]
Long(c) == [type |-> "lmsg", content |-> c, shared |-> FALSE]
NotSending == [from |-> NoContent, left |-> 0, failed |-> 0]

MsgInit ==
  /\ msg = [s \in Slots |-> Invalid] /\ refcnt = [c \in Contents |-> 0]
  /\ alloc = {} /\ sending = NotSending /\ sound = TRUE

\* The slots a thread may use: not the one that is being distributed.
Mine(s) == sending.from # s
check(s) == msg[s].type # "invalid"

\* The heap that a call works on.
Heap == [refcnt |-> refcnt, alloc |-> alloc, sound |-> sound]
Becomes(h) == refcnt' = h.refcnt /\ alloc' = h.alloc /\ sound' = h.sound

\* refcnt.sub, and the content is freed when it drops to zero.
sub(h, c, n) ==
  LET left == h.refcnt[c] - n
  IN [h EXCEPT !.sound = @ /\ c \in h.alloc, !.refcnt[c] = left,
               !.alloc = IF left = 0 THEN @ \ {c} ELSE @]

release(h, m) ==
  IF m.type # "lmsg" THEN h
  ELSE IF m.shared THEN sub(h, m.content, 1)
  ELSE [h EXCEPT !.sound = @ /\ m.content \in h.alloc, !.alloc = @ \ {m.content}]

-----------------------------------------------------------------------------
init(s) ==
  /\ ~ check(s) /\ msg' = [msg EXCEPT ![s] = Vsm]
  /\ UNCHANGED <<refcnt, alloc, sending, sound>>

\* init_size of more than a message holds, and init_data with a function.
init_size(s) ==
  /\ ~ check(s)
  /\ \E c \in Contents \ alloc :
       msg' = [msg EXCEPT ![s] = Long(c)] /\ alloc' = alloc \cup {c} /\ refcnt' = [refcnt EXCEPT ![c] = 0]
  /\ UNCHANGED <<sending, sound>>

init_data(s) ==
  /\ ~ check(s) /\ msg' = [msg EXCEPT ![s] = [Invalid EXCEPT !.type = "cmsg"]]
  /\ UNCHANGED <<refcnt, alloc, sending, sound>>

close(s) ==
  /\ check(s) /\ Mine(s)
  /\ Becomes(release(Heap, msg[s])) /\ msg' = [msg EXCEPT ![s] = Invalid]
  /\ UNCHANGED sending

move(s, src) ==
  /\ s # src /\ check(s) /\ check(src) /\ Mine(s) /\ Mine(src)
  /\ Becomes(release(Heap, msg[s])) /\ msg' = [msg EXCEPT ![s] = msg[src], ![src] = Vsm]
  /\ UNCHANGED sending

\* A reference is added to src, which is shared from now on.
shares(h, m, n) ==
  IF m.type # "lmsg" THEN h
  ELSE [h EXCEPT !.sound = @ /\ m.content \in h.alloc,
                 !.refcnt[m.content] = IF m.shared THEN @ + n ELSE n + 1]
AsShared(m) == IF m.type = "lmsg" THEN [m EXCEPT !.shared = TRUE] ELSE m

copy(s, src) ==
  /\ s # src /\ check(s) /\ check(src) /\ Mine(s) /\ Mine(src)
  /\ Becomes(shares(release(Heap, msg[s]), msg[src], 1))
  /\ msg' = [msg EXCEPT ![s] = AsShared(msg[src]), ![src] = AsShared(msg[src])]
  /\ UNCHANGED sending

-----------------------------------------------------------------------------
(* dist_t::distribute of a message to n pipes, while what it has written   *)
(* already is read and closed at the other ends.                           *)

\* Plausible bug: a reference for each pipe, forgetting the one there is.
add_refs_all(h, m, n) == IF n = 0 THEN h ELSE shares(h, m, n + 1)

add_refs(h, m, n) == IF n = 0 THEN h ELSE shares(h, m, n)

distribute(s, n) ==
  /\ sending = NotSending /\ check(s) /\ msg[s].type # "vsm"
  /\ Becomes(add_refs(Heap, msg[s], n - 1))
  /\ msg' = [msg EXCEPT ![s] = IF n > 1 THEN AsShared(@) ELSE @]
  /\ sending' = [from |-> s, left |-> n, failed |-> 0]

\* pipe_t::write copies the message bit by bit.
pipe_write(ok) ==
  /\ sending.left > 0
  /\ IF ok THEN \E s \in Slots : /\ ~ check(s) /\ msg' = [msg EXCEPT ![s] = msg[sending.from]]
                                 /\ sending' = [sending EXCEPT !.left = @ - 1]
     ELSE sending' = [sending EXCEPT !.left = @ - 1, !.failed = @ + 1] /\ UNCHANGED msg
  /\ UNCHANGED <<refcnt, alloc, sound>>

\* rm_refs of those that failed, and the message is detached.
rm_refs(h, m, n) ==
  IF n = 0 THEN h ELSE IF m.type = "lmsg" /\ m.shared THEN sub(h, m.content, n) ELSE release(h, m)

distributed ==
  /\ sending # NotSending /\ sending.left = 0
  /\ Becomes(rm_refs(Heap, msg[sending.from], sending.failed))
  /\ msg' = [msg EXCEPT ![sending.from] = Vsm] /\ sending' = NotSending

MsgNext ==
  \/ \E s \in Slots : \/ init(s) \/ init_size(s) \/ init_data(s) \/ close(s)
                      \/ \E src \in Slots : move(s, src) \/ copy(s, src)
                      \/ \E n \in 1 .. MaxPipes : distribute(s, n)
  \/ \E ok \in BOOLEAN : pipe_write(ok)
  \/ distributed

-----------------------------------------------------------------------------
(* Property.                                                               *)

Holders(c) == {s \in Slots : msg[s].content = c}

\* A content is there as long as some message refers to it and no longer: it
\* is not freed twice, used after it was freed, or leaked.  One that two
\* messages refer to is counted.
CountedRight ==
  /\ sound
  /\ \A s \in Slots : msg[s].type = "lmsg" /\ (Mine(s) \/ sending.left + sending.failed > 0) =>
                       msg[s].content \in alloc
  /\ sending = NotSending =>
       \A c \in alloc : /\ Holders(c) # {}
                        /\ \/ \A s \in Holders(c) : msg[s].shared /\ refcnt[c] = Cardinality(Holders(c))
                           \/ Cardinality(Holders(c)) = 1 /\ \A s \in Holders(c) : ~ msg[s].shared
=============================================================================
