------------------------------ MODULE MCQueues -------------------------------
(***************************************************************************)
(* TLC model of what passes between two threads: Ypipe, or Yqueue, the     *)
(* memory below it, or Mailbox, built on top, or Conflate, the pipe of     *)
(* one, or Msg, the messages themselves.  Which one is chosen in the       *)
(* initial state, and the others then stay as they are, so the five are    *)
(* checked side by side and not multiplied.                                *)
(***************************************************************************)
EXTENDS Ypipe, Mailbox

CONSTANTS
  Chunks, N, MaxPush,    \* Yqueue
  MaxWrites,             \* Conflate
  Slots, Contents, MaxPipes    \* Msg

\* What the proofs need: chunks and messages are addresses, and there are
\* finitely many.
ASSUME QueuesAssumption ==
  /\ N \in Nat \ {0} /\ MaxPush \in Nat /\ IsFiniteSet(Chunks) /\ "NULL" \notin Chunks
  /\ MaxWrites \in Nat /\ MaxPipes \in Nat
  /\ IsFiniteSet(Slots) /\ "none" \notin Slots \cup Contents

VARIABLES
  heap, values, prev, next, begin_chunk, begin_pos, back_chunk, back_pos, end_chunk,
  end_pos, spare_chunk, wplace, sc, rplace, o, pushed, popped, published,
  d_back, d_front, has_msg, d_sync, d_wpc, d_rpc, res, written, read_, freed, wakes,
  msg, refcnt, alloc, sending, sound,
  model

Q == INSTANCE Yqueue
C == INSTANCE Conflate WITH back <- d_back, front <- d_front, sync <- d_sync, wpc <- d_wpc,
                            rpc <- d_rpc
M == INSTANCE Msg

yqueueVars == <<heap, values, prev, next, begin_chunk, begin_pos, back_chunk, back_pos,
                end_chunk, end_pos, spare_chunk, wplace, sc, rplace, o, pushed, popped,
                published>>
conflateVars == <<d_back, d_front, has_msg, d_sync, d_wpc, d_rpc, res, written, read_, freed,
                  wakes>>
msgVars == <<msg, refcnt, alloc, sending, sound>>

\* The first chunk is one and the same: its address makes no difference.
MCInit ==
  /\ model \in {"ypipe", "yqueue", "mailbox", "conflate", "msg"} /\ Init /\ MailboxInit
  /\ begin_chunk = CHOOSE k \in Chunks : TRUE
  /\ Q!Init /\ C!ConflateInit /\ M!MsgInit

MCNext ==
  \/ model = "ypipe" /\ Next /\ UNCHANGED <<model, yqueueVars, mailboxVars, conflateVars, msgVars>>
  \/ model = "yqueue" /\ Q!Next /\ UNCHANGED <<model, vars, mailboxVars, conflateVars, msgVars>>
  \/ model = "mailbox" /\ MailboxNext /\ UNCHANGED <<model, vars, yqueueVars, conflateVars, msgVars>>
  \/ model = "conflate" /\ C!ConflateNext
     /\ UNCHANGED <<model, vars, yqueueVars, mailboxVars, msgVars>>
  \/ model = "msg" /\ M!MsgNext /\ UNCHANGED <<model, vars, yqueueVars, mailboxVars, conflateVars>>

\* Fairness and MailboxFairness, action by action, of the model chosen.
MCFairness ==
  /\ WF_vars(model = "ypipe" /\ flush) /\ WF_vars(model = "ypipe" /\ flushSet)
  /\ WF_vars(model = "ypipe" /\ Reader)
  /\ \A s \in Senders :
       WF_mailboxVars(model = "mailbox" /\ (writeFlush(s) \/ unlock(s) \/ signalerSend(s)))
  /\ WF_mailboxVars(model = "mailbox" /\ Recv)

MCSpec ==
  /\ MCInit /\ [][MCNext]_<<model, vars, yqueueVars, mailboxVars, conflateVars, msgVars>>
  /\ MCFairness

\* The chunks in use are those the queue can reach, and the reader finds the
\* elements in the order they were pushed (Yqueue).
YqueueSafe == model = "yqueue" => Q!NoLeakNoUseAfterFree /\ Q!RightElement

\* Every finished item is read, every command sent is received: no wake-up is
\* lost (Ypipe, Mailbox).
Delivered == AllRead /\ EveryCommandReceived

\* What the reader gets is newer than what it had, and freed once (Conflate).
NewerOnce == model = "conflate" => C!NewerOnce

\* A content is freed when its last message is closed, and not before (Msg).
CountedRight == model = "msg" => M!CountedRight
=============================================================================
