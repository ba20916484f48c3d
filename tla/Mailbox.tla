------------------------------- MODULE Mailbox ------------------------------
(***************************************************************************)
(* mailbox_t (mailbox.cpp) with the eventfd signaler_t below it            *)
(* (signaler.cpp): the command queue of a thread.  Any thread sends, the   *)
(* owning thread receives and finally destroys the mailbox.                *)
(*                                                                         *)
(* The command pipe is used as YpipeAbs specifies it (Ypipe shows that     *)
(* ypipe_t implements that): a queue and the flag that its reader found it *)
(* empty and sleeps.  A recv () that times out (EAGAIN) or is interrupted  *)
(* (EINTR) changes nothing and is a stuttering step.                       *)
(***************************************************************************)
EXTENDS Integers, Sequences, FiniteSets

CONSTANTS
  Senders,   \* the threads that send commands
  MaxCmds    \* bound: commands each sender sends

Nobody == "nobody"

Command == Senders \X Nat     \* the sender and its sequence number

ASSUME MailboxAssumption == MaxCmds \in Nat /\ Nobody \notin Senders /\ IsFiniteSet(Senders)

VARIABLES
  sync,      \* holder of the mutex
  spc,       \* per sender: its place in send ()
  sent,      \* per sender: commands it has sent
  cpipe,     \* the command pipe
  asleep,    \* the reader found cpipe empty; the next flush () returns false
  signals,   \* the eventfd counter
  active,    \* mailbox_t::active
  rpc,       \* the receiver's place in recv (), or in the destructor
  received   \* commands received, in order

mailboxVars == <<sync, spc, sent, cpipe, asleep, signals, active, rpc, received>>

MailboxInit ==
  /\ sync = Nobody
  /\ spc = [s \in Senders |-> "idle"] /\ sent = [s \in Senders |-> 0]
  /\ cpipe = <<>> /\ asleep = TRUE     \* the constructor reads once
  /\ signals = 0 /\ active = FALSE
  /\ rpc = "idle" /\ received = <<>>

-----------------------------------------------------------------------------
(* send (), by any thread.                                                 *)

lock(s) ==
  /\ spc[s] = "idle" /\ sent[s] < MaxCmds
  /\ sync = Nobody
  /\ sync' = s
  /\ spc' = [spc EXCEPT ![s] = "locked"]
  /\ UNCHANGED <<sent, cpipe, asleep, signals, active, rpc, received>>

\* cpipe.write () and cpipe.flush (): false iff the reader sleeps.
writeFlush(s) ==
  /\ spc[s] = "locked"
  /\ cpipe' = Append(cpipe, <<s, sent[s]>>)
  /\ sent' = [sent EXCEPT ![s] = @ + 1]
  /\ asleep' = FALSE
  /\ spc' = [spc EXCEPT ![s] = IF asleep THEN "unlock_signal" ELSE "unlock"]
  /\ UNCHANGED <<sync, signals, active, rpc, received>>

unlock(s) ==
  /\ spc[s] \in {"unlock", "unlock_signal"}
  /\ sync' = Nobody
  /\ spc' = [spc EXCEPT ![s] = IF @ = "unlock" THEN "idle" ELSE "signal"]
  /\ UNCHANGED <<sent, cpipe, asleep, signals, active, rpc, received>>

\* signaler.send (): add one to the eventfd.
signalerSend(s) ==
  /\ spc[s] = "signal"
  /\ signals' = signals + 1
  /\ spc' = [spc EXCEPT ![s] = "idle"]
  /\ UNCHANGED <<sync, sent, cpipe, asleep, active, rpc, received>>

-----------------------------------------------------------------------------
(* recv (), by the owning thread.                                          *)

\* In active state: read, or find nothing and become passive.
recvActive ==
  /\ rpc = "idle" /\ active
  /\ IF cpipe # <<>>
     THEN /\ received' = Append(received, Head(cpipe))
          /\ cpipe' = Tail(cpipe)
          /\ UNCHANGED <<asleep, active, rpc>>
     ELSE /\ asleep' = TRUE /\ active' = FALSE /\ rpc' = "drain"
          /\ UNCHANGED <<received, cpipe>>
  /\ UNCHANGED <<sync, spc, sent, signals>>

\* signaler.recv (): the read empties the eventfd.
signalerRecv ==
  /\ rpc = "drain"
  /\ signals' = 0
  /\ rpc' = IF signals = 2 THEN "giveback" ELSE "idle"
  /\ UNCHANGED <<sync, spc, sent, cpipe, asleep, active, received>>

\* signaler.recv () grabbed the next signal too and returns it.
giveBack ==
  /\ rpc = "giveback"
  /\ signals' = signals + 1
  /\ rpc' = "idle"
  /\ UNCHANGED <<sync, spc, sent, cpipe, asleep, active, received>>

\* Plausible bug: EAGAIN of the wait is taken for a signal.
waitNoSignal ==
  /\ rpc = "idle" /\ ~ active
  /\ active' = TRUE
  /\ rpc' = "read"
  /\ UNCHANGED <<sync, spc, sent, cpipe, asleep, signals, received>>

\* In passive state: signaler.wait () saw the eventfd readable.
wait ==
  /\ rpc = "idle" /\ ~ active
  /\ signals > 0
  /\ active' = TRUE
  /\ rpc' = "read"
  /\ UNCHANGED <<sync, spc, sent, cpipe, asleep, signals, received>>

\* Get a command; zmq_assert (ok) demands that there is one.
readAfterWait ==
  /\ rpc = "read" /\ cpipe # <<>>
  /\ received' = Append(received, Head(cpipe))
  /\ cpipe' = Tail(cpipe)
  /\ rpc' = "idle"
  /\ UNCHANGED <<sync, spc, sent, asleep, signals, active>>

\* The owner has every command that will be sent to it (the object protocols
\* make it wait for the last one) and destroys the mailbox.
LastReceived == Len(received) = MaxCmds * Cardinality(Senders)

\* Plausible bug: the destructor does not wait for the mutex.
destroyNoLock ==
  /\ rpc = "idle" /\ LastReceived
  /\ rpc' = "destroyed"
  /\ UNCHANGED <<sync, spc, sent, cpipe, asleep, signals, active, received>>

\* ~mailbox_t: lock and unlock sync, then the members go.
destroy ==
  /\ rpc = "idle" /\ LastReceived
  /\ sync = Nobody
  /\ rpc' = "destroyed"
  /\ UNCHANGED <<sync, spc, sent, cpipe, asleep, signals, active, received>>

-----------------------------------------------------------------------------
Send(s) == lock(s) \/ writeFlush(s) \/ unlock(s) \/ signalerSend(s)

Recv == recvActive \/ signalerRecv \/ giveBack \/ wait \/ readAfterWait

MailboxNext == (\E s \in Senders : Send(s)) \/ Recv \/ destroy

MailboxSpec == MailboxInit /\ [][MailboxNext]_mailboxVars

\* A thread inside send () goes on, and the owner keeps calling recv (): an
\* I/O thread, the reaper and a blocked socket call all loop on it.
MailboxFairness ==
  /\ \A s \in Senders : WF_mailboxVars(writeFlush(s) \/ unlock(s) \/ signalerSend(s))
  /\ WF_mailboxVars(Recv)

MailboxFairSpec == MailboxSpec /\ MailboxFairness

-----------------------------------------------------------------------------
(* Properties.                                                             *)

MailboxTypeOK ==
  /\ sync \in Senders \cup {Nobody}
  /\ spc \in [Senders -> {"idle", "locked", "unlock", "unlock_signal", "signal"}]
  /\ sent \in [Senders -> 0 .. MaxCmds]
  /\ cpipe \in Seq(Command) /\ received \in Seq(Command)
  /\ asleep \in BOOLEAN /\ active \in BOOLEAN
  /\ signals \in 0 .. 2
  /\ rpc \in {"idle", "drain", "giveback", "read", "destroyed"}

\* The mutex is held by exactly the sender between lock () and unlock (), and
\* a sender that has just locked it still has its command to send.
MutexHeld ==
  \A s \in Senders :
    /\ spc[s] \in {"locked", "unlock", "unlock_signal"} <=> sync = s
    /\ spc[s] = "locked" => sent[s] < MaxCmds

\* A sender whose flush () found the reader asleep and that has not signalled.
Owes(s) == spc[s] \in {"unlock_signal", "signal"}

Owed == \E s \in Senders : Owes(s)

\* The assertions of recv (): a wait () that saw a signal finds a command,
\* and the eventfd read returns 1 or 2.
RecvAssertions ==
  /\ rpc = "read" => cpipe # <<>>
  /\ rpc = "drain" => signals \in {1, 2}

\* One signal per sleep: the signals in the eventfd and those still owed tell
\* exactly whether the reader sleeps, whatever order unlock and signal take.
SignalAccounting ==
  /\ \A s, t \in Senders : Owes(s) /\ Owes(t) => s = t
  /\ asleep => cpipe = <<>> /\ ~ active /\ ~ Owed
  /\ active => signals = 1 /\ ~ asleep /\ ~ Owed
  /\ rpc = "drain" => /\ ~ active
                      /\ IF asleep \/ Owed THEN signals = 1 ELSE signals = 2
  /\ rpc = "giveback" => ~ active /\ ~ asleep /\ ~ Owed /\ signals = 0
  /\ rpc \in {"idle", "destroyed"} /\ ~ active =>
       IF asleep \/ Owed THEN signals = 0 ELSE signals = 1
  /\ rpc = "read" => active
  /\ ~ active /\ ~ asleep => cpipe # <<>>

\* The comment in ~mailbox_t: other threads may still be in send () when the
\* owner has its last command, and taking the mutex is enough to wait for
\* them although signaler.send () comes after the unlock.
NobodyInsideAfterDestroy ==
  rpc = "destroyed" => \A s \in Senders : spc[s] = "idle"

\* Each command sent so far is once in q, after those its sender sent before it.
EachOnceInOrder(q) ==
  /\ \A i \in 1 .. Len(q) : q[i][2] < sent[q[i][1]]
  /\ \A i, j \in 1 .. Len(q) : i < j /\ q[i][1] = q[j][1] => q[i][2] < q[j][2]
  /\ \A s \in Senders : \A k \in 0 .. sent[s] - 1 : \E i \in 1 .. Len(q) : q[i] = <<s, k>>

\* The received commands and those in the pipe are all the commands sent, each
\* sender's in its order, and the mailbox goes only when all were received.
CommandsInOrder ==
  /\ EachOnceInOrder(received \o cpipe)
  /\ rpc = "destroyed" => LastReceived

\* The invariant that the proof by induction uses.
MailboxInv == MailboxTypeOK /\ MutexHeld /\ RecvAssertions /\ SignalAccounting /\ CommandsInOrder

\* Every command sent is received: no wake-up is lost.
EveryCommandReceived ==
  \A s \in Senders : \A n \in 1 .. MaxCmds :
    sent[s] >= n ~> \E i \in 1 .. Len(received) : received[i] = <<s, n - 1>>
=============================================================================
