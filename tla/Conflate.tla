------------------------------ MODULE Conflate ------------------------------
(***************************************************************************)
(* ypipe_conflate_t over dbuffer_t: the queue of a pipe that is to keep    *)
(* the last message only, with its writer and its reader.  A message is    *)
(* its number, 0 an empty one.  The writer swaps the buffers if it gets    *)
(* the lock at once; the reader takes it for every look.                   *)
(***************************************************************************)
EXTENDS Integers, Sequences, FiniteSets

CONSTANT MaxWrites

VARIABLES
  back, front, has_msg,
  sync,       \* who holds the lock
  wpc, rpc,
  res,        \* what check_read found
  written, read_, freed,
  wakes       \* activate_read commands on their way

conflateVars == <<back, front, has_msg, sync, wpc, rpc, res, written, read_, freed, wakes>>

ConflateInit ==
  /\ back = 0 /\ front = 0 /\ has_msg = FALSE /\ sync = "free"
  /\ wpc = "idle" /\ rpc = "asleep" /\ res = FALSE
  /\ written = 0 /\ read_ = <<>> /\ freed = {} /\ wakes = 0

reader == <<rpc, res, read_>>
writer == <<back, wpc, written, freed>>

-----------------------------------------------------------------------------
(* dbuffer_t::write: move frees what the back buffer held.                 *)

\* Plausible bug: the assignment without the close.
move_over(v) == /\ back' = v /\ freed' = freed

move(v) == /\ back' = v /\ freed' = freed \cup ({back} \ {0})

write ==
  /\ wpc = "idle" /\ written < MaxWrites
  /\ written' = written + 1 /\ move(written + 1) /\ wpc' = "try_lock"
  /\ UNCHANGED <<front, has_msg, sync, reader, wakes>>

\* "If it fails, due to the consumer reading from the front buffer, it just
\* gives up."
try_lock ==
  /\ wpc = "try_lock"
  /\ IF sync = "free" THEN wpc' = "swap" /\ sync' = "writer" ELSE wpc' = "flush" /\ UNCHANGED sync
  /\ UNCHANGED <<back, front, has_msg, written, freed, reader, wakes>>

swap ==
  /\ wpc = "swap" /\ back' = front /\ front' = back /\ has_msg' = TRUE
  /\ sync' = "free" /\ wpc' = "flush"
  /\ UNCHANGED <<written, freed, reader, wakes>>

\* reader_awake is never set: the reader is told every time.
flush ==
  /\ wpc = "flush" /\ wpc' = "idle" /\ wakes' = wakes + 1
  /\ UNCHANGED <<back, front, has_msg, sync, written, freed, reader>>

-----------------------------------------------------------------------------
(* The reader: check_read, and read if there is something.                 *)

wake ==
  /\ rpc = "asleep" /\ wakes > 0 /\ wakes' = wakes - 1 /\ rpc' = "check_read"
  /\ UNCHANGED <<front, has_msg, sync, res, read_, writer>>

lock(from, to) ==
  /\ rpc = from /\ sync = "free" /\ sync' = "reader" /\ rpc' = to
  /\ UNCHANGED <<front, has_msg, res, read_, writer, wakes>>

check_read ==
  \/ lock("check_read", "look")
  \/ /\ rpc = "look" /\ res' = has_msg /\ sync' = "free" /\ rpc' = "checked"
     /\ UNCHANGED <<front, has_msg, read_, writer, wakes>>
  \/ /\ rpc = "checked" /\ rpc' = IF res THEN "read" ELSE "asleep"
     /\ UNCHANGED <<front, has_msg, sync, res, read_, writer, wakes>>

read ==
  \/ lock("read", "take")
  \/ /\ rpc = "take" /\ sync' = "free" /\ rpc' = "check_read"
     /\ IF has_msg THEN read_' = Append(read_, front) /\ front' = 0 /\ has_msg' = FALSE
        ELSE UNCHANGED <<read_, front, has_msg>>
     /\ UNCHANGED <<res, writer, wakes>>

ConflateNext == write \/ try_lock \/ swap \/ flush \/ wake \/ check_read \/ read

-----------------------------------------------------------------------------
(* Properties.                                                             *)

\* The reader gets newer messages only, each at most once, and a message is
\* in exactly one place: a buffer, the reader, or freed.
NewerOnce ==
  /\ \A i \in 1 .. Len(read_) - 1 : read_[i] < read_[i + 1]
  /\ \A v \in 1 .. written :
       Cardinality({i \in DOMAIN read_ : read_[i] = v}) + (IF back = v THEN 1 ELSE 0)
         + (IF front = v THEN 1 ELSE 0) + (IF v \in freed THEN 1 ELSE 0) = 1

\* "a socket shall keep only one message in its inbound/outbound queue, this
\* message being the last message received/the last message to be sent": when
\* both sides have come to rest, the reader has it.
LastArrives ==
  wpc = "idle" /\ rpc = "asleep" /\ wakes = 0 /\ written > 0 =>
    read_ # <<>> /\ read_[Len(read_)] = written
=============================================================================
