------------------------------- MODULE Ypipe --------------------------------
(***************************************************************************)
(* ypipe_t (ypipe.hpp): the lock-free queue under every pipe and every     *)
(* mailbox of the library.  One writer thread and one reader thread share  *)
(* the element memory and a single atomic pointer c; w and f belong to the *)
(* writer, r and the front of the queue to the reader.                     *)
(*                                                                         *)
(* A pointer is the position of the element in the stream of elements ever *)
(* pushed (yqueue_t hands out one element per push; live elements have     *)
(* distinct addresses, see Yqueue); NULL is -1.  Each action is one access *)
(* to c together with the thread-local work around it.                     *)
(*                                                                         *)
(* Both users of the class keep the contract stated at flush (): a reader  *)
(* that was told "nothing to read" stays away from the pipe until it is    *)
(* woken up (pipe_t::in_active, mailbox_t::active), and a writer whose     *)
(* flush () returned false wakes it.                                       *)
(***************************************************************************)
EXTENDS Integers, Sequences

CONSTANTS
  Values,     \* the items
  MaxItems    \* bound: number of elements that can be in the stream

NULL  == -1
None  == <<>>          \* content of an element nobody has written yet
Pos   == 0 .. MaxItems

ASSUME YpipeAssumption == MaxItems \in Nat /\ None \notin Values

VARIABLES
  queue,   \* element memory, by position
  back,    \* writer: queue.back (), the terminator element
  f,       \* writer: first item to be flushed in the future
  w,       \* writer: first un-flushed item
  wpc,     \* writer: "idle", or "set" between the failed CAS and c.set (f)
  c,       \* shared: past the last flushed item, NULL if the reader sleeps
  front,   \* reader: position of queue.front ()
  r,       \* reader: first un-prefetched item
  waiting, \* reader: check_read () returned false, waiting to be woken up
  wake,    \* a wake-up is on its way to the reader
  out      \* history: the values read, in order

vars == <<queue, back, f, w, wpc, c, front, r, waiting, wake, out>>

Init ==
  /\ queue = [p \in Pos |-> None]
  /\ back = 0 /\ f = 0 /\ w = 0 /\ c = 0 /\ front = 0 /\ r = 0
  /\ wpc = "idle"
  /\ waiting = FALSE /\ wake = FALSE
  /\ out = <<>>

-----------------------------------------------------------------------------
(* Writer thread.                                                          *)

write(v, incomplete) ==
  /\ wpc = "idle"
  /\ back < MaxItems
  /\ queue' = [queue EXCEPT ![back] = v]
  /\ back' = back + 1
  /\ f' = IF incomplete THEN f ELSE back + 1
  /\ UNCHANGED <<w, wpc, c, front, r, waiting, wake, out>>

\* Plausible bug: unwrite compares with w and so pops finished items too.
unwritePastF ==
  /\ wpc = "idle"
  /\ w # back
  /\ back' = back - 1
  /\ UNCHANGED <<queue, f, w, wpc, c, front, r, waiting, wake, out>>

\* unwrite () returns false, and changes nothing, when f is queue.back ().
unwrite ==
  /\ wpc = "idle"
  /\ f # back
  /\ back' = back - 1
  /\ UNCHANGED <<queue, f, w, wpc, c, front, r, waiting, wake, out>>

\* Plausible bug: c is stored unconditionally, as if the reader never slept.
flushNoCas ==
  /\ wpc = "idle"
  /\ w # f
  /\ c' = f /\ w' = f
  /\ UNCHANGED <<queue, back, f, wpc, front, r, waiting, wake, out>>

\* flush () up to and including the compare-and-swap on c.
flush ==
  /\ wpc = "idle"
  /\ w # f
  /\ IF c = w
     THEN c' = f /\ w' = f /\ UNCHANGED wpc
     ELSE wpc' = "set" /\ UNCHANGED <<c, w>>
  /\ UNCHANGED <<queue, back, f, front, r, waiting, wake, out>>

\* The rest of flush () after the CAS found NULL: it returns false, and the
\* caller wakes the reader up.
flushSet ==
  /\ wpc = "set"
  /\ c' = f
  /\ w' = f
  /\ wpc' = "idle"
  /\ wake' = TRUE
  /\ UNCHANGED <<queue, back, f, front, r, waiting, out>>

-----------------------------------------------------------------------------
(* Reader thread.                                                          *)

Prefetched == front # r /\ r # NULL

\* Plausible bug: c is read and cleared without comparing it with the front.
checkReadXchg ==
  /\ ~ waiting
  /\ ~ Prefetched
  /\ r' = c
  /\ c' = NULL
  /\ waiting' = (c \in {front, NULL})
  /\ UNCHANGED <<queue, back, f, w, wpc, front, wake, out>>

\* The compare-and-swap of check_read (): prefetch up to c, or fall asleep.
checkRead ==
  /\ ~ waiting
  /\ ~ Prefetched
  /\ r' = c
  /\ c' = IF c = front THEN NULL ELSE c
  /\ waiting' = (c \in {front, NULL})
  /\ UNCHANGED <<queue, back, f, w, wpc, front, wake, out>>

\* The rest of read () once check_read () has returned true.
read ==
  /\ ~ waiting
  /\ Prefetched
  /\ out' = Append(out, queue[front])
  /\ front' = front + 1
  /\ UNCHANGED <<queue, back, f, w, wpc, c, r, waiting, wake>>

\* The wake-up arrives: a signal (mailbox_t) or an activate_read (pipe_t).
wakeUp ==
  /\ wake
  /\ wake' = FALSE
  /\ waiting' = FALSE
  /\ UNCHANGED <<queue, back, f, w, wpc, c, front, r, out>>

-----------------------------------------------------------------------------
Writer == (\E v \in Values, incomplete \in BOOLEAN : write(v, incomplete))
          \/ unwrite \/ flush \/ flushSet

Reader == checkRead \/ read \/ wakeUp

Next == Writer \/ Reader

Spec == Init /\ [][Next]_vars

\* The writer's threads flush what they complete, a started flush () is
\* finished, wake-ups are delivered and a woken reader reads until it finds
\* nothing (mailbox_t::recv and pipe_t::read are called in a loop).
Fairness == WF_vars(flush) /\ WF_vars(flushSet) /\ WF_vars(Reader)

FairSpec == Spec /\ Fairness

-----------------------------------------------------------------------------
(* Properties.                                                             *)

\* Every pointer stays inside the stream of elements.
TypeOK ==
  /\ queue \in [Pos -> Values \cup {None}]
  /\ back \in Pos /\ f \in Pos /\ w \in Pos /\ front \in Pos
  /\ c \in Pos \cup {NULL}
  /\ r \in Pos \cup {NULL}
  /\ wpc \in {"idle", "set"}
  /\ waiting \in BOOLEAN /\ wake \in BOOLEAN

\* The elements are split into consumed, flushed, finished and unfinished ones,
\* and the shared pointer c, if not NULL, is the writer's w.
PointersOrdered ==
  /\ front <= w /\ w <= f /\ f <= back
  /\ c \in {w, NULL}
  /\ r # NULL => front <= r /\ r <= w

\* No lost wake-up: the reader waits with no wake-up on its way exactly when c
\* is NULL, and then everything that was flushed has been read.
NoLostWakeup ==
  /\ c = NULL <=> waiting /\ ~ wake
  /\ c = NULL => front = w

\* The comment in check_read (): during the pipe's lifetime r is never NULL.
\* With the wake-up contract a reader finds a pointer in c each time it looks.
RNeverNull == r # NULL

\* flush () never finds a wake-up it has sent before still undelivered: one
\* wake-up per sleep, so that a signaler is never signalled twice in a row.
SingleWakeup ==
  /\ wake => waiting /\ c # NULL
  /\ wpc = "set" => waiting /\ ~ wake /\ c = NULL

\* The element the reader takes is a written one that the writer can no
\* longer unwrite or overwrite.
ReaderOwnsFront == Prefetched => front < f /\ queue[front] # None

\* The invariant that the proof by induction uses.
IInv == /\ TypeOK /\ PointersOrdered /\ NoLostWakeup /\ RNeverNull /\ SingleWakeup
        /\ \A p \in 0 .. back - 1 : queue[p] \in Values
        /\ wpc = "set" => w # f

\* Refinement: the queue is the abstract FIFO of YpipeAbs.
Slice(q, lo, hi) == [i \in 1 .. hi - lo |-> q[lo + i - 1]]

Abs == INSTANCE YpipeAbs WITH
         partial  <- Slice(queue, f, back),
         complete <- Slice(queue, w, f),
         items    <- Slice(queue, front, w),
         reader   <- IF ~ waiting THEN "awake" ELSE IF wake THEN "woken" ELSE "asleep"

ImplementsFifo == Abs!ASpec

\* Every finished item is eventually read.
AllRead == \A p \in Pos : (p < f) ~> (p < front)
=============================================================================
