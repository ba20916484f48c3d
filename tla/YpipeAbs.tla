------------------------------ MODULE YpipeAbs ------------------------------
(***************************************************************************)
(* What ypipe_t promises its two users: a FIFO between one writer and one  *)
(* reader in which a multi-part item becomes visible as a whole and only   *)
(* by a flush, and in which the writer is told, exactly when the reader    *)
(* has found the queue empty, that it has to wake the reader up.           *)
(* Ypipe is shown to implement this specification.                         *)
(***************************************************************************)
EXTENDS Naturals, Sequences, SequencesExt

CONSTANT Values        \* the items (T of ypipe_t <T, N>)

VARIABLES
  partial,    \* parts of an unfinished item: written, not flushable
  complete,   \* finished items that were not flushed yet
  items,      \* flushed items the reader has not consumed
  reader,     \* "awake", "asleep" after it found nothing, "woken" by a flush
  out         \* every value handed to the reader so far

avars == <<partial, complete, items, reader, out>>

AInit ==
  /\ partial = <<>> /\ complete = <<>> /\ items = <<>> /\ out = <<>>
  /\ reader = "awake"

AWrite(v, incomplete) ==
  /\ IF incomplete
     THEN partial' = Append(partial, v) /\ UNCHANGED complete
     ELSE partial' = <<>> /\ complete' = complete \o Append(partial, v)
  /\ UNCHANGED <<items, reader, out>>

AUnwrite ==
  /\ partial # <<>>
  /\ partial' = Front(partial)
  /\ UNCHANGED <<complete, items, reader, out>>

\* A flush makes every finished item visible at once, and wakes a sleeping reader.
AFlush ==
  /\ complete # <<>>
  /\ items' = items \o complete
  /\ complete' = <<>>
  /\ reader' = IF reader = "asleep" THEN "woken" ELSE reader
  /\ UNCHANGED <<partial, out>>

\* Only a reader that finds no flushed item goes to sleep.
ASleep ==
  /\ reader = "awake"
  /\ items = <<>>
  /\ reader' = "asleep"
  /\ UNCHANGED <<partial, complete, items, out>>

AWake ==
  /\ reader = "woken"
  /\ reader' = "awake"
  /\ UNCHANGED <<partial, complete, items, out>>

ARead ==
  /\ reader = "awake"
  /\ items # <<>>
  /\ out' = Append(out, Head(items))
  /\ items' = Tail(items)
  /\ UNCHANGED <<partial, complete, reader>>

ANext ==
  \/ \E v \in Values, incomplete \in BOOLEAN : AWrite(v, incomplete)
  \/ AUnwrite
  \/ AFlush
  \/ ASleep
  \/ AWake
  \/ ARead

ASpec == AInit /\ [][ANext]_avars
=============================================================================
