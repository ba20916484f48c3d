---------------------------- MODULE QueuesProofs ----------------------------
(***************************************************************************)
(* Proofs about Ypipe, the lock-free pipe, for every set of values and     *)
(* every stream length; about Mailbox, on top of it, for any senders and   *)
(* any number of commands; about Yqueue, the chunks below a pipe, for any  *)
(* size and number of chunks; about Conflate, the pipe that keeps the last *)
(* message, for any number of messages written; and about Msg, the counted *)
(* messages, for any finite set of them, any contents and any number of    *)
(* pipes.                                                                  *)
(***************************************************************************)
EXTENDS MCQueues, SequenceTheorems, FiniteSetTheorems, FunctionTheorems, NaturalsInduction,
        WellFoundedInduction, TLAPS

-----------------------------------------------------------------------------
(* Ypipe: the pointers split the stream, no wake-up is lost, r is never    *)
(* NULL, and the reader only takes elements the writer has given up.       *)

\* The constructor establishes the inductive invariant.
LEMMA InitIInv == Init => IInv
  BY YpipeAssumption DEF Init, IInv, TypeOK, PointersOrdered, NoLostWakeup, RNeverNull,
     SingleWakeup, Pos, NULL, None

\* Each step of the writer and of the reader preserves it.
LEMMA NextIInv == IInv /\ [Next]_vars => IInv'
<1> SUFFICES ASSUME IInv, [Next]_vars PROVE IInv'
  OBVIOUS
<1> USE YpipeAssumption DEF IInv, TypeOK, PointersOrdered, NoLostWakeup, RNeverNull,
     SingleWakeup, Pos, NULL, None
<1>1. ASSUME NEW v \in Values, NEW incomplete \in BOOLEAN, write(v, incomplete)
      PROVE  IInv'
  BY <1>1 DEF write
<1>2. CASE unwrite
  BY <1>2 DEF unwrite
<1>3. CASE flush
  BY <1>3 DEF flush
<1>4. CASE flushSet
  BY <1>4 DEF flushSet
<1>5. CASE checkRead
  <2>1. c # NULL /\ c = w /\ ~ wake
    BY <1>5 DEF checkRead
  <2>2. CASE c = front
    <3>1. waiting' = TRUE /\ c' = NULL /\ r' = front
      BY <1>5, <2>2 DEF checkRead
    <3> QED
      BY <1>5, <2>1, <2>2, <3>1 DEF checkRead
  <2>3. CASE c # front
    <3>1. waiting' = FALSE /\ c' = c /\ r' = c
      BY <1>5, <2>1, <2>3 DEF checkRead
    <3> QED
      BY <1>5, <2>1, <2>3, <3>1 DEF checkRead
  <2> QED
    BY <2>2, <2>3
<1>6. CASE read
  BY <1>6 DEF read, Prefetched
<1>7. CASE wakeUp
  BY <1>7 DEF wakeUp
<1>8. CASE UNCHANGED vars
  BY <1>8 DEF vars
<1> QED
  BY <1>1, <1>2, <1>3, <1>4, <1>5, <1>6, <1>7, <1>8 DEF Next, Writer, Reader

\* ypipe_t keeps the inductive invariant in every reachable state.
THEOREM YpipeInvariant == Spec => []IInv
  BY InitIInv, NextIInv, PTL DEF Spec

\* The element a reader takes is a written one that unwrite () cannot reach.
THEOREM ReaderOwnsFrontAlways == Spec => []ReaderOwnsFront
<1>1. IInv => ReaderOwnsFront
  BY YpipeAssumption DEF IInv, TypeOK, PointersOrdered, ReaderOwnsFront, Prefetched, Pos, NULL, None
<1> QED
  BY <1>1, YpipeInvariant, PTL

-----------------------------------------------------------------------------
(* The refinement of YpipeAbs: each step of a thread is a step of the      *)
(* abstract queue or leaves it alone.                                      *)

Memory == [Pos -> Values \cup {None}]

\* A function on 1 .. n is a sequence of length n.
LEMMA FunctionSeq ==
  ASSUME NEW S, NEW n \in Nat, NEW s \in [1 .. n -> S]
  PROVE  s \in Seq(S) /\ Len(s) = n
<1>1. s \in Seq(S)
  BY SeqDef
<1>2. Len(s) \in Nat /\ DOMAIN s = 1 .. Len(s) /\ DOMAIN s = 1 .. n
  BY <1>1, LenProperties
<1>3. Len(s) = n
  BY <1>2
<1> QED
  BY <1>1, <1>3

\* A slice is a sequence of as many elements as it spans.
LEMMA SliceSeq ==
  ASSUME NEW q \in Memory, NEW lo \in Nat, NEW hi \in Nat, lo <= hi, hi <= MaxItems
  PROVE  /\ Slice(q, lo, hi) \in Seq(Values \cup {None}) /\ Len(Slice(q, lo, hi)) = hi - lo
         /\ \A i \in 1 .. hi - lo : Slice(q, lo, hi)[i] = q[lo + i - 1]
<1>1. \A i \in 1 .. hi - lo : q[lo + i - 1] \in Values \cup {None}
  BY YpipeAssumption DEF Memory, Pos
<1>2. Slice(q, lo, hi) \in [1 .. hi - lo -> Values \cup {None}] /\ hi - lo \in Nat
  BY <1>1 DEF Slice
<1>3. Slice(q, lo, hi) \in Seq(Values \cup {None}) /\ Len(Slice(q, lo, hi)) = hi - lo
  BY <1>2, FunctionSeq
<1>4. \A i \in 1 .. hi - lo : Slice(q, lo, hi)[i] = q[lo + i - 1]
  BY DEF Slice
<1> QED
  BY <1>3, <1>4

\* Adjacent slices make up the one that spans both.
LEMMA SliceConcat ==
  ASSUME NEW q \in Memory, NEW lo \in Nat, NEW mid \in Nat, NEW hi \in Nat, lo <= mid, mid <= hi,
         hi <= MaxItems
  PROVE  Slice(q, lo, mid) \o Slice(q, mid, hi) = Slice(q, lo, hi)
<1> DEFINE V == Values \cup {None}
           a == Slice(q, lo, mid)
           b == Slice(q, mid, hi)
           s == Slice(q, lo, hi)
<1>0. lo <= hi /\ mid <= MaxItems
  BY YpipeAssumption
<1>1. a \in Seq(V) /\ Len(a) = mid - lo /\ \A i \in 1 .. mid - lo : a[i] = q[lo + i - 1]
  BY <1>0, SliceSeq
<1>2. b \in Seq(V) /\ Len(b) = hi - mid /\ \A i \in 1 .. hi - mid : b[i] = q[mid + i - 1]
  BY SliceSeq
<1>3. s \in Seq(V) /\ Len(s) = hi - lo /\ \A i \in 1 .. hi - lo : s[i] = q[lo + i - 1]
  BY <1>0, SliceSeq
<1> HIDE DEF V, a, b, s
<1>4. a \o b \in Seq(V) /\ Len(a \o b) = hi - lo
  <2>1. a \o b \in Seq(V) /\ Len(a \o b) = Len(a) + Len(b)
    BY <1>1, <1>2, ConcatProperties, Zenon
  <2>2. (mid - lo) + (hi - mid) = hi - lo
    OBVIOUS
  <2> QED
    BY <1>1, <1>2, <2>1, <2>2
<1>5. ASSUME NEW i \in 1 .. hi - lo PROVE (a \o b)[i] = s[i]
  <2>0. (a \o b)[i] = IF i <= mid - lo THEN a[i] ELSE b[i - (mid - lo)]
    BY <1>1, <1>2, ConcatProperties
  <2>1. CASE i <= mid - lo
    BY <1>1, <1>3, <2>0, <2>1
  <2>2. CASE i > mid - lo
    <3>1. (a \o b)[i] = b[i - (mid - lo)] /\ i - (mid - lo) \in 1 .. hi - mid
      BY <2>0, <2>2
    <3>2. mid + (i - (mid - lo)) - 1 = lo + i - 1
      OBVIOUS
    <3>3. b[i - (mid - lo)] = q[lo + i - 1]
      BY <1>2, <3>1, <3>2
    <3> QED
      BY <1>3, <3>1, <3>3
  <2>3. i <= mid - lo \/ i > mid - lo
    OBVIOUS
  <2> QED
    BY <2>1, <2>2, <2>3
<1>6. a \o b = s
  BY <1>3, <1>4, <1>5, SeqEqual
<1> QED
  BY <1>6 DEF a, b, s

\* A slice is empty exactly when it spans nothing.
LEMMA SliceEmpty ==
  ASSUME NEW q \in Memory, NEW lo \in Nat, NEW hi \in Nat, lo <= hi, hi <= MaxItems
  PROVE  Slice(q, lo, hi) = <<>> <=> lo = hi
<1>1. Slice(q, lo, hi) \in Seq(Values \cup {None}) /\ Len(Slice(q, lo, hi)) = hi - lo
  BY SliceSeq
<1>2. Slice(q, lo, hi) = <<>> <=> Len(Slice(q, lo, hi)) = 0
  BY <1>1, EmptySeq
<1> QED
  BY <1>1, <1>2

\* A slice depends on the elements it spans only.
LEMMA SliceSame ==
  ASSUME NEW q, NEW q2, NEW lo \in Nat, NEW hi \in Nat,
         \A p \in lo .. hi - 1 : q[p] = q2[p]
  PROVE  Slice(q, lo, hi) = Slice(q2, lo, hi)
<1>1. \A i \in 1 .. hi - lo : q[lo + i - 1] = q2[lo + i - 1]
  OBVIOUS
<1> QED
  BY <1>1 DEF Slice

\* Writing behind a slice and extending it appends what was written.
LEMMA SliceAppend ==
  ASSUME NEW q \in Memory, NEW lo \in Nat, NEW hi \in Nat, lo <= hi, hi < MaxItems,
         NEW v \in Values
  PROVE  Slice([q EXCEPT ![hi] = v], lo, hi + 1) = Append(Slice(q, lo, hi), v)
<1> DEFINE V == Values \cup {None}
           a == Slice(q, lo, hi)
           q2 == [q EXCEPT ![hi] = v]
           s == Slice(q2, lo, hi + 1)
<1>0. hi <= MaxItems /\ hi + 1 <= MaxItems /\ lo <= hi + 1 /\ hi + 1 \in Nat /\ hi \in Pos
  BY YpipeAssumption DEF Pos
<1>1. q2 \in Memory /\ q2[hi] = v /\ \A p \in lo .. hi - 1 : q2[p] = q[p]
  BY <1>0, YpipeAssumption DEF Memory, Pos
<1>2. a \in Seq(V) /\ Len(a) = hi - lo /\ \A i \in 1 .. hi - lo : a[i] = q[lo + i - 1]
  BY <1>0, SliceSeq
<1>3. s \in Seq(V) /\ Len(s) = hi + 1 - lo /\ \A i \in 1 .. hi + 1 - lo : s[i] = q2[lo + i - 1]
  <2>1. PICK m \in Nat : m = hi + 1
    OBVIOUS
  <2>2. PICK q3 \in Memory : q3 = q2
    BY <1>1
  <2>3. lo <= m /\ m <= MaxItems
    BY <1>0, <2>1
  <2>4. /\ Slice(q3, lo, m) \in Seq(V) /\ Len(Slice(q3, lo, m)) = m - lo
        /\ \A i \in 1 .. m - lo : Slice(q3, lo, m)[i] = q3[lo + i - 1]
    BY <2>3, SliceSeq
  <2> HIDE DEF q2
  <2> QED
    BY <2>1, <2>2, <2>4
<1>v. v \in V
  OBVIOUS
<1> HIDE DEF V, a, q2, s
<1>4. /\ Append(a, v) \in Seq(V) /\ Len(Append(a, v)) = Len(a) + 1
      /\ \A i \in 1 .. Len(a) : Append(a, v)[i] = a[i]
      /\ Append(a, v)[Len(a) + 1] = v
  BY <1>2, <1>v, AppendProperties
<1>5. Len(Append(a, v)) = Len(s)
  BY <1>2, <1>3, <1>4
<1>6. ASSUME NEW i \in 1 .. Len(s) PROVE s[i] = Append(a, v)[i]
  <2>1. CASE i <= hi - lo
    <3>1. i \in 1 .. Len(a) /\ i \in 1 .. hi - lo /\ lo + i - 1 \in lo .. hi - 1 /\ i \in 1 .. hi + 1 - lo
      BY <2>1, <1>2, <1>3
    <3> QED
      BY <3>1, <1>1, <1>2, <1>3, <1>4
  <2>2. CASE i = hi - lo + 1
    <3>1. i = Len(a) + 1 /\ lo + i - 1 = hi /\ i \in 1 .. hi + 1 - lo
      BY <2>2, <1>2, <1>3
    <3>2. s[i] = q2[hi]
      BY <3>1, <1>3
    <3> QED
      BY <3>1, <3>2, <1>1, <1>4
  <2>3. i <= hi - lo \/ i = hi - lo + 1
    BY <1>3
  <2> QED
    BY <2>1, <2>2, <2>3
<1>7. s = Append(a, v)
  BY <1>3, <1>4, <1>5, <1>6, SeqEqual
<1> QED
  BY <1>7 DEF a, s, q2

\* Shortening a slice at its end drops the last element.
LEMMA SliceFront ==
  ASSUME NEW q \in Memory, NEW lo \in Nat, NEW hi \in Nat, lo < hi, hi <= MaxItems
  PROVE  Abs!Front(Slice(q, lo, hi)) = Slice(q, lo, hi - 1)
<1> DEFINE V == Values \cup {None}
           a == Slice(q, lo, hi)
           s == Slice(q, lo, hi - 1)
<1>0. lo <= hi /\ lo <= hi - 1 /\ hi - 1 \in Nat /\ hi - 1 <= MaxItems
  BY YpipeAssumption
<1>1. a \in Seq(V) /\ Len(a) = hi - lo /\ \A i \in 1 .. hi - lo : a[i] = q[lo + i - 1]
  BY <1>0, SliceSeq
<1>2. s \in Seq(V) /\ Len(s) = hi - 1 - lo /\ \A i \in 1 .. hi - 1 - lo : s[i] = q[lo + i - 1]
  BY <1>0, SliceSeq
<1> HIDE DEF V, a, s
<1> DEFINE n == Len(a) - 1
<1>3. n \in Int /\ n = hi - 1 - lo /\ \A i \in 1 .. n : a[i] \in V
  BY <1>1, ElementOfSeq
<1> HIDE DEF n
<1>4. /\ SubSeq(a, 1, n) \in Seq(V)
      /\ Len(SubSeq(a, 1, n)) = IF 1 <= n THEN n - 1 + 1 ELSE 0
      /\ \A i \in 1 .. n - 1 + 1 : SubSeq(a, 1, n)[i] = a[1 + i - 1]
  <2>1. SubSeq(a, 1, n) \in Seq(V)
    BY <1>3, SubSeqProperties
  <2>2. Len(SubSeq(a, 1, n)) = IF 1 <= n THEN n - 1 + 1 ELSE 0
    BY <1>3, SubSeqProperties
  <2>3. \A i \in 1 .. n - 1 + 1 : SubSeq(a, 1, n)[i] = a[1 + i - 1]
    BY <1>3, SubSeqProperties
  <2> QED
    BY <2>1, <2>2, <2>3
<1>5. Len(SubSeq(a, 1, n)) = Len(s)
  BY <1>2, <1>3, <1>4
<1>6. ASSUME NEW i \in 1 .. Len(s) PROVE s[i] = SubSeq(a, 1, n)[i]
  <2>1. i \in 1 .. hi - lo /\ i \in 1 .. hi - 1 - lo /\ i \in 1 .. n - 1 + 1 /\ 1 + i - 1 = i
    BY <1>2, <1>3
  <2>2. SubSeq(a, 1, n)[i] = a[i]
    BY <1>4, <2>1
  <2> QED
    BY <2>1, <2>2, <1>1, <1>2
<1>7. s = SubSeq(a, 1, n)
  BY <1>2, <1>4, <1>5, <1>6, SeqEqual
<1> QED
  BY <1>7 DEF a, s, n, Abs!Front

\* The first element of a slice, and the rest of it.
LEMMA SliceHeadTail ==
  ASSUME NEW q \in Memory, NEW lo \in Nat, NEW hi \in Nat, lo < hi, hi <= MaxItems
  PROVE  Head(Slice(q, lo, hi)) = q[lo] /\ Tail(Slice(q, lo, hi)) = Slice(q, lo + 1, hi)
<1> DEFINE V == Values \cup {None}
           a == Slice(q, lo, hi)
           s == Slice(q, lo + 1, hi)
<1>0. lo <= hi /\ lo + 1 <= hi /\ lo + 1 \in Nat
  OBVIOUS
<1>1. a \in Seq(V) /\ Len(a) = hi - lo /\ \A i \in 1 .. hi - lo : a[i] = q[lo + i - 1]
  BY <1>0, SliceSeq
<1>2. s \in Seq(V) /\ Len(s) = hi - (lo + 1) /\ \A i \in 1 .. hi - (lo + 1) : s[i] = q[(lo + 1) + i - 1]
  BY <1>0, SliceSeq
<1>e. a # <<>>
  BY <1>0, SliceEmpty
<1> HIDE DEF V, a, s
<1>3. Head(a) = q[lo]
  <2>1. Head(a) = a[1]
    BY <1>1, <1>e
  <2>2. 1 \in 1 .. hi - lo /\ lo + 1 - 1 = lo
    OBVIOUS
  <2>3. a[1] = q[lo]
    BY <1>1, <2>2
  <2> QED
    BY <2>1, <2>3
<1>4. /\ Tail(a) \in Seq(V) /\ Len(Tail(a)) = Len(a) - 1
      /\ \A i \in 1 .. Len(Tail(a)) : Tail(a)[i] = a[i + 1]
  BY <1>1, <1>e, HeadTailProperties, Zenon
<1>5. Len(Tail(a)) = Len(s)
  BY <1>1, <1>2, <1>4
<1>6. ASSUME NEW i \in 1 .. Len(s) PROVE s[i] = Tail(a)[i]
  <2>1. i + 1 \in 1 .. hi - lo /\ i \in 1 .. hi - (lo + 1) /\ lo + (i + 1) - 1 = (lo + 1) + i - 1
    BY <1>2
  <2>2. Tail(a)[i] = a[i + 1]
    BY <1>4, <1>5
  <2> QED
    BY <2>1, <2>2, <1>1, <1>2
<1>7. s = Tail(a)
  BY <1>2, <1>4, <1>5, <1>6, SeqEqual
<1> QED
  BY <1>3, <1>7 DEF a, s

\* The constructor makes an empty abstract queue with its reader awake.
LEMMA InitAbs == Init => Abs!AInit
<1> SUFFICES ASSUME Init PROVE Abs!AInit
  OBVIOUS
<1>1. queue \in Memory /\ 0 \in Nat /\ 0 <= MaxItems
  BY YpipeAssumption DEF Init, Memory
<1>2. Slice(queue, 0, 0) = <<>>
  BY <1>1, SliceEmpty
<1> QED
  BY <1>2 DEF Init, Abs!AInit

\* Each step of the writer or the reader is a step of the abstract queue or a
\* stuttering one: a failed compare-and-swap and a prefetch change nothing there.
LEMMA NextAbs == IInv /\ [Next]_vars => [Abs!ANext]_(Abs!avars)
<1> SUFFICES ASSUME IInv, [Next]_vars PROVE [Abs!ANext]_(Abs!avars)
  OBVIOUS
<1>0. /\ queue \in Memory /\ MaxItems \in Nat
      /\ front \in Nat /\ w \in Nat /\ f \in Nat /\ back \in Nat
      /\ front <= w /\ w <= f /\ f <= back /\ back <= MaxItems
      /\ front <= f /\ w <= back /\ w <= MaxItems /\ f <= MaxItems
  BY YpipeAssumption DEF IInv, TypeOK, PointersOrdered, Memory, Pos
<1>1. ASSUME NEW v \in Values, NEW incomplete \in BOOLEAN, write(v, incomplete)
      PROVE  Abs!AWrite(v, incomplete)
  <2>0. /\ queue' = [queue EXCEPT ![back] = v] /\ back' = back + 1 /\ back < MaxItems
        /\ f' = IF incomplete THEN f ELSE back + 1
        /\ w' = w /\ front' = front /\ waiting' = waiting /\ wake' = wake /\ out' = out
    BY <1>1 DEF write
  <2>1. queue' \in Memory /\ \A p \in 0 .. back - 1 : queue'[p] = queue[p]
    BY <1>0, <2>0 DEF Memory, Pos
  <2>2. Slice(queue', front, w) = Slice(queue, front, w)
    BY <1>0, <2>1, SliceSame
  <2>3. Slice(queue', w, f) = Slice(queue, w, f)
    BY <1>0, <2>1, SliceSame
  <2>4. Slice(queue', f, back + 1) = Append(Slice(queue, f, back), v)
    BY <1>0, <2>0, SliceAppend
  <2>5. CASE incomplete
    BY <2>0, <2>2, <2>3, <2>4, <2>5 DEF Abs!AWrite
  <2>6. CASE ~ incomplete
    <3>0. back + 1 \in Nat /\ f <= back + 1 /\ back + 1 <= MaxItems /\ f' = back + 1
      BY <1>0, <2>0, <2>6
    <3>1. Slice(queue', w, f) \o Slice(queue', f, back + 1) = Slice(queue', w, back + 1)
      BY <1>0, <2>1, <3>0, SliceConcat
    <3>2. Slice(queue', back + 1, back + 1) = <<>>
      BY <2>1, <3>0, SliceEmpty
    <3> QED
      BY <2>0, <2>2, <2>3, <2>4, <2>6, <3>0, <3>1, <3>2 DEF Abs!AWrite
  <2> QED
    BY <2>5, <2>6
<1>2. CASE unwrite
  <2>1. f < back /\ UNCHANGED <<queue, f, w, front, waiting, wake, out>> /\ back' = back - 1
    BY <1>0, <1>2 DEF unwrite
  <2>2. Slice(queue, f, back) # <<>>
    BY <1>0, <2>1, SliceEmpty
  <2>3. Abs!Front(Slice(queue, f, back)) = Slice(queue, f, back - 1)
    BY <1>0, <2>1, SliceFront
  <2>4. Abs!AUnwrite
    BY <2>1, <2>2, <2>3 DEF Abs!AUnwrite
  <2> QED
    BY <2>4 DEF Abs!ANext
<1>3. ASSUME w # f, w' = f, UNCHANGED <<queue, back, f, front, waiting, out>>,
             \/ ~ waiting /\ wake' = wake
             \/ waiting /\ wake /\ wake' = wake
             \/ waiting /\ ~ wake /\ wake'
      PROVE  Abs!AFlush
  <2>1. Slice(queue, w, f) # <<>> /\ Slice(queue, f, f) = <<>>
    BY <1>0, <1>3, SliceEmpty
  <2>2. Slice(queue, front, f) = Slice(queue, front, w) \o Slice(queue, w, f)
    BY <1>0, SliceConcat
  <2> QED
    BY <1>3, <2>1, <2>2 DEF Abs!AFlush
<1>4. CASE flush
  <2>1. CASE c = w
    <3>1. ~ waiting \/ wake
      BY <1>0, <2>1 DEF IInv, NoLostWakeup, NULL
    <3>2. Abs!AFlush
      BY <1>3, <1>4, <2>1, <3>1 DEF flush
    <3> QED
      BY <3>2 DEF Abs!ANext
  <2>2. CASE c # w
    BY <1>4, <2>2 DEF flush, Abs!avars
  <2> QED
    BY <2>1, <2>2
<1>5. CASE flushSet
  <2>1. w # f /\ waiting /\ ~ wake
    BY <1>5 DEF flushSet, IInv, SingleWakeup
  <2>2. Abs!AFlush
    BY <1>3, <1>5, <2>1 DEF flushSet
  <2> QED
    BY <2>2 DEF Abs!ANext
<1>6. CASE checkRead
  <2>1. c # NULL /\ c = w /\ ~ wake /\ ~ waiting
    BY <1>6 DEF checkRead, IInv, TypeOK, PointersOrdered, NoLostWakeup, SingleWakeup
  <2>2. CASE c = front
    <3>1. Slice(queue, front, w) = <<>>
      BY <1>0, <2>1, <2>2, SliceEmpty
    <3>2. Abs!ASleep
      BY <1>6, <2>1, <2>2, <3>1 DEF checkRead, Abs!ASleep
    <3> QED
      BY <3>2 DEF Abs!ANext
  <2>3. CASE c # front
    BY <1>6, <2>1, <2>3 DEF checkRead, Abs!avars
  <2> QED
    BY <2>2, <2>3
<1>7. CASE read
  <2>1. front < w /\ ~ waiting
    BY <1>0, <1>7 DEF read, Prefetched, IInv, TypeOK, PointersOrdered, Pos, NULL
  <2>2. Slice(queue, front, w) # <<>>
    BY <1>0, <2>1, SliceEmpty
  <2>3. Head(Slice(queue, front, w)) = queue[front] /\ Tail(Slice(queue, front, w)) = Slice(queue, front + 1, w)
    BY <1>0, <2>1, SliceHeadTail
  <2>4. Abs!ARead
    BY <1>7, <2>1, <2>2, <2>3 DEF read, Abs!ARead
  <2> QED
    BY <2>4 DEF Abs!ANext
<1>8. CASE wakeUp
  <2>1. waiting /\ wake
    BY <1>8 DEF wakeUp, IInv, SingleWakeup
  <2>2. Abs!AWake
    BY <1>8, <2>1 DEF wakeUp, Abs!AWake
  <2> QED
    BY <2>2 DEF Abs!ANext
<1>9. CASE UNCHANGED vars
  BY <1>9 DEF vars, Abs!avars
<1> QED
  BY <1>1, <1>2, <1>4, <1>5, <1>6, <1>7, <1>8, <1>9 DEF Next, Writer, Reader, Abs!ANext

\* ypipe_t is the FIFO its users see, for every set of values and every length
\* of the stream: parts become visible by whole messages and by a flush only, in
\* order, and a flush says exactly when it found the reader asleep.
THEOREM YpipeImplementsFifo == Spec => ImplementsFifo
  BY InitAbs, NextAbs, YpipeInvariant, PTL DEF Spec, ImplementsFifo, Abs!ASpec

-----------------------------------------------------------------------------
(* Mailbox, for every set of senders and every number of commands.         *)
(* SignalAccounting is the induction hypothesis that the two assertions of *)
(* recv () need: neither follows from the other state alone.               *)

\* The part of the invariant that is about the mutex and the signals.
SignalInv == MailboxTypeOK /\ MutexHeld /\ RecvAssertions /\ SignalAccounting

\* The constructor's state satisfies the invariant.
LEMMA InitSignals == MailboxInit => SignalInv
<1> SUFFICES ASSUME MailboxInit PROVE SignalInv
  OBVIOUS
<1>1. MailboxTypeOK
  <2>1. 0 \in 0 .. MaxCmds /\ 0 \in 0 .. 2
    BY MailboxAssumption
  <2>2. <<>> \in Seq(Command)
    OBVIOUS
  <2> QED
    BY <2>1, <2>2 DEF MailboxInit, MailboxTypeOK
<1>2. MutexHeld /\ RecvAssertions /\ SignalAccounting
  BY MailboxAssumption DEF MailboxInit, MutexHeld, RecvAssertions, SignalAccounting, Owed, Owes
<1> QED
  BY <1>1, <1>2 DEF SignalInv

\* Every step of send (), recv () and the destructor preserves the invariant.
LEMMA NextSignals == SignalInv /\ [MailboxNext]_mailboxVars => SignalInv'
<1> SUFFICES ASSUME SignalInv, [MailboxNext]_mailboxVars PROVE SignalInv'
  OBVIOUS
<1> USE MailboxAssumption
<1>0. MailboxTypeOK /\ MutexHeld /\ RecvAssertions /\ SignalAccounting
  BY DEF SignalInv
<1>1. ASSUME NEW s \in Senders, lock(s) PROVE SignalInv'
  <2>1. MailboxTypeOK' /\ MutexHeld'
    BY <1>0, <1>1 DEF MailboxTypeOK, MutexHeld, lock
  <2>2. \A t \in Senders : Owes(t)' <=> Owes(t)
    BY <1>0, <1>1 DEF lock, MailboxTypeOK, Owes
  <2>3. (RecvAssertions /\ SignalAccounting)'
    BY <1>0, <1>1, <2>2 DEF RecvAssertions, SignalAccounting, lock, Owed
  <2> QED BY <2>1, <2>3 DEF SignalInv
<1>2. ASSUME NEW s \in Senders, writeFlush(s) PROVE SignalInv'
  <2>0. sent[s] \in Nat /\ <<s, sent[s]>> \in Command /\ cpipe \in Seq(Command)
    BY <1>0 DEF MailboxTypeOK, Command
  <2>1. MailboxTypeOK'
    <3>1. cpipe' \in Seq(Command)
      BY <2>0, <1>2 DEF writeFlush
    <3>2. sent' \in [Senders -> 0 .. MaxCmds]
      BY <1>0, <1>2 DEF MailboxTypeOK, MutexHeld, writeFlush
    <3>3. spc' \in [Senders -> {"idle", "locked", "unlock", "unlock_signal", "signal"}]
      BY <1>0, <1>2 DEF MailboxTypeOK, writeFlush
    <3> QED
      BY <1>0, <1>2, <3>1, <3>2, <3>3 DEF MailboxTypeOK, writeFlush
  <2>4. MutexHeld'
    BY <1>0, <1>2 DEF MailboxTypeOK, MutexHeld, writeFlush
  <2>2. cpipe' # <<>>
    BY <2>0, <1>2 DEF writeFlush
  <2>3. (RecvAssertions /\ SignalAccounting)'
    BY <1>0, <1>2, <2>2 DEF RecvAssertions, SignalAccounting, MailboxTypeOK, writeFlush, Owed, Owes
  <2> QED BY <2>1, <2>3, <2>4 DEF SignalInv
<1>3. ASSUME NEW s \in Senders, unlock(s) PROVE SignalInv'
  <2>1. MailboxTypeOK' /\ MutexHeld'
    BY <1>0, <1>3 DEF MailboxTypeOK, MutexHeld, unlock
  <2>2. \A t \in Senders : Owes(t)' <=> Owes(t)
    BY <1>0, <1>3 DEF unlock, MailboxTypeOK, Owes
  <2>3. (RecvAssertions /\ SignalAccounting)'
    BY <1>0, <1>3, <2>2 DEF RecvAssertions, SignalAccounting, unlock, Owed
  <2> QED BY <2>1, <2>3 DEF SignalInv
<1>4. ASSUME NEW s \in Senders, signalerSend(s) PROVE SignalInv'
  <2>1. Owes(s) /\ Owed /\ ~ Owed'
    BY <1>0, <1>4 DEF signalerSend, MailboxTypeOK, SignalAccounting, Owed, Owes
  <2>2. MailboxTypeOK' /\ MutexHeld'
    BY <1>0, <1>4, <2>1 DEF MailboxTypeOK, MutexHeld, signalerSend, SignalAccounting
  <2>3. (RecvAssertions /\ SignalAccounting)'
    BY <1>0, <1>4, <2>1 DEF RecvAssertions, SignalAccounting, MailboxTypeOK, signalerSend, Owed, Owes
  <2> QED BY <2>2, <2>3 DEF SignalInv
<1>5. CASE recvActive
  <2>1. MailboxTypeOK'
    <3>1. CASE cpipe # <<>>
      <4>1. Head(cpipe) \in Command /\ Tail(cpipe) \in Seq(Command)
        BY <1>0, <3>1 DEF MailboxTypeOK
      <4>2. received' = Append(received, Head(cpipe)) /\ cpipe' = Tail(cpipe)
        BY <1>5, <3>1 DEF recvActive
      <4>3. received' \in Seq(Command) /\ cpipe' \in Seq(Command)
        BY <4>1, <4>2, <1>0 DEF MailboxTypeOK
      <4> QED
        BY <1>0, <1>5, <3>1, <4>3 DEF MailboxTypeOK, recvActive
    <3>2. CASE cpipe = <<>>
      BY <1>0, <1>5, <3>2 DEF MailboxTypeOK, recvActive
    <3> QED BY <3>1, <3>2
  <2>2. MutexHeld'
    BY <1>0, <1>5 DEF MutexHeld, recvActive
  <2>3. (RecvAssertions /\ SignalAccounting)'
    BY <1>0, <1>5 DEF MailboxTypeOK, RecvAssertions, SignalAccounting, recvActive, Owed, Owes
  <2> QED BY <2>1, <2>2, <2>3 DEF SignalInv
<1>6. CASE signalerRecv
  BY <1>0, <1>6 DEF SignalInv, MailboxTypeOK, MutexHeld, RecvAssertions, SignalAccounting, signalerRecv, Owed, Owes
<1>7. CASE giveBack
  BY <1>0, <1>7 DEF SignalInv, MailboxTypeOK, MutexHeld, RecvAssertions, SignalAccounting, giveBack, Owed, Owes
<1>8. CASE wait
  BY <1>0, <1>8 DEF SignalInv, MailboxTypeOK, MutexHeld, RecvAssertions, SignalAccounting, wait, Owed, Owes
<1>9. CASE readAfterWait
  BY <1>0, <1>9 DEF SignalInv, MailboxTypeOK, MutexHeld, RecvAssertions, SignalAccounting, readAfterWait, Owed, Owes
<1>10. CASE destroy
  BY <1>0, <1>10 DEF SignalInv, MailboxTypeOK, MutexHeld, RecvAssertions, SignalAccounting, destroy, Owed, Owes
<1>11. CASE UNCHANGED mailboxVars
  BY <1>0, <1>11 DEF SignalInv, MailboxTypeOK, MutexHeld, RecvAssertions, SignalAccounting, mailboxVars, Owed, Owes
<1> QED
  BY <1>1, <1>2, <1>3, <1>4, <1>5, <1>6, <1>7, <1>8, <1>9, <1>10, <1>11 DEF MailboxNext, Send, Recv

-----------------------------------------------------------------------------
(* The commands: sending appends one to those received and in the pipe,    *)
(* receiving moves one from the pipe to the received ones.                 *)

\* Moving the head of p to the end of r does not change the two together.
LEMMA MoveHead ==
  ASSUME NEW S, NEW q \in Seq(S), NEW p \in Seq(S), p # <<>>
  PROVE  Append(q, Head(p)) \o Tail(p) = q \o p
<1> DEFINE a == Append(q, Head(p))
           t == Tail(p)
<1>1. Head(p) \in S /\ Head(p) = p[1] /\ Len(p) \in Nat \ {0} /\ Len(q) \in Nat
  BY HeadTailProperties, EmptySeq, LenProperties
<1>2. a \in Seq(S) /\ Len(a) = Len(q) + 1 /\ (\A i \in 1 .. Len(q) : a[i] = q[i]) /\ a[Len(q) + 1] = p[1]
  BY <1>1, AppendProperties
<1>3. t \in Seq(S) /\ Len(t) = Len(p) - 1 /\ \A i \in 1 .. Len(t) : t[i] = p[i + 1]
  BY HeadTailProperties
<1> HIDE DEF a, t
<1>4. /\ a \o t \in Seq(S) /\ Len(a \o t) = Len(a) + Len(t)
      /\ \A i \in 1 .. Len(a) + Len(t) : (a \o t)[i] = IF i <= Len(a) THEN a[i] ELSE t[i - Len(a)]
  BY <1>2, <1>3, ConcatProperties
<1>5. /\ q \o p \in Seq(S) /\ Len(q \o p) = Len(q) + Len(p)
      /\ \A i \in 1 .. Len(q) + Len(p) : (q \o p)[i] = IF i <= Len(q) THEN q[i] ELSE p[i - Len(q)]
  BY ConcatProperties
<1>6. Len(a \o t) = Len(q \o p)
  BY <1>1, <1>2, <1>3, <1>4, <1>5
<1>7. ASSUME NEW i \in 1 .. Len(q \o p) PROVE (a \o t)[i] = (q \o p)[i]
  <2>0. i \in 1 .. Len(q) + Len(p) /\ i \in 1 .. Len(a) + Len(t)
    BY <1>4, <1>5, <1>6
  <2>1. CASE i <= Len(q)
    BY <1>1, <1>2, <1>4, <1>5, <2>0, <2>1
  <2>2. CASE i = Len(q) + 1
    <3>1. i - Len(q) = 1 /\ i <= Len(a) /\ ~ (i <= Len(q))
      BY <1>1, <1>2, <2>2
    <3> QED
      BY <1>2, <1>4, <1>5, <2>0, <2>2, <3>1
  <2>3. CASE i > Len(q) + 1
    <3>1. /\ ~ (i <= Len(a)) /\ ~ (i <= Len(q))
          /\ i - Len(a) \in 1 .. Len(t) /\ (i - Len(a)) + 1 = i - Len(q)
      BY <1>1, <1>2, <1>3, <2>0, <2>3
    <3> QED
      BY <1>3, <1>4, <1>5, <2>0, <3>1
  <2>4. i <= Len(q) \/ i = Len(q) + 1 \/ i > Len(q) + 1
    BY <1>1, <2>0
  <2> QED
    BY <2>1, <2>2, <2>3, <2>4
<1>8. a \o t = q \o p
  BY <1>4, <1>5, <1>6, <1>7, SeqEqual
<1> QED
  BY <1>8 DEF a, t

\* The order of the commands survives each step.
LEMMA NextCommands ==
  SignalInv /\ CommandsInOrder /\ [MailboxNext]_mailboxVars => CommandsInOrder'
<1> SUFFICES ASSUME SignalInv, CommandsInOrder, [MailboxNext]_mailboxVars PROVE CommandsInOrder'
  OBVIOUS
<1>0. MailboxTypeOK /\ received \in Seq(Command) /\ cpipe \in Seq(Command)
  BY DEF SignalInv, MailboxTypeOK
<1> DEFINE q == received \o cpipe
<1>q. q \in Seq(Command) /\ Len(q) \in Nat /\ \A i \in 1 .. Len(q) : q[i] \in Command
  BY <1>0, ConcatProperties, LenProperties, ElementOfSeq
<1>1. ASSUME NEW s \in Senders, writeFlush(s) PROVE CommandsInOrder'
  <2> DEFINE e == <<s, sent[s]>>
             n == Len(q)
  <2>0. e \in Command /\ sent[s] \in Nat /\ sent \in [Senders -> Nat]
    BY <1>0 DEF MailboxTypeOK, Command
  <2>1. received' \o cpipe' = Append(q, e)
    <3>0. cpipe' = Append(cpipe, e)
      BY <1>1 DEF writeFlush
    <3> HIDE DEF e, q
    <3>1. Append(cpipe, e) = cpipe \o <<e>> /\ Append(q, e) = q \o <<e>> /\ <<e>> \in Seq(Command)
      BY <1>0, <1>q, <2>0, AppendIsConcat
    <3>2. received \o (cpipe \o <<e>>) = (received \o cpipe) \o <<e>>
      BY <1>0, <3>1, ConcatAssociative
    <3> QED
      BY <1>1, <3>0, <3>1, <3>2 DEF writeFlush, q
  <2>2. sent' = [sent EXCEPT ![s] = @ + 1]
    BY <1>1 DEF writeFlush
  <2>3. EachOnceInOrder(q)
    BY DEF CommandsInOrder
  <2> DEFINE q2 == Append(q, e)
  <2>4. /\ q2 \in Seq(Command) /\ Len(q2) = n + 1 /\ q2[n + 1] = e
        /\ \A i \in 1 .. n : q2[i] = q[i]
    BY <1>q, <2>0, AppendProperties
  <2>5. e[1] = s /\ e[2] = sent[s]
    OBVIOUS
  <2>6. \A x \in Senders : sent'[x] = IF x = s THEN sent[s] + 1 ELSE sent[x]
    BY <2>0, <2>2
  <2>7. \A i \in 1 .. n : q[i][1] \in Senders /\ q[i][2] \in Nat
    BY <1>q DEF Command
  <2> HIDE DEF q, n, e, q2
  <2>8. \A i \in 1 .. n + 1 : q2[i][2] < sent'[q2[i][1]]
    <3> SUFFICES ASSUME NEW i \in 1 .. n + 1 PROVE q2[i][2] < sent'[q2[i][1]]
      OBVIOUS
    <3>1. CASE i = n + 1
      BY <2>0, <2>4, <2>5, <2>6, <3>1
    <3>2. CASE i \in 1 .. n
      <4>1. q2[i] = q[i] /\ q[i][1] \in Senders /\ q[i][2] \in Nat /\ q[i][2] < sent[q[i][1]]
        BY <2>3, <2>4, <2>7, <3>2 DEF EachOnceInOrder, n
      <4>2. sent[q[i][1]] \in Nat
        BY <2>0, <4>1
      <4> QED
        BY <2>0, <2>6, <4>1, <4>2
    <3> QED
      BY <1>q, <3>1, <3>2 DEF n
  <2>9. \A i, j \in 1 .. n + 1 : i < j /\ q2[i][1] = q2[j][1] => q2[i][2] < q2[j][2]
    <3> SUFFICES ASSUME NEW i \in 1 .. n + 1, NEW j \in 1 .. n + 1, i < j, q2[i][1] = q2[j][1]
                 PROVE  q2[i][2] < q2[j][2]
      OBVIOUS
    <3>1. i \in 1 .. n /\ (j \in 1 .. n \/ j = n + 1)
      BY <1>q DEF n
    <3>2. q2[i] = q[i] /\ q[i][2] < sent[q[i][1]]
      BY <2>3, <2>4, <3>1 DEF EachOnceInOrder, n
    <3>3. CASE j = n + 1
      BY <2>4, <2>5, <3>2, <3>3
    <3>4. CASE j \in 1 .. n
      BY <2>3, <2>4, <3>1, <3>2, <3>4 DEF EachOnceInOrder, n
    <3> QED
      BY <3>1, <3>3, <3>4
  <2>10. ASSUME NEW x \in Senders, NEW k \in 0 .. sent'[x] - 1
         PROVE  \E i \in 1 .. n + 1 : q2[i] = <<x, k>>
    <3>1. CASE x = s /\ k = sent[s]
      <4>1. q2[n + 1] = <<x, k>> /\ n + 1 \in 1 .. n + 1
        BY <1>q, <2>4, <3>1 DEF e, n
      <4> QED
        BY <4>1
    <3>2. CASE k \in 0 .. sent[x] - 1
      <4>1. PICK i \in 1 .. n : q[i] = <<x, k>>
        BY <2>3, <3>2 DEF EachOnceInOrder, n
      <4>2. i \in 1 .. n + 1 /\ q2[i] = <<x, k>>
        BY <1>q, <2>4, <4>1 DEF n
      <4> QED
        BY <4>2
    <3>3. sent[x] \in Nat
      BY <2>0
    <3>4. (x = s /\ k = sent[s]) \/ k \in 0 .. sent[x] - 1
      BY <2>0, <2>6, <3>3
    <3> QED
      BY <3>1, <3>2, <3>4
  <2>11. EachOnceInOrder(received \o cpipe)'
    BY <2>1, <2>4, <2>8, <2>9, <2>10 DEF EachOnceInOrder, q2
  <2>12. rpc' = rpc /\ received' = received
    BY <1>1 DEF writeFlush
  <2> QED
    BY <2>11, <2>12 DEF CommandsInOrder, LastReceived
<1>2. ASSUME UNCHANGED <<sent, cpipe, received>>, rpc' = "destroyed" => rpc = "destroyed" \/ LastReceived
      PROVE  CommandsInOrder'
  BY <1>2, ZenonT(40) DEF CommandsInOrder, EachOnceInOrder, LastReceived
<1>3. ASSUME cpipe # <<>>, received' = Append(received, Head(cpipe)), cpipe' = Tail(cpipe), sent' = sent,
             rpc' # "destroyed"
      PROVE  CommandsInOrder'
  <2>1. received' \o cpipe' = q
    BY <1>0, <1>3, MoveHead
  <2>2. EachOnceInOrder(q) /\ sent' = sent
    BY <1>3 DEF CommandsInOrder
  <2> HIDE DEF q
  <2>3. EachOnceInOrder(received \o cpipe)'
    BY <2>1, <2>2, Zenon DEF EachOnceInOrder
  <2> QED
    BY <1>3, <2>3 DEF CommandsInOrder
<1>4. ASSUME NEW s \in Senders, lock(s) \/ unlock(s) \/ signalerSend(s) PROVE CommandsInOrder'
  BY <1>2, <1>4 DEF lock, unlock, signalerSend
<1>5. CASE recvActive
  BY <1>2, <1>3, <1>5 DEF recvActive
<1>6. CASE signalerRecv \/ giveBack \/ wait \/ destroy
  BY <1>2, <1>6 DEF signalerRecv, giveBack, wait, destroy
<1>7. CASE readAfterWait
  BY <1>3, <1>7 DEF readAfterWait
<1>8. CASE UNCHANGED mailboxVars
  BY <1>2, <1>8 DEF mailboxVars
<1> QED
  BY <1>1, <1>4, <1>5, <1>6, <1>7, <1>8 DEF MailboxNext, Send, Recv

\* The invariant holds in every reachable state of every mailbox.
THEOREM MailboxInvariant == MailboxSpec => []MailboxInv
<1>1. MailboxInit => MailboxInv
  <2> SUFFICES ASSUME MailboxInit PROVE CommandsInOrder
    BY InitSignals DEF MailboxInv, SignalInv
  <2>1. received \o cpipe = <<>> /\ Len(<<>>) = 0 /\ rpc = "idle"
    BY DEF MailboxInit
  <2>2. \A s \in Senders : sent[s] = 0
    BY DEF MailboxInit
  <2> QED
    BY <2>1, <2>2 DEF CommandsInOrder, EachOnceInOrder
<1>2. MailboxInv /\ [MailboxNext]_mailboxVars => MailboxInv'
  BY NextSignals, NextCommands DEF MailboxInv, SignalInv
<1> QED
  BY <1>1, <1>2, PTL DEF MailboxSpec

\* No assertion of recv () can fail: a signal always announces a command and
\* the eventfd never holds anything but one or two signals when it is read.
THEOREM RecvNeverAsserts == MailboxSpec => []RecvAssertions
<1>1. MailboxInv => RecvAssertions
  BY DEF MailboxInv
<1> QED
  BY <1>1, MailboxInvariant, PTL

-----------------------------------------------------------------------------
(* The destructor.  There are MaxCmds commands per sender and none of them *)
(* is received twice, so an owner that has received as many has received   *)
(* each of them: every sender has sent its last one.                       *)

\* The size of an interval.
LEMMA IntervalSize ==
  ASSUME NEW lo \in Int, NEW hi \in Int, NEW n \in Nat, hi - lo + 1 = n
  PROVE  IsFiniteSet(lo .. hi) /\ Cardinality(lo .. hi) = n
<1>1. IsFiniteSet(lo .. hi) /\ Cardinality(lo .. hi) = IF lo > hi THEN 0 ELSE hi - lo + 1
  BY FS_Interval
<1> QED
  BY <1>1

\* A sequence without repetitions is no longer than a set that holds its elements.
LEMMA NoRepetition ==
  ASSUME NEW T, IsFiniteSet(T), NEW q \in Seq(T),
         \A i, j \in 1 .. Len(q) : i < j => q[i] # q[j]
  PROVE  Len(q) <= Cardinality(T)
<1>1. Len(q) \in Nat /\ q \in [1 .. Len(q) -> T] /\ Cardinality(T) \in Nat
  BY LenProperties, FS_CardinalityType
<1>2. IsFiniteSet(1 .. Len(q)) /\ Cardinality(1 .. Len(q)) = Len(q)
  <2>1. 1 \in Int /\ Len(q) \in Int /\ Len(q) - 1 + 1 = Len(q)
    BY <1>1
  <2> QED
    BY <1>1, <2>1, IntervalSize, Zenon
<1>3. SUFFICES ASSUME Cardinality(T) < Len(q) PROVE FALSE
  BY <1>1
<1>4. \E i, j \in 1 .. Len(q) : i # j /\ q[i] = q[j]
  BY <1>1, <1>2, <1>3, FS_PigeonHole
<1> QED
  BY <1>1, <1>4

\* When the owner has its last command, the pipe is empty and nobody has a
\* command left to send.
LEMMA AllSent ==
  MailboxInv /\ LastReceived => cpipe = <<>> /\ \A s \in Senders : sent[s] = MaxCmds
<1> SUFFICES ASSUME MailboxInv, LastReceived
             PROVE  cpipe = <<>> /\ \A s \in Senders : sent[s] = MaxCmds
  OBVIOUS
<1> DEFINE q == received \o cpipe
           All == Senders \X (0 .. MaxCmds - 1)
<1>0. /\ received \in Seq(Command) /\ cpipe \in Seq(Command) /\ sent \in [Senders -> 0 .. MaxCmds]
      /\ EachOnceInOrder(q) /\ MaxCmds \in Nat /\ IsFiniteSet(Senders)
  BY MailboxAssumption DEF MailboxInv, MailboxTypeOK, CommandsInOrder
<1>1. q \in Seq(Command) /\ Len(q) = Len(received) + Len(cpipe)
  BY <1>0, ConcatProperties
<1>2. Len(q) \in Nat /\ Len(received) \in Nat /\ Len(cpipe) \in Nat /\ q \in [1 .. Len(q) -> Command]
  BY <1>0, <1>1, LenProperties
<1> HIDE DEF q
<1>3. \A i \in 1 .. Len(q) : q[i] \in Command
  BY <1>2
<1>4. \A i \in 1 .. Len(q) : q[i] = <<q[i][1], q[i][2]>> /\ q[i][1] \in Senders /\ q[i][2] \in Nat
                              /\ q[i][2] < sent[q[i][1]]
  BY <1>0, <1>3 DEF Command, EachOnceInOrder
<1>5. \A i, j \in 1 .. Len(q) : i < j => q[i] # q[j]
  <2> SUFFICES ASSUME NEW i \in 1 .. Len(q), NEW j \in 1 .. Len(q), i < j, q[i] = q[j] PROVE FALSE
    OBVIOUS
  <2>1. q[i][2] < q[j][2]
    BY <1>0 DEF EachOnceInOrder
  <2> QED
    BY <1>4, <2>1
<1>6. Cardinality(Senders) \in Nat /\ Cardinality(0 .. MaxCmds - 1) = MaxCmds /\ IsFiniteSet(0 .. MaxCmds - 1)
  <2>1. 0 \in Int /\ MaxCmds - 1 \in Int /\ (MaxCmds - 1) - 0 + 1 = MaxCmds
    BY <1>0
  <2> QED
    BY <1>0, <2>1, IntervalSize, FS_CardinalityType, Zenon
<1>7. IsFiniteSet(All) /\ Cardinality(All) = Cardinality(Senders) * MaxCmds
  BY <1>0, <1>6, FS_Product
<1>8. Len(received) = Cardinality(All)
  BY <1>0, <1>6, <1>7 DEF LastReceived
<1>9. ASSUME NEW T \in SUBSET All, \A i \in 1 .. Len(q) : q[i] \in T
      PROVE  Len(q) <= Cardinality(T)
  <2>1. IsFiniteSet(T)
    BY <1>7, FS_Subset
  <2>2. q \in [1 .. Len(q) -> T]
    BY <1>2, <1>9
  <2>3. q \in Seq(T)
    BY <1>2, <2>2, SeqDef
  <2> QED
    BY <1>5, <2>1, <2>3, NoRepetition
<1>10. \A i \in 1 .. Len(q) : q[i] \in All
  <2> SUFFICES ASSUME NEW i \in 1 .. Len(q) PROVE q[i] \in All
    OBVIOUS
  <2>1. q[i][1] \in Senders /\ sent[q[i][1]] \in 0 .. MaxCmds
    BY <1>0, <1>4
  <2>2. q[i][2] \in 0 .. MaxCmds - 1
    BY <1>0, <1>4, <2>1
  <2>3. <<q[i][1], q[i][2]>> \in All
    BY <2>1, <2>2
  <2> QED
    BY <1>4, <2>3
<1>11. cpipe = <<>>
  <2>1. Len(q) <= Cardinality(All)
    BY <1>9, <1>10
  <2>2. Len(cpipe) = 0
    BY <1>1, <1>2, <1>8, <2>1
  <2> QED
    BY <1>0, <2>2, EmptySeq
<1>12. ASSUME NEW s \in Senders PROVE sent[s] = MaxCmds
  <2> SUFFICES ASSUME sent[s] < MaxCmds PROVE FALSE
    BY <1>0
  <2> DEFINE last == <<s, MaxCmds - 1>>
             T == All \ {last}
  <2>1. last \in All
    BY <1>0
  <2>2. Cardinality(T) = Cardinality(All) - 1
    <3> HIDE DEF All, last
    <3> QED
      BY <1>7, <2>1, FS_RemoveElement
  <2>3. \A i \in 1 .. Len(q) : q[i] # last
    BY <1>0, <1>4
  <2>4. Len(q) <= Cardinality(T)
    BY <1>9, <1>10, <2>3
  <2>5. Cardinality(All) \in Nat
    BY <1>2, <1>8
  <2> QED
    BY <1>1, <1>2, <1>8, <2>2, <2>4, <2>5
<1> QED
  BY <1>11, <1>12

\* ~mailbox_t: once the owner got its last command and the mutex, no thread is
\* in send () any more and none will enter it, although signaler.send () is
\* called after the unlock.
THEOREM NobodyInside == MailboxSpec => []NobodyInsideAfterDestroy
<1>1. MailboxInit => NobodyInsideAfterDestroy
  BY DEF MailboxInit, NobodyInsideAfterDestroy
<1>2. MailboxInv /\ NobodyInsideAfterDestroy /\ [MailboxNext]_mailboxVars => NobodyInsideAfterDestroy'
  <2> SUFFICES ASSUME MailboxInv, NobodyInsideAfterDestroy, [MailboxNext]_mailboxVars,
                      rpc' = "destroyed", NEW t \in Senders
               PROVE  spc'[t] = "idle"
    BY DEF NobodyInsideAfterDestroy
  <2>0. MailboxTypeOK /\ MutexHeld /\ SignalAccounting /\ CommandsInOrder
    BY DEF MailboxInv
  <2>1. CASE rpc = "destroyed"
    <3>1. \A s \in Senders : sent[s] = MaxCmds /\ spc[s] = "idle"
      BY <2>0, <2>1, AllSent DEF CommandsInOrder, NobodyInsideAfterDestroy
    <3>2. \A s \in Senders : ~ (sent[s] < MaxCmds)
      BY <3>1, MailboxAssumption
    <3>3. spc' = spc
      BY <2>1, <3>1, <3>2 DEF MailboxNext, Send, lock, writeFlush, unlock, signalerSend, Recv, recvActive,
         signalerRecv, giveBack, wait, readAfterWait, destroy, mailboxVars
    <3> QED
      BY <3>1, <3>3
  <2>2. CASE destroy
    <3>1. cpipe = <<>> /\ sync = Nobody /\ spc' = spc /\ LastReceived /\ rpc = "idle"
      BY <2>2, AllSent DEF destroy
    <3>2. spc[t] \in {"idle", "signal"}
      BY <2>0, <3>1, MailboxAssumption DEF MailboxTypeOK, MutexHeld
    <3>3. ~ Owes(t)
      BY <2>0, <3>1 DEF SignalAccounting, Owed
    <3> QED
      BY <3>1, <3>2, <3>3 DEF Owes
  <2>3. rpc # "destroyed" => destroy
    BY DEF MailboxNext, Send, lock, writeFlush, unlock, signalerSend, Recv, recvActive, signalerRecv, giveBack,
       wait, readAfterWait, mailboxVars
  <2> QED
    BY <2>1, <2>2, <2>3
<1> QED
  BY <1>1, <1>2, MailboxInvariant, PTL DEF MailboxSpec

-----------------------------------------------------------------------------
(* Counting in Yqueue, Conflate and Msg.                                   *)

\* The instances count elements as this module does.
LEMMA SameCardinality ==
  ASSUME NEW S
  PROVE  /\ C!Cardinality(S) = Cardinality(S) /\ M!Cardinality(S) = Cardinality(S)
         /\ Q!Cardinality(S) = Cardinality(S)
  BY DEF C!Cardinality, M!Cardinality, Q!Cardinality, Cardinality

-----------------------------------------------------------------------------
(* Conflate.                                                               *)

ConflateTypeOK ==
  /\ d_back \in Nat /\ d_front \in Nat /\ has_msg \in BOOLEAN
  /\ d_sync \in {"free", "writer", "reader"}
  /\ written \in Nat /\ read_ \in Seq(Nat) /\ freed \in SUBSET Nat

\* The lock is held by whoever is between taking and giving it back, and there
\* is a message in the front buffer exactly if has_msg says so.
ConflateLock ==
  /\ d_sync = "writer" <=> d_wpc = "swap"
  /\ d_sync = "reader" <=> d_rpc \in {"look", "take"}
  /\ has_msg <=> d_front # 0

\* No message comes from the future; what the writer is about to swap in is the
\* newest, and what was read is older than what is in front.
ConflateOrder ==
  /\ d_back <= written /\ d_front <= written /\ \A v \in freed : v \in 1 .. written
  /\ \A i \in 1 .. Len(read_) : read_[i] \in 1 .. written
  /\ \A i \in 1 .. Len(read_) : d_front # 0 => read_[i] < d_front
  /\ \A i, j \in 1 .. Len(read_) : i < j => read_[i] < read_[j]
  /\ d_wpc \in {"try_lock", "swap"} =>
       /\ written > 0 /\ d_back = written /\ d_front < written
       /\ \A i \in 1 .. Len(read_) : read_[i] < written

\* A message that was written is in exactly one of four places.
WasRead(v) == \E i \in 1 .. Len(read_) : read_[i] = v
ConflatePlaces ==
  \A v \in 1 .. written :
    /\ d_back = v \/ d_front = v \/ v \in freed \/ WasRead(v)
    /\ d_back = v => d_front # v /\ v \notin freed /\ ~ WasRead(v)
    /\ d_front = v => v \notin freed /\ ~ WasRead(v)
    /\ v \in freed => ~ WasRead(v)

ConflateInv == ConflateTypeOK /\ ConflateLock /\ ConflateOrder /\ ConflatePlaces

\* The invariant holds when the pipe is created.
LEMMA InitConflate == ASSUME C!ConflateInit PROVE ConflateInv
<1>1. Len(read_) = 0 /\ read_ \in Seq(Nat) /\ 1 .. 0 = {}
  BY DEF C!ConflateInit
<1>2. ConflateTypeOK /\ ConflateLock
  BY <1>1 DEF C!ConflateInit, ConflateTypeOK, ConflateLock
<1>3. ConflateOrder
  BY <1>1 DEF C!ConflateInit, ConflateOrder
<1>4. ConflatePlaces
  BY <1>1 DEF C!ConflateInit, ConflatePlaces
<1> QED
  BY <1>2, <1>3, <1>4 DEF ConflateInv

\* An increasing sequence holds a value once: the counting form of the property.
LEMMA ConflateInvSafe == ASSUME ConflateInv PROVE C!NewerOnce
<1>1. Len(read_) \in Nat /\ DOMAIN read_ = 1 .. Len(read_)
  BY LenProperties DEF ConflateInv, ConflateTypeOK
<1>2. \A i \in 1 .. Len(read_) - 1 : read_[i] < read_[i + 1]
  <2> TAKE i \in 1 .. Len(read_) - 1
  <2>1. i \in 1 .. Len(read_) /\ i + 1 \in 1 .. Len(read_) /\ i < i + 1
    BY <1>1
  <2> QED
    BY <2>1 DEF ConflateInv, ConflateOrder
<1>3. ASSUME NEW v \in 1 .. written
      PROVE  Cardinality({i \in DOMAIN read_ : read_[i] = v}) + (IF d_back = v THEN 1 ELSE 0)
               + (IF d_front = v THEN 1 ELSE 0) + (IF v \in freed THEN 1 ELSE 0) = 1
  <2> DEFINE I == {i \in DOMAIN read_ : read_[i] = v}
  <2>1. CASE WasRead(v)
    <3>1. PICK i \in 1 .. Len(read_) : read_[i] = v
      BY <2>1 DEF WasRead
    <3>2. ASSUME NEW j \in 1 .. Len(read_), read_[j] = v PROVE j = i
      <4>1. (i < j => read_[i] < read_[j]) /\ (j < i => read_[j] < read_[i])
        BY DEF ConflateInv, ConflateOrder
      <4>2. v \in Nat /\ i \in Nat /\ j \in Nat
        BY <1>1 DEF ConflateInv, ConflateTypeOK
      <4> QED
        BY <3>1, <3>2, <4>1, <4>2
    <3>3. I = {i}
      BY <1>1, <3>1, <3>2
    <3>4. Cardinality(I) = 1
      BY <3>3, FS_Singleton
    <3>5. d_back # v /\ d_front # v /\ v \notin freed
      BY <2>1 DEF ConflateInv, ConflatePlaces
    <3> QED
      BY <3>4, <3>5
  <2>2. CASE ~ WasRead(v)
    <3>1. I = {}
      BY <1>1, <2>2 DEF WasRead
    <3>2. Cardinality(I) = 0
      BY <3>1, FS_EmptySet
    <3>3. /\ d_back = v \/ d_front = v \/ v \in freed
          /\ d_back = v => d_front # v /\ v \notin freed
          /\ d_front = v => v \notin freed
      BY <2>2 DEF ConflateInv, ConflatePlaces
    <3> QED
      BY <3>2, <3>3
  <2> QED
    BY <2>1, <2>2
<1>4. \A v \in 1 .. written :
        C!Cardinality({i \in DOMAIN read_ : read_[i] = v}) + (IF d_back = v THEN 1 ELSE 0)
          + (IF d_front = v THEN 1 ELSE 0) + (IF v \in freed THEN 1 ELSE 0) = 1
  BY <1>3, SameCardinality, Zenon
<1> QED
  BY <1>2, <1>4, Zenon DEF C!NewerOnce

\* The steps of the writer: the message it overwrites is freed, and the one it
\* swaps in is newer than all that was read.
LEMMA ConflateWrite == ASSUME ConflateInv, C!write PROVE ConflateInv'
<1> USE DEF ConflateInv, C!write, C!move, C!reader
<1>1. ConflateTypeOK' /\ ConflateLock'
  BY DEF ConflateTypeOK, ConflateLock
<1>2. Len(read_) \in Nat /\ \A i \in 1 .. Len(read_) : read_[i] \in Nat
  BY LenProperties, ElementOfSeq DEF ConflateTypeOK
<1>3. ConflateOrder'
  BY <1>2 DEF ConflateTypeOK, ConflateOrder
<1>4. ConflatePlaces'
  <2> SUFFICES ASSUME NEW v \in 1 .. written + 1
               PROVE  /\ d_back' = v \/ d_front = v \/ v \in freed' \/ WasRead(v)
                      /\ d_back' = v => d_front # v /\ v \notin freed' /\ ~ WasRead(v)
                      /\ d_front = v => v \notin freed' /\ ~ WasRead(v)
                      /\ v \in freed' => ~ WasRead(v)
    BY DEF ConflatePlaces, WasRead
  <2>1. CASE v = written + 1
    <3>1. d_front # v /\ v \notin freed /\ d_back # v /\ ~ WasRead(v)
      BY <1>2, <2>1 DEF ConflateTypeOK, ConflateOrder, WasRead
    <3> QED
      BY <2>1, <3>1
  <2>2. CASE v # written + 1
    <3>1. v \in 1 .. written /\ v # 0
      BY <2>2 DEF ConflateTypeOK
    <3> QED
      BY <2>2, <3>1 DEF ConflatePlaces
  <2> QED
    BY <2>1, <2>2
<1> QED
  BY <1>1, <1>3, <1>4

LEMMA ConflateSwap ==
  ASSUME ConflateInv, C!try_lock \/ C!swap \/ C!flush
  PROVE  ConflateInv'
<1> USE DEF ConflateInv, C!reader, ConflateTypeOK, ConflateLock
<1>2. Len(read_) \in Nat /\ \A i \in 1 .. Len(read_) : read_[i] \in Nat
  BY LenProperties, ElementOfSeq
<1>3. CASE C!try_lock
  <2>1. ConflateTypeOK' /\ ConflateLock'
    BY <1>3 DEF C!try_lock
  <2>2. ConflateOrder' /\ ConflatePlaces'
    BY <1>3 DEF C!try_lock, ConflateOrder, ConflatePlaces, WasRead
  <2> QED
    BY <2>1, <2>2
<1>4. CASE C!swap
  <2>0. /\ d_back' = d_front /\ d_front' = d_back /\ has_msg' = TRUE /\ d_sync' = "free"
        /\ d_wpc' = "flush" /\ d_wpc = "swap" /\ UNCHANGED <<written, freed, d_rpc, read_>>
    BY <1>4 DEF C!swap
  <2>1. written > 0 /\ d_back = written /\ d_front < written /\ \A i \in 1 .. Len(read_) : read_[i] < written
    BY <2>0 DEF ConflateOrder
  <2>2. ConflateTypeOK' /\ ConflateLock'
    BY <2>0, <2>1
  <2>3. ConflateOrder'
    BY <1>2, <2>0, <2>1 DEF ConflateOrder
  <2>4. ConflatePlaces'
    BY <2>0 DEF ConflatePlaces, WasRead
  <2> QED
    BY <2>2, <2>3, <2>4
<1>5. CASE C!flush
  <2>1. ConflateTypeOK' /\ ConflateLock'
    BY <1>5 DEF C!flush
  <2>2. ConflateOrder' /\ ConflatePlaces'
    BY <1>5 DEF C!flush, ConflateOrder, ConflatePlaces, WasRead
  <2> QED
    BY <2>1, <2>2
<1> QED
  BY <1>3, <1>4, <1>5

\* The steps of the reader: what it takes is not the message being swapped in,
\* as it holds the lock.
LEMMA ConflateRead ==
  ASSUME ConflateInv, C!wake \/ C!check_read \/ C!read
  PROVE  ConflateInv'
<1> USE DEF ConflateInv, C!writer
<1>2. Len(read_) \in Nat /\ \A i \in 1 .. Len(read_) : read_[i] \in Nat
  BY LenProperties, ElementOfSeq DEF ConflateTypeOK
<1>3. CASE UNCHANGED <<d_back, d_front, has_msg, d_wpc, written, read_, freed>>
  <2>1. ConflateOrder' /\ ConflatePlaces'
    BY <1>3 DEF ConflateOrder, ConflatePlaces, WasRead
  <2>2. ConflateTypeOK' /\ ConflateLock'
    BY <1>3 DEF ConflateTypeOK, ConflateLock, C!wake, C!check_read, C!read, C!lock
  <2> QED
    BY <2>1, <2>2
<1>4. CASE d_rpc = "take" /\ has_msg /\ C!read
  <2>0. /\ d_sync' = "free" /\ d_rpc' = "check_read" /\ read_' = Append(read_, d_front)
        /\ d_front' = 0 /\ has_msg' = FALSE /\ UNCHANGED <<d_back, d_wpc, written, freed>>
    BY <1>4 DEF C!read, C!lock
  <2>1. /\ Len(read_') = Len(read_) + 1 /\ read_' \in Seq(Nat)
        /\ \A i \in 1 .. Len(read_) : read_'[i] = read_[i]
        /\ read_'[Len(read_) + 1] = d_front
    BY <2>0, AppendProperties DEF ConflateTypeOK
  <2>2. ConflateTypeOK' /\ ConflateLock'
    BY <1>4, <2>0, <2>1 DEF ConflateTypeOK, ConflateLock
  <2>3. d_wpc # "swap" /\ d_front # 0
    BY <1>4 DEF ConflateLock
  <2>4. \A i \in 1 .. Len(read_') : i = Len(read_) + 1 \/ i \in 1 .. Len(read_)
    BY <1>2, <2>1
  <2>5. ConflateOrder'
    BY <1>2, <2>0, <2>1, <2>3, <2>4 DEF ConflateOrder, ConflateTypeOK
  <2>6. \A v : WasRead(v)' <=> WasRead(v) \/ v = d_front
    BY <1>2, <2>1, <2>4 DEF WasRead
  <2>7. ConflatePlaces'
    BY <2>0, <2>3, <2>6 DEF ConflatePlaces
  <2> QED
    BY <2>2, <2>5, <2>7
<1> QED
  BY <1>3, <1>4 DEF C!wake, C!check_read, C!read, C!lock

\* What a conflating pipe promises, for any number of messages: the reader gets
\* newer messages only, and each message is read once, freed once or kept.
THEOREM NewerOnceAlways == MCSpec => []NewerOnce
<1> DEFINE Inv == model = "conflate" => ConflateInv
<1>1. MCInit => Inv
  BY InitConflate DEF MCInit
<1>2. Inv /\ [MCNext]_<<model, vars, yqueueVars, mailboxVars, conflateVars, msgVars>> => Inv'
  <2> SUFFICES ASSUME Inv, [MCNext]_<<model, vars, yqueueVars, mailboxVars, conflateVars, msgVars>>,
                      model' = "conflate"
               PROVE  ConflateInv'
    OBVIOUS
  <2>1. model = "conflate" /\ ConflateInv /\ (C!ConflateNext \/ UNCHANGED conflateVars)
    BY DEF MCNext
  <2>2. CASE C!ConflateNext
    BY <2>1, <2>2, ConflateWrite, ConflateSwap, ConflateRead DEF C!ConflateNext
  <2>3. CASE UNCHANGED conflateVars
    BY <2>1, <2>3 DEF conflateVars, ConflateInv, ConflateTypeOK, ConflateLock, ConflateOrder,
                     ConflatePlaces, WasRead
  <2> QED
    BY <2>1, <2>2, <2>3
<1>3. Inv => NewerOnce
  BY ConflateInvSafe DEF NewerOnce
<1> QED
  BY <1>1, <1>2, <1>3, PTL DEF MCSpec

-----------------------------------------------------------------------------
(* Msg.  A heap h, the messages m and the distribution snd under way are   *)
(* parameters, so that a call that releases one content and shares another *)
(* is proved in two steps.                                                 *)

Message ==
  [type : {"invalid", "vsm", "cmsg", "lmsg"}, content : Contents \cup {"none"}, shared : BOOLEAN]
MessagesOK(m) ==
  /\ m \in [Slots -> Message]
  /\ \A s \in Slots : m[s].type = "lmsg" <=> m[s].content \in Contents
SendingOK(snd) ==
  /\ snd \in [from : Slots \cup {"none"}, left : Nat, failed : Nat]
  /\ snd.from = "none" => snd.left = 0 /\ snd.failed = 0
HeapOK(h) ==
  h \in [refcnt : [Contents -> Int], alloc : SUBSET Contents, sound : {TRUE}]

\* The messages with content ct, but for the one that is being distributed,
\* which stands for the pipes still to be written and for those that failed.
Others(m, snd, ct) == {s \in Slots : m[s].content = ct /\ s # snd.from}
Share(m, snd, ct) ==
  IF snd.from \in Slots /\ m[snd.from].content = ct THEN snd.left + snd.failed ELSE 0
Live(m, snd, ct) == Cardinality(Others(m, snd, ct)) + Share(m, snd, ct)
Owner(m, snd, s, ct) == m[s].content = ct /\ (s # snd.from \/ snd.left + snd.failed > 0)

\* A content is allocated while it has references; they are counted, or there
\* is one and its message is not marked as shared.
AllShared(m, snd, ct) == \A s \in Slots : Owner(m, snd, s, ct) => m[s].shared = TRUE
NoneShared(m, snd, ct) == \A s \in Slots : Owner(m, snd, s, ct) => m[s].shared = FALSE
Kept(h, m, snd, ct) ==
  /\ ct \notin h.alloc => Live(m, snd, ct) = 0
  /\ ct \in h.alloc => /\ Live(m, snd, ct) >= 1
                      /\ \/ AllShared(m, snd, ct) /\ h.refcnt[ct] = Live(m, snd, ct)
                         \/ NoneShared(m, snd, ct) /\ Live(m, snd, ct) = 1

MsgOK(h, m, snd) ==
  /\ HeapOK(h) /\ MessagesOK(m) /\ SendingOK(snd)
  /\ \A ct \in Contents : Kept(h, m, snd, ct)

\* The message that is distributed is not an empty one.
MsgInv ==
  /\ MsgOK(M!Heap, msg, sending)
  /\ sending.from \in Slots => msg[sending.from].type \in {"cmsg", "lmsg"}

\* Counting the references to a content.
LEMMA LiveCount ==
  ASSUME NEW m, NEW snd, SendingOK(snd), NEW ct
  PROVE  /\ IsFiniteSet(Others(m, snd, ct)) /\ Cardinality(Others(m, snd, ct)) \in Nat
         /\ Share(m, snd, ct) \in Nat /\ Live(m, snd, ct) \in Nat
         /\ \A s \in Slots : Owner(m, snd, s, ct) => Live(m, snd, ct) >= 1
<1>1. IsFiniteSet(Others(m, snd, ct)) /\ Cardinality(Others(m, snd, ct)) \in Nat
  BY QueuesAssumption, FS_Subset, FS_CardinalityType DEF Others
<1>2. Share(m, snd, ct) \in Nat
  BY DEF Share, SendingOK
<1>3. ASSUME NEW s \in Slots, Owner(m, snd, s, ct) PROVE Live(m, snd, ct) >= 1
  <2>1. CASE s = snd.from
    BY <1>1, <1>2, <1>3, <2>1 DEF Live, Share, Owner
  <2>2. CASE s # snd.from
    <3>1. Others(m, snd, ct) # {}
      BY <1>3, <2>2 DEF Others, Owner
    <3>2. Cardinality(Others(m, snd, ct)) # 0
      BY <1>1, <3>1, FS_EmptySet
    <3> QED
      BY <1>1, <1>2, <3>2 DEF Live
  <2> QED
    BY <2>1, <2>2
<1> QED
  BY <1>1, <1>2, <1>3 DEF Live

\* A message that is somebody's refers to an allocated content.
LEMMA OwnedAllocated ==
  ASSUME NEW h, NEW m, NEW snd, MsgOK(h, m, snd), NEW s \in Slots, NEW ct \in Contents,
         Owner(m, snd, s, ct)
  PROVE  /\ ct \in h.alloc /\ Live(m, snd, ct) >= 1
         /\ m[s].shared = TRUE => h.refcnt[ct] = Live(m, snd, ct) /\ AllShared(m, snd, ct)
         /\ m[s].shared = FALSE => Live(m, snd, ct) = 1 /\ NoneShared(m, snd, ct)
<1>1. Live(m, snd, ct) >= 1 /\ Live(m, snd, ct) \in Nat
  BY LiveCount DEF MsgOK
<1>2. Kept(h, m, snd, ct)
  BY DEF MsgOK
<1> QED
  BY <1>1, <1>2 DEF Kept, AllShared, NoneShared

\* What sub and shares do to the heap.
LEMMA SubHeap ==
  ASSUME NEW h, HeapOK(h), NEW ct \in Contents, ct \in h.alloc, NEW n \in Int
  PROVE  /\ HeapOK(M!sub(h, ct, n)) /\ M!sub(h, ct, n).refcnt[ct] = h.refcnt[ct] - n
         /\ M!sub(h, ct, n).alloc = IF h.refcnt[ct] - n = 0 THEN h.alloc \ {ct} ELSE h.alloc
         /\ \A d \in Contents : d # ct => M!sub(h, ct, n).refcnt[d] = h.refcnt[d]
<1> DEFINE k == h.refcnt[ct] - n
           f1 == [h.refcnt EXCEPT ![ct] = k]
           a1 == IF k = 0 THEN h.alloc \ {ct} ELSE h.alloc
<1>0. h.refcnt \in [Contents -> Int] /\ h.alloc \in SUBSET Contents /\ h.sound = TRUE
  BY DEF HeapOK
<1>1. k \in Int /\ h.refcnt \in [Contents -> Int] /\ h.alloc \in SUBSET Contents /\ h.sound = TRUE
  BY <1>0
<1>2. M!sub(h, ct, n) = [h EXCEPT !.sound = h.sound /\ ct \in h.alloc, !.refcnt = f1, !.alloc = a1]
  BY DEF M!sub, HeapOK
<1>3. f1 \in [Contents -> Int] /\ f1[ct] = k /\ \A d \in Contents : d # ct => f1[d] = h.refcnt[d]
  BY <1>1
<1>4. a1 \in SUBSET Contents
  BY <1>1
<1> HIDE DEF k, f1, a1
<1>5. M!sub(h, ct, n) = [refcnt |-> f1, alloc |-> a1, sound |-> TRUE]
  BY <1>1, <1>2 DEF HeapOK
<1> QED
  BY <1>3, <1>4, <1>5 DEF HeapOK, k, a1

LEMMA SharesHeap ==
  ASSUME NEW h, HeapOK(h), NEW v \in Message, v.type = "lmsg", v.content \in h.alloc,
         NEW n \in Int
  PROVE  /\ HeapOK(M!shares(h, v, n)) /\ M!shares(h, v, n).alloc = h.alloc
         /\ v.shared = TRUE => M!shares(h, v, n).refcnt[v.content] = h.refcnt[v.content] + n
         /\ v.shared = FALSE => M!shares(h, v, n).refcnt[v.content] = n + 1
         /\ \A d \in Contents : d # v.content => M!shares(h, v, n).refcnt[d] = h.refcnt[d]
<1> DEFINE ct == v.content
           k == IF v.shared THEN h.refcnt[ct] + n ELSE n + 1
           f1 == [h.refcnt EXCEPT ![ct] = k]
<1>1. /\ h.refcnt \in [Contents -> Int] /\ h.alloc \in SUBSET Contents /\ h.sound = TRUE
      /\ ct \in Contents
  BY DEF HeapOK
<1>2. k \in Int
  BY <1>1
<1>3. M!shares(h, v, n) = [h EXCEPT !.sound = h.sound /\ ct \in h.alloc, !.refcnt = f1]
  BY DEF M!shares, HeapOK
<1>4. f1 \in [Contents -> Int] /\ f1[ct] = k /\ \A d \in Contents : d # ct => f1[d] = h.refcnt[d]
  BY <1>1, <1>2
<1>5. (v.shared = TRUE => k = h.refcnt[ct] + n) /\ (v.shared = FALSE => k = n + 1)
  OBVIOUS
<1> HIDE DEF k, f1
<1>6. M!shares(h, v, n) = [refcnt |-> f1, alloc |-> h.alloc, sound |-> TRUE]
  BY <1>1, <1>3 DEF HeapOK
<1> QED
  BY <1>1, <1>4, <1>5, <1>6 DEF HeapOK

\* Closing a message that is not being distributed: its content loses a
\* reference, and is freed with the last one.
LEMMA Released ==
  ASSUME NEW h, NEW m, NEW snd, MsgOK(h, m, snd), NEW s \in Slots, s # snd.from,
         NEW v \in Message, v.type # "lmsg", v.content = "none"
  PROVE  MsgOK(M!release(h, m[s]), [m EXCEPT ![s] = v], snd)
<1> DEFINE m1 == [m EXCEPT ![s] = v]
           h1 == M!release(h, m[s])
           ct == m[s].content
<1>0. /\ HeapOK(h) /\ MessagesOK(m) /\ SendingOK(snd) /\ "none" \notin Contents
      /\ \A d \in Contents : Kept(h, m, snd, d)
  BY QueuesAssumption DEF MsgOK
<1>1. /\ m1 \in [Slots -> Message] /\ m1[s] = v /\ \A t \in Slots : t # s => m1[t] = m[t]
  BY <1>0 DEF MessagesOK
<1>2. MessagesOK(m1)
  BY <1>0, <1>1 DEF MessagesOK
<1>3. ASSUME NEW d \in Contents, d # ct
      PROVE  /\ Live(m1, snd, d) = Live(m, snd, d)
             /\ \A t \in Slots : Owner(m1, snd, t, d) => Owner(m, snd, t, d) /\ m1[t] = m[t]
  <2>1. Others(m1, snd, d) = Others(m, snd, d)
    BY <1>0, <1>1, <1>3 DEF Others
  <2>2. Share(m1, snd, d) = Share(m, snd, d)
    BY <1>1 DEF Share
  <2> QED
    BY <1>0, <1>1, <1>3, <2>1, <2>2 DEF Live, Owner
<1> HIDE DEF m1
<1>4. CASE m[s].type # "lmsg"
  <2>1. h1 = h /\ ct \notin Contents
    BY <1>0, <1>4 DEF M!release, MessagesOK
  <2>2. \A d \in Contents : Kept(h, m1, snd, d)
    BY <1>0, <1>3, <2>1 DEF Kept, AllShared, NoneShared
  <2> QED
    BY <1>0, <1>2, <2>1, <2>2 DEF MsgOK, m1
<1>5. CASE m[s].type = "lmsg"
  <2>1. ct \in Contents /\ Owner(m, snd, s, ct)
    BY <1>0, <1>5 DEF MessagesOK, Owner
  <2>2. /\ ct \in h.alloc /\ Live(m, snd, ct) >= 1
        /\ m[s].shared = TRUE => h.refcnt[ct] = Live(m, snd, ct) /\ AllShared(m, snd, ct)
        /\ m[s].shared = FALSE => Live(m, snd, ct) = 1 /\ NoneShared(m, snd, ct)
    BY <2>1, OwnedAllocated
  <2>3. Live(m1, snd, ct) = Live(m, snd, ct) - 1
    <3>1. Others(m1, snd, ct) = Others(m, snd, ct) \ {s} /\ s \in Others(m, snd, ct)
      BY <1>0, <1>1, <2>1 DEF Others, Owner
    <3>2. Share(m1, snd, ct) = Share(m, snd, ct)
      BY <1>1 DEF Share
    <3>3. /\ IsFiniteSet(Others(m, snd, ct)) /\ Cardinality(Others(m, snd, ct)) \in Nat
          /\ Share(m, snd, ct) \in Nat
      BY <1>0, LiveCount
    <3>4. Cardinality(Others(m, snd, ct) \ {s}) = Cardinality(Others(m, snd, ct)) - 1
      BY <3>1, <3>3, FS_RemoveElement
    <3> QED
      BY <3>1, <3>2, <3>3, <3>4 DEF Live
  <2>4. \A t \in Slots : Owner(m1, snd, t, ct) => Owner(m, snd, t, ct) /\ m1[t] = m[t]
    BY <1>0, <1>1, <2>1 DEF Owner
  <2>5. m[s].shared \in BOOLEAN /\ Live(m, snd, ct) \in Nat
    BY <1>0, LiveCount DEF MessagesOK, Message
  <2>6. CASE m[s].shared = TRUE
    <3>1. /\ HeapOK(h1) /\ h1.refcnt[ct] = h.refcnt[ct] - 1
          /\ h1.alloc = IF h.refcnt[ct] - 1 = 0 THEN h.alloc \ {ct} ELSE h.alloc
          /\ \A d \in Contents : d # ct => h1.refcnt[d] = h.refcnt[d]
      <4>1. h1 = M!sub(h, ct, 1)
        BY <1>5, <2>6 DEF M!release
      <4> HIDE DEF ct, h1
      <4>2. 1 \in Int
        OBVIOUS
      <4>3. /\ HeapOK(M!sub(h, ct, 1)) /\ M!sub(h, ct, 1).refcnt[ct] = h.refcnt[ct] - 1
            /\ M!sub(h, ct, 1).alloc = IF h.refcnt[ct] - 1 = 0 THEN h.alloc \ {ct} ELSE h.alloc
            /\ \A d \in Contents : d # ct => M!sub(h, ct, 1).refcnt[d] = h.refcnt[d]
        BY <1>0, <2>1, <2>2, <4>2, SubHeap, Zenon
      <4> QED
        BY <4>1, <4>3
    <3> HIDE DEF h1
    <3>2. Kept(h1, m1, snd, ct)
      BY <2>2, <2>3, <2>4, <2>5, <2>6, <3>1 DEF Kept, AllShared
    <3>3. \A d \in Contents : d # ct => Kept(h1, m1, snd, d)
      BY <1>0, <1>3, <3>1 DEF Kept, AllShared, NoneShared
    <3> QED
      BY <1>0, <1>2, <3>1, <3>2, <3>3 DEF MsgOK, m1, h1
  <2>7. CASE m[s].shared = FALSE
    <3>1. HeapOK(h1) /\ h1.refcnt = h.refcnt /\ h1.alloc = h.alloc \ {ct}
      BY <1>0, <1>5, <2>1, <2>2, <2>7 DEF M!release, HeapOK
    <3> HIDE DEF h1
    <3>2. Kept(h1, m1, snd, ct)
      BY <2>2, <2>3, <2>7, <3>1 DEF Kept
    <3>3. \A d \in Contents : d # ct => Kept(h1, m1, snd, d)
      BY <1>0, <1>3, <3>1 DEF Kept, AllShared, NoneShared
    <3> QED
      BY <1>0, <1>2, <3>1, <3>2, <3>3 DEF MsgOK, m1, h1
  <2> QED
    BY <2>5, <2>6, <2>7
<1> QED
  BY <1>4, <1>5

\* A content that a call leaves alone.
LEMMA KeptSame ==
  ASSUME NEW h, NEW m, NEW snd, NEW h1, NEW m1, NEW snd1, NEW d, Kept(h, m, snd, d),
         d \in h1.alloc <=> d \in h.alloc, h1.refcnt[d] = h.refcnt[d],
         Live(m1, snd1, d) = Live(m, snd, d),
         \A t \in Slots : Owner(m1, snd1, t, d) =>
           \E u \in Slots : Owner(m, snd, u, d) /\ m1[t].shared = m[u].shared
  PROVE  Kept(h1, m1, snd1, d)
  BY DEF Kept, AllShared, NoneShared

\* The messages without a counted content.
LEMMA EmptyMessages ==
  /\ M!Vsm \in Message /\ M!Vsm.type = "vsm" /\ M!Vsm.content = "none"
  /\ M!Invalid \in Message /\ M!Invalid.type = "invalid" /\ M!Invalid.content = "none"
  /\ [M!Invalid EXCEPT !.type = "cmsg"] \in Message
  /\ [M!Invalid EXCEPT !.type = "cmsg"].type = "cmsg"
  /\ [M!Invalid EXCEPT !.type = "cmsg"].content = "none"
<1>1. /\ M!Invalid \in Message /\ M!Invalid.type = "invalid" /\ M!Invalid.content = "none"
  BY DEF M!Invalid, M!NoContent, Message
<1>2. ASSUME NEW t \in {"vsm", "cmsg"}
      PROVE  /\ [M!Invalid EXCEPT !.type = t] \in Message /\ [M!Invalid EXCEPT !.type = t].type = t
             /\ [M!Invalid EXCEPT !.type = t].content = "none"
  BY <1>1 DEF Message
<1> QED
  BY <1>1, <1>2 DEF M!Vsm

\* move () to an empty message: the content changes its message.
LEMMA Moved ==
  ASSUME NEW h, NEW m, NEW snd, MsgOK(h, m, snd), NEW s \in Slots, NEW src \in Slots,
         s # src, s # snd.from, src # snd.from, m[s].content = "none"
  PROVE  MsgOK(h, [m EXCEPT ![s] = m[src], ![src] = M!Vsm], snd)
<1> DEFINE m1 == [m EXCEPT ![s] = m[src], ![src] = M!Vsm]
<1>0. /\ HeapOK(h) /\ MessagesOK(m) /\ SendingOK(snd) /\ "none" \notin Contents
      /\ \A d \in Contents : Kept(h, m, snd, d)
  BY QueuesAssumption DEF MsgOK
<1>1. M!Vsm \in Message /\ M!Vsm.type = "vsm" /\ M!Vsm.content = "none"
  BY EmptyMessages
<1>2. /\ m1 \in [Slots -> Message] /\ m1[s] = m[src] /\ m1[src].content = "none"
      /\ m1[src].type = "vsm" /\ \A t \in Slots : t # s /\ t # src => m1[t] = m[t]
  BY <1>0, <1>1 DEF MessagesOK, Message
<1> HIDE DEF m1
<1>3. MessagesOK(m1)
  BY <1>0, <1>2 DEF MessagesOK
<1>4. ASSUME NEW d \in Contents PROVE Kept(h, m1, snd, d)
  <2>1. Share(m1, snd, d) = Share(m, snd, d)
    BY <1>2 DEF Share
  <2>2. /\ IsFiniteSet(Others(m, snd, d)) /\ Cardinality(Others(m, snd, d)) \in Nat
        /\ Share(m, snd, d) \in Nat
    BY <1>0, LiveCount
  <2>3. Cardinality(Others(m1, snd, d)) = Cardinality(Others(m, snd, d))
    <3>1. CASE m[src].content = d
      <4> DEFINE R == Others(m, snd, d) \ {src}
      <4>1. src \in Others(m, snd, d) /\ s \notin R
        BY <1>0, <3>1 DEF Others
      <4>2. Others(m1, snd, d) = R \cup {s}
        BY <1>0, <1>2, <3>1 DEF Others
      <4>3. IsFiniteSet(R) /\ Cardinality(R) = Cardinality(Others(m, snd, d)) - 1
        BY <2>2, <4>1, FS_RemoveElement
      <4> HIDE DEF R
      <4>4. Cardinality(R \cup {s}) = Cardinality(R) + 1
        BY <4>1, <4>3, FS_AddElement
      <4> QED
        BY <2>2, <4>2, <4>3, <4>4
    <3>2. CASE m[src].content # d
      <4>1. Others(m1, snd, d) = Others(m, snd, d)
        BY <1>0, <1>2, <3>2 DEF Others
      <4> QED
        BY <4>1
    <3> QED
      BY <3>1, <3>2
  <2>4. Live(m1, snd, d) = Live(m, snd, d)
    BY <2>1, <2>3 DEF Live
  <2>5. ASSUME NEW t \in Slots, Owner(m1, snd, t, d)
        PROVE  \E u \in Slots : Owner(m, snd, u, d) /\ m1[t].shared = m[u].shared
    <3>1. t # src
      BY <1>0, <1>2, <2>5 DEF Owner
    <3>2. CASE t = s
      <4>1. Owner(m, snd, src, d) /\ m1[t].shared = m[src].shared
        BY <1>2, <2>5, <3>2 DEF Owner
      <4> QED
        BY <4>1
    <3>3. CASE t # s
      <4>1. Owner(m, snd, t, d) /\ m1[t].shared = m[t].shared
        BY <1>2, <2>5, <3>1, <3>3 DEF Owner
      <4> QED
        BY <4>1
    <3> QED
      BY <3>2, <3>3
  <2>6. Kept(h, m, snd, d)
    BY <1>0
  <2> QED
    BY <2>4, <2>5, <2>6, KeptSame
<1> QED
  BY <1>0, <1>3, <1>4 DEF MsgOK, m1

LEMMA MarkedShared ==
  ASSUME NEW v \in Message
  PROVE  /\ M!AsShared(v) \in Message /\ M!AsShared(v).content = v.content
         /\ M!AsShared(v).type = v.type
         /\ v.type = "lmsg" => M!AsShared(v).shared = TRUE
         /\ v.type # "lmsg" => M!AsShared(v) = v
  BY DEF M!AsShared, Message

\* copy () to an empty message: the content gets a reference, and both messages
\* are marked as shared.
LEMMA Copied ==
  ASSUME NEW h, NEW m, NEW snd, MsgOK(h, m, snd), NEW s \in Slots, NEW src \in Slots,
         s # src, s # snd.from, src # snd.from, m[s].content = "none"
  PROVE  MsgOK(M!shares(h, m[src], 1),
               [m EXCEPT ![s] = M!AsShared(m[src]), ![src] = M!AsShared(m[src])], snd)
<1> DEFINE v == M!AsShared(m[src])
           m1 == [m EXCEPT ![s] = v, ![src] = v]
           ct == m[src].content
           h1 == M!shares(h, m[src], 1)
<1>0. /\ HeapOK(h) /\ MessagesOK(m) /\ SendingOK(snd) /\ "none" \notin Contents
      /\ \A d \in Contents : Kept(h, m, snd, d)
  BY QueuesAssumption DEF MsgOK
<1>1. /\ v \in Message /\ v.content = ct /\ v.type = m[src].type
      /\ m[src].type = "lmsg" => v.shared = TRUE
      /\ m[src].type # "lmsg" => v = m[src]
  BY <1>0, MarkedShared DEF MessagesOK
<1> HIDE DEF v
<1>2. /\ m1 \in [Slots -> Message] /\ m1[s] = v /\ m1[src] = v
      /\ \A t \in Slots : t # s /\ t # src => m1[t] = m[t]
  BY <1>0, <1>1 DEF MessagesOK
<1> HIDE DEF m1
<1>3. MessagesOK(m1)
  BY <1>0, <1>1, <1>2 DEF MessagesOK
<1>4. ASSUME NEW d \in Contents, d # ct
      PROVE  /\ Live(m1, snd, d) = Live(m, snd, d)
             /\ \A t \in Slots : Owner(m1, snd, t, d) => Owner(m, snd, t, d) /\ m1[t] = m[t]
  <2>1. Others(m1, snd, d) = Others(m, snd, d)
    BY <1>0, <1>1, <1>2, <1>4 DEF Others
  <2>2. Share(m1, snd, d) = Share(m, snd, d)
    BY <1>2 DEF Share
  <2> QED
    BY <1>0, <1>1, <1>2, <1>4, <2>1, <2>2 DEF Live, Owner
<1>5. CASE m[src].type # "lmsg"
  <2>1. h1 = h /\ ct \notin Contents
    BY <1>0, <1>5 DEF M!shares, MessagesOK
  <2>2. \A d \in Contents : Kept(h, m1, snd, d)
    BY <1>0, <1>4, <2>1, KeptSame
  <2> QED
    BY <1>0, <1>3, <2>1, <2>2 DEF MsgOK, m1, v
<1>6. CASE m[src].type = "lmsg"
  <2>1. ct \in Contents /\ Owner(m, snd, src, ct) /\ m[src] \in Message /\ m[src].shared \in BOOLEAN
    BY <1>0, <1>6 DEF MessagesOK, Owner, Message
  <2>2. /\ ct \in h.alloc /\ Live(m, snd, ct) >= 1
        /\ m[src].shared = TRUE => h.refcnt[ct] = Live(m, snd, ct) /\ AllShared(m, snd, ct)
        /\ m[src].shared = FALSE => Live(m, snd, ct) = 1 /\ NoneShared(m, snd, ct)
    BY <2>1, OwnedAllocated
  <2>3. 1 \in Int
    OBVIOUS
  <2>4. /\ HeapOK(h1) /\ h1.alloc = h.alloc
        /\ m[src].shared = TRUE => h1.refcnt[ct] = h.refcnt[ct] + 1
        /\ m[src].shared = FALSE => h1.refcnt[ct] = 1 + 1
        /\ \A d \in Contents : d # ct => h1.refcnt[d] = h.refcnt[d]
    BY <1>0, <1>6, <2>1, <2>2, <2>3, SharesHeap, Zenon
  <2> HIDE DEF h1
  <2>5. /\ IsFiniteSet(Others(m, snd, ct)) /\ Cardinality(Others(m, snd, ct)) \in Nat
        /\ Share(m, snd, ct) \in Nat /\ Live(m, snd, ct) \in Nat
    BY <1>0, LiveCount
  <2>6. Live(m1, snd, ct) = Live(m, snd, ct) + 1
    <3>1. s \notin Others(m, snd, ct) /\ Others(m1, snd, ct) = Others(m, snd, ct) \cup {s}
      BY <1>0, <1>1, <1>2, <2>1 DEF Others
    <3>2. Share(m1, snd, ct) = Share(m, snd, ct)
      BY <1>2 DEF Share
    <3>3. Cardinality(Others(m, snd, ct) \cup {s}) = Cardinality(Others(m, snd, ct)) + 1
      BY <2>5, <3>1, FS_AddElement
    <3> QED
      BY <2>5, <3>1, <3>2, <3>3 DEF Live
  <2>7. h1.refcnt[ct] = Live(m1, snd, ct)
    BY <2>1, <2>2, <2>4, <2>5, <2>6
  <2>8. AllShared(m1, snd, ct)
    <3> SUFFICES ASSUME NEW t \in Slots, Owner(m1, snd, t, ct) PROVE m1[t].shared = TRUE
      BY DEF AllShared
    <3>1. CASE t \in {s, src}
      BY <1>1, <1>2, <1>6, <3>1
    <3>2. CASE t \notin {s, src}
      <4>1. Owner(m, snd, t, ct) /\ m1[t] = m[t]
        BY <1>2, <3>2 DEF Owner
      <4>2. CASE m[src].shared = TRUE
        BY <2>2, <4>1, <4>2 DEF AllShared
      <4>3. CASE m[src].shared = FALSE
        <5>1. Live(m, snd, ct) = 1
          BY <2>2, <4>3
        <5>2. src \in Others(m, snd, ct)
          BY <2>1 DEF Others, Owner
        <5>3. Cardinality(Others(m, snd, ct)) # 0
          BY <2>5, <5>2, FS_EmptySet
        <5>4. Cardinality(Others(m, snd, ct)) = 1 /\ Share(m, snd, ct) = 0
          BY <2>5, <5>1, <5>3 DEF Live
        <5>5. Others(m, snd, ct) = {src}
          BY <2>5, <5>2, <5>4, FS_Singleton
        <5>6. t # snd.from
          BY <4>1, <5>4, <1>0 DEF Owner, Share, SendingOK
        <5>7. t \in Others(m, snd, ct)
          BY <4>1, <5>6 DEF Others, Owner
        <5> QED
          BY <3>2, <5>5, <5>7
      <4> QED
        BY <2>1, <4>2, <4>3
    <3> QED
      BY <3>1, <3>2
  <2>9. Kept(h1, m1, snd, ct)
    BY <2>2, <2>4, <2>5, <2>6, <2>7, <2>8 DEF Kept
  <2>10. \A d \in Contents : d # ct => Kept(h1, m1, snd, d)
    BY <1>0, <1>4, <2>4, KeptSame
  <2> QED
    BY <1>0, <1>3, <2>4, <2>9, <2>10 DEF MsgOK, m1, v, h1
<1> QED
  BY <1>5, <1>6

\* dist_t::distribute begins: the message stands for n references.
LEMMA Begun ==
  ASSUME NEW h, NEW m, MsgOK(h, m, M!NotSending), NEW s \in Slots, NEW n \in Nat \ {0},
         NEW snd, snd = [from |-> s, left |-> n, failed |-> 0]
  PROVE  MsgOK(M!add_refs(h, m[s], n - 1),
               [m EXCEPT ![s] = IF n > 1 THEN M!AsShared(m[s]) ELSE m[s]], snd)
<1> DEFINE old == M!NotSending
           v == IF n > 1 THEN M!AsShared(m[s]) ELSE m[s]
           m1 == [m EXCEPT ![s] = v]
           ct == m[s].content
           h1 == M!add_refs(h, m[s], n - 1)
<1>0. /\ HeapOK(h) /\ MessagesOK(m) /\ SendingOK(old) /\ "none" \notin Contents
      /\ \A d \in Contents : Kept(h, m, old, d)
  BY QueuesAssumption DEF MsgOK
<1>1. old.from = "none" /\ "none" \notin Slots
  BY QueuesAssumption DEF M!NotSending, M!NoContent
<1>2. SendingOK(snd) /\ snd.from = s /\ snd.left + snd.failed = n
  BY <1>1 DEF SendingOK
<1>3. /\ v \in Message /\ v.content = ct /\ v.type = m[s].type
      /\ n > 1 /\ m[s].type = "lmsg" => v.shared = TRUE
      /\ n = 1 => v.shared = m[s].shared
  <2>1. m[s] \in Message
    BY <1>0 DEF MessagesOK
  <2>2. CASE n > 1
    <3>1. v = M!AsShared(m[s]) /\ n # 1
      BY <2>2
    <3> HIDE DEF v
    <3> QED
      BY <2>1, <3>1, MarkedShared
  <2>3. CASE ~ (n > 1)
    <3>1. v = m[s]
      BY <2>3
    <3> HIDE DEF v
    <3> QED
      BY <2>1, <2>3, <3>1
  <2> QED
    BY <2>2, <2>3
<1> HIDE DEF v, old
<1>4. m1 \in [Slots -> Message] /\ m1[s] = v /\ \A t \in Slots : t # s => m1[t] = m[t]
  BY <1>0, <1>3 DEF MessagesOK
<1> HIDE DEF m1
<1>5. MessagesOK(m1)
  BY <1>0, <1>3, <1>4 DEF MessagesOK
<1>6. ASSUME NEW d \in Contents, d # ct
      PROVE  /\ Live(m1, snd, d) = Live(m, old, d)
             /\ \A t \in Slots : Owner(m1, snd, t, d) => Owner(m, old, t, d) /\ m1[t] = m[t]
  <2>1. Others(m1, snd, d) = Others(m, old, d)
    BY <1>1, <1>2, <1>3, <1>4, <1>6 DEF Others
  <2>2. Share(m1, snd, d) = 0 /\ Share(m, old, d) = 0
    BY <1>1, <1>2, <1>3, <1>4, <1>6 DEF Share
  <2> QED
    BY <1>1, <1>2, <1>3, <1>4, <1>6, <2>1, <2>2 DEF Live, Owner
<1>7. CASE m[s].type # "lmsg"
  <2>1. h1 = h /\ ct \notin Contents
    BY <1>0, <1>7 DEF M!add_refs, M!shares, MessagesOK
  <2>2. \A d \in Contents : Kept(h, m1, snd, d)
    BY <1>0, <1>6, <2>1, KeptSame
  <2> QED
    BY <1>0, <1>2, <1>5, <2>1, <2>2 DEF MsgOK, m1, v
<1>8. CASE m[s].type = "lmsg"
  <2>1. ct \in Contents /\ Owner(m, old, s, ct) /\ m[s] \in Message /\ m[s].shared \in BOOLEAN
    BY <1>0, <1>1, <1>8 DEF MessagesOK, Owner, Message
  <2>2. /\ ct \in h.alloc /\ Live(m, old, ct) >= 1
        /\ m[s].shared = TRUE => h.refcnt[ct] = Live(m, old, ct) /\ AllShared(m, old, ct)
        /\ m[s].shared = FALSE => Live(m, old, ct) = 1 /\ NoneShared(m, old, ct)
    BY <2>1, OwnedAllocated DEF old
  <2>3. /\ IsFiniteSet(Others(m, old, ct)) /\ Cardinality(Others(m, old, ct)) \in Nat
        /\ Share(m, old, ct) \in Nat /\ Live(m, old, ct) \in Nat
    BY <1>0, LiveCount
  <2>4. Live(m1, snd, ct) = Live(m, old, ct) - 1 + n
    <3>1. s \in Others(m, old, ct) /\ Others(m1, snd, ct) = Others(m, old, ct) \ {s}
      BY <1>1, <1>2, <1>4 DEF Others
    <3>2. Share(m1, snd, ct) = n /\ Share(m, old, ct) = 0
      BY <1>1, <1>2, <1>3, <1>4 DEF Share
    <3>3. Cardinality(Others(m, old, ct) \ {s}) = Cardinality(Others(m, old, ct)) - 1
      BY <2>3, <3>1, FS_RemoveElement
    <3>4. Live(m1, snd, ct) = (Cardinality(Others(m, old, ct)) - 1) + n
      BY <3>1, <3>2, <3>3 DEF Live
    <3>5. Live(m, old, ct) = Cardinality(Others(m, old, ct))
      BY <2>3, <3>2 DEF Live
    <3> QED
      BY <2>3, <3>4, <3>5
  <2>5. \A t \in Slots : Owner(m1, snd, t, ct) /\ t # s => Owner(m, old, t, ct) /\ m1[t] = m[t]
    BY <1>1, <1>4 DEF Owner
  <2>6. CASE n = 1
    <3>1. h1 = h /\ m1[s].shared = m[s].shared
      BY <1>3, <1>4, <2>6 DEF M!add_refs
    <3>2. Kept(h, m, old, ct) /\ Live(m1, snd, ct) = Live(m, old, ct)
      BY <1>0, <2>1, <2>3, <2>4, <2>6
    <3>3. Kept(h1, m1, snd, ct)
      BY <2>1, <2>5, <3>1, <3>2, KeptSame
    <3>4. \A d \in Contents : d # ct => Kept(h1, m1, snd, d)
      BY <1>0, <1>6, <3>1, KeptSame
    <3> QED
      BY <1>0, <1>2, <1>5, <3>1, <3>3, <3>4 DEF MsgOK, m1, v
  <2>7. CASE n > 1
    <3>1. n - 1 \in Int /\ n - 1 # 0 /\ (n - 1) + 1 = n
      BY <2>7
    <3>2. h1 = M!shares(h, m[s], n - 1)
      BY <3>1 DEF M!add_refs
    <3>3. /\ HeapOK(h1) /\ h1.alloc = h.alloc
          /\ m[s].shared = TRUE => h1.refcnt[ct] = h.refcnt[ct] + (n - 1)
          /\ m[s].shared = FALSE => h1.refcnt[ct] = (n - 1) + 1
          /\ \A d \in Contents : d # ct => h1.refcnt[d] = h.refcnt[d]
      <4> HIDE DEF h1
      <4>1. PICK k \in Int : k = n - 1
        BY <3>1
      <4>2. /\ HeapOK(M!shares(h, m[s], k)) /\ M!shares(h, m[s], k).alloc = h.alloc
            /\ m[s].shared = TRUE => M!shares(h, m[s], k).refcnt[ct] = h.refcnt[ct] + k
            /\ m[s].shared = FALSE => M!shares(h, m[s], k).refcnt[ct] = k + 1
            /\ \A d \in Contents : d # ct => M!shares(h, m[s], k).refcnt[d] = h.refcnt[d]
        BY <1>0, <1>8, <2>1, <2>2, SharesHeap, Zenon
      <4> QED
        BY <3>2, <4>1, <4>2
    <3> HIDE DEF h1
    <3>4. h1.refcnt[ct] = Live(m1, snd, ct) /\ Live(m1, snd, ct) >= 1
      BY <2>1, <2>2, <2>3, <2>4, <2>7, <3>1, <3>3
    <3>5. ASSUME NEW t \in Slots, Owner(m1, snd, t, ct) PROVE m1[t].shared = TRUE
      <4>1. CASE t = s
        BY <1>3, <1>4, <1>8, <2>7, <4>1
      <4>2. CASE t # s
        <5>1. Owner(m, old, t, ct) /\ m1[t] = m[t] /\ {s, t} \subseteq Others(m, old, ct)
          BY <1>1, <2>1, <2>5, <3>5, <4>2 DEF Others, Owner
        <5>2. CASE m[s].shared = TRUE
          BY <2>2, <5>1, <5>2 DEF AllShared
        <5>3. CASE m[s].shared = FALSE
          <6>1. Live(m, old, ct) = 1 /\ Share(m, old, ct) = 0
            BY <1>1, <2>2, <5>3 DEF Share
          <6>2. Cardinality(Others(m, old, ct)) = 1
            BY <2>3, <6>1 DEF Live
          <6>3. PICK x : Others(m, old, ct) = {x}
            BY <2>3, <6>2, FS_Singleton
          <6> QED
            BY <4>2, <5>1, <6>3
        <5> QED
          BY <2>1, <5>2, <5>3
      <4> QED
        BY <4>1, <4>2
    <3>6. Kept(h1, m1, snd, ct)
      BY <2>2, <3>3, <3>4, <3>5 DEF Kept, AllShared
    <3>7. \A d \in Contents : d # ct => Kept(h1, m1, snd, d)
      BY <1>0, <1>6, <3>3, KeptSame
    <3> QED
      BY <1>0, <1>2, <1>5, <3>3, <3>6, <3>7 DEF MsgOK, m1, v, h1
  <2> QED
    BY <2>6, <2>7
<1> QED
  BY <1>7, <1>8

\* pipe_t::write: the pipe's message takes over one of the references that the
\* message under distribution stands for.
LEMMA Passed ==
  ASSUME NEW h, NEW m, NEW snd, MsgOK(h, m, snd), snd.from \in Slots, snd.left > 0,
         NEW s \in Slots, s # snd.from, m[s].content = "none",
         NEW snd1, snd1 = [snd EXCEPT !.left = snd.left - 1]
  PROVE  MsgOK(h, [m EXCEPT ![s] = m[snd.from]], snd1)
<1> DEFINE m1 == [m EXCEPT ![s] = m[snd.from]]
           ct == m[snd.from].content
<1>0. /\ HeapOK(h) /\ MessagesOK(m) /\ SendingOK(snd) /\ "none" \notin Contents
      /\ \A d \in Contents : Kept(h, m, snd, d)
  BY QueuesAssumption DEF MsgOK
<1>1. /\ SendingOK(snd1) /\ snd1.from = snd.from /\ snd.left + snd.failed \in Nat
      /\ snd1.left + snd1.failed = (snd.left + snd.failed) - 1 /\ snd.left + snd.failed > 0
  BY <1>0, QueuesAssumption DEF SendingOK
<1>2. m1 \in [Slots -> Message] /\ m1[s] = m[snd.from] /\ \A t \in Slots : t # s => m1[t] = m[t]
  BY <1>0 DEF MessagesOK
<1> HIDE DEF m1
<1>3. MessagesOK(m1)
  BY <1>0, <1>2 DEF MessagesOK
<1>4. ASSUME NEW d \in Contents PROVE Kept(h, m1, snd1, d)
  <2>1. /\ IsFiniteSet(Others(m, snd, d)) /\ Cardinality(Others(m, snd, d)) \in Nat
        /\ Share(m, snd, d) \in Nat
    BY <1>0, LiveCount
  <2>2. Live(m1, snd1, d) = Live(m, snd, d)
    <3>1. CASE d = ct
      <4>1. Others(m1, snd1, d) = Others(m, snd, d) \cup {s} /\ s \notin Others(m, snd, d)
        BY <1>0, <1>1, <1>2, <3>1 DEF Others
      <4>2. Share(m1, snd1, d) = Share(m, snd, d) - 1
        BY <1>1, <1>2, <3>1 DEF Share
      <4>3. Cardinality(Others(m, snd, d) \cup {s}) = Cardinality(Others(m, snd, d)) + 1
        BY <2>1, <4>1, FS_AddElement
      <4>4. Live(m1, snd1, d) = (Cardinality(Others(m, snd, d)) + 1) + (Share(m, snd, d) - 1)
        BY <4>1, <4>2, <4>3 DEF Live
      <4>5. Live(m, snd, d) = Cardinality(Others(m, snd, d)) + Share(m, snd, d)
        BY DEF Live
      <4> QED
        BY <2>1, <4>4, <4>5
    <3>2. CASE d # ct
      <4>1. Others(m1, snd1, d) = Others(m, snd, d)
        BY <1>0, <1>1, <1>2, <3>2 DEF Others
      <4>2. Share(m1, snd1, d) = Share(m, snd, d)
        BY <1>1, <1>2, <3>2 DEF Share
      <4> QED
        BY <4>1, <4>2 DEF Live
    <3> QED
      BY <3>1, <3>2
  <2>3. ASSUME NEW t \in Slots, Owner(m1, snd1, t, d)
        PROVE  \E u \in Slots : Owner(m, snd, u, d) /\ m1[t].shared = m[u].shared
    <3>1. CASE t = s
      <4>1. Owner(m, snd, snd.from, d) /\ m1[t].shared = m[snd.from].shared
        BY <1>1, <1>2, <2>3, <3>1 DEF Owner
      <4> QED
        BY <4>1
    <3>2. CASE t # s
      <4>1. Owner(m, snd, t, d) /\ m1[t].shared = m[t].shared
        BY <1>1, <1>2, <2>3, <3>2 DEF Owner
      <4> QED
        BY <4>1
    <3> QED
      BY <3>1, <3>2
  <2>4. Kept(h, m, snd, d)
    BY <1>0
  <2> QED
    BY <2>2, <2>3, <2>4, KeptSame
<1> QED
  BY <1>0, <1>1, <1>3, <1>4 DEF MsgOK, m1

\* A pipe that refuses the message leaves the reference to be taken back.
LEMMA Refused ==
  ASSUME NEW h, NEW m, NEW snd, MsgOK(h, m, snd), snd.from \in Slots, snd.left > 0,
         NEW snd1, snd1 = [snd EXCEPT !.left = snd.left - 1, !.failed = snd.failed + 1]
  PROVE  MsgOK(h, m, snd1)
<1>0. /\ HeapOK(h) /\ MessagesOK(m) /\ SendingOK(snd)
      /\ \A d \in Contents : Kept(h, m, snd, d)
  BY DEF MsgOK
<1>1. /\ SendingOK(snd1) /\ snd1.from = snd.from
      /\ snd1.left + snd1.failed = snd.left + snd.failed
  <2>1. snd.left \in Nat /\ snd.failed \in Nat /\ "none" \notin Slots
    BY <1>0, QueuesAssumption DEF SendingOK
  <2>2. snd.left - 1 \in Nat /\ snd.failed + 1 \in Nat
    BY <2>1
  <2>3. snd1.from = snd.from /\ snd1.left = snd.left - 1 /\ snd1.failed = snd.failed + 1
    BY <1>0 DEF SendingOK
  <2>4. snd1 \in [from : Slots \cup {"none"}, left : Nat, failed : Nat]
    BY <1>0, <2>2 DEF SendingOK
  <2> QED
    BY <2>1, <2>3, <2>4 DEF SendingOK
<1>2. ASSUME NEW d \in Contents PROVE Kept(h, m, snd1, d)
  <2>1. Live(m, snd1, d) = Live(m, snd, d)
    BY <1>1 DEF Live, Others, Share
  <2>2. \A t \in Slots : Owner(m, snd1, t, d) => Owner(m, snd, t, d)
    BY <1>1 DEF Owner
  <2>3. Kept(h, m, snd, d)
    BY <1>0
  <2> QED
    BY <2>1, <2>2, <2>3, KeptSame
<1> QED
  BY <1>0, <1>1, <1>2 DEF MsgOK

\* The end of distribute: the references of the pipes that failed are taken back
\* and the caller is left with an empty message.
LEMMA Ended ==
  ASSUME NEW h, NEW m, NEW snd, MsgOK(h, m, snd), NEW s \in Slots, snd.from = s, snd.left = 0
  PROVE  MsgOK(M!rm_refs(h, m[s], snd.failed), [m EXCEPT ![s] = M!Vsm], M!NotSending)
<1> DEFINE new == M!NotSending
           m1 == [m EXCEPT ![s] = M!Vsm]
           n == snd.failed
           ct == m[s].content
           h1 == M!rm_refs(h, m[s], n)
<1>0. /\ HeapOK(h) /\ MessagesOK(m) /\ SendingOK(snd) /\ "none" \notin Contents
      /\ \A d \in Contents : Kept(h, m, snd, d)
  BY QueuesAssumption DEF MsgOK
<1>1. /\ SendingOK(new) /\ new.from = "none" /\ "none" \notin Slots /\ n \in Nat
      /\ snd.left + snd.failed = n
  BY <1>0, QueuesAssumption DEF M!NotSending, M!NoContent, SendingOK
<1> HIDE DEF new
<1>2. /\ m1 \in [Slots -> Message] /\ m1[s].type = "vsm" /\ m1[s].content = "none"
      /\ \A t \in Slots : t # s => m1[t] = m[t]
  BY <1>0, EmptyMessages DEF MessagesOK
<1> HIDE DEF m1
<1>3. MessagesOK(m1)
  BY <1>0, <1>2 DEF MessagesOK
<1>4. ASSUME NEW d \in Contents
      PROVE  /\ Live(m1, new, d) = Cardinality(Others(m, snd, d))
             /\ \A t \in Slots : Owner(m1, new, t, d) => Owner(m, snd, t, d) /\ m1[t] = m[t]
             /\ Cardinality(Others(m, snd, d)) \in Nat
             /\ d # ct \/ n = 0 => Live(m1, new, d) = Live(m, snd, d)
             /\ d = ct => Live(m1, new, d) = Live(m, snd, d) - n
  <2>1. Others(m1, new, d) = Others(m, snd, d)
    BY <1>0, <1>1, <1>2 DEF Others
  <2>2. Share(m1, new, d) = 0 /\ Share(m, snd, d) = IF d = ct THEN n ELSE 0
    BY <1>1 DEF Share
  <2>3. Cardinality(Others(m, snd, d)) \in Nat
    BY <1>0, LiveCount
  <2>4. \A t \in Slots : Owner(m1, new, t, d) => Owner(m, snd, t, d) /\ m1[t] = m[t]
    BY <1>0, <1>1, <1>2 DEF Owner
  <2> HIDE DEF ct, n
  <2> QED
    BY <1>1, <2>1, <2>2, <2>3, <2>4 DEF Live
<1>5. CASE n = 0 \/ m[s].type # "lmsg"
  <2>1. h1 = h
    BY <1>5 DEF M!rm_refs, M!release
  <2>2. m[s].type # "lmsg" => ct \notin Contents
    BY <1>0 DEF MessagesOK
  <2>3. \A d \in Contents : Kept(h, m1, new, d)
    BY <1>0, <1>4, <1>5, <2>2, KeptSame
  <2> QED
    BY <1>0, <1>1, <1>3, <2>1, <2>3 DEF MsgOK, m1, new
<1>6. CASE n # 0 /\ m[s].type = "lmsg"
  <2>1. ct \in Contents /\ Owner(m, snd, s, ct) /\ m[s].shared \in BOOLEAN
    BY <1>0, <1>1, <1>6 DEF MessagesOK, Owner, Message
  <2>2. /\ ct \in h.alloc /\ Live(m, snd, ct) >= 1 /\ Live(m, snd, ct) \in Nat
        /\ m[s].shared = TRUE => h.refcnt[ct] = Live(m, snd, ct) /\ AllShared(m, snd, ct)
        /\ m[s].shared = FALSE => Live(m, snd, ct) = 1 /\ NoneShared(m, snd, ct)
    BY <1>0, <2>1, OwnedAllocated, LiveCount
  <2>3. CASE m[s].shared = TRUE
    <3>1. h1 = M!sub(h, ct, n) /\ n \in Int
      BY <1>1, <1>6, <2>3 DEF M!rm_refs
    <3>2. /\ HeapOK(h1) /\ h1.refcnt[ct] = h.refcnt[ct] - n
          /\ h1.alloc = IF h.refcnt[ct] - n = 0 THEN h.alloc \ {ct} ELSE h.alloc
          /\ \A d \in Contents : d # ct => h1.refcnt[d] = h.refcnt[d]
      <4> HIDE DEF ct, h1, n
      <4>1. /\ HeapOK(M!sub(h, ct, n)) /\ M!sub(h, ct, n).refcnt[ct] = h.refcnt[ct] - n
            /\ M!sub(h, ct, n).alloc = IF h.refcnt[ct] - n = 0 THEN h.alloc \ {ct} ELSE h.alloc
            /\ \A d \in Contents : d # ct => M!sub(h, ct, n).refcnt[d] = h.refcnt[d]
        BY <1>0, <2>1, <2>2, <3>1, SubHeap, Zenon
      <4> QED
        BY <3>1, <4>1
    <3> HIDE DEF h1
    <3>3. AllShared(m1, new, ct)
      BY <1>4, <2>1, <2>2, <2>3 DEF AllShared
    <3>4. Kept(h1, m1, new, ct)
      <4>1. Live(m1, new, ct) \in Nat /\ h1.refcnt[ct] = Live(m1, new, ct)
        BY <1>4, <2>1, <2>2, <2>3, <3>2
      <4>2. ct \in h1.alloc <=> Live(m1, new, ct) # 0
        BY <1>4, <2>1, <2>2, <2>3, <3>2
      <4> QED
        BY <3>3, <4>1, <4>2 DEF Kept
    <3>5. \A d \in Contents : d # ct => Kept(h1, m1, new, d)
      BY <1>0, <1>4, <3>2, KeptSame
    <3> QED
      BY <1>1, <1>3, <3>2, <3>4, <3>5 DEF MsgOK, m1, h1, new
  <2>4. CASE m[s].shared = FALSE
    <3>1. h1 = M!release(h, m[s])
      BY <1>6, <2>4 DEF M!rm_refs
    <3>2. HeapOK(h1) /\ h1.refcnt = h.refcnt /\ h1.alloc = h.alloc \ {ct}
      BY <1>0, <1>6, <2>1, <2>2, <2>4, <3>1, ZenonT(40) DEF M!release, HeapOK
    <3> HIDE DEF h1
    <3>3. Live(m1, new, ct) = 0
      BY <1>1, <1>4, <1>6, <2>1, <2>2, <2>4
    <3>4. Kept(h1, m1, new, ct)
      BY <3>2, <3>3 DEF Kept
    <3>5. \A d \in Contents : d # ct => Kept(h1, m1, new, d)
      BY <1>0, <1>4, <3>2, KeptSame
    <3> QED
      BY <1>1, <1>3, <3>2, <3>4, <3>5 DEF MsgOK, m1, h1, new
  <2> QED
    BY <2>1, <2>3, <2>4
<1> QED
  BY <1>5, <1>6

\* init_size and init_data: an empty message gets a content of its own.
LEMMA Fresh ==
  ASSUME NEW h, NEW m, NEW snd, MsgOK(h, m, snd), NEW s \in Slots, s # snd.from,
         m[s].content = "none", NEW ct \in Contents \ h.alloc,
         NEW h1, HeapOK(h1), h1.alloc = h.alloc \cup {ct},
         \A d \in Contents : d # ct => h1.refcnt[d] = h.refcnt[d]
  PROVE  MsgOK(h1, [m EXCEPT ![s] = M!Long(ct)], snd)
<1> DEFINE m1 == [m EXCEPT ![s] = M!Long(ct)]
<1>0. /\ HeapOK(h) /\ MessagesOK(m) /\ SendingOK(snd) /\ "none" \notin Contents
      /\ \A d \in Contents : Kept(h, m, snd, d)
  BY QueuesAssumption DEF MsgOK
<1>1. /\ M!Long(ct) \in Message /\ M!Long(ct).type = "lmsg" /\ M!Long(ct).content = ct
      /\ M!Long(ct).shared = FALSE
  BY DEF M!Long, Message
<1>2. m1 \in [Slots -> Message] /\ m1[s] = M!Long(ct) /\ \A t \in Slots : t # s => m1[t] = m[t]
  BY <1>0, <1>1 DEF MessagesOK
<1> HIDE DEF m1
<1>3. MessagesOK(m1)
  BY <1>0, <1>1, <1>2 DEF MessagesOK
<1>4. Kept(h1, m1, snd, ct)
  <2>1. Live(m, snd, ct) = 0
    BY <1>0 DEF Kept
  <2>2. /\ IsFiniteSet(Others(m, snd, ct)) /\ Cardinality(Others(m, snd, ct)) \in Nat
        /\ Share(m, snd, ct) \in Nat
    BY <1>0, LiveCount
  <2>3. Cardinality(Others(m, snd, ct)) = 0 /\ Share(m, snd, ct) = 0
    BY <2>1, <2>2 DEF Live
  <2>4. Others(m, snd, ct) = {}
    BY <2>2, <2>3, FS_EmptySet
  <2>5. Others(m1, snd, ct) = {s}
    BY <1>1, <1>2, <2>4 DEF Others
  <2>6. Share(m1, snd, ct) = 0
    BY <1>2, <2>3 DEF Share
  <2>7. Live(m1, snd, ct) = 1
    BY <2>5, <2>6, FS_Singleton DEF Live
  <2>8. ASSUME NEW t \in Slots, Owner(m1, snd, t, ct) PROVE m1[t].shared = FALSE
    <3>1. CASE t = snd.from
      <4>1. snd.left + snd.failed > 0 /\ m[t].content = ct
        BY <1>2, <2>8, <3>1 DEF Owner
      <4>2. Share(m, snd, ct) = snd.left + snd.failed /\ snd.left + snd.failed \in Nat
        BY <1>0, <3>1, <4>1 DEF Share, SendingOK
      <4> QED
        BY <2>3, <4>1, <4>2
    <3>2. CASE t # snd.from
      BY <1>1, <1>2, <2>5, <2>8, <3>2 DEF Others, Owner
    <3> QED
      BY <3>1, <3>2
  <2>9. ct \in h1.alloc /\ NoneShared(m1, snd, ct)
    BY <2>8 DEF NoneShared
  <2> QED
    BY <2>7, <2>9 DEF Kept
<1>5. ASSUME NEW d \in Contents, d # ct PROVE Kept(h1, m1, snd, d)
  <2>1. Others(m1, snd, d) = Others(m, snd, d)
    BY <1>0, <1>1, <1>2, <1>5 DEF Others
  <2>2. Share(m1, snd, d) = Share(m, snd, d)
    BY <1>2 DEF Share
  <2>3. \A t \in Slots : Owner(m1, snd, t, d) => Owner(m, snd, t, d) /\ m1[t] = m[t]
    BY <1>1, <1>2, <1>5 DEF Owner
  <2>4. Kept(h, m, snd, d) /\ Live(m1, snd, d) = Live(m, snd, d)
    BY <1>0, <2>1, <2>2 DEF Live
  <2>5. (d \in h1.alloc <=> d \in h.alloc) /\ h1.refcnt[d] = h.refcnt[d]
    BY <1>5
  <2> QED
    BY <2>3, <2>4, <2>5 DEF Kept, AllShared, NoneShared
<1> QED
  BY <1>0, <1>3, <1>4, <1>5 DEF MsgOK, m1

\* The invariant holds before the first message.
LEMMA InitMsg == ASSUME M!MsgInit PROVE MsgInv
<1>1. sending = M!NotSending /\ M!NotSending = [from |-> "none", left |-> 0, failed |-> 0]
  BY DEF M!MsgInit, M!NotSending, M!NoContent
<1>2. SendingOK(sending) /\ sending.from = "none" /\ "none" \notin Slots \cup Contents
  BY <1>1, QueuesAssumption DEF SendingOK
<1>3. msg \in [Slots -> Message] /\ \A s \in Slots : msg[s].type = "invalid" /\ msg[s].content = "none"
  BY EmptyMessages DEF M!MsgInit
<1>4. HeapOK(M!Heap) /\ M!Heap.alloc = {}
  BY DEF M!MsgInit, M!Heap, HeapOK
<1>5. ASSUME NEW ct \in Contents PROVE Kept(M!Heap, msg, sending, ct)
  <2>1. Others(msg, sending, ct) = {} /\ Share(msg, sending, ct) = 0
    BY <1>2, <1>3 DEF Others, Share
  <2>2. Live(msg, sending, ct) = 0
    BY <2>1, FS_EmptySet DEF Live
  <2> QED
    BY <1>4, <2>2 DEF Kept
<1> QED
  BY <1>2, <1>3, <1>4, <1>5 DEF MsgInv, MsgOK, MessagesOK

\* The invariant says what CountedRight says.
LEMMA MsgInvSafe == ASSUME MsgInv PROVE M!CountedRight
<1>0. /\ MsgOK(M!Heap, msg, sending) /\ HeapOK(M!Heap) /\ MessagesOK(msg) /\ SendingOK(sending)
      /\ "none" \notin Slots /\ "none" \notin Contents
  BY QueuesAssumption DEF MsgInv, MsgOK
<1>1. M!Heap.refcnt = refcnt /\ M!Heap.alloc = alloc /\ M!Heap.sound = sound
  BY DEF M!Heap
<1>2. sound
  BY <1>0, <1>1 DEF HeapOK
<1>3. ASSUME NEW s \in Slots, msg[s].type = "lmsg", M!Mine(s) \/ sending.left + sending.failed > 0
      PROVE  msg[s].content \in alloc
  <2>1. PICK ct \in Contents : ct = msg[s].content
    BY <1>0, <1>3 DEF MessagesOK
  <2>2. Owner(msg, sending, s, ct)
    BY <1>3, <2>1 DEF Owner, M!Mine
  <2> QED
    BY <1>0, <1>1, <2>1, <2>2, OwnedAllocated
<1>4. ASSUME sending = M!NotSending, NEW ct \in alloc
      PROVE  /\ M!Holders(ct) # {}
             /\ \/ \A s \in M!Holders(ct) : msg[s].shared /\ refcnt[ct] = M!Cardinality(M!Holders(ct))
                \/ M!Cardinality(M!Holders(ct)) = 1 /\ \A s \in M!Holders(ct) : ~ msg[s].shared
  <2>1. sending.from = "none" /\ ct \in Contents
    BY <1>0, <1>1, <1>4 DEF M!NotSending, M!NoContent, HeapOK
  <2>2. Others(msg, sending, ct) = M!Holders(ct) /\ Share(msg, sending, ct) = 0
    BY <1>0, <2>1 DEF Others, M!Holders, Share
  <2>3. Live(msg, sending, ct) = Cardinality(M!Holders(ct)) /\ IsFiniteSet(M!Holders(ct))
        /\ Cardinality(M!Holders(ct)) \in Nat
    BY <1>0, <2>2, LiveCount DEF Live
  <2>4. M!Cardinality(M!Holders(ct)) = Cardinality(M!Holders(ct))
    BY SameCardinality
  <2>5. Kept(M!Heap, msg, sending, ct)
    BY <1>0, <2>1 DEF MsgOK
  <2>6. Cardinality(M!Holders(ct)) >= 1 /\ M!Holders(ct) # {}
    BY <1>1, <2>3, <2>5, FS_EmptySet DEF Kept
  <2>7. \A s \in M!Holders(ct) : s \in Slots /\ Owner(msg, sending, s, ct)
    BY <1>0, <2>1 DEF M!Holders, Owner
  <2>8. CASE AllShared(msg, sending, ct) /\ refcnt[ct] = Live(msg, sending, ct)
    BY <2>3, <2>4, <2>6, <2>7, <2>8 DEF AllShared
  <2>9. CASE NoneShared(msg, sending, ct) /\ Live(msg, sending, ct) = 1
    BY <2>3, <2>4, <2>6, <2>7, <2>9 DEF NoneShared
  <2> QED
    BY <1>1, <2>5, <2>8, <2>9 DEF Kept
<1> QED
  BY <1>2, <1>3, <1>4 DEF M!CountedRight

\* A call replaces the heap.
LEMMA HeapBecomes ==
  ASSUME NEW h, HeapOK(h), M!Becomes(h)
  PROVE  M!Heap' = h
<1>1. M!Heap' = [refcnt |-> h.refcnt, alloc |-> h.alloc, sound |-> h.sound]
  BY DEF M!Heap, M!Becomes
<1> QED
  BY <1>1 DEF HeapOK

\* Every step of the threads that have a message preserves the invariant.
LEMMA NextMsg ==
  ASSUME MsgInv, M!MsgNext
  PROVE  MsgInv'
<1>0. /\ MsgOK(M!Heap, msg, sending) /\ HeapOK(M!Heap) /\ MessagesOK(msg) /\ SendingOK(sending)
      /\ "none" \notin Slots /\ "none" \notin Contents
      /\ sending.from \in Slots => msg[sending.from].type \in {"cmsg", "lmsg"}
  BY QueuesAssumption DEF MsgInv, MsgOK
<1>1. \A s \in Slots : msg[s].type # "lmsg" => msg[s].content = "none"
  BY <1>0 DEF MessagesOK, Message
<1>2. \A s \in Slots : ~ M!check(s) => s # sending.from /\ msg[s].content = "none"
  BY <1>0, <1>1 DEF M!check
<1>3. ASSUME NEW s \in Slots, M!init(s) \/ M!init_data(s) PROVE MsgInv'
  <2>1. PICK v \in Message : v.type \in {"vsm", "cmsg"} /\ v.content = "none" /\ msg' = [msg EXCEPT ![s] = v]
    BY <1>3, EmptyMessages DEF M!init, M!init_data
  <2>2. M!Heap' = M!Heap /\ sending' = sending /\ s # sending.from /\ msg[s].type # "lmsg"
    BY <1>2, <1>3 DEF M!init, M!init_data, M!Heap, M!check
  <2>3. M!release(M!Heap, msg[s]) = M!Heap
    BY <2>2 DEF M!release
  <2>4. MsgOK(M!release(M!Heap, msg[s]), [msg EXCEPT ![s] = v], sending)
    BY <1>0, <2>1, <2>2, Released
  <2>5. MsgOK(M!Heap', msg', sending')
    BY <2>1, <2>2, <2>3, <2>4
  <2>6. sending.from \in Slots => msg'[sending.from] = msg[sending.from]
    BY <1>0, <2>1, <2>2 DEF MessagesOK
  <2> QED
    BY <1>0, <2>2, <2>5, <2>6 DEF MsgInv
<1>4. ASSUME NEW s \in Slots, M!init_size(s) PROVE MsgInv'
  <2>1. PICK ct \in Contents \ alloc :
          /\ msg' = [msg EXCEPT ![s] = M!Long(ct)] /\ alloc' = alloc \cup {ct}
          /\ refcnt' = [refcnt EXCEPT ![ct] = 0]
    BY <1>4 DEF M!init_size
  <2>2. sending' = sending /\ sound' = sound /\ s # sending.from /\ msg[s].content = "none"
    BY <1>2, <1>4 DEF M!init_size
  <2>3. refcnt \in [Contents -> Int] /\ alloc \in SUBSET Contents /\ sound = TRUE
    BY <1>0 DEF HeapOK, M!Heap
  <2>4. refcnt' \in [Contents -> Int] /\ \A d \in Contents : d # ct => refcnt'[d] = refcnt[d]
    BY <2>1, <2>3
  <2>5. HeapOK(M!Heap')
    BY <2>1, <2>2, <2>3, <2>4 DEF HeapOK, M!Heap
  <2>6. /\ M!Heap'.alloc = M!Heap.alloc \cup {ct} /\ ct \in Contents \ M!Heap.alloc
        /\ \A d \in Contents : d # ct => M!Heap'.refcnt[d] = M!Heap.refcnt[d]
    BY <2>1, <2>4 DEF M!Heap
  <2>7. MsgOK(M!Heap', [msg EXCEPT ![s] = M!Long(ct)], sending)
    BY <1>0, <2>2, <2>5, <2>6, Fresh
  <2>8. sending.from \in Slots => msg'[sending.from] = msg[sending.from]
    BY <1>0, <2>1, <2>2 DEF MessagesOK
  <2> QED
    BY <1>0, <2>1, <2>2, <2>7, <2>8 DEF MsgInv
<1>5. ASSUME NEW s \in Slots, M!close(s) PROVE MsgInv'
  <2>1. /\ msg' = [msg EXCEPT ![s] = M!Invalid] /\ sending' = sending /\ s # sending.from
        /\ M!Becomes(M!release(M!Heap, msg[s]))
    BY <1>5 DEF M!close, M!Mine
  <2>2. MsgOK(M!release(M!Heap, msg[s]), [msg EXCEPT ![s] = M!Invalid], sending)
    BY <1>0, <2>1, Released, EmptyMessages
  <2>3. M!Heap' = M!release(M!Heap, msg[s])
    BY <2>1, <2>2, HeapBecomes DEF MsgOK
  <2>4. sending.from \in Slots => msg'[sending.from] = msg[sending.from]
    BY <1>0, <2>1 DEF MessagesOK
  <2> QED
    BY <1>0, <2>1, <2>2, <2>3, <2>4 DEF MsgInv
<1>6. ASSUME NEW s \in Slots, NEW src \in Slots, M!move(s, src) \/ M!copy(s, src) PROVE MsgInv'
  <2> DEFINE m1 == [msg EXCEPT ![s] = M!Vsm]
             h1 == M!release(M!Heap, msg[s])
  <2>1. s # src /\ s # sending.from /\ src # sending.from /\ sending' = sending
    BY <1>6 DEF M!move, M!copy, M!Mine
  <2>2. MsgOK(h1, m1, sending)
    BY <1>0, <2>1, Released, EmptyMessages
  <2>3. msg \in [Slots -> Message] /\ M!Vsm \in Message /\ m1[s].content = "none" /\ m1[src] = msg[src]
    BY <1>0, <2>1, EmptyMessages DEF MessagesOK
  <2>4. CASE M!move(s, src)
    <3>1. [m1 EXCEPT ![s] = m1[src], ![src] = M!Vsm] = [msg EXCEPT ![s] = msg[src], ![src] = M!Vsm]
      BY <2>1, <2>3
    <3>2. msg' = [msg EXCEPT ![s] = msg[src], ![src] = M!Vsm] /\ M!Becomes(h1)
      BY <2>4 DEF M!move
    <3> HIDE DEF m1, h1
    <3>3. MsgOK(h1, [m1 EXCEPT ![s] = m1[src], ![src] = M!Vsm], sending)
      BY <2>1, <2>2, <2>3, Moved
    <3>4. MsgOK(h1, msg', sending')
      BY <2>1, <3>1, <3>2, <3>3
    <3>5. M!Heap' = h1
      BY <3>2, <3>4, HeapBecomes DEF MsgOK
    <3>6. sending.from \in Slots => msg'[sending.from] = msg[sending.from]
      BY <2>1, <2>3, <3>2
    <3> QED
      BY <1>0, <2>1, <3>4, <3>5, <3>6 DEF MsgInv
  <2>5. CASE M!copy(s, src)
    <3> DEFINE v == M!AsShared(msg[src])
    <3>1. [m1 EXCEPT ![s] = v, ![src] = v] = [msg EXCEPT ![s] = v, ![src] = v]
      BY <2>1, <2>3
    <3>2. msg' = [msg EXCEPT ![s] = v, ![src] = v] /\ M!Becomes(M!shares(h1, msg[src], 1))
      BY <2>5 DEF M!copy
    <3> HIDE DEF m1, h1
    <3>3. MsgOK(M!shares(h1, m1[src], 1),
                [m1 EXCEPT ![s] = M!AsShared(m1[src]), ![src] = M!AsShared(m1[src])], sending)
      BY <2>1, <2>2, <2>3, Copied
    <3>4. MsgOK(M!shares(h1, msg[src], 1), msg', sending')
      BY <2>1, <2>3, <3>1, <3>2, <3>3
    <3>5. M!Heap' = M!shares(h1, msg[src], 1)
      BY <3>2, <3>4, HeapBecomes DEF MsgOK
    <3>6. sending.from \in Slots => msg'[sending.from] = msg[sending.from]
      BY <2>1, <2>3, <3>2
    <3> QED
      BY <1>0, <2>1, <3>4, <3>5, <3>6 DEF MsgInv
  <2> QED
    BY <1>6, <2>4, <2>5
<1>7. ASSUME NEW s \in Slots, NEW n \in 1 .. MaxPipes, M!distribute(s, n) PROVE MsgInv'
  <2>1. /\ sending = M!NotSending /\ msg[s].type \in {"cmsg", "lmsg"}
        /\ msg' = [msg EXCEPT ![s] = IF n > 1 THEN M!AsShared(msg[s]) ELSE msg[s]]
        /\ sending' = [from |-> s, left |-> n, failed |-> 0]
        /\ M!Becomes(M!add_refs(M!Heap, msg[s], n - 1))
    BY <1>0, <1>7 DEF M!distribute, M!check, MessagesOK, Message
  <2>2. n \in Nat \ {0} /\ msg[s] \in Message
    BY <1>0, QueuesAssumption DEF MessagesOK
  <2>3. MsgOK(M!add_refs(M!Heap, msg[s], n - 1), msg', sending')
    BY <1>0, <2>1, <2>2, Begun
  <2>4. M!Heap' = M!add_refs(M!Heap, msg[s], n - 1)
    BY <2>1, <2>3, HeapBecomes DEF MsgOK
  <2>5. sending'.from = s /\ msg'[s].type = msg[s].type
    BY <1>0, <2>1, <2>2, MarkedShared DEF MessagesOK
  <2> QED
    BY <2>1, <2>3, <2>4, <2>5 DEF MsgInv
<1>8. ASSUME NEW ok \in BOOLEAN, M!pipe_write(ok) PROVE MsgInv'
  <2>1. M!Heap' = M!Heap /\ sending.left > 0 /\ sending.from \in Slots
    BY <1>0, <1>8 DEF M!pipe_write, M!Heap, SendingOK
  <2>2. CASE ok
    <3>1. PICK s \in Slots : ~ M!check(s) /\ msg' = [msg EXCEPT ![s] = msg[sending.from]]
      BY <1>8, <2>2 DEF M!pipe_write
    <3>2. sending' = [sending EXCEPT !.left = sending.left - 1]
      BY <1>8, <2>2 DEF M!pipe_write
    <3>3. s # sending.from /\ msg[s].content = "none"
      BY <1>2, <3>1
    <3>4. MsgOK(M!Heap, [msg EXCEPT ![s] = msg[sending.from]], sending')
      BY <1>0, <2>1, <3>2, <3>3, Passed
    <3>5. sending'.from = sending.from /\ msg'[sending.from] = msg[sending.from]
      BY <1>0, <2>1, <3>1, <3>2, <3>3 DEF SendingOK, MessagesOK
    <3> QED
      BY <1>0, <2>1, <3>1, <3>4, <3>5 DEF MsgInv
  <2>3. CASE ~ ok
    <3>1. sending' = [sending EXCEPT !.left = sending.left - 1, !.failed = sending.failed + 1] /\ msg' = msg
      BY <1>8, <2>3 DEF M!pipe_write
    <3>2. MsgOK(M!Heap, msg, sending')
      BY <1>0, <2>1, <3>1, Refused
    <3>3. sending'.from = sending.from
      BY <1>0, <3>1 DEF SendingOK
    <3> QED
      BY <1>0, <2>1, <3>1, <3>2, <3>3 DEF MsgInv
  <2> QED
    BY <2>2, <2>3
<1>9. ASSUME M!distributed PROVE MsgInv'
  <2>1. /\ sending # M!NotSending /\ sending.left = 0 /\ sending' = M!NotSending
        /\ msg' = [msg EXCEPT ![sending.from] = M!Vsm]
        /\ M!Becomes(M!rm_refs(M!Heap, msg[sending.from], sending.failed))
    BY <1>9 DEF M!distributed
  <2>2. sending.from \in Slots
    <3> SUFFICES ASSUME sending.from = "none" PROVE FALSE
      BY <1>0 DEF SendingOK
    <3>1. sending = [from |-> "none", left |-> 0, failed |-> 0]
      BY <1>0 DEF SendingOK
    <3> QED
      BY <2>1, <3>1 DEF M!NotSending, M!NoContent
  <2>3. MsgOK(M!rm_refs(M!Heap, msg[sending.from], sending.failed), msg', sending')
    BY <1>0, <2>1, <2>2, Ended
  <2>4. M!Heap' = M!rm_refs(M!Heap, msg[sending.from], sending.failed)
    BY <2>1, <2>3, HeapBecomes DEF MsgOK
  <2>5. sending'.from \notin Slots
    BY <1>0, <2>1 DEF M!NotSending, M!NoContent
  <2> QED
    BY <2>3, <2>4, <2>5 DEF MsgInv
<1> QED
  BY <1>3, <1>4, <1>5, <1>6, <1>7, <1>8, <1>9 DEF M!MsgNext

\* msg_t for any messages, contents and number of pipes: whatever is moved,
\* copied, distributed and closed in whatever order, a content is freed with its
\* last message, once, and nothing refers to it then.
THEOREM CountedRightAlways == MCSpec => []CountedRight
<1> DEFINE Inv == model = "msg" => MsgInv
<1>1. MCInit => Inv
  BY InitMsg DEF MCInit
<1>2. Inv /\ [MCNext]_<<model, vars, yqueueVars, mailboxVars, conflateVars, msgVars>> => Inv'
  <2> SUFFICES ASSUME Inv, [MCNext]_<<model, vars, yqueueVars, mailboxVars, conflateVars, msgVars>>,
                      model' = "msg"
               PROVE  MsgInv'
    OBVIOUS
  <2>1. model = "msg" /\ MsgInv /\ (M!MsgNext \/ UNCHANGED msgVars)
    BY DEF MCNext
  <2>2. CASE UNCHANGED msgVars
    BY <2>1, <2>2 DEF msgVars, MsgInv, M!Heap
  <2> QED
    BY <2>1, <2>2, NextMsg
<1>3. Inv => CountedRight
  BY MsgInvSafe DEF CountedRight
<1> QED
  BY <1>1, <1>2, <1>3, PTL DEF MCSpec

-----------------------------------------------------------------------------
(* Yqueue.  The chunks in use are p[lo], ..., p[hi]: the chunk number i of  *)
(* the stream holds the elements i * N to i * N + N - 1.                    *)

\* Where the reader and the writer are.
YqueuePlaces(p, lo, hi) ==
  /\ lo <= hi
  /\ begin_chunk = p[lo] /\ begin_pos \in 0 .. N - 1 /\ popped = lo * N + begin_pos
  /\ end_chunk = p[hi] /\ end_pos \in 0 .. N /\ pushed = hi * N + end_pos
  /\ wplace = (IF end_pos = N THEN "link" ELSE "idle")
  /\ published \in Nat /\ popped <= published
  /\ published < pushed \/ (published = 0 /\ pushed = 0)
  /\ pushed > 0 => IF end_pos > 0 THEN back_chunk = p[hi] /\ back_pos = end_pos - 1
                   ELSE lo < hi /\ back_chunk = p[hi - 1] /\ back_pos = N - 1

\* The list: the writer needs prev from the second chunk on.
YqueueLinks(p, lo, hi) ==
  /\ next \in [Chunks -> Chunks \cup {"NULL"}] /\ prev \in [Chunks -> Chunks \cup {"NULL"}]
  /\ \A i, j \in lo .. hi : p[i] = p[j] => i = j
  /\ \A i \in lo .. hi - 1 : next[p[i]] = p[i + 1] /\ prev[p[i + 1]] = p[i]

\* The memory: the chunks in use, the spare one and those in a thread's hand.
InUse(p, lo, hi, k) == \E i \in lo .. hi : k = p[i]
YqueueHeap(p, lo, hi) ==
  /\ spare_chunk \in Chunks \cup {"NULL"} /\ sc \in Chunks \cup {"NULL"} /\ o \in Chunks \cup {"NULL"}
  /\ \A k : k \in heap <=> InUse(p, lo, hi, k) \/ (k # "NULL" /\ k \in {spare_chunk, sc, o})
  /\ \A k \in {spare_chunk, sc, o} : ~ InUse(p, lo, hi, k)
  /\ spare_chunk # "NULL" => spare_chunk \notin {sc, o}
  /\ sc # "NULL" => sc # o
  /\ wplace = "idle" => sc = "NULL"
  /\ \/ rplace = "idle" /\ o = "NULL"
     \/ rplace = "spare" /\ o # "NULL"

\* The elements between popped and pushed are intact.
YqueueValues(p, lo, hi) ==
  /\ values \in [Chunks -> [0 .. N - 1 -> Int]]
  /\ \A i \in lo .. hi, q \in 0 .. N - 1 :
       popped <= i * N + q /\ i * N + q < pushed => values[p[i]][q] = i * N + q

YqueueOK(p, lo, hi) ==
  YqueuePlaces(p, lo, hi) /\ YqueueLinks(p, lo, hi) /\ YqueueHeap(p, lo, hi) /\ YqueueValues(p, lo, hi)

YqueueInv == \E p \in [Nat -> Chunks] : \E lo, hi \in Nat : YqueueOK(p, lo, hi)

\* A later chunk begins where an earlier one has ended.
LEMMA Times ==
  ASSUME NEW i \in Nat, NEW j \in Nat
  PROVE  /\ i * N \in Nat /\ (i + 1) * N = i * N + N
         /\ i < j => i * N + N <= j * N
  BY QueuesAssumption

LEMMA InitYqueue == ASSUME Q!Init PROVE YqueueInv
<1> DEFINE p == [i \in Nat |-> begin_chunk]
<1>1. p \in [Nat -> Chunks] /\ p[0] = begin_chunk /\ 0 \in Nat
  BY DEF Q!Init
<1> HIDE DEF p
<1>2. N \in Nat /\ N > 0 /\ 0 * N = 0 /\ "NULL" \notin Chunks
  BY QueuesAssumption
<1>3. \A i \in 0 .. 0 : i = 0
  OBVIOUS
<1>4. YqueuePlaces(p, 0, 0)
  BY <1>1, <1>2 DEF Q!Init, YqueuePlaces
<1>5. YqueueLinks(p, 0, 0)
  BY <1>1, <1>3 DEF Q!Init, YqueueLinks, Q!NULL
<1>6. YqueueHeap(p, 0, 0)
  BY <1>1, <1>2, <1>3 DEF Q!Init, YqueueHeap, InUse, Q!NULL
<1>7. YqueueValues(p, 0, 0)
  BY <1>1, <1>2, <1>3 DEF Q!Init, YqueueValues
<1> QED
  BY <1>1, <1>4, <1>5, <1>6, <1>7 DEF YqueueInv, YqueueOK

\* push: the element behind the last one; the writer may take the spare chunk.
LEMMA YqueuePush ==
  ASSUME NEW p \in [Nat -> Chunks], NEW lo \in Nat, NEW hi \in Nat, YqueueOK(p, lo, hi), Q!push
  PROVE  YqueueOK(p, lo, hi)'
<1>0. /\ YqueuePlaces(p, lo, hi) /\ YqueueLinks(p, lo, hi) /\ YqueueHeap(p, lo, hi)
      /\ YqueueValues(p, lo, hi) /\ N \in Nat /\ N > 0 /\ "NULL" \notin Chunks
      /\ lo * N \in Nat /\ hi * N \in Nat
  BY QueuesAssumption, Times DEF YqueueOK
<1>1. /\ wplace = "idle" /\ back_chunk' = end_chunk /\ back_pos' = end_pos
      /\ values' = [values EXCEPT ![end_chunk][end_pos] = pushed]
      /\ pushed' = pushed + 1 /\ end_pos' = end_pos + 1
      /\ UNCHANGED <<heap, prev, next, end_chunk, published, begin_chunk, begin_pos, rplace, o, popped>>
      /\ end_pos + 1 # N => UNCHANGED <<wplace, sc, spare_chunk>>
      /\ end_pos + 1 = N => wplace' = "link" /\ sc' = spare_chunk /\ spare_chunk' = "NULL"
  BY DEF Q!push, Q!reader, Q!NULL
<1>2. end_pos \in 0 .. N - 1 /\ pushed = hi * N + end_pos /\ popped <= pushed /\ end_chunk = p[hi]
      /\ lo <= hi /\ pushed \in Nat /\ popped \in Nat
  BY <1>0, <1>1 DEF YqueuePlaces
<1>3. YqueuePlaces(p, lo, hi)'
  <2>1. wplace' = IF end_pos' = N THEN "link" ELSE "idle"
    BY <1>1
  <2>2. end_pos' \in 0 .. N /\ pushed' = hi * N + end_pos' /\ pushed' > 0 /\ end_pos' > 0
    BY <1>0, <1>1, <1>2
  <2>3. back_chunk' = p[hi] /\ back_pos' = end_pos' - 1
    BY <1>1, <1>2
  <2>4. /\ begin_chunk' = p[lo] /\ begin_pos' \in 0 .. N - 1 /\ popped' = lo * N + begin_pos'
        /\ end_chunk' = p[hi] /\ published' \in Nat /\ popped' <= published'
    BY <1>0, <1>1 DEF YqueuePlaces
  <2>5. published' < pushed'
    BY <1>0, <1>1, <1>2 DEF YqueuePlaces
  <2> QED
    BY <1>2, <2>1, <2>2, <2>3, <2>4, <2>5 DEF YqueuePlaces
<1>4. YqueueLinks(p, lo, hi)'
  BY <1>0, <1>1 DEF YqueueLinks
<1>5. YqueueHeap(p, lo, hi)'
  <2>1. CASE end_pos + 1 # N
    BY <1>0, <1>1, <2>1 DEF YqueueHeap, InUse
  <2>2. CASE end_pos + 1 = N
    BY <1>0, <1>1, <2>2 DEF YqueueHeap, InUse
  <2> QED
    BY <2>1, <2>2
<1>6. YqueueValues(p, lo, hi)'
  <2>1. /\ values' \in [Chunks -> [0 .. N - 1 -> Int]]
        /\ values'[p[hi]][end_pos] = pushed
        /\ \A k \in Chunks, q \in 0 .. N - 1 : k # p[hi] \/ q # end_pos => values'[k][q] = values[k][q]
    <3>1. values \in [Chunks -> [0 .. N - 1 -> Int]] /\ p[hi] \in Chunks /\ pushed \in Int
      BY <1>0, <1>2 DEF YqueueValues
    <3>2. PICK row \in [0 .. N - 1 -> Int] : row = [values[p[hi]] EXCEPT ![end_pos] = pushed]
      BY <3>1
    <3>3. /\ row[end_pos] = pushed
          /\ \A q \in 0 .. N - 1 : q # end_pos => row[q] = values[p[hi]][q]
      BY <1>2, <3>1, <3>2
    <3>4. values' = [values EXCEPT ![p[hi]] = row]
      BY <1>1, <1>2, <3>2
    <3> QED
      BY <3>1, <3>3, <3>4
  <2>2. ASSUME NEW i \in lo .. hi, NEW q \in 0 .. N - 1, popped <= i * N + q, i * N + q < pushed + 1
        PROVE  values'[p[i]][q] = i * N + q
    <3>1. CASE i = hi /\ q = end_pos
      BY <1>2, <2>1, <3>1
    <3>2. CASE ~ (i = hi /\ q = end_pos)
      <4>1. i \in Nat /\ hi \in lo .. hi
        BY <1>2
      <4>2. i * N \in Nat /\ (i < hi => i * N + N <= hi * N)
        BY <4>1, Times
      <4>3. i * N + q < pushed
        BY <1>0, <1>2, <2>2, <3>2, <4>1, <4>2
      <4>4. p[i] # p[hi] \/ q # end_pos
        BY <1>0, <3>2, <4>1 DEF YqueueLinks
      <4>5. values'[p[i]][q] = values[p[i]][q]
        BY <2>1, <4>1, <4>4
      <4> QED
        BY <1>0, <2>2, <4>3, <4>5 DEF YqueueValues
    <3> QED
      BY <3>1, <3>2
  <2> QED
    BY <1>1, <2>1, <2>2 DEF YqueueValues
<1> QED
  BY <1>3, <1>4, <1>5, <1>6 DEF YqueueOK

\* A step that writes no element and makes none valid.
LEMMA ValuesKept ==
  ASSUME NEW p, NEW lo \in Nat, NEW hi \in Nat, YqueueValues(p, lo, hi), values' = values,
         popped \in Int, popped' \in Int, pushed \in Int, pushed' \in Int,
         popped <= popped', pushed' <= pushed,
         NEW p1, NEW lo1 \in Nat, NEW hi1 \in Nat,
         \A i \in lo1 .. hi1, q \in 0 .. N - 1 :
           i * N + q < pushed => i \in lo .. hi /\ p1[i] = p[i]
  PROVE  YqueueValues(p1, lo1, hi1)'
<1>1. ASSUME NEW i \in lo1 .. hi1, NEW q \in 0 .. N - 1, popped' <= i * N + q, i * N + q < pushed'
      PROVE  values'[p1[i]][q] = i * N + q
  <2>1. i \in Nat /\ i * N \in Nat /\ N \in Nat /\ q \in Nat
    BY QueuesAssumption, Times
  <2>2. PICK e \in Int : e = i * N + q
    BY <2>1
  <2>3. popped <= e /\ e < pushed
    BY <1>1, <2>2
  <2>4. i \in lo .. hi /\ p1[i] = p[i]
    BY <2>2, <2>3
  <2>5. values[p[i]][q] = i * N + q
    BY <2>2, <2>3, <2>4 DEF YqueueValues
  <2> QED
    BY <2>4, <2>5
<1>2. values' \in [Chunks -> [0 .. N - 1 -> Int]]
  BY DEF YqueueValues
<1> QED
  BY <1>1, <1>2 DEF YqueueValues

\* The rest of push: the spare chunk, or a new one, becomes the last of the list.
LEMMA YqueueLink ==
  ASSUME NEW p \in [Nat -> Chunks], NEW lo \in Nat, NEW hi \in Nat, YqueueOK(p, lo, hi),
         Q!linkChunk
  PROVE  YqueueInv'
<1>0. /\ YqueuePlaces(p, lo, hi) /\ YqueueLinks(p, lo, hi) /\ YqueueHeap(p, lo, hi)
      /\ YqueueValues(p, lo, hi) /\ N \in Nat /\ N > 0 /\ "NULL" \notin Chunks
      /\ lo * N \in Nat /\ hi * N \in Nat
  BY QueuesAssumption, Times DEF YqueueOK
<1>1. PICK c1 : /\ c1 \in (IF sc # "NULL" THEN {sc} ELSE Chunks \ heap)
                /\ heap' = heap \cup {c1} /\ next' = [next EXCEPT ![end_chunk] = c1]
                /\ prev' = [prev EXCEPT ![c1] = end_chunk] /\ end_chunk' = c1
  BY DEF Q!linkChunk, Q!NULL
<1>2. /\ wplace = "link" /\ end_pos' = 0 /\ wplace' = "idle" /\ sc' = "NULL"
      /\ UNCHANGED <<values, spare_chunk, back_chunk, back_pos, pushed, published, begin_chunk,
                     begin_pos, rplace, o, popped>>
  BY DEF Q!linkChunk, Q!reader, Q!NULL
<1>3. c1 \in Chunks /\ ~ InUse(p, lo, hi, c1) /\ c1 # spare_chunk /\ c1 # o
  BY <1>0, <1>1 DEF YqueueHeap
<1>4. end_pos = N /\ end_chunk = p[hi] /\ lo <= hi /\ pushed = hi * N + N
  BY <1>0, <1>2 DEF YqueuePlaces
<1> DEFINE p1 == [p EXCEPT ![hi + 1] = c1]
<1>5. /\ p1 \in [Nat -> Chunks] /\ hi + 1 \in Nat /\ p1[hi + 1] = c1
      /\ \A i \in lo .. hi : p1[i] = p[i] /\ i \in Nat
  BY <1>3
<1> HIDE DEF p1
<1>6. /\ lo .. hi + 1 = (lo .. hi) \cup {hi + 1} /\ lo \in lo .. hi /\ hi \in lo .. hi
      /\ (hi + 1) * N = hi * N + N /\ (hi + 1) * N \in Nat
      /\ (hi + 1) - 1 = hi /\ lo .. (hi + 1) - 1 = (lo .. hi - 1) \cup {hi}
      /\ \A i \in lo .. hi - 1 : i \in lo .. hi /\ i + 1 \in lo .. hi /\ i # hi
  BY <1>0, <1>4, Times
<1>7. YqueuePlaces(p1, lo, hi + 1)'
  <2>1. /\ begin_chunk' = p1[lo] /\ begin_pos' \in 0 .. N - 1 /\ popped' = lo * N + begin_pos'
        /\ published' \in Nat /\ popped' <= published'
        /\ published' < pushed' \/ (published' = 0 /\ pushed' = 0)
    BY <1>0, <1>2, <1>5, <1>6 DEF YqueuePlaces
  <2>2. end_chunk' = p1[hi + 1] /\ end_pos' \in 0 .. N /\ pushed' = (hi + 1) * N + end_pos'
    BY <1>0, <1>1, <1>2, <1>4, <1>5, <1>6
  <2>3. wplace' = IF end_pos' = N THEN "link" ELSE "idle"
    BY <1>0, <1>2
  <2>4. lo < hi + 1 /\ lo <= hi + 1
    BY <1>4
  <2>5. back_chunk' = p1[(hi + 1) - 1] /\ back_pos' = N - 1
    BY <1>0, <1>2, <1>4, <1>5, <1>6 DEF YqueuePlaces
  <2> QED
    BY <1>2, <2>1, <2>2, <2>3, <2>4, <2>5 DEF YqueuePlaces
<1>8. YqueueLinks(p1, lo, hi + 1)'
  <2>1. /\ next' \in [Chunks -> Chunks \cup {"NULL"}] /\ prev' \in [Chunks -> Chunks \cup {"NULL"}]
        /\ next'[p[hi]] = c1 /\ \A k \in Chunks : k # p[hi] => next'[k] = next[k]
        /\ prev'[c1] = p[hi] /\ \A k \in Chunks : k # c1 => prev'[k] = prev[k]
    BY <1>0, <1>1, <1>3, <1>4 DEF YqueueLinks
  <2>2. \A i, j \in lo .. hi + 1 : p1[i] = p1[j] => i = j
    BY <1>0, <1>3, <1>5, <1>6 DEF YqueueLinks, InUse
  <2>3. ASSUME NEW i \in lo .. hi - 1 PROVE next'[p1[i]] = p1[i + 1] /\ prev'[p1[i + 1]] = p1[i]
    <3>1. p1[i] = p[i] /\ p1[i + 1] = p[i + 1] /\ p[i] # p[hi] /\ p[i + 1] # c1
          /\ p[i] \in Chunks /\ p[i + 1] \in Chunks
      BY <1>0, <1>3, <1>5, <1>6 DEF YqueueLinks, InUse
    <3> QED
      BY <1>0, <2>1, <3>1 DEF YqueueLinks
  <2>4. next'[p1[hi]] = p1[hi + 1] /\ prev'[p1[hi + 1]] = p1[hi]
    BY <1>5, <1>6, <2>1
  <2> QED
    BY <1>6, <2>1, <2>2, <2>3, <2>4 DEF YqueueLinks
<1>9. YqueueHeap(p1, lo, hi + 1)'
  <2>1. \A k : InUse(p1, lo, hi + 1, k) <=> InUse(p, lo, hi, k) \/ k = c1
    BY <1>5, <1>6 DEF InUse
  <2>2. \A k : k \in heap' <=> InUse(p1, lo, hi + 1, k) \/ (k # "NULL" /\ k \in {spare_chunk, o})
    BY <1>0, <1>1, <1>3, <2>1 DEF YqueueHeap
  <2>3. /\ spare_chunk' = spare_chunk /\ sc' = "NULL" /\ o' = o /\ rplace' = rplace
        /\ spare_chunk \in Chunks \cup {"NULL"} /\ o \in Chunks \cup {"NULL"}
        /\ spare_chunk # "NULL" => spare_chunk # o
        /\ (rplace = "idle" /\ o = "NULL") \/ (rplace = "spare" /\ o # "NULL")
    BY <1>0, <1>2 DEF YqueueHeap
  <2>4. ~ InUse(p1, lo, hi + 1, "NULL")
    BY <1>0, <1>3, <1>5, <2>1 DEF InUse
  <2>5. ~ InUse(p1, lo, hi + 1, spare_chunk) /\ ~ InUse(p1, lo, hi + 1, o)
    BY <1>0, <1>3, <2>1 DEF YqueueHeap
  <2>6. \A k : InUse(p1, lo, hi + 1, k)' <=> InUse(p1, lo, hi + 1, k)
    BY DEF InUse
  <2> QED
    BY <2>2, <2>3, <2>4, <2>5, <2>6 DEF YqueueHeap
<1>10. YqueueValues(p1, lo, hi + 1)'
  <2>1. ASSUME NEW i \in lo .. hi + 1, NEW q \in 0 .. N - 1, i * N + q < pushed
        PROVE  i \in lo .. hi /\ p1[i] = p[i]
    <3>1. i # hi + 1
      BY <1>0, <1>4, <1>6, <2>1
    <3> QED
      BY <1>5, <1>6, <3>1
  <2>2. /\ popped \in Int /\ pushed \in Int /\ popped' \in Int /\ pushed' \in Int
        /\ popped <= popped' /\ pushed' <= pushed /\ values' = values
    BY <1>0, <1>2 DEF YqueuePlaces
  <2>3. PICK g \in Nat : g = hi + 1
    OBVIOUS
  <2>4. \A i \in lo .. g, q \in 0 .. N - 1 : i * N + q < pushed => i \in lo .. hi /\ p1[i] = p[i]
    BY <2>1, <2>3
  <2>5. YqueueValues(p1, lo, g)'
    BY <1>0, <2>2, <2>4, ValuesKept
  <2> QED
    BY <2>3, <2>5
<1> QED
  BY <1>5, <1>7, <1>8, <1>9, <1>10 DEF YqueueInv, YqueueOK

\* unpush: there is a chunk before the one that is given up, as the element
\* that becomes the last is not published and so not popped.
LEMMA YqueueUnpush ==
  ASSUME NEW p \in [Nat -> Chunks], NEW lo \in Nat, NEW hi \in Nat, YqueueOK(p, lo, hi),
         Q!unpush
  PROVE  YqueueInv'
<1>0. /\ YqueuePlaces(p, lo, hi) /\ YqueueLinks(p, lo, hi) /\ YqueueHeap(p, lo, hi)
      /\ YqueueValues(p, lo, hi) /\ N \in Nat /\ N > 0 /\ "NULL" \notin Chunks
      /\ lo * N \in Nat /\ hi * N \in Nat
  BY QueuesAssumption, Times DEF YqueueOK
<1>1. /\ wplace = "idle" /\ pushed > published + 1 /\ pushed' = pushed - 1
      /\ UNCHANGED <<values, prev, spare_chunk, wplace, sc, published, begin_chunk, begin_pos,
                     rplace, o, popped>>
      /\ back_pos' = IF back_pos > 0 THEN back_pos - 1 ELSE N - 1
      /\ back_chunk' = IF back_pos > 0 THEN back_chunk ELSE prev[back_chunk]
  BY DEF Q!unpush, Q!reader
<1>2. /\ end_pos \in 0 .. N - 1 /\ pushed = hi * N + end_pos /\ pushed \in Nat /\ lo <= hi
      /\ popped = lo * N + begin_pos /\ begin_pos \in 0 .. N - 1 /\ popped \in Nat
      /\ published \in Nat /\ popped <= published /\ popped + 1 < pushed /\ pushed > 0
      /\ lo * N + 1 < pushed /\ begin_chunk = p[lo] /\ end_chunk = p[hi]
  BY <1>0, <1>1 DEF YqueuePlaces
<1>3. end_pos <= 1 => lo < hi
  <2> SUFFICES ASSUME end_pos <= 1, ~ (lo < hi) PROVE FALSE
    OBVIOUS
  <2>1. lo = hi
    BY <1>2
  <2> QED
    BY <1>0, <1>2, <2>1
<1>4. lo < hi => /\ hi - 1 \in Nat /\ hi - 1 \in lo .. hi - 1 /\ (hi - 1) + 1 = hi
                 /\ prev[p[hi]] = p[hi - 1] /\ next[p[hi - 1]] = p[hi]
                 /\ (hi - 1) * N \in Nat /\ hi * N = (hi - 1) * N + N
  <2> SUFFICES ASSUME lo < hi
               PROVE  /\ hi - 1 \in Nat /\ hi - 1 \in lo .. hi - 1 /\ (hi - 1) + 1 = hi
                      /\ prev[p[hi]] = p[hi - 1] /\ next[p[hi - 1]] = p[hi]
                      /\ (hi - 1) * N \in Nat /\ hi * N = (hi - 1) * N + N
    OBVIOUS
  <2>1. PICK g \in Nat : g = hi - 1 /\ g \in lo .. hi - 1 /\ g + 1 = hi
    OBVIOUS
  <2>2. g * N \in Nat /\ (g + 1) * N = g * N + N
    BY <2>1, Times
  <2>3. next[p[g]] = p[g + 1] /\ prev[p[g + 1]] = p[g]
    BY <1>0, <2>1 DEF YqueueLinks
  <2> QED
    BY <2>1, <2>2, <2>3
<1>5. CASE end_pos > 0
  <2>1. end_pos' = end_pos - 1 /\ UNCHANGED <<end_chunk, heap, next>>
    BY <1>5 DEF Q!unpush
  <2>2. back_chunk = p[hi] /\ back_pos = end_pos - 1
    BY <1>0, <1>2, <1>5 DEF YqueuePlaces
  <2>3. YqueuePlaces(p, lo, hi)'
    <3>1. pushed' = hi * N + end_pos' /\ end_pos' \in 0 .. N - 1 /\ published' < pushed'
      BY <1>0, <1>1, <1>2, <1>5, <2>1
    <3>2. wplace' = IF end_pos' = N THEN "link" ELSE "idle"
      BY <1>0, <1>1, <3>1
    <3>3. IF end_pos' > 0 THEN back_chunk' = p[hi] /\ back_pos' = end_pos' - 1
          ELSE lo < hi /\ back_chunk' = p[hi - 1] /\ back_pos' = N - 1
      <4>1. CASE end_pos' > 0
        BY <1>1, <1>2, <2>1, <2>2, <4>1
      <4>2. CASE ~ (end_pos' > 0)
        BY <1>1, <1>2, <1>3, <1>4, <2>1, <2>2, <3>1, <4>2
      <4> QED
        BY <4>1, <4>2
    <3> QED
      BY <1>0, <1>1, <1>2, <2>1, <3>1, <3>2, <3>3 DEF YqueuePlaces
  <2>4. YqueueLinks(p, lo, hi)' /\ YqueueHeap(p, lo, hi)'
    BY <1>0, <1>1, <2>1 DEF YqueueLinks, YqueueHeap, InUse
  <2>5. YqueueValues(p, lo, hi)'
    <3>1. /\ popped \in Int /\ pushed \in Int /\ popped' \in Int /\ pushed' \in Int
          /\ popped <= popped' /\ pushed' <= pushed /\ values' = values
      BY <1>1, <1>2
    <3> QED
      BY <1>0, <3>1, ValuesKept
  <2> QED
    BY <2>3, <2>4, <2>5 DEF YqueueInv, YqueueOK
<1>6. CASE end_pos = 0
  <2> DEFINE g == hi - 1
  <2>0. /\ g \in Nat /\ g \in lo .. hi - 1 /\ g + 1 = hi /\ lo <= g /\ lo < hi
        /\ prev[p[hi]] = p[g] /\ next[p[g]] = p[hi] /\ g * N \in Nat /\ hi * N = g * N + N
    BY <1>3, <1>4, <1>6
  <2> HIDE DEF g
  <2>1. /\ end_pos' = N - 1 /\ end_chunk' = p[g] /\ heap' = heap \ {p[hi]}
        /\ next' = [next EXCEPT ![p[g]] = "NULL"]
    BY <1>2, <1>6, <2>0 DEF Q!unpush, Q!NULL
  <2>2. back_chunk = p[g] /\ back_pos = N - 1
    BY <1>0, <1>2, <1>6, <2>0 DEF YqueuePlaces, g
  <2>3. YqueuePlaces(p, lo, g)'
    <3>1. pushed' = g * N + end_pos' /\ end_pos' \in 0 .. N - 1 /\ published' < pushed'
      BY <1>0, <1>1, <1>2, <1>6, <2>0, <2>1
    <3>2. wplace' = IF end_pos' = N THEN "link" ELSE "idle"
      BY <1>0, <1>1, <3>1
    <3>3. IF end_pos' > 0 THEN back_chunk' = p[g] /\ back_pos' = end_pos' - 1
          ELSE lo < g /\ back_chunk' = p[g - 1] /\ back_pos' = N - 1
      <4>1. CASE end_pos' > 0
        BY <1>0, <1>1, <2>1, <2>2, <4>1
      <4>2. CASE ~ (end_pos' > 0)
        <5>1. N = 1 /\ back_pos = 0
          BY <1>0, <2>1, <2>2, <4>2
        <5>2. lo < g
          <6> SUFFICES ASSUME ~ (lo < g) PROVE FALSE
            OBVIOUS
          <6>1. lo = g
            BY <2>0
          <6> QED
            BY <1>0, <1>2, <1>6, <2>0, <5>1, <6>1
        <5>3. g - 1 \in lo .. hi - 1 /\ (g - 1) + 1 = g
          BY <2>0, <5>2
        <5>4. prev[p[g]] = p[g - 1]
          BY <1>0, <5>3 DEF YqueueLinks
        <5> QED
          BY <1>1, <2>2, <4>2, <5>1, <5>2, <5>4
      <4> QED
        BY <4>1, <4>2
    <3> QED
      BY <1>0, <1>1, <1>2, <2>0, <2>1, <3>1, <3>2, <3>3 DEF YqueuePlaces
  <2>4. /\ hi \in lo .. hi /\ g \in lo .. hi /\ \A i \in lo .. g : i \in lo .. hi /\ i # hi
        /\ \A i \in lo .. hi : i = hi \/ i \in lo .. g
        /\ \A i \in lo .. g - 1 : i \in lo .. hi - 1 /\ i \in lo .. hi /\ i # g
    BY <2>0
  <2>5. YqueueLinks(p, lo, g)'
    <3>1. /\ next' \in [Chunks -> Chunks \cup {"NULL"}] /\ prev' = prev
          /\ \A k \in Chunks : k # p[g] => next'[k] = next[k]
      BY <1>0, <1>1, <2>0, <2>1 DEF YqueueLinks
    <3>2. \A i \in lo .. g - 1 : p[i] # p[g] /\ p[i] \in Chunks
      BY <1>0, <2>4 DEF YqueueLinks
    <3> QED
      BY <1>0, <2>4, <3>1, <3>2 DEF YqueueLinks
  <2>6. YqueueHeap(p, lo, g)'
    <3>1. \A k : InUse(p, lo, g, k) <=> InUse(p, lo, hi, k) /\ k # p[hi]
      BY <1>0, <2>4 DEF InUse, YqueueLinks
    <3>2. InUse(p, lo, hi, p[hi])
      BY <2>4 DEF InUse
    <3>3. \A k : k \in heap' <=> InUse(p, lo, g, k) \/ (k # "NULL" /\ k \in {spare_chunk, sc, o})
      BY <1>0, <2>1, <3>1, <3>2 DEF YqueueHeap
    <3> QED
      BY <1>0, <1>1, <3>1, <3>3 DEF YqueueHeap, InUse
  <2>7. YqueueValues(p, lo, g)'
    <3>1. /\ popped \in Int /\ pushed \in Int /\ popped' \in Int /\ pushed' \in Int
          /\ popped <= popped' /\ pushed' <= pushed /\ values' = values
      BY <1>1, <1>2
    <3> QED
      BY <1>0, <2>0, <2>4, <3>1, ValuesKept
  <2> QED
    BY <2>0, <2>3, <2>5, <2>6, <2>7 DEF YqueueInv, YqueueOK
<1> QED
  BY <1>2, <1>5, <1>6

\* pop: the reader leaves a chunk for the next one, which the writer has linked.
LEMMA YqueuePop ==
  ASSUME NEW p \in [Nat -> Chunks], NEW lo \in Nat, NEW hi \in Nat, YqueueOK(p, lo, hi), Q!pop
  PROVE  YqueueInv'
<1>0. /\ YqueuePlaces(p, lo, hi) /\ YqueueLinks(p, lo, hi) /\ YqueueHeap(p, lo, hi)
      /\ YqueueValues(p, lo, hi) /\ N \in Nat /\ N > 0 /\ "NULL" \notin Chunks
      /\ lo * N \in Nat /\ hi * N \in Nat
  BY QueuesAssumption, Times DEF YqueueOK
<1>1. /\ rplace = "idle" /\ popped < published /\ popped' = popped + 1
      /\ UNCHANGED <<heap, values, next, spare_chunk, back_chunk, back_pos, end_chunk, end_pos,
                     wplace, sc, pushed, published>>
  BY DEF Q!pop, Q!writer
<1>2. /\ begin_pos \in 0 .. N - 1 /\ popped = lo * N + begin_pos /\ popped \in Nat /\ lo <= hi
      /\ begin_chunk = p[lo] /\ end_pos \in 0 .. N /\ pushed = hi * N + end_pos /\ pushed \in Nat
      /\ published \in Nat /\ popped + 1 <= published /\ published < pushed
      /\ published' \in Nat /\ popped' <= published' /\ published' < pushed' /\ pushed' > 0
  BY <1>0, <1>1 DEF YqueuePlaces
<1>3. /\ popped \in Int /\ pushed \in Int /\ popped' \in Int /\ pushed' \in Int
      /\ popped <= popped' /\ pushed' <= pushed /\ values' = values
  BY <1>1, <1>2
<1>4. CASE begin_pos + 1 # N
  <2>1. begin_pos' = begin_pos + 1 /\ UNCHANGED <<begin_chunk, prev, rplace, o>>
    BY <1>4 DEF Q!pop
  <2>2. YqueuePlaces(p, lo, hi)'
    <3>1. begin_pos' \in 0 .. N - 1 /\ popped' = lo * N + begin_pos'
      BY <1>0, <1>1, <1>2, <1>4, <2>1
    <3> QED
      BY <1>0, <1>1, <1>2, <2>1, <3>1 DEF YqueuePlaces
  <2>3. YqueueLinks(p, lo, hi)' /\ YqueueHeap(p, lo, hi)'
    BY <1>0, <1>1, <2>1 DEF YqueueLinks, YqueueHeap, InUse
  <2>4. YqueueValues(p, lo, hi)'
    BY <1>0, <1>3, ValuesKept
  <2> QED
    BY <2>2, <2>3, <2>4 DEF YqueueInv, YqueueOK
<1>5. CASE begin_pos + 1 = N
  <2> DEFINE g == lo + 1
  <2>0. lo < hi
    <3> SUFFICES ASSUME ~ (lo < hi) PROVE FALSE
      OBVIOUS
    <3>1. lo = hi
      BY <1>2
    <3> QED
      BY <1>0, <1>2, <1>5, <3>1
  <2>1. /\ g \in Nat /\ g \in lo .. hi /\ lo \in lo .. hi /\ g <= hi /\ g * N = lo * N + N
        /\ next[p[lo]] = p[g] /\ lo # g
        /\ \A i \in g .. hi : i \in lo .. hi /\ i # lo
        /\ \A i \in lo .. hi : i = lo \/ i \in g .. hi
        /\ \A i \in g .. hi - 1 : i \in lo .. hi - 1 /\ i + 1 \in lo .. hi /\ i + 1 # g
    BY <1>0, <2>0, Times DEF YqueueLinks
  <2> HIDE DEF g
  <2>2. /\ begin_pos' = 0 /\ begin_chunk' = p[g] /\ prev' = [prev EXCEPT ![p[g]] = "NULL"]
        /\ rplace' = "spare" /\ o' = p[lo]
    BY <1>2, <1>5, <2>1 DEF Q!pop, Q!NULL
  <2>3. YqueuePlaces(p, g, hi)'
    <3>1. begin_pos' \in 0 .. N - 1 /\ popped' = g * N + begin_pos'
      BY <1>0, <1>1, <1>2, <1>5, <2>1, <2>2
    <3>2. IF end_pos' > 0 THEN back_chunk' = p[hi] /\ back_pos' = end_pos' - 1
          ELSE g < hi /\ back_chunk' = p[hi - 1] /\ back_pos' = N - 1
      <4>1. CASE end_pos > 0
        BY <1>0, <1>1, <1>2, <4>1 DEF YqueuePlaces
      <4>2. CASE ~ (end_pos > 0)
        <5>1. end_pos = 0 /\ g # hi
          BY <1>0, <1>1, <1>2, <1>5, <2>1, <4>2
        <5> QED
          BY <1>0, <1>1, <1>2, <2>1, <5>1 DEF YqueuePlaces
      <4> QED
        BY <4>1, <4>2
    <3>3. /\ end_chunk' = p[hi] /\ end_pos' \in 0 .. N /\ pushed' = hi * N + end_pos'
          /\ wplace' = (IF end_pos' = N THEN "link" ELSE "idle")
      BY <1>0, <1>1 DEF YqueuePlaces
    <3> QED
      BY <1>2, <2>1, <2>2, <3>1, <3>2, <3>3 DEF YqueuePlaces
  <2>4. YqueueLinks(p, g, hi)'
    <3>1. /\ prev' \in [Chunks -> Chunks \cup {"NULL"}] /\ next' = next
          /\ \A k \in Chunks : k # p[g] => prev'[k] = prev[k]
      BY <1>0, <1>1, <2>1, <2>2 DEF YqueueLinks
    <3>2. \A i \in g .. hi - 1 : p[i + 1] # p[g] /\ p[i + 1] \in Chunks
      BY <1>0, <2>1 DEF YqueueLinks
    <3> QED
      BY <1>0, <2>1, <3>1, <3>2 DEF YqueueLinks
  <2>5. YqueueHeap(p, g, hi)'
    <3>1. \A k : InUse(p, g, hi, k) <=> InUse(p, lo, hi, k) /\ k # p[lo]
      BY <1>0, <2>1 DEF InUse, YqueueLinks
    <3>2. InUse(p, lo, hi, p[lo]) /\ o = "NULL" /\ p[lo] \in Chunks
      BY <1>0, <1>1, <2>1 DEF InUse, YqueueHeap
    <3>3. \A k : k \in heap' <=> InUse(p, g, hi, k) \/ (k # "NULL" /\ k \in {spare_chunk', sc', o'})
      BY <1>0, <1>1, <2>2, <3>1, <3>2 DEF YqueueHeap
    <3>4. \A k \in {spare_chunk', sc', o'} : ~ InUse(p, g, hi, k)
      BY <1>0, <1>1, <2>2, <3>1, <3>2 DEF YqueueHeap
    <3>5. spare_chunk # p[lo] /\ sc # p[lo]
      BY <1>0, <3>2 DEF YqueueHeap
    <3>6. \A k : InUse(p, g, hi, k)' <=> InUse(p, g, hi, k)
      BY DEF InUse
    <3> QED
      BY <1>0, <1>1, <2>2, <3>2, <3>3, <3>4, <3>5, <3>6 DEF YqueueHeap
  <2>6. YqueueValues(p, g, hi)'
    BY <1>0, <1>3, <2>1, ValuesKept
  <2> QED
    BY <2>1, <2>3, <2>4, <2>5, <2>6 DEF YqueueInv, YqueueOK
<1> QED
  BY <1>4, <1>5

\* publish, and the rest of pop: the chunk the reader has left becomes the spare
\* one, and the spare one is freed.
LEMMA YqueueSwap ==
  ASSUME NEW p \in [Nat -> Chunks], NEW lo \in Nat, NEW hi \in Nat, YqueueOK(p, lo, hi),
         Q!publish \/ Q!swapSpare
  PROVE  YqueueOK(p, lo, hi)'
<1>0. /\ YqueuePlaces(p, lo, hi) /\ YqueueLinks(p, lo, hi) /\ YqueueHeap(p, lo, hi)
      /\ YqueueValues(p, lo, hi) /\ N \in Nat /\ N > 0 /\ "NULL" \notin Chunks
      /\ lo * N \in Nat /\ hi * N \in Nat
  BY QueuesAssumption, Times DEF YqueueOK
<1>1. CASE Q!publish
  <2>1. /\ published' \in published + 1 .. pushed - 1
        /\ UNCHANGED <<heap, values, prev, next, spare_chunk, back_chunk, back_pos, end_chunk,
                       end_pos, wplace, sc, pushed, begin_chunk, begin_pos, rplace, o, popped>>
    BY <1>1 DEF Q!publish, Q!reader
  <2>2. popped <= published' /\ published' < pushed /\ published' \in Nat
    BY <1>0, <2>1 DEF YqueuePlaces
  <2>3. YqueuePlaces(p, lo, hi)'
    BY <1>0, <2>1, <2>2 DEF YqueuePlaces
  <2> QED
    BY <1>0, <2>1, <2>3 DEF YqueueOK, YqueueLinks, YqueueHeap, YqueueValues, InUse
<1>2. CASE Q!swapSpare
  <2>1. /\ rplace = "spare" /\ spare_chunk' = o /\ heap' = heap \ {spare_chunk}
        /\ rplace' = "idle" /\ o' = "NULL"
        /\ UNCHANGED <<values, prev, next, back_chunk, back_pos, end_chunk, end_pos, wplace, sc,
                       pushed, published, begin_chunk, begin_pos, popped>>
    BY <1>2 DEF Q!swapSpare, Q!writer, Q!NULL
  <2>2. YqueuePlaces(p, lo, hi)' /\ YqueueLinks(p, lo, hi)'
    BY <1>0, <2>1 DEF YqueuePlaces, YqueueLinks
  <2>3. YqueueValues(p, lo, hi)'
    BY <1>0, <2>1 DEF YqueueValues
  <2>4. YqueueHeap(p, lo, hi)'
    <3>1. ~ InUse(p, lo, hi, spare_chunk) /\ o # "NULL" /\ ~ InUse(p, lo, hi, "NULL")
          /\ (spare_chunk # "NULL" => spare_chunk # o)
      BY <1>0, <2>1 DEF YqueueHeap, InUse
    <3>2. \A k : k \in heap' <=> InUse(p, lo, hi, k) \/ (k # "NULL" /\ k \in {spare_chunk', sc', o'})
      BY <1>0, <2>1, <3>1 DEF YqueueHeap
    <3>3. \A k : InUse(p, lo, hi, k)' <=> InUse(p, lo, hi, k)
      BY DEF InUse
    <3> QED
      BY <1>0, <2>1, <3>1, <3>2, <3>3 DEF YqueueHeap
  <2> QED
    BY <2>2, <2>3, <2>4 DEF YqueueOK
<1> QED
  BY <1>1, <1>2

\* Every set of naturals has a least element, so that what holds for each number
\* when it holds for the smaller ones holds for all.
LEMMA LeastNatural ==
  ASSUME NEW T \in SUBSET Nat, T # {}
  PROVE  \E x \in T : \A y \in T : x <= y
<1>1. IsWellFoundedOn(OpToRel(<, Nat), Nat)
  BY NatLessThanWellFounded
<1>2. PICK x \in T : \A y \in T : ~ (<<y, x>> \in OpToRel(<, Nat))
  BY <1>1, WFMin
<1>3. \A y \in T : ~ (y < x)
  BY <1>2 DEF OpToRel
<1> QED
  BY <1>3

\* One step along next, as Chain takes it.
After(a, k) ==
  IF k = 0 THEN {begin_chunk}
  ELSE a[k - 1] \cup {next[d] : d \in a[k - 1] \ {end_chunk, "NULL"}}

\* The function that Chain is defined by satisfies its recursion if any does.
LEMMA ChainFollows ==
  ASSUME NEW g, g = [k \in 0 .. Cardinality(Chunks) |-> After(g, k)]
  PROVE  \E a : /\ a = [k \in 0 .. Cardinality(Chunks) |-> After(a, k)]
                /\ Q!Chain = a[Cardinality(Chunks)]
<1> DEFINE b == CHOOSE a : a = [k \in 0 .. Q!Cardinality(Chunks) |-> After(a, k)]
<1>1. Q!Cardinality(Chunks) = Cardinality(Chunks)
  BY SameCardinality
<1>2. b = [k \in 0 .. Q!Cardinality(Chunks) |-> After(b, k)]
  BY <1>1
<1>3. Q!Chain = b[Q!Cardinality(Chunks)]
  BY DEF Q!Chain, After, Q!NULL
<1> QED
  BY <1>1, <1>2, <1>3

\* Chain, which follows next from begin_chunk, finds the chunks in use.
LEMMA ChainInUse ==
  ASSUME NEW p \in [Nat -> Chunks], NEW lo \in Nat, NEW hi \in Nat, YqueueOK(p, lo, hi)
  PROVE  \A k : k \in Q!Chain <=> InUse(p, lo, hi, k)
<1> DEFINE K == Cardinality(Chunks)
           top(k) == IF lo + k <= hi THEN lo + k ELSE hi
           First(k) == {p[i] : i \in lo .. top(k)}
           g == [k \in 0 .. K |-> First(k)]
<1>0. /\ YqueuePlaces(p, lo, hi) /\ YqueueLinks(p, lo, hi) /\ "NULL" \notin Chunks
      /\ begin_chunk = p[lo] /\ end_chunk = p[hi] /\ lo <= hi /\ K \in Nat
  BY QueuesAssumption, FS_CardinalityType DEF YqueueOK, YqueuePlaces
<1> HIDE DEF K
<1>1. First(0) = {p[lo]}
  BY <1>0
<1>2. ASSUME NEW k \in Nat \ {0}
      PROVE  First(k) = First(k - 1) \cup {next[d] : d \in First(k - 1) \ {end_chunk, "NULL"}}
  <2> DEFINE R == {next[d] : d \in First(k - 1) \ {end_chunk, "NULL"}}
  <2>1. /\ top(k - 1) \in lo .. hi /\ top(k) \in lo .. hi /\ top(k - 1) <= top(k)
        /\ top(k) <= top(k - 1) + 1 /\ (top(k - 1) < hi => top(k) = top(k - 1) + 1)
    BY <1>0
  <2> HIDE DEF top
  <2>2. ASSUME NEW i \in lo .. top(k - 1), i # hi
        PROVE  p[i + 1] \in R /\ next[p[i]] = p[i + 1]
    <3>1. i \in lo .. hi - 1 /\ i \in lo .. hi /\ hi \in lo .. hi /\ p[i] \in Chunks
      BY <1>0, <2>1, <2>2
    <3>2. p[i] # p[hi] /\ p[i] # "NULL" /\ next[p[i]] = p[i + 1]
      BY <1>0, <2>2, <3>1 DEF YqueueLinks
    <3>3. p[i] \in First(k - 1) \ {end_chunk, "NULL"}
      BY <1>0, <3>2
    <3> HIDE DEF First
    <3> QED
      BY <3>2, <3>3
  <2>3. ASSUME NEW x \in First(k) PROVE x \in First(k - 1) \cup R
    <3>1. PICK i \in lo .. top(k) : x = p[i]
      BY <2>3
    <3>2. CASE i <= top(k - 1)
      BY <2>1, <3>1, <3>2
    <3>3. CASE ~ (i <= top(k - 1))
      <4>1. i - 1 \in lo .. top(k - 1) /\ i - 1 # hi /\ (i - 1) + 1 = i
        BY <1>0, <2>1, <3>1, <3>3
      <4>2. p[(i - 1) + 1] \in R
        BY <2>2, <4>1
      <4> HIDE DEF R
      <4> QED
        BY <3>1, <4>1, <4>2
    <3> QED
      BY <3>2, <3>3
  <2>4. ASSUME NEW x \in R PROVE x \in First(k)
    <3>1. PICK d \in First(k - 1) : d # end_chunk /\ x = next[d]
      BY <2>4
    <3>2. PICK i \in lo .. top(k - 1) : d = p[i]
      BY <3>1
    <3>3. i # hi /\ x = p[i + 1]
      BY <1>0, <2>2, <3>1, <3>2
    <3>4. i + 1 \in lo .. top(k)
      BY <1>0, <2>1, <3>3
    <3> QED
      BY <3>3, <3>4
  <2>5. \A x : x \in First(k - 1) => x \in First(k)
    BY <2>1
  <2> HIDE DEF First, R
  <2>6. First(k) = First(k - 1) \cup R
    BY <2>3, <2>4, <2>5
  <2> QED
    BY <2>6 DEF R
<1> HIDE DEF First
<1>3. g = [k \in 0 .. K |-> After(g, k)]
  <2>1. ASSUME NEW k \in 0 .. K PROVE First(k) = After(g, k)
    <3>1. CASE k = 0
      BY <1>0, <1>1, <3>1 DEF After
    <3>2. CASE k # 0
      <4>1. k \in Nat \ {0} /\ k - 1 \in 0 .. K
        BY <1>0, <3>2
      <4>2. g[k - 1] = First(k - 1)
        BY <4>1
      <4> HIDE DEF g
      <4> QED
        BY <1>2, <3>2, <4>1, <4>2 DEF After
    <3> QED
      BY <3>1, <3>2
  <2> QED
    BY <2>1
<1> HIDE DEF g
<1>4. PICK a : a = [k \in 0 .. K |-> After(a, k)] /\ Q!Chain = a[K]
  BY <1>3, ChainFollows DEF K
<1>5. \A k \in 0 .. K : a[k] = First(k)
  <2> DEFINE T == {k \in 0 .. K : a[k] # First(k)}
  <2> SUFFICES ASSUME T # {} PROVE FALSE
    OBVIOUS
  <2>1. T \in SUBSET Nat
    BY <1>0
  <2>2. PICK k \in T : \A y \in T : k <= y
    BY <2>1, LeastNatural
  <2>3. k \in 0 .. K /\ a[k] # First(k) /\ a[k] = After(a, k)
    BY <1>4, <2>2
  <2>4. CASE k = 0
    BY <1>0, <1>1, <2>3, <2>4 DEF After
  <2>5. CASE k # 0
    <3>1. k \in Nat \ {0} /\ k - 1 \in 0 .. K /\ ~ (k <= k - 1)
      BY <1>0, <2>3, <2>5
    <3>2. a[k - 1] = First(k - 1)
      BY <2>2, <3>1
    <3>3. After(a, k) = First(k)
      BY <1>2, <2>5, <3>1, <3>2 DEF After
    <3> QED
      BY <2>3, <3>3
  <2> QED
    BY <2>4, <2>5
<1>6. hi - lo < K
  <2> DEFINE f1 == [i \in lo .. hi |-> p[i]]
  <2>1. f1 \in Injection(lo .. hi, Chunks)
    BY <1>0 DEF Injection, IsInjective, YqueueLinks
  <2>2. IsFiniteSet(Chunks)
    BY QueuesAssumption
  <2>3. Cardinality(lo .. hi) <= Cardinality(Chunks)
    BY <2>1, <2>2, FS_Injection
  <2>4. Cardinality(lo .. hi) = hi - lo + 1
    BY <1>0, FS_Interval
  <2> QED
    BY <1>0, <2>3, <2>4 DEF K
<1>7. top(K) = hi
  BY <1>0, <1>6
<1>8. Q!Chain = First(K) /\ First(K) = {p[i] : i \in lo .. hi}
  BY <1>0, <1>4, <1>5, <1>7 DEF First
<1> QED
  BY <1>8 DEF InUse

\* The invariant says what YqueueSafe says.
LEMMA YqueueInvSafe == ASSUME YqueueInv PROVE Q!NoLeakNoUseAfterFree /\ Q!RightElement
<1>0. PICK p \in [Nat -> Chunks], lo \in Nat, hi \in Nat : YqueueOK(p, lo, hi)
  BY DEF YqueueInv
<1>1. /\ YqueuePlaces(p, lo, hi) /\ YqueueHeap(p, lo, hi) /\ YqueueValues(p, lo, hi)
      /\ N \in Nat /\ N > 0 /\ "NULL" \notin Chunks /\ lo * N \in Nat /\ hi * N \in Nat
      /\ lo <= hi /\ lo \in lo .. hi /\ hi \in lo .. hi
  BY <1>0, QueuesAssumption, Times DEF YqueueOK, YqueuePlaces
<1>2. \A k : k \in Q!Chain <=> InUse(p, lo, hi, k)
  BY <1>0, ChainInUse
<1>3. Q!NoLeakNoUseAfterFree
  <2>1. ~ InUse(p, lo, hi, "NULL") /\ InUse(p, lo, hi, end_chunk)
    BY <1>1 DEF InUse, YqueuePlaces
  <2>2. heap = (Q!Chain \cup {spare_chunk, sc, o}) \ {"NULL"}
    BY <1>1, <1>2, <2>1 DEF YqueueHeap
  <2> QED
    BY <1>1, <1>2, <2>1, <2>2 DEF Q!NoLeakNoUseAfterFree, YqueueHeap, Q!NULL
<1>4. popped < published => values[begin_chunk][begin_pos] = popped
  <2>1. /\ begin_chunk = p[lo] /\ begin_pos \in 0 .. N - 1 /\ popped = lo * N + begin_pos
        /\ popped \in Nat /\ (popped < published => popped < pushed)
    BY <1>1 DEF YqueuePlaces
  <2>2. popped <= lo * N + begin_pos /\ lo * N + begin_pos < pushed =>
          values[p[lo]][begin_pos] = lo * N + begin_pos
    BY <1>1, <2>1 DEF YqueueValues
  <2> QED
    BY <2>1, <2>2
<1>5. pushed > 0 => back_chunk \in heap /\ values[back_chunk][back_pos] = pushed - 1
  <2> SUFFICES ASSUME pushed > 0 PROVE back_chunk \in heap /\ values[back_chunk][back_pos] = pushed - 1
    OBVIOUS
  <2>1. popped <= pushed - 1 /\ pushed - 1 < pushed /\ pushed \in Nat /\ popped \in Nat
    BY <1>1 DEF YqueuePlaces
  <2>2. PICK i \in lo .. hi : back_chunk = p[i] /\ back_pos \in 0 .. N - 1 /\ i * N + back_pos = pushed - 1
    <3>1. CASE end_pos > 0
      <4>1. back_chunk = p[hi] /\ back_pos \in 0 .. N - 1 /\ hi * N + back_pos = pushed - 1
        BY <1>1, <3>1 DEF YqueuePlaces
      <4> QED
        BY <1>1, <4>1
    <3>2. CASE ~ (end_pos > 0)
      <4>1. PICK j \in Nat : j = hi - 1 /\ j \in lo .. hi /\ hi = j + 1
        BY <1>1, <3>2 DEF YqueuePlaces
      <4>2. hi * N = j * N + N /\ j * N \in Nat
        BY <4>1, Times
      <4>3. back_chunk = p[j] /\ back_pos = N - 1 /\ pushed = hi * N
        BY <1>1, <3>2, <4>1 DEF YqueuePlaces
      <4>4. back_pos \in 0 .. N - 1 /\ j * N + back_pos = pushed - 1
        BY <1>1, <4>2, <4>3
      <4> QED
        BY <4>1, <4>3, <4>4
    <3> QED
      BY <3>1, <3>2
  <2>3. InUse(p, lo, hi, back_chunk)
    BY <2>2 DEF InUse
  <2>4. values[p[i]][back_pos] = i * N + back_pos
    BY <1>1, <2>1, <2>2 DEF YqueueValues
  <2> QED
    BY <1>1, <2>2, <2>3, <2>4 DEF YqueueHeap
<1> QED
  BY <1>3, <1>4, <1>5 DEF Q!RightElement

\* yqueue_t for any chunk size, any finite memory and any number of elements:
\* although the two threads share only the spare chunk, no chunk is leaked, freed
\* twice or used after it was freed, and each finds its element where it looks.
THEOREM YqueueAlwaysSafe == MCSpec => []YqueueSafe
<1> DEFINE Inv == model = "yqueue" => YqueueInv
<1>1. MCInit => Inv
  BY InitYqueue DEF MCInit
<1>2. Inv /\ [MCNext]_<<model, vars, yqueueVars, mailboxVars, conflateVars, msgVars>> => Inv'
  <2> SUFFICES ASSUME Inv, [MCNext]_<<model, vars, yqueueVars, mailboxVars, conflateVars, msgVars>>,
                      model' = "yqueue"
               PROVE  YqueueInv'
    OBVIOUS
  <2>1. model = "yqueue" /\ YqueueInv /\ (Q!Next \/ UNCHANGED yqueueVars)
    BY DEF MCNext
  <2>2. PICK p \in [Nat -> Chunks], lo \in Nat, hi \in Nat : YqueueOK(p, lo, hi)
    BY <2>1 DEF YqueueInv
  <2>3. CASE UNCHANGED yqueueVars
    <3>1. YqueueOK(p, lo, hi)'
      BY <2>2, <2>3 DEF yqueueVars, YqueueOK, YqueuePlaces, YqueueLinks, YqueueHeap, YqueueValues, InUse
    <3> QED
      BY <3>1 DEF YqueueInv
  <2>4. CASE Q!push \/ Q!publish \/ Q!swapSpare
    <3>1. YqueueOK(p, lo, hi)'
      BY <2>2, <2>4, YqueuePush, YqueueSwap
    <3> QED
      BY <3>1 DEF YqueueInv
  <2>5. CASE Q!linkChunk \/ Q!unpush \/ Q!pop
    BY <2>2, <2>5, YqueueLink, YqueueUnpush, YqueuePop
  <2> QED
    BY <2>1, <2>3, <2>4, <2>5 DEF Q!Next
<1>3. Inv => YqueueSafe
  BY YqueueInvSafe DEF YqueueSafe
<1> QED
  BY <1>1, <1>2, <1>3, PTL DEF MCSpec
=============================================================================
