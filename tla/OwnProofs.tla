------------------------------ MODULE OwnProofs ------------------------------
(***************************************************************************)
(* Proofs about Own: nobody talks to a destroyed object and no owner goes  *)
(* before its children, for every tree of objects over any threads, with   *)
(* any number of binds.                                                    *)
(***************************************************************************)
EXTENDS Own, SequenceTheorems, FiniteSetTheorems, TLAPS

-----------------------------------------------------------------------------
(* The inductive invariant.  Its parts take the objects ob, the mailboxes  *)
(* mb and the announced binds bd as parameters, because a handler is put   *)
(* together from smaller steps that each preserve it.                      *)

Fields ==
  [life : {"unborn", "alive", "deleted"}, plugged : BOOLEAN, terminating : BOOLEAN,
   pending : BOOLEAN, sent_seqnum : Nat, processed_seqnum : Nat, owned : SUBSET Objects,
   term_acks : Nat, attached : BOOLEAN]

CountedTypes == {"plug", "attach", "bind", "own"}
OnceTypes    == {"own", "term", "term_ack"}

Commands == [type : CountedTypes \cup OnceTypes \cup {"term_req"}, dest : Objects, arg : Objects]

Children == Objects \ {Root}

OwnCmd(c)  == Cmd("own", Parent[c], c)
TermCmd(c) == Cmd("term", c, Parent[c])
AckCmd(c)  == Cmd("term_ack", Parent[c], c)

\* Who a command may come from.
WellFormed(m) ==
  /\ m \in Commands
  /\ m.type \in {"own", "attach", "term_req", "term_ack"} =>
       m.arg \in Children /\ m.dest = Parent[m.arg]
  /\ m.type \in {"plug", "term"} => m.dest \in Children /\ m.arg = Parent[m.dest]

\* Every command is in the mailbox of its object's thread; own, term and
\* term_ack are sent once.
Boxes(mb) ==
  /\ mb \in [Threads -> Seq(Commands)]
  /\ \A t \in Threads : \A i \in 1 .. Len(mb[t]) :
       /\ WellFormed(mb[t][i]) /\ Thread[mb[t][i].dest] = t
       /\ \A j \in 1 .. Len(mb[t]) :
            mb[t][i].type \in OnceTypes /\ mb[t][i] = mb[t][j] => i = j

\* A child that asks for its end is there, or its acknowledgement comes behind.
Order(ob, mb) ==
  \A t \in Threads : \A i \in 1 .. Len(mb[t]) :
    mb[t][i].type = "term_req" =>
      \/ ob[mb[t][i].arg].life = "alive"
      \/ \E j \in i + 1 .. Len(mb[t]) : mb[t][j] = AckCmd(mb[t][i].arg)

\* The commands of the three kinds that are on their way.
Once(mb) ==
  {m \in Commands : /\ m.type \in OnceTypes
                    /\ \E i \in 1 .. Len(mb[Thread[m.dest]]) : mb[Thread[m.dest]][i] = m}

\* How many counted commands are on their way to each object.
Counted(o) == {m \in Commands : m.dest = o /\ m.type \in CountedTypes}
Places(q, K) == {i \in 1 .. Len(q) : q[i] \in K}
Dues(mb) == [o \in Objects |-> Cardinality(Places(mb[Thread[o]], Counted(o)))]

SentRight(ob, ct, bd) ==
  \A o \in Objects : ob[o].sent_seqnum = ob[o].processed_seqnum + ct[o] + IF o = Root THEN bd ELSE 0

\* Who is not alive waits for nothing, and who terminates owns nothing.
Quiet(ob) ==
  \A o \in Objects :
    /\ ob[o].life # "alive" =>
         ob[o].sent_seqnum = ob[o].processed_seqnum /\ ob[o].term_acks = 0 /\ ob[o].owned = {}
    /\ ob[o].terminating => ob[o].owned = {}

\* A child is owned, announced, asked to terminate, or none of these; in the
\* first three cases it has not begun to terminate.
Fresh(r) == r.life = "alive" /\ ~ r.terminating /\ ~ r.pending

ChildRight(ob, M) ==
  \A c \in Children :
    LET owned == c \in ob[Parent[c]].owned IN
    /\ owned => Fresh(ob[c]) /\ OwnCmd(c) \notin M /\ TermCmd(c) \notin M
    /\ OwnCmd(c) \in M => Fresh(ob[c]) /\ TermCmd(c) \notin M
    /\ TermCmd(c) \in M => Fresh(ob[c])
    /\ AckCmd(c) \in M => ob[c].life = "deleted"

OwnedRight(ob) == \A o \in Objects : \A c \in ob[o].owned : c \in Children /\ Parent[c] = o

\* The children whose acknowledgement an owner waits for.
Waited(ob, M, o) ==
  {c \in Children : /\ Parent[c] = o
                    /\ \/ ob[c].life = "alive" /\ c \notin ob[o].owned /\ OwnCmd(c) \notin M
                       \/ AckCmd(c) \in M}

AcksRight(ob, M) == \A o \in Objects : ob[o].term_acks = Cardinality(Waited(ob, M, o))

Born(ob) == {o \in Objects : ob[o].life # "unborn"}

\* What relates the objects to what is on its way.
Books(ob, M, ct, bd) ==
  /\ ob \in [Objects -> Fields] /\ bd \in Nat /\ ct \in [Objects -> Nat]
  /\ SentRight(ob, ct, bd) /\ Quiet(ob) /\ ChildRight(ob, M) /\ OwnedRight(ob)
  /\ AcksRight(ob, M) /\ IsFiniteSet(Born(ob))

OwnInvOf(ob, mb, bd) == Boxes(mb) /\ Order(ob, mb) /\ Books(ob, Once(mb), Dues(mb), bd)

OwnInv == OwnInvOf(obj, inbox, binding)

-----------------------------------------------------------------------------
(* Counting in a mailbox.                                                  *)

\* A mailbox is finite.
LEMMA PlacesFinite ==
  ASSUME NEW q \in Seq(Commands), NEW K
  PROVE  IsFiniteSet(Places(q, K)) /\ Cardinality(Places(q, K)) \in Nat
<1>1. Len(q) \in Nat /\ IsFiniteSet(1 .. Len(q)) /\ Places(q, K) \in SUBSET (1 .. Len(q))
  BY FS_Interval, LenProperties DEF Places
<1> QED
  BY <1>1, FS_Subset, FS_CardinalityType

\* One command more.
LEMMA PlacesAppend ==
  ASSUME NEW q \in Seq(Commands), NEW m \in Commands, NEW K
  PROVE  Cardinality(Places(Append(q, m), K)) =
           Cardinality(Places(q, K)) + IF m \in K THEN 1 ELSE 0
<1>1. /\ Len(q) \in Nat /\ Len(Append(q, m)) = Len(q) + 1
      /\ \A i \in 1 .. Len(q) : Append(q, m)[i] = q[i]
      /\ Append(q, m)[Len(q) + 1] = m
  BY LenProperties, AppendProperties
<1>2. IsFiniteSet(Places(q, K)) /\ Cardinality(Places(q, K)) \in Nat
  BY PlacesFinite
<1>5. Len(q) + 1 \notin Places(q, K)
  BY <1>1 DEF Places
<1>3. CASE m \in K
  <2>1. Places(Append(q, m), K) = Places(q, K) \cup {Len(q) + 1}
    BY <1>1, <1>3 DEF Places
  <2> QED
    BY <1>2, <1>3, <1>5, <2>1, FS_AddElement
<1>4. CASE m \notin K
  <2>1. Places(Append(q, m), K) = Places(q, K)
    BY <1>1, <1>4 DEF Places
  <2> QED
    BY <1>2, <1>4, <2>1
<1> QED
  BY <1>3, <1>4

\* The first command less.
LEMMA PlacesTail ==
  ASSUME NEW q \in Seq(Commands), q # <<>>, NEW K
  PROVE  Cardinality(Places(q, K)) =
           Cardinality(Places(Tail(q), K)) + IF Head(q) \in K THEN 1 ELSE 0
<1> DEFINE A == Places(Tail(q), K)
           B == {i \in Places(q, K) : i > 1}
           f == [i \in A |-> i + 1]
<1>1. /\ Len(q) \in Nat /\ Len(q) >= 1 /\ Head(q) = q[1]
      /\ Tail(q) \in Seq(Commands) /\ Len(Tail(q)) = Len(q) - 1
      /\ \A i \in 1 .. Len(q) - 1 : Tail(q)[i] = q[i + 1]
  BY LenProperties, HeadTailProperties, EmptySeq
<1>2. f \in Bijection(A, B)
  <2>1. \A i \in A : i \in Int /\ f[i] = i + 1 /\ f[i] \in B
    BY <1>1 DEF Places
  <2>2. \A i, j \in A : f[i] = f[j] => i = j
    BY <2>1
  <2>3. \A k \in B : \E i \in A : f[i] = k
    <3> SUFFICES ASSUME NEW k \in B PROVE k - 1 \in A /\ f[k - 1] = k
      OBVIOUS
    <3>1. k \in 1 .. Len(q) /\ k > 1 /\ q[k] \in K
      BY DEF Places
    <3>2. k - 1 \in 1 .. Len(q) - 1 /\ (k - 1) + 1 = k
      BY <1>1, <3>1
    <3>3. Tail(q)[k - 1] = q[k]
      BY <1>1, <3>2
    <3>4. k - 1 \in A
      BY <1>1, <3>1, <3>2, <3>3 DEF Places
    <3> QED
      BY <2>1, <3>2, <3>4
  <2>4. f \in [A -> B]
    BY <2>1
  <2> HIDE DEF f, A, B
  <2> QED
    BY <2>2, <2>3, <2>4 DEF Bijection, Injection, Surjection, IsInjective
<1>3. IsFiniteSet(A) /\ Cardinality(A) \in Nat
  BY <1>1, PlacesFinite
<1>4. IsFiniteSet(B) /\ Cardinality(B) = Cardinality(A)
  BY <1>2, <1>3, FS_Bijection DEF ExistsBijection
<1>5. CASE Head(q) \in K
  <2>1. Places(q, K) = B \cup {1} /\ 1 \notin B
    BY <1>1, <1>5 DEF Places
  <2> HIDE DEF A, B
  <2>2. Cardinality(B \cup {1}) = Cardinality(B) + 1
    BY <1>4, <2>1, FS_AddElement
  <2> QED
    BY <1>3, <1>4, <1>5, <2>1, <2>2 DEF A
<1>6. CASE Head(q) \notin K
  <2>1. Places(q, K) = B
    BY <1>1, <1>6 DEF Places
  <2> HIDE DEF A, B
  <2> QED
    BY <1>3, <1>4, <1>6, <2>1 DEF A
<1> QED
  BY <1>5, <1>6

\* Commands that are not counted do not change the count.
LEMMA PlacesConcat ==
  ASSUME NEW q \in Seq(Commands), NEW s \in Seq(Commands), NEW K,
         \A i \in 1 .. Len(s) : s[i] \notin K
  PROVE  Places(q \o s, K) = Places(q, K)
<1>1. /\ Len(q) \in Nat /\ Len(s) \in Nat /\ Len(q \o s) = Len(q) + Len(s)
      /\ \A i \in 1 .. Len(q) + Len(s) : (q \o s)[i] = IF i <= Len(q) THEN q[i] ELSE s[i - Len(q)]
  BY LenProperties, ConcatProperties
<1>2. \A i \in 1 .. Len(q) + Len(s) : i > Len(q) => i - Len(q) \in 1 .. Len(s)
  BY <1>1
<1>3. \A i \in Places(q \o s, K) : i \in Places(q, K)
  BY <1>1, <1>2 DEF Places
<1>4. \A i \in Places(q, K) : i \in Places(q \o s, K)
  BY <1>1 DEF Places
<1> QED
  BY <1>3, <1>4

-----------------------------------------------------------------------------
(* What sending and taking a command does to the mailboxes.                *)

\* A command of the three kinds is on its way when it is somewhere.
LEMMA OnceIs ==
  ASSUME NEW mb, Boxes(mb), NEW t \in Threads, NEW i \in 1 .. Len(mb[t]),
         mb[t][i].type \in OnceTypes
  PROVE  mb[t][i] \in Once(mb)
BY DEF Boxes, Once, WellFormed

\* A thread's mailbox is a sequence of commands.
LEMMA BoxOf ==
  ASSUME NEW mb, Boxes(mb), NEW o \in Objects
  PROVE  Thread[o] \in Threads /\ mb[Thread[o]] \in Seq(Commands) /\ Len(mb[Thread[o]]) \in Nat
<1>1. Thread[o] \in Threads
  BY DEF Threads
<1> QED
  BY <1>1, LenProperties DEF Boxes

\* The mailboxes after one more command.
LEMMA PostIs ==
  ASSUME NEW mb, Boxes(mb), NEW m \in Commands
  PROVE  /\ Post(mb, m) \in [Threads -> Seq(Commands)]
         /\ \A t \in Threads : t # Thread[m.dest] => Post(mb, m)[t] = mb[t]
         /\ Post(mb, m)[Thread[m.dest]] = Append(mb[Thread[m.dest]], m)
         /\ Len(Post(mb, m)[Thread[m.dest]]) = Len(mb[Thread[m.dest]]) + 1
         /\ \A i \in 1 .. Len(mb[Thread[m.dest]]) :
              Post(mb, m)[Thread[m.dest]][i] = mb[Thread[m.dest]][i]
         /\ Post(mb, m)[Thread[m.dest]][Len(mb[Thread[m.dest]]) + 1] = m
<1> DEFINE d == Thread[m.dest]
<1>1. m.dest \in Objects
  BY DEF Commands
<1>2. d \in Threads /\ mb[d] \in Seq(Commands) /\ Len(mb[d]) \in Nat /\ mb \in [Threads -> Seq(Commands)]
  BY <1>1, BoxOf DEF Boxes
<1>3. /\ Append(mb[d], m) \in Seq(Commands) /\ Len(Append(mb[d], m)) = Len(mb[d]) + 1
      /\ \A i \in 1 .. Len(mb[d]) : Append(mb[d], m)[i] = mb[d][i]
      /\ Append(mb[d], m)[Len(mb[d]) + 1] = m
  BY <1>2, AppendProperties
<1>4. Post(mb, m)[d] = Append(mb[d], m)
  BY <1>2 DEF Post
<1>5. Post(mb, m) \in [Threads -> Seq(Commands)] /\ \A t \in Threads : t # d => Post(mb, m)[t] = mb[t]
  BY <1>2, <1>3 DEF Post
<1> QED
  BY <1>3, <1>4, <1>5

\* Sending keeps the mailboxes right ...
LEMMA PostBoxes ==
  ASSUME NEW mb, Boxes(mb), NEW m, WellFormed(m), m.type \in OnceTypes => m \notin Once(mb)
  PROVE  Boxes(Post(mb, m))
<1> DEFINE d  == Thread[m.dest]
           mc == Post(mb, m)
           n  == Len(mb[d])
<1>1. m \in Commands /\ m.dest \in Objects
  BY DEF WellFormed, Commands
<1>2. /\ d \in Threads /\ n \in Nat /\ mc \in [Threads -> Seq(Commands)]
      /\ \A t \in Threads : t # d => mc[t] = mb[t]
      /\ Len(mc[d]) = n + 1 /\ mc[d][n + 1] = m
      /\ \A i \in 1 .. n : mc[d][i] = mb[d][i]
  BY <1>1, BoxOf, PostIs
<1>3. \A i \in 1 .. n : m.type \in OnceTypes => mb[d][i] # m
  BY <1>1 DEF Once
<1> HIDE DEF mc, n, d
<1> SUFFICES ASSUME NEW t \in Threads, NEW i \in 1 .. Len(mc[t])
             PROVE  /\ WellFormed(mc[t][i]) /\ Thread[mc[t][i].dest] = t
                    /\ \A j \in 1 .. Len(mc[t]) :
                         mc[t][i].type \in OnceTypes /\ mc[t][i] = mc[t][j] => i = j
  BY <1>2 DEF Boxes, mc
<1>4. CASE t # d
  BY <1>2, <1>4 DEF Boxes
<1>5. CASE t = d
  <2>1. \A k \in 1 .. Len(mc[d]) : k \in 1 .. n \/ k = n + 1
    BY <1>2
  <2>2. ASSUME NEW k \in 1 .. Len(mc[d])
        PROVE  WellFormed(mc[d][k]) /\ Thread[mc[d][k].dest] = d
    <3>1. CASE k \in 1 .. n
      <4>1. WellFormed(mb[d][k]) /\ Thread[mb[d][k].dest] = d
        BY <1>2, <3>1 DEF Boxes, n
      <4> QED
        BY <1>2, <3>1, <4>1
    <3>2. CASE k = n + 1
      BY <1>2, <3>2 DEF d
    <3> QED
      BY <2>1, <3>1, <3>2
  <2>3. \A k, j \in 1 .. Len(mc[d]) :
          mc[d][k].type \in OnceTypes /\ mc[d][k] = mc[d][j] => k = j
    <3> SUFFICES ASSUME NEW k \in 1 .. Len(mc[d]), NEW j \in 1 .. Len(mc[d]),
                        mc[d][k].type \in OnceTypes, mc[d][k] = mc[d][j]
                 PROVE  k = j
      OBVIOUS
    <3>1. CASE k \in 1 .. n /\ j \in 1 .. n
      <4>1. mb[d][k].type \in OnceTypes /\ mb[d][k] = mb[d][j]
        BY <1>2, <3>1
      <4> QED
        BY <1>2, <3>1, <4>1 DEF Boxes, n
    <3>2. CASE k = n + 1 /\ j \in 1 .. n
      <4>1. mc[d][k] = m /\ mc[d][j] = mb[d][j]
        BY <1>2, <3>2
      <4> QED
        BY <1>3, <3>2, <4>1
    <3>3. CASE k \in 1 .. n /\ j = n + 1
      <4>1. mc[d][j] = m /\ mc[d][k] = mb[d][k]
        BY <1>2, <3>3
      <4> QED
        BY <1>3, <3>3, <4>1
    <3> QED
      BY <2>1, <3>1, <3>2, <3>3
  <2> QED
    BY <1>5, <2>2, <2>3
<1> QED
  BY <1>4, <1>5

\* ... and adds the command to what is on its way ...
LEMMA PostOnce ==
  ASSUME NEW mb, Boxes(mb), NEW m \in Commands
  PROVE  Once(Post(mb, m)) = IF m.type \in OnceTypes THEN Once(mb) \cup {m} ELSE Once(mb)
<1> DEFINE d  == Thread[m.dest]
           mc == Post(mb, m)
           n  == Len(mb[d])
<1>1. m.dest \in Objects
  BY DEF Commands
<1>2. /\ d \in Threads /\ n \in Nat
      /\ \A t \in Threads : t # d => mc[t] = mb[t]
      /\ Len(mc[d]) = n + 1 /\ mc[d][n + 1] = m
      /\ \A i \in 1 .. n : mc[d][i] = mb[d][i]
  BY <1>1, BoxOf, PostIs
<1> HIDE DEF mc
<1>3. ASSUME NEW x \in Commands
      PROVE  (\E i \in 1 .. Len(mc[Thread[x.dest]]) : mc[Thread[x.dest]][i] = x)
             <=> \/ \E i \in 1 .. Len(mb[Thread[x.dest]]) : mb[Thread[x.dest]][i] = x
                 \/ x = m
  <2>1. Thread[x.dest] \in Threads
    BY BoxOf DEF Commands
  <2>2. CASE Thread[x.dest] # d
    BY <1>2, <2>1, <2>2
  <2>3. CASE Thread[x.dest] = d
    <3> HIDE DEF d
    <3>1. ASSUME NEW i \in 1 .. Len(mc[d]), mc[d][i] = x
          PROVE  (\E k \in 1 .. n : mb[d][k] = x) \/ x = m
      <4>1. i \in 1 .. n \/ i = n + 1
        BY <1>2
      <4> QED
        BY <1>2, <3>1, <4>1
    <3>2. ASSUME NEW i \in 1 .. n, mb[d][i] = x PROVE i \in 1 .. Len(mc[d]) /\ mc[d][i] = x
      BY <1>2, <3>2
    <3>3. n + 1 \in 1 .. Len(mc[d]) /\ mc[d][n + 1] = m
      BY <1>2
    <3> QED
      BY <2>3, <3>1, <3>2, <3>3
  <2> QED
    BY <2>2, <2>3
<1>4. \A x : x \in Once(mc) <=> x \in Once(mb) \/ (x = m /\ m.type \in OnceTypes)
  BY <1>3 DEF Once
<1> QED
  BY <1>4 DEF mc

\* ... and to what is counted.
LEMMA PostDues ==
  ASSUME NEW mb, Boxes(mb), NEW m \in Commands
  PROVE  /\ Dues(mb) \in [Objects -> Nat]
         /\ Dues(Post(mb, m)) = IF m.type \in CountedTypes
                                THEN [Dues(mb) EXCEPT ![m.dest] = @ + 1] ELSE Dues(mb)
<1>1. m.dest \in Objects
  BY DEF Commands
<1>2. \A o \in Objects : mb[Thread[o]] \in Seq(Commands) /\ Cardinality(Places(mb[Thread[o]], Counted(o))) \in Nat
  BY BoxOf, PlacesFinite
<1>3. ASSUME NEW o \in Objects
      PROVE  Dues(Post(mb, m))[o] = IF o = m.dest /\ m.type \in CountedTypes
                                    THEN Dues(mb)[o] + 1 ELSE Dues(mb)[o]
  <2>1. m \in Counted(o) <=> o = m.dest /\ m.type \in CountedTypes
    BY DEF Counted
  <2>2. CASE Thread[o] = Thread[m.dest]
    <3>1. Post(mb, m)[Thread[o]] = Append(mb[Thread[o]], m)
      BY <2>2, PostIs
    <3>2. Cardinality(Places(Append(mb[Thread[o]], m), Counted(o))) =
            Cardinality(Places(mb[Thread[o]], Counted(o))) + IF m \in Counted(o) THEN 1 ELSE 0
      BY <1>2, PlacesAppend
    <3>3. /\ Dues(mb)[o] = Cardinality(Places(mb[Thread[o]], Counted(o)))
          /\ Dues(Post(mb, m))[o] = Cardinality(Places(Append(mb[Thread[o]], m), Counted(o)))
      BY <3>1 DEF Dues
    <3> QED
      BY <1>2, <2>1, <3>2, <3>3
  <2>3. CASE Thread[o] # Thread[m.dest]
    <3>1. Post(mb, m)[Thread[o]] = mb[Thread[o]]
      BY <2>3, BoxOf, PostIs
    <3>2. Dues(Post(mb, m))[o] = Dues(mb)[o]
      BY <3>1 DEF Dues
    <3> QED
      BY <2>3, <3>2
  <2> QED
    BY <2>2, <2>3
<1>4. Dues(mb) \in [Objects -> Nat] /\ DOMAIN Dues(Post(mb, m)) = Objects
  BY <1>2 DEF Dues
<1>5. Dues(Post(mb, m)) = [o \in Objects |-> Dues(Post(mb, m))[o]]
  BY DEF Dues
<1> QED
  BY <1>1, <1>3, <1>4, <1>5

\* The mailboxes after thread t took a command.
Taken(mb, t) == [mb EXCEPT ![t] = Tail(@)]

\* What is in them, command by command.
LEMMA TakenIs ==
  ASSUME NEW mb, Boxes(mb), NEW t \in Threads, mb[t] # <<>>
  PROVE  /\ Taken(mb, t) \in [Threads -> Seq(Commands)]
         /\ mb[t] \in Seq(Commands) /\ Len(mb[t]) \in Nat /\ Len(mb[t]) >= 1
         /\ Head(mb[t]) = mb[t][1] /\ WellFormed(Head(mb[t])) /\ Thread[Head(mb[t]).dest] = t
         /\ \A u \in Threads : u # t => Taken(mb, t)[u] = mb[u]
         /\ Taken(mb, t)[t] = Tail(mb[t])
         /\ Len(Taken(mb, t)[t]) = Len(mb[t]) - 1
         /\ \A i \in 1 .. Len(mb[t]) - 1 : Taken(mb, t)[t][i] = mb[t][i + 1]
<1>1. mb[t] \in Seq(Commands) /\ mb \in [Threads -> Seq(Commands)]
  BY DEF Boxes
<1>2. /\ Len(mb[t]) \in Nat /\ Len(mb[t]) >= 1 /\ Head(mb[t]) = mb[t][1]
      /\ Tail(mb[t]) \in Seq(Commands) /\ Len(Tail(mb[t])) = Len(mb[t]) - 1
      /\ \A i \in 1 .. Len(mb[t]) - 1 : Tail(mb[t])[i] = mb[t][i + 1]
  BY <1>1, LenProperties, HeadTailProperties, EmptySeq
<1>3. WellFormed(mb[t][1]) /\ Thread[mb[t][1].dest] = t
  BY <1>2 DEF Boxes
<1>4. Taken(mb, t)[t] = Tail(mb[t])
  BY <1>1 DEF Taken
<1>5. Taken(mb, t) \in [Threads -> Seq(Commands)] /\ \A u \in Threads : u # t => Taken(mb, t)[u] = mb[u]
  BY <1>1, <1>2 DEF Taken
<1> QED
  BY <1>1, <1>2, <1>3, <1>4, <1>5

\* Taking keeps the mailboxes right ...
LEMMA TakenBoxes ==
  ASSUME NEW mb, Boxes(mb), NEW t \in Threads, mb[t] # <<>>
  PROVE  Boxes(Taken(mb, t))
<1> DEFINE mc == Taken(mb, t)
           n  == Len(mb[t])
<1>1. /\ mc \in [Threads -> Seq(Commands)] /\ n \in Nat /\ n >= 1
      /\ \A u \in Threads : u # t => mc[u] = mb[u]
      /\ Len(mc[t]) = n - 1
      /\ \A i \in 1 .. n - 1 : mc[t][i] = mb[t][i + 1]
  BY TakenIs
<1> HIDE DEF mc
<1> SUFFICES ASSUME NEW u \in Threads, NEW i \in 1 .. Len(mc[u])
             PROVE  /\ WellFormed(mc[u][i]) /\ Thread[mc[u][i].dest] = u
                    /\ \A j \in 1 .. Len(mc[u]) :
                         mc[u][i].type \in OnceTypes /\ mc[u][i] = mc[u][j] => i = j
  BY <1>1 DEF Boxes, mc
<1>2. CASE u # t
  BY <1>1, <1>2 DEF Boxes
<1>3. CASE u = t
  <2>1. \A k \in 1 .. Len(mc[t]) : k + 1 \in 1 .. n /\ mc[t][k] = mb[t][k + 1]
    BY <1>1
  <2>2. WellFormed(mc[t][i]) /\ Thread[mc[t][i].dest] = t
    <3>1. i + 1 \in 1 .. Len(mb[t]) /\ mc[t][i] = mb[t][i + 1]
      BY <1>3, <2>1
    <3> QED
      BY <3>1 DEF Boxes
  <2>3. ASSUME NEW j \in 1 .. Len(mc[t]), mc[t][i].type \in OnceTypes, mc[t][i] = mc[t][j]
        PROVE  i = j
    <3>1. /\ i + 1 \in 1 .. Len(mb[t]) /\ mc[t][i] = mb[t][i + 1]
          /\ j + 1 \in 1 .. Len(mb[t]) /\ mc[t][j] = mb[t][j + 1]
      BY <1>3, <2>1
    <3>2. \A k, l \in 1 .. Len(mb[t]) : mb[t][k].type \in OnceTypes /\ mb[t][k] = mb[t][l] => k = l
      BY DEF Boxes
    <3>3. mb[t][i + 1].type \in OnceTypes /\ mb[t][i + 1] = mb[t][j + 1]
      BY <2>3, <3>1
    <3>4. i + 1 = j + 1
      BY <3>1, <3>2, <3>3
    <3> QED
      BY <1>1, <1>3, <3>4
  <2> QED
    BY <1>3, <2>2, <2>3
<1> QED
  BY <1>2, <1>3

\* ... and the command is no longer on its way ...
LEMMA TakenOnce ==
  ASSUME NEW mb, Boxes(mb), NEW t \in Threads, mb[t] # <<>>
  PROVE  /\ Once(Taken(mb, t)) = Once(mb) \ {Head(mb[t])}
         /\ Head(mb[t]).type \in OnceTypes => Head(mb[t]) \in Once(mb)
<1> DEFINE mc == Taken(mb, t)
           n  == Len(mb[t])
           h  == Head(mb[t])
<1>1. /\ n \in Nat /\ n >= 1 /\ h = mb[t][1] /\ Thread[h.dest] = t /\ h \in Commands
      /\ \A u \in Threads : u # t => mc[u] = mb[u]
      /\ Len(mc[t]) = n - 1
      /\ \A i \in 1 .. n - 1 : mc[t][i] = mb[t][i + 1]
  BY TakenIs DEF WellFormed
<1> HIDE DEF mc, h
<1>2. ASSUME NEW x \in Commands, x.type \in OnceTypes
      PROVE  (\E i \in 1 .. Len(mc[Thread[x.dest]]) : mc[Thread[x.dest]][i] = x)
             <=> (\E i \in 1 .. Len(mb[Thread[x.dest]]) : mb[Thread[x.dest]][i] = x) /\ x # h
  <2>1. Thread[x.dest] \in Threads
    BY BoxOf DEF Commands
  <2>2. CASE Thread[x.dest] # t
    BY <1>1, <2>1, <2>2
  <2>3. CASE Thread[x.dest] = t
    <3>1. ASSUME NEW i \in 1 .. Len(mc[t]), mc[t][i] = x
          PROVE  i + 1 \in 1 .. n /\ mb[t][i + 1] = x /\ x # h
      <4>1. i + 1 \in 1 .. n /\ 1 \in 1 .. n /\ i + 1 # 1 /\ mb[t][i + 1] = x
        BY <1>1, <3>1
      <4>2. mb[t][i + 1] # mb[t][1]
        BY <1>2, <4>1 DEF Boxes
      <4> QED
        BY <1>1, <4>1, <4>2
    <3>2. ASSUME NEW i \in 1 .. n, mb[t][i] = x, x # h
          PROVE  \E k \in 1 .. Len(mc[t]) : mc[t][k] = x
      <4>1. i # 1 /\ i - 1 \in 1 .. n - 1 /\ (i - 1) + 1 = i
        BY <1>1, <3>2
      <4>2. mc[t][i - 1] = x
        BY <1>1, <3>2, <4>1
      <4> QED
        BY <1>1, <4>1, <4>2
    <3> QED
      BY <2>3, <3>1, <3>2
  <2> QED
    BY <2>2, <2>3
<1>3. \A x : x \in Once(mc) <=> x \in Once(mb) /\ x # h
  BY <1>2 DEF Once
<1>4. h.type \in OnceTypes => h \in Once(mb)
  BY <1>1 DEF Once
<1>5. Once(mc) = Once(mb) \ {h}
  BY <1>3
<1> QED
  BY <1>4, <1>5 DEF mc, h

\* ... nor counted.
LEMMA TakenDues ==
  ASSUME NEW mb, Boxes(mb), NEW t \in Threads, mb[t] # <<>>
  PROVE  /\ Dues(Taken(mb, t)) \in [Objects -> Nat]
         /\ Dues(mb) = IF Head(mb[t]).type \in CountedTypes
                       THEN [Dues(Taken(mb, t)) EXCEPT ![Head(mb[t]).dest] = @ + 1]
                       ELSE Dues(Taken(mb, t))
<1> DEFINE mc == Taken(mb, t)
           h  == Head(mb[t])
<1>1. /\ mb[t] \in Seq(Commands) /\ h \in Commands /\ h.dest \in Objects /\ Thread[h.dest] = t
      /\ \A u \in Threads : u # t => mc[u] = mb[u]
      /\ mc[t] = Tail(mb[t])
  <2>1. h \in Commands
    BY TakenIs DEF WellFormed
  <2>2. h.dest \in Objects
    BY <2>1 DEF Commands
  <2> QED
    BY <2>1, <2>2, TakenIs
<1>2. Boxes(mc)
  BY TakenBoxes
<1> HIDE DEF mc, h
<1>3. \A o \in Objects : Cardinality(Places(mc[Thread[o]], Counted(o))) \in Nat
  BY <1>2, BoxOf, PlacesFinite
<1>4. ASSUME NEW o \in Objects
      PROVE  Dues(mb)[o] = IF o = h.dest /\ h.type \in CountedTypes
                           THEN Dues(mc)[o] + 1 ELSE Dues(mc)[o]
  <2>1. h \in Counted(o) <=> o = h.dest /\ h.type \in CountedTypes
    BY <1>1 DEF Counted
  <2>2. CASE Thread[o] = t
    <3>1. Cardinality(Places(mb[t], Counted(o))) =
            Cardinality(Places(Tail(mb[t]), Counted(o))) + IF h \in Counted(o) THEN 1 ELSE 0
      BY <1>1, PlacesTail DEF h
    <3>2. /\ Dues(mb)[o] = Cardinality(Places(mb[t], Counted(o)))
          /\ Dues(mc)[o] = Cardinality(Places(Tail(mb[t]), Counted(o)))
      BY <1>1, <2>2 DEF Dues
    <3>3. Dues(mc)[o] \in Nat
      BY <1>3 DEF Dues
    <3> QED
      BY <2>1, <3>1, <3>2, <3>3
  <2>3. CASE Thread[o] # t
    <3>1. mc[Thread[o]] = mb[Thread[o]]
      BY <1>1, <2>3, BoxOf
    <3>2. Dues(mc)[o] = Dues(mb)[o]
      BY <3>1 DEF Dues
    <3> QED
      BY <1>1, <2>3, <3>2
  <2> QED
    BY <2>2, <2>3
<1>5. Dues(mc) \in [Objects -> Nat] /\ Dues(mb) = [o \in Objects |-> Dues(mb)[o]]
  BY <1>3 DEF Dues
<1> QED
  BY <1>1, <1>4, <1>5 DEF mc, h

\* Sending keeps the order: who asks for its end is there.
LEMMA PostOrder ==
  ASSUME NEW mb, Boxes(mb), NEW ob, Order(ob, mb), NEW m \in Commands,
         m.type = "term_req" => ob[m.arg].life = "alive"
  PROVE  Order(ob, Post(mb, m))
<1> DEFINE d  == Thread[m.dest]
           mc == Post(mb, m)
           n  == Len(mb[d])
<1>1. m.dest \in Objects
  BY DEF Commands
<1>2. /\ d \in Threads /\ n \in Nat
      /\ \A t \in Threads : t # d => mc[t] = mb[t]
      /\ Len(mc[d]) = n + 1 /\ mc[d][n + 1] = m
      /\ \A i \in 1 .. n : mc[d][i] = mb[d][i]
  BY <1>1, BoxOf, PostIs
<1> HIDE DEF mc, d
<1> SUFFICES ASSUME NEW t \in Threads, NEW i \in 1 .. Len(mc[t]), mc[t][i].type = "term_req"
             PROVE  \/ ob[mc[t][i].arg].life = "alive"
                    \/ \E j \in i + 1 .. Len(mc[t]) : mc[t][j] = AckCmd(mc[t][i].arg)
  BY DEF Order, mc
<1>3. CASE t # d
  BY <1>2, <1>3 DEF Order
<1>4. CASE t = d /\ i \in 1 .. n
  <2>1. mc[t][i] = mb[d][i]
    BY <1>2, <1>4
  <2>2. \/ ob[mb[d][i].arg].life = "alive"
        \/ \E j \in i + 1 .. n : mb[d][j] = AckCmd(mb[d][i].arg)
    BY <1>2, <1>4, <2>1 DEF Order
  <2>3. \A j \in i + 1 .. n : j \in 1 .. n /\ j \in i + 1 .. Len(mc[d])
    BY <1>2, <1>4
  <2> QED
    BY <1>2, <1>4, <2>1, <2>2, <2>3
<1>5. CASE t = d /\ i = n + 1
  BY <1>2, <1>5
<1> QED
  BY <1>2, <1>3, <1>4, <1>5

\* An object that goes leaves its acknowledgement behind everything it sent.
LEMMA AckOrder ==
  ASSUME NEW mb, Boxes(mb), NEW ob, NEW ob2, Order(ob, mb), NEW c \in Children,
         AckCmd(c) \in Commands,
         \A x \in Objects : x # c /\ ob[x].life = "alive" => ob2[x].life = "alive"
  PROVE  Order(ob2, Post(mb, AckCmd(c)))
<1> DEFINE m  == AckCmd(c)
           d  == Thread[m.dest]
           mc == Post(mb, m)
           n  == Len(mb[d])
<1>1. m.dest \in Objects /\ m.type = "term_ack"
  BY DEF Commands, AckCmd, Cmd
<1>2. /\ d \in Threads /\ n \in Nat
      /\ \A t \in Threads : t # d => mc[t] = mb[t]
      /\ Len(mc[d]) = n + 1 /\ mc[d][n + 1] = m
      /\ \A i \in 1 .. n : mc[d][i] = mb[d][i]
  BY <1>1, BoxOf, PostIs
<1>3. d = Thread[Parent[c]]
  BY DEF AckCmd, Cmd
<1> HIDE DEF mc, d, m
<1> SUFFICES ASSUME NEW t \in Threads, NEW i \in 1 .. Len(mc[t]), mc[t][i].type = "term_req"
             PROVE  \/ ob2[mc[t][i].arg].life = "alive"
                    \/ \E j \in i + 1 .. Len(mc[t]) : mc[t][j] = AckCmd(mc[t][i].arg)
  BY DEF Order, mc, m
<1>4. i \in 1 .. Len(mb[t]) /\ mc[t][i] = mb[t][i]
  <2>1. CASE t # d
    BY <1>2, <2>1
  <2>2. CASE t = d
    <3>1. i # n + 1
      BY <1>1, <1>2, <2>2
    <3> QED
      BY <1>2, <2>2, <3>1
  <2> QED
    BY <2>1, <2>2
<1>5. /\ mb[t][i].arg \in Objects
      /\ t = Thread[Parent[mb[t][i].arg]]
  BY <1>4 DEF Boxes, WellFormed, Children
<1>6. CASE mb[t][i].arg = c
  <2>1. t = d
    BY <1>3, <1>5, <1>6
  <2>2. n + 1 \in i + 1 .. Len(mc[t]) /\ mc[t][n + 1] = AckCmd(mc[t][i].arg)
    BY <1>2, <1>4, <1>6, <2>1 DEF m
  <2> QED
    BY <2>2
<1>7. CASE mb[t][i].arg # c
  <2>1. CASE ob[mb[t][i].arg].life = "alive"
    BY <1>4, <1>5, <1>7, <2>1
  <2>2. CASE ob[mb[t][i].arg].life # "alive"
    <3>1. PICK j \in i + 1 .. Len(mb[t]) : mb[t][j] = AckCmd(mb[t][i].arg)
      BY <1>4, <2>2 DEF Order
    <3>2. Len(mb[t]) \in Nat /\ Len(mc[t]) \in Nat /\ Len(mb[t]) <= Len(mc[t])
      <4>1. t = d => Len(mb[t]) = n
        OBVIOUS
      <4>2. mb[t] \in Seq(Commands)
        BY DEF Boxes
      <4> QED
        BY <1>2, <4>1, <4>2, LenProperties
    <3>3. j \in i + 1 .. Len(mc[t]) /\ j \in 1 .. Len(mb[t])
      BY <1>4, <3>1, <3>2
    <3>4. mc[t][j] = mb[t][j]
      BY <1>2, <3>3
    <3> QED
      BY <1>4, <3>1, <3>3, <3>4
  <2> QED
    BY <2>1, <2>2
<1> QED
  BY <1>6, <1>7

\* The order stays when nobody goes.
LEMMA SameOrder ==
  ASSUME NEW mb, Boxes(mb), NEW ob, NEW ob2, Order(ob, mb),
         \A x \in Objects : ob[x].life = "alive" => ob2[x].life = "alive"
  PROVE  Order(ob2, mb)
BY DEF Order, Boxes, WellFormed, Children

\* Taking keeps the order: what came behind a command still does.
LEMMA TakenOrder ==
  ASSUME NEW mb, Boxes(mb), NEW ob, Order(ob, mb), NEW t \in Threads, mb[t] # <<>>
  PROVE  Order(ob, Taken(mb, t))
<1> DEFINE mc == Taken(mb, t)
           n  == Len(mb[t])
<1>1. /\ n \in Nat /\ n >= 1
      /\ \A u \in Threads : u # t => mc[u] = mb[u]
      /\ Len(mc[t]) = n - 1
      /\ \A i \in 1 .. n - 1 : mc[t][i] = mb[t][i + 1]
  BY TakenIs
<1> HIDE DEF mc
<1> SUFFICES ASSUME NEW u \in Threads, NEW i \in 1 .. Len(mc[u]), mc[u][i].type = "term_req"
             PROVE  \/ ob[mc[u][i].arg].life = "alive"
                    \/ \E j \in i + 1 .. Len(mc[u]) : mc[u][j] = AckCmd(mc[u][i].arg)
  BY DEF Order, mc
<1>2. CASE u # t
  <2>1. mc[u] = mb[u]
    BY <1>1, <1>2
  <2> QED
    BY <2>1 DEF Order
<1>3. CASE u = t
  <2>1. i + 1 \in 1 .. Len(mb[t]) /\ mc[t][i] = mb[t][i + 1]
    BY <1>1, <1>3
  <2>2. CASE ob[mb[t][i + 1].arg].life = "alive"
    BY <1>3, <2>1, <2>2
  <2>3. CASE ob[mb[t][i + 1].arg].life # "alive"
    <3>1. PICK j \in (i + 1) + 1 .. Len(mb[t]) : mb[t][j] = AckCmd(mb[t][i + 1].arg)
      BY <1>3, <2>1, <2>3 DEF Order
    <3>2. j - 1 \in i + 1 .. Len(mc[t]) /\ j - 1 \in 1 .. n - 1 /\ (j - 1) + 1 = j
      BY <1>1, <1>3, <2>1, <3>1
    <3>3. mc[t][j - 1] = mb[t][j]
      BY <1>1, <3>2
    <3>4. mc[u][j - 1] = AckCmd(mc[u][i].arg) /\ j - 1 \in i + 1 .. Len(mc[u])
      BY <1>3, <2>1, <3>1, <3>2, <3>3
    <3> QED
      BY <3>4
  <2> QED
    BY <2>2, <2>3
<1> QED
  BY <1>2, <1>3

-----------------------------------------------------------------------------
(* What send_term () to a set of children does to the mailboxes.           *)

\* A finite set as a sequence: every element is in it, at one place.
LEMMA SetToSeqIs ==
  ASSUME NEW S, IsFiniteSet(S)
  PROVE  /\ SetToSeq(S) \in Seq(S) /\ Len(SetToSeq(S)) \in Nat
         /\ \A i, j \in 1 .. Len(SetToSeq(S)) : SetToSeq(S)[i] = SetToSeq(S)[j] => i = j
         /\ \A i \in 1 .. Len(SetToSeq(S)) : SetToSeq(S)[i] \in S
         /\ \A x \in S : \E i \in 1 .. Len(SetToSeq(S)) : SetToSeq(S)[i] = x
<1> DEFINE n == Cardinality(S)
           q == SetToSeq(S)
<1>1. n \in Nat /\ ExistsBijection(1 .. n, S)
  BY FS_CardinalityType
<1>2. PICK f : f \in Bijection(1 .. n, S)
  BY <1>1 DEF ExistsBijection
<1>3. f \in [1 .. n -> S] /\ IsInjective(f)
  BY <1>2 DEF Bijection, Injection, IsInjective
<1>4. q \in [1 .. n -> S] /\ IsInjective(q)
  BY <1>3 DEF SetToSeq
<1> HIDE DEF q, n
<1>5. q \in Seq(S) /\ Len(q) = n
  BY <1>1, <1>4
<1>6. q \in Injection(1 .. n, S)
  BY <1>4 DEF Injection, IsInjective
<1>7. IsFiniteSet(1 .. n) /\ Cardinality(1 .. n) = n
  BY <1>1, FS_Interval
<1>8. q \in Surjection(1 .. n, S)
  BY <1>6, <1>7, FS_Injection DEF n
<1>9. /\ \A x \in S : \E i \in 1 .. n : q[i] = x
      /\ \A i \in 1 .. n : q[i] \in S
      /\ \A i, j \in 1 .. n : q[i] = q[j] => i = j
  BY <1>4, <1>6, <1>8 DEF Surjection, Injection, IsInjective
<1> QED
  BY <1>1, <1>5, <1>9 DEF q

\* The term commands of one thread are finitely many, and well formed.
LEMMA TermsForIs ==
  ASSUME NEW kids \in SUBSET Children, IsFiniteSet(kids), NEW t \in Threads
  PROVE  /\ IsFiniteSet(TermsFor(kids, t)) /\ TermsFor(kids, t) \subseteq Commands
         /\ \A m \in TermsFor(kids, t) : WellFormed(m) /\ Thread[m.dest] = t /\ m.type = "term"
<1> DEFINE X == {x \in kids : Thread[x] = t}
           f == [c \in X |-> TermCmd(c)]
<1>1. IsFiniteSet(X)
  BY FS_Subset
<1>2. f \in Surjection(X, TermsFor(kids, t))
  <2>1. f \in [X -> TermsFor(kids, t)]
    BY DEF TermsFor, TermCmd
  <2>2. \A m \in TermsFor(kids, t) : \E c \in X : f[c] = m
    BY DEF TermsFor, TermCmd
  <2> QED
    BY <2>1, <2>2 DEF Surjection
<1>3. IsFiniteSet(TermsFor(kids, t))
  BY <1>1, <1>2, FS_Surjection
<1>4. \A c \in X : c \in Children /\ c \in Objects /\ Parent[c] \in Objects
  BY OwnAssumption DEF Children
<1>5. ASSUME NEW m \in TermsFor(kids, t)
      PROVE  m \in Commands /\ WellFormed(m) /\ Thread[m.dest] = t /\ m.type = "term"
  <2>1. PICK c \in X : m = Cmd("term", c, Parent[c])
    BY DEF TermsFor
  <2>2. m.type = "term" /\ m.dest = c /\ m.arg = Parent[c]
    BY <2>1 DEF Cmd
  <2>3. m \in Commands
    BY <1>4, <2>1 DEF Commands, Cmd, OnceTypes
  <2> QED
    BY <1>4, <2>2, <2>3 DEF WellFormed
<1> QED
  BY <1>3, <1>5

\* The mailboxes after the terms.
LEMMA PostTermsIs ==
  ASSUME NEW mb, Boxes(mb), NEW kids \in SUBSET Children, IsFiniteSet(kids), NEW t \in Threads
  PROVE  LET q == mb[t]
             s == SetToSeq(TermsFor(kids, t))
             p == PostTerms(mb, kids)[t]
         IN  /\ p = q \o s /\ p \in Seq(Commands) /\ q \in Seq(Commands) /\ s \in Seq(Commands)
             /\ Len(q) \in Nat /\ Len(s) \in Nat /\ Len(p) = Len(q) + Len(s)
             /\ \A i \in 1 .. Len(q) : p[i] = q[i]
             /\ \A i \in 1 .. Len(s) : p[Len(q) + i] = s[i]
             /\ \A i \in 1 .. Len(p) : i \notin 1 .. Len(q) =>
                  i - Len(q) \in 1 .. Len(s) /\ p[i] = s[i - Len(q)]
<1> DEFINE q == mb[t]
           s == SetToSeq(TermsFor(kids, t))
<1>1. q \in Seq(Commands)
  BY DEF Boxes
<1>2. s \in Seq(Commands)
  <2>1. s \in Seq(TermsFor(kids, t)) /\ TermsFor(kids, t) \subseteq Commands
    BY TermsForIs, SetToSeqIs
  <2> QED
    BY <2>1, SeqMonotonic
<1>3. PostTerms(mb, kids)[t] = q \o s
  BY DEF PostTerms
<1> HIDE DEF q, s
<1>4. /\ q \o s \in Seq(Commands) /\ Len(q) \in Nat /\ Len(s) \in Nat /\ Len(q \o s) = Len(q) + Len(s)
      /\ \A i \in 1 .. Len(q) + Len(s) : (q \o s)[i] = IF i <= Len(q) THEN q[i] ELSE s[i - Len(q)]
  BY <1>1, <1>2, LenProperties, ConcatProperties
<1>5. \A i \in 1 .. Len(q) : (q \o s)[i] = q[i]
  BY <1>4
<1>6. \A i \in 1 .. Len(s) : (q \o s)[Len(q) + i] = s[i]
  <2> SUFFICES ASSUME NEW i \in 1 .. Len(s) PROVE (q \o s)[Len(q) + i] = s[i]
    OBVIOUS
  <2>1. Len(q) + i \in 1 .. Len(q) + Len(s) /\ ~ (Len(q) + i <= Len(q)) /\ (Len(q) + i) - Len(q) = i
    BY <1>4
  <2> QED
    BY <1>4, <2>1
<1>7. \A i \in 1 .. Len(q \o s) : i \notin 1 .. Len(q) =>
        i - Len(q) \in 1 .. Len(s) /\ (q \o s)[i] = s[i - Len(q)]
  BY <1>4
<1> QED
  BY <1>1, <1>2, <1>3, <1>4, <1>5, <1>6, <1>7 DEF q, s

\* The terms keep the mailboxes right when none was on its way ...
LEMMA PostTermsBoxes ==
  ASSUME NEW mb, Boxes(mb), NEW kids \in SUBSET Children, IsFiniteSet(kids),
         \A c \in kids : TermCmd(c) \notin Once(mb)
  PROVE  Boxes(PostTerms(mb, kids))
<1> DEFINE mc == PostTerms(mb, kids)
<1>1. mc \in [Threads -> Seq(Commands)]
  <2>1. \A t \in Threads : mc[t] \in Seq(Commands)
    BY PostTermsIs
  <2>2. mc = [t \in Threads |-> mc[t]]
    BY DEF PostTerms
  <2> HIDE DEF mc
  <2> QED
    BY <2>1, <2>2
<1> SUFFICES ASSUME NEW t \in Threads, NEW i \in 1 .. Len(mc[t])
             PROVE  /\ WellFormed(mc[t][i]) /\ Thread[mc[t][i].dest] = t
                    /\ \A j \in 1 .. Len(mc[t]) :
                         mc[t][i].type \in OnceTypes /\ mc[t][i] = mc[t][j] => i = j
  BY <1>1 DEF Boxes
<1> DEFINE q == mb[t]
           s == SetToSeq(TermsFor(kids, t))
           p == mc[t]
<1>2. /\ Len(q) \in Nat /\ Len(s) \in Nat /\ Len(p) = Len(q) + Len(s)
      /\ \A k \in 1 .. Len(q) : p[k] = q[k]
      /\ \A k \in 1 .. Len(p) : k \notin 1 .. Len(q) =>
           k - Len(q) \in 1 .. Len(s) /\ p[k] = s[k - Len(q)]
  BY PostTermsIs
<1>3. /\ \A k, l \in 1 .. Len(s) : s[k] = s[l] => k = l
      /\ \A k \in 1 .. Len(s) : s[k] \in TermsFor(kids, t)
  BY TermsForIs, SetToSeqIs
<1>4. /\ \A k \in 1 .. Len(q) : WellFormed(q[k]) /\ Thread[q[k].dest] = t
      /\ \A k, l \in 1 .. Len(q) : q[k].type \in OnceTypes /\ q[k] = q[l] => k = l
  BY DEF Boxes
<1>5. \A m \in TermsFor(kids, t) : WellFormed(m) /\ Thread[m.dest] = t
  BY TermsForIs
<1>6. \A k \in 1 .. Len(q) : q[k] \notin TermsFor(kids, t)
  <2> SUFFICES ASSUME NEW k \in 1 .. Len(q), NEW c \in kids, q[k] = Cmd("term", c, Parent[c])
               PROVE  FALSE
    BY DEF TermsFor
  <2>1. q[k].type \in OnceTypes
    BY DEF Cmd, OnceTypes
  <2>2. q[k] \in Once(mb)
    BY <2>1, OnceIs
  <2> QED
    BY <2>2 DEF TermCmd
<1> HIDE DEF q, s, p, mc
<1>7. ASSUME NEW k \in 1 .. Len(p)
      PROVE  WellFormed(p[k]) /\ Thread[p[k].dest] = t
  <2>1. CASE k \in 1 .. Len(q)
    BY <1>2, <1>4, <2>1
  <2>2. CASE k \notin 1 .. Len(q)
    BY <1>2, <1>3, <1>5, <2>2
  <2> QED
    BY <2>1, <2>2
<1>8. ASSUME NEW k \in 1 .. Len(p), NEW l \in 1 .. Len(p), p[k].type \in OnceTypes, p[k] = p[l]
      PROVE  k = l
  <2>1. CASE k \in 1 .. Len(q) /\ l \in 1 .. Len(q)
    BY <1>2, <1>4, <1>8, <2>1
  <2>2. CASE k \in 1 .. Len(q) /\ l \notin 1 .. Len(q)
    BY <1>2, <1>3, <1>6, <1>8, <2>2
  <2>3. CASE k \notin 1 .. Len(q) /\ l \in 1 .. Len(q)
    BY <1>2, <1>3, <1>6, <1>8, <2>3
  <2>4. CASE k \notin 1 .. Len(q) /\ l \notin 1 .. Len(q)
    <3>1. k - Len(q) = l - Len(q)
      BY <1>2, <1>3, <1>8, <2>4
    <3> QED
      BY <1>2, <3>1
  <2> QED
    BY <2>1, <2>2, <2>3, <2>4
<1> QED
  BY <1>7, <1>8 DEF p

\* ... they are then on their way ...
LEMMA PostTermsOnce ==
  ASSUME NEW mb, Boxes(mb), NEW kids \in SUBSET Children, IsFiniteSet(kids)
  PROVE  Once(PostTerms(mb, kids)) = Once(mb) \cup {TermCmd(c) : c \in kids}
<1> DEFINE mc == PostTerms(mb, kids)
<1>1. ASSUME NEW x \in Commands, x.type \in OnceTypes
      PROVE  (\E i \in 1 .. Len(mc[Thread[x.dest]]) : mc[Thread[x.dest]][i] = x)
             <=> \/ \E i \in 1 .. Len(mb[Thread[x.dest]]) : mb[Thread[x.dest]][i] = x
                 \/ x \in {TermCmd(c) : c \in kids}
  <2> DEFINE t == Thread[x.dest]
  <2>1. t \in Threads
    BY BoxOf DEF Commands
  <2> HIDE DEF t
  <2> DEFINE q == mb[t]
             s == SetToSeq(TermsFor(kids, t))
             p == mc[t]
  <2>2. /\ Len(q) \in Nat /\ Len(s) \in Nat /\ Len(p) = Len(q) + Len(s)
        /\ \A k \in 1 .. Len(q) : p[k] = q[k]
        /\ \A k \in 1 .. Len(s) : p[Len(q) + k] = s[k]
        /\ \A k \in 1 .. Len(p) : k \notin 1 .. Len(q) =>
             k - Len(q) \in 1 .. Len(s) /\ p[k] = s[k - Len(q)]
    BY <2>1, PostTermsIs
  <2>3. /\ \A k \in 1 .. Len(s) : s[k] \in TermsFor(kids, t)
        /\ \A m \in TermsFor(kids, t) : \E k \in 1 .. Len(s) : s[k] = m
    BY <2>1, TermsForIs, SetToSeqIs
  <2>4. x \in TermsFor(kids, t) <=> x \in {TermCmd(c) : c \in kids}
    <3>1. ASSUME NEW c \in kids, x = TermCmd(c) PROVE Thread[c] = t
      BY <3>1 DEF TermCmd, Cmd, t
    <3>2. TermsFor(kids, t) = {TermCmd(c) : c \in {y \in kids : Thread[y] = t}}
      BY DEF TermsFor, TermCmd
    <3> HIDE DEF t
    <3> QED
      BY <3>1, <3>2
  <2> HIDE DEF q, s, p, mc
  <2>5. ASSUME NEW i \in 1 .. Len(p), p[i] = x
        PROVE  (\E k \in 1 .. Len(q) : q[k] = x) \/ x \in TermsFor(kids, t)
    <3>1. CASE i \in 1 .. Len(q)
      BY <2>2, <2>5, <3>1
    <3>2. CASE i \notin 1 .. Len(q)
      BY <2>2, <2>3, <2>5, <3>2
    <3> QED
      BY <3>1, <3>2
  <2>6. ASSUME NEW i \in 1 .. Len(q), q[i] = x PROVE i \in 1 .. Len(p) /\ p[i] = x
    BY <2>2, <2>6
  <2>7. ASSUME x \in TermsFor(kids, t) PROVE \E i \in 1 .. Len(p) : p[i] = x
    <3>1. PICK k \in 1 .. Len(s) : s[k] = x
      BY <2>3, <2>7
    <3>2. Len(q) + k \in 1 .. Len(p) /\ p[Len(q) + k] = x
      BY <2>2, <3>1
    <3> QED
      BY <3>2
  <2>8. (\E i \in 1 .. Len(p) : p[i] = x)
        <=> (\E i \in 1 .. Len(q) : q[i] = x) \/ x \in {TermCmd(c) : c \in kids}
    BY <2>4, <2>5, <2>6, <2>7
  <2> QED
    BY <2>8 DEF p, q, t
<1>2. \A c \in kids : TermCmd(c) \in Commands /\ TermCmd(c).type \in OnceTypes
  <2>1. \A c \in kids : c \in Objects /\ Parent[c] \in Objects
    BY OwnAssumption DEF Children
  <2> QED
    BY <2>1 DEF TermCmd, Cmd, Commands, OnceTypes
<1> HIDE DEF mc
<1>3. \A x : x \in Once(mc) <=> x \in Once(mb) \/ x \in {TermCmd(c) : c \in kids}
  BY <1>1, <1>2 DEF Once
<1>4. Once(mc) = Once(mb) \cup {TermCmd(c) : c \in kids}
  BY <1>3
<1> QED
  BY <1>4 DEF mc

\* ... and not counted ...
LEMMA PostTermsDues ==
  ASSUME NEW mb, Boxes(mb), NEW kids \in SUBSET Children, IsFiniteSet(kids)
  PROVE  Dues(PostTerms(mb, kids)) = Dues(mb)
<1>1. ASSUME NEW o \in Objects
      PROVE  Places(PostTerms(mb, kids)[Thread[o]], Counted(o)) = Places(mb[Thread[o]], Counted(o))
  <2> DEFINE t == Thread[o]
  <2>1. t \in Threads
    BY BoxOf
  <2> HIDE DEF t
  <2> DEFINE s == SetToSeq(TermsFor(kids, t))
  <2>2. /\ PostTerms(mb, kids)[t] = mb[t] \o s
        /\ mb[t] \in Seq(Commands) /\ s \in Seq(Commands)
    BY <2>1, PostTermsIs
  <2>3. \A k \in 1 .. Len(s) : s[k] \in TermsFor(kids, t)
    BY <2>1, TermsForIs, SetToSeqIs
  <2>4. \A m \in TermsFor(kids, t) : m.type = "term"
    BY <2>1, TermsForIs
  <2> HIDE DEF s
  <2>5. \A k \in 1 .. Len(s) : s[k] \notin Counted(o)
    BY <2>3, <2>4 DEF Counted, CountedTypes
  <2> QED
    BY <2>2, <2>5, PlacesConcat DEF t
<1> QED
  BY <1>1 DEF Dues

\* ... and nobody waits behind them.
LEMMA PostTermsOrder ==
  ASSUME NEW mb, Boxes(mb), NEW ob, Order(ob, mb), NEW kids \in SUBSET Children, IsFiniteSet(kids)
  PROVE  Order(ob, PostTerms(mb, kids))
<1> DEFINE mc == PostTerms(mb, kids)
<1> SUFFICES ASSUME NEW t \in Threads, NEW i \in 1 .. Len(mc[t]), mc[t][i].type = "term_req"
             PROVE  \/ ob[mc[t][i].arg].life = "alive"
                    \/ \E j \in i + 1 .. Len(mc[t]) : mc[t][j] = AckCmd(mc[t][i].arg)
  BY DEF Order
<1> DEFINE q == mb[t]
           s == SetToSeq(TermsFor(kids, t))
           p == mc[t]
<1>1. /\ Len(q) \in Nat /\ Len(s) \in Nat /\ Len(p) = Len(q) + Len(s)
      /\ \A k \in 1 .. Len(q) : p[k] = q[k]
      /\ \A k \in 1 .. Len(p) : k \notin 1 .. Len(q) =>
           k - Len(q) \in 1 .. Len(s) /\ p[k] = s[k - Len(q)]
  BY PostTermsIs
<1>2. \A k \in 1 .. Len(s) : s[k].type = "term"
  <2>1. \A k \in 1 .. Len(s) : s[k] \in TermsFor(kids, t)
    BY TermsForIs, SetToSeqIs
  <2>2. \A m \in TermsFor(kids, t) : m.type = "term"
    BY TermsForIs
  <2> HIDE DEF s
  <2> QED
    BY <2>1, <2>2
<1> HIDE DEF q, s, p, mc
<1>3. i \in 1 .. Len(q) /\ p[i] = q[i]
  <2>1. p[i].type = "term_req" /\ i \in 1 .. Len(p)
    BY DEF p
  <2> QED
    BY <1>1, <1>2, <2>1
<1>4. CASE ob[q[i].arg].life = "alive"
  BY <1>3, <1>4 DEF p
<1>5. CASE ob[q[i].arg].life # "alive"
  <2>1. PICK j \in i + 1 .. Len(q) : q[j] = AckCmd(q[i].arg)
    BY <1>3, <1>5 DEF Order, q, p
  <2>2. j \in 1 .. Len(q) /\ j \in i + 1 .. Len(p)
    BY <1>1, <1>3, <2>1
  <2>3. p[j] = AckCmd(p[i].arg)
    BY <1>1, <1>3, <2>1, <2>2
  <2> QED
    BY <2>2, <2>3 DEF p
<1> QED
  BY <1>4, <1>5

-----------------------------------------------------------------------------
(* What the steps of the handlers do to the books.                         *)

\* Commands of different kinds or about different children are different.
LEMMA CmdsDiffer ==
  /\ \A c, d : /\ OwnCmd(c) = OwnCmd(d) <=> c = d
               /\ TermCmd(c) = TermCmd(d) <=> c = d
               /\ AckCmd(c) = AckCmd(d) <=> c = d
  /\ \A c, d : /\ OwnCmd(c) # TermCmd(d) /\ TermCmd(d) # OwnCmd(c)
               /\ OwnCmd(c) # AckCmd(d) /\ AckCmd(d) # OwnCmd(c)
               /\ TermCmd(c) # AckCmd(d) /\ AckCmd(d) # TermCmd(c)
<1>1. \A c : /\ OwnCmd(c).type = "own" /\ OwnCmd(c).arg = c
             /\ TermCmd(c).type = "term" /\ TermCmd(c).dest = c
             /\ AckCmd(c).type = "term_ack" /\ AckCmd(c).arg = c
  BY DEF OwnCmd, TermCmd, AckCmd, Cmd
<1> QED
  BY <1>1

\* An owner waits for finitely many children.
LEMMA WaitedFinite ==
  ASSUME NEW ob, NEW M, NEW ct, NEW bd, Books(ob, M, ct, bd), NEW o \in Objects
  PROVE  IsFiniteSet(Waited(ob, M, o)) /\ Waited(ob, M, o) \subseteq Born(ob)
<1>1. Waited(ob, M, o) \subseteq Born(ob)
  BY DEF Waited, Born, Books, ChildRight, Children
<1> QED
  BY <1>1, FS_Subset DEF Books

\* A child that is there has its owner there.
LEMMA OwnerThere ==
  ASSUME NEW ob, NEW M, NEW ct, NEW bd, Books(ob, M, ct, bd), NEW c \in Children,
         ob[c].life = "alive", OwnCmd(c) \in M => ct[Parent[c]] > 0
  PROVE  Parent[c] \in Objects /\ ob[Parent[c]].life = "alive"
<1> DEFINE o == Parent[c]
<1>1. o \in Objects /\ c \in Objects
  BY OwnAssumption DEF Children
<1> SUFFICES ASSUME ob[o].life # "alive" PROVE FALSE
  BY <1>1
<1>2. ob[o].sent_seqnum = ob[o].processed_seqnum /\ ob[o].term_acks = 0 /\ ob[o].owned = {}
  BY <1>1 DEF Books, Quiet
<1>3. ob[o].processed_seqnum \in Nat /\ ct[o] \in Nat /\ bd \in Nat
  BY <1>1 DEF Books, Fields
<1>4. OwnCmd(c) \notin M
  BY <1>1, <1>2, <1>3 DEF Books, SentRight
<1>5. c \in Waited(ob, M, o)
  BY <1>1, <1>2, <1>4 DEF Waited
<1>6. Cardinality(Waited(ob, M, o)) = 0
  BY <1>1, <1>2 DEF Books, AcksRight
<1> HIDE DEF o
<1> QED
  BY <1>1, <1>5, <1>6, WaitedFinite, FS_EmptySet

\* Fields that only the counters of commands do not share.
Alike(ob, ob2) ==
  \A o \in Objects :
    /\ ob2[o].life = ob[o].life /\ ob2[o].terminating = ob[o].terminating
    /\ ob2[o].pending = ob[o].pending /\ ob2[o].owned = ob[o].owned
    /\ ob2[o].term_acks = ob[o].term_acks

\* Commands may be counted on both sides.
LEMMA CountBooks ==
  ASSUME NEW ob, NEW M, NEW ct, NEW bd, Books(ob, M, ct, bd),
         NEW ob2 \in [Objects -> Fields], NEW ct2 \in [Objects -> Nat], NEW bd2 \in Nat,
         Alike(ob, ob2), SentRight(ob2, ct2, bd2),
         \A o \in Objects : ob[o].life # "alive" => ob2[o].sent_seqnum = ob2[o].processed_seqnum
  PROVE  Books(ob2, M, ct2, bd2)
<1>1. Quiet(ob2)
  BY DEF Books, Quiet, Alike
<1>2. ChildRight(ob2, M)
  BY OwnAssumption DEF Books, ChildRight, Alike, Fresh, Children
<1>3. OwnedRight(ob2)
  BY DEF Books, OwnedRight, Alike
<1>4. \A o \in Objects : Waited(ob2, M, o) = Waited(ob, M, o)
  BY DEF Waited, Alike, Children
<1>5. AcksRight(ob2, M)
  BY <1>4 DEF Books, AcksRight, Alike
<1>6. Born(ob2) = Born(ob)
  BY DEF Born, Alike
<1> QED
  BY <1>1, <1>2, <1>3, <1>5, <1>6 DEF Books

\* own arrives: the child is owned from now on.
LEMMA OwnBooks ==
  ASSUME NEW ob, NEW M, NEW ct, NEW bd, Books(ob, M, ct, bd),
         NEW c \in Children, OwnCmd(c) \in M, NEW r \in Fields,
         LET p == ob[Parent[c]] IN
           /\ p.life = "alive" /\ ~ p.terminating
           /\ r.life = p.life /\ r.terminating = p.terminating /\ r.pending = p.pending
           /\ r.sent_seqnum = p.sent_seqnum /\ r.processed_seqnum = p.processed_seqnum + 1
           /\ r.owned = p.owned \cup {c} /\ r.term_acks = p.term_acks,
         NEW ct2 \in [Objects -> Nat], ct = [ct2 EXCEPT ![Parent[c]] = @ + 1]
  PROVE  Books([ob EXCEPT ![Parent[c]] = r], M \ {OwnCmd(c)}, ct2, bd)
<1> DEFINE o   == Parent[c]
           ob2 == [ob EXCEPT ![o] = r]
           M2  == M \ {OwnCmd(c)}
<1>1. o \in Objects /\ c \in Objects /\ c # Root /\ \A d \in Children : Parent[d] \in Objects
  BY OwnAssumption DEF Children
<1>2. ob \in [Objects -> Fields] /\ ob2 \in [Objects -> Fields]
  BY DEF Books
<1>3. ob2[o] = r /\ \A x \in Objects : x # o => ob2[x] = ob[x]
  BY <1>1, <1>2
<1>4. ct[o] = ct2[o] + 1 /\ \A x \in Objects : x # o => ct[x] = ct2[x]
  BY <1>1
<1> HIDE DEF ob2, o
<1>5. /\ r.life = ob[o].life /\ r.terminating = ob[o].terminating /\ r.pending = ob[o].pending
      /\ r.sent_seqnum = ob[o].sent_seqnum /\ r.processed_seqnum = ob[o].processed_seqnum + 1
      /\ r.owned = ob[o].owned \cup {c} /\ r.term_acks = ob[o].term_acks
      /\ ob[o].life = "alive" /\ ~ ob[o].terminating
  BY DEF o
<1>6. SentRight(ob2, ct2, bd)
  <2> DEFINE own(x) == IF x = Root THEN bd ELSE 0
  <2> SUFFICES ASSUME NEW x \in Objects
               PROVE  ob2[x].sent_seqnum = ob2[x].processed_seqnum + ct2[x] + own(x)
    BY DEF SentRight
  <2>1. ob[x].sent_seqnum = ob[x].processed_seqnum + ct[x] + own(x)
    BY DEF Books, SentRight
  <2>2. ct2[x] \in Nat /\ ob[x].processed_seqnum \in Nat /\ own(x) \in Nat
    BY <1>2 DEF Fields, Books
  <2> HIDE DEF own
  <2>3. CASE x = o
    BY <1>3, <1>4, <1>5, <2>1, <2>2, <2>3
  <2>4. CASE x # o
    BY <1>3, <1>4, <2>1, <2>2, <2>4
  <2> QED
    BY <2>3, <2>4
<1>7. Quiet(ob2)
  BY <1>1, <1>3, <1>5 DEF Books, Quiet
<1>8. \A x \in Objects : /\ ob2[x].life = ob[x].life /\ ob2[x].terminating = ob[x].terminating
                         /\ ob2[x].pending = ob[x].pending /\ ob2[x].term_acks = ob[x].term_acks
                         /\ ob2[x].owned = IF x = o THEN ob[x].owned \cup {c} ELSE ob[x].owned
  BY <1>3, <1>5
<1>9. ChildRight(ob2, M2)
  <2> SUFFICES ASSUME NEW d \in Children
               PROVE  LET owned == d \in ob2[Parent[d]].owned IN
                      /\ owned => Fresh(ob2[d]) /\ OwnCmd(d) \notin M2 /\ TermCmd(d) \notin M2
                      /\ OwnCmd(d) \in M2 => Fresh(ob2[d]) /\ TermCmd(d) \notin M2
                      /\ TermCmd(d) \in M2 => Fresh(ob2[d])
                      /\ AckCmd(d) \in M2 => ob2[d].life = "deleted"
    BY DEF ChildRight
  <2>1. Fresh(ob2[d]) <=> Fresh(ob[d])
    BY <1>8 DEF Fresh, Children
  <2>2. d \in ob2[Parent[d]].owned <=> d \in ob[Parent[d]].owned \/ d = c
    BY <1>1, <1>8 DEF o
  <2>3. /\ OwnCmd(d) \in M2 <=> OwnCmd(d) \in M /\ d # c
        /\ TermCmd(d) \in M2 <=> TermCmd(d) \in M
        /\ AckCmd(d) \in M2 <=> AckCmd(d) \in M
    BY CmdsDiffer
  <2>4. ob2[d].life = ob[d].life
    BY <1>8 DEF Children
  <2>5. /\ d \in ob[Parent[d]].owned => Fresh(ob[d]) /\ OwnCmd(d) \notin M /\ TermCmd(d) \notin M
        /\ OwnCmd(d) \in M => Fresh(ob[d]) /\ TermCmd(d) \notin M
        /\ TermCmd(d) \in M => Fresh(ob[d])
        /\ AckCmd(d) \in M => ob[d].life = "deleted"
    BY DEF Books, ChildRight
  <2> HIDE DEF M2, ob2
  <2>6. d = c => OwnCmd(d) \in M
    OBVIOUS
  <2> QED
    BY <2>1, <2>2, <2>3, <2>4, <2>5, <2>6
<1>10. OwnedRight(ob2)
  <2> SUFFICES ASSUME NEW x \in Objects, NEW d \in ob2[x].owned PROVE d \in Children /\ Parent[d] = x
    BY DEF OwnedRight
  <2>1. d \in ob[x].owned \/ (x = o /\ d = c)
    BY <1>8
  <2> QED
    BY <2>1 DEF Books, OwnedRight, o
<1>11. \A x \in Objects : Waited(ob2, M2, x) = Waited(ob, M, x)
  <2> SUFFICES ASSUME NEW x \in Objects, NEW d \in Children, Parent[d] = x
               PROVE  (\/ ob2[d].life = "alive" /\ d \notin ob2[x].owned /\ OwnCmd(d) \notin M2
                       \/ AckCmd(d) \in M2)
                      <=> (\/ ob[d].life = "alive" /\ d \notin ob[x].owned /\ OwnCmd(d) \notin M
                           \/ AckCmd(d) \in M)
    BY DEF Waited
  <2>1. d \in ob2[x].owned <=> d \in ob[x].owned \/ d = c
    <3>1. CASE x = o
      BY <1>8, <3>1
    <3>2. CASE x # o
      <4>1. d # c
        BY <3>2 DEF o
      <4> QED
        BY <1>8, <3>2, <4>1
    <3> QED
      BY <3>1, <3>2
  <2> QED
    BY <1>8, <2>1, CmdsDiffer DEF Children
<1>12. AcksRight(ob2, M2)
  BY <1>8, <1>11 DEF Books, AcksRight
<1>13. Born(ob2) = Born(ob)
  BY <1>8 DEF Born
<1>14. Books(ob2, M2, ct2, bd)
  BY <1>2, <1>6, <1>7, <1>9, <1>10, <1>12, <1>13 DEF Books
<1> QED
  BY <1>14 DEF ob2, o

\* own arrives at an owner that terminates: the child is asked to go at once.
LEMMA LateOwnBooks ==
  ASSUME NEW ob, NEW M, NEW ct, NEW bd, Books(ob, M, ct, bd),
         NEW c \in Children, OwnCmd(c) \in M, NEW r \in Fields,
         LET p == ob[Parent[c]] IN
           /\ p.life = "alive"
           /\ r.life = p.life /\ r.terminating = p.terminating /\ r.pending = p.pending
           /\ r.sent_seqnum = p.sent_seqnum /\ r.processed_seqnum = p.processed_seqnum + 1
           /\ r.owned = p.owned /\ r.term_acks = p.term_acks + 1,
         NEW ct2 \in [Objects -> Nat], ct = [ct2 EXCEPT ![Parent[c]] = @ + 1]
  PROVE  Books([ob EXCEPT ![Parent[c]] = r], (M \ {OwnCmd(c)}) \cup {TermCmd(c)}, ct2, bd)
<1> DEFINE o   == Parent[c]
           ob2 == [ob EXCEPT ![o] = r]
           M2  == (M \ {OwnCmd(c)}) \cup {TermCmd(c)}
<1>1. o \in Objects /\ c \in Objects /\ c # Root /\ \A d \in Children : Parent[d] \in Objects
  BY OwnAssumption DEF Children
<1>2. ob \in [Objects -> Fields] /\ ob2 \in [Objects -> Fields]
  BY DEF Books
<1>3. ob2[o] = r /\ \A x \in Objects : x # o => ob2[x] = ob[x]
  BY <1>1, <1>2
<1>4. ct[o] = ct2[o] + 1 /\ \A x \in Objects : x # o => ct[x] = ct2[x]
  BY <1>1
<1> HIDE DEF ob2, o
<1>5. /\ r.life = ob[o].life /\ r.terminating = ob[o].terminating /\ r.pending = ob[o].pending
      /\ r.sent_seqnum = ob[o].sent_seqnum /\ r.processed_seqnum = ob[o].processed_seqnum + 1
      /\ r.owned = ob[o].owned /\ r.term_acks = ob[o].term_acks + 1
      /\ ob[o].life = "alive"
  BY DEF o
<1>6. SentRight(ob2, ct2, bd)
  <2> DEFINE own(x) == IF x = Root THEN bd ELSE 0
  <2> SUFFICES ASSUME NEW x \in Objects
               PROVE  ob2[x].sent_seqnum = ob2[x].processed_seqnum + ct2[x] + own(x)
    BY DEF SentRight
  <2>1. ob[x].sent_seqnum = ob[x].processed_seqnum + ct[x] + own(x)
    BY DEF Books, SentRight
  <2>2. ct2[x] \in Nat /\ ob[x].processed_seqnum \in Nat /\ own(x) \in Nat
    BY <1>2 DEF Fields, Books
  <2> HIDE DEF own
  <2>3. CASE x = o
    BY <1>3, <1>4, <1>5, <2>1, <2>2, <2>3
  <2>4. CASE x # o
    BY <1>3, <1>4, <2>1, <2>2, <2>4
  <2> QED
    BY <2>3, <2>4
<1>7. Quiet(ob2)
  BY <1>1, <1>3, <1>5 DEF Books, Quiet
<1>8. \A x \in Objects : /\ ob2[x].life = ob[x].life /\ ob2[x].terminating = ob[x].terminating
                         /\ ob2[x].pending = ob[x].pending /\ ob2[x].owned = ob[x].owned
                         /\ ob2[x].term_acks = IF x = o THEN ob[x].term_acks + 1 ELSE ob[x].term_acks
  BY <1>3, <1>5
<1>9. ChildRight(ob2, M2)
  BY <1>1, <1>8, CmdsDiffer DEF Books, ChildRight, Children, Fresh
<1>10. OwnedRight(ob2)
  BY <1>8 DEF Books, OwnedRight
<1>11. Fresh(ob[c]) /\ c \notin ob[o].owned /\ AckCmd(c) \notin M
  BY <1>1 DEF Books, ChildRight, Fresh, o
<1>12. /\ Waited(ob2, M2, o) = Waited(ob, M, o) \cup {c} /\ c \notin Waited(ob, M, o)
       /\ \A x \in Objects : x # o => Waited(ob2, M2, x) = Waited(ob, M, x)
  <2>1. Waited(ob2, M2, o) = Waited(ob, M, o) \cup {c}
    BY <1>1, <1>8, <1>11, CmdsDiffer DEF Waited, Children, Fresh, o
  <2>2. c \notin Waited(ob, M, o)
    BY <1>11 DEF Waited
  <2>3. ASSUME NEW x \in Objects, x # o PROVE Waited(ob2, M2, x) = Waited(ob, M, x)
    BY <1>8, <2>3, CmdsDiffer DEF Waited, Children, o
  <2> QED
    BY <2>1, <2>2, <2>3
<1>13. AcksRight(ob2, M2)
  <2>1. Cardinality(Waited(ob, M, o) \cup {c}) = Cardinality(Waited(ob, M, o)) + 1
    BY <1>1, <1>12, WaitedFinite, FS_AddElement
  <2> SUFFICES ASSUME NEW x \in Objects PROVE ob2[x].term_acks = Cardinality(Waited(ob2, M2, x))
    BY DEF AcksRight
  <2>2. ob[x].term_acks = Cardinality(Waited(ob, M, x))
    BY DEF Books, AcksRight
  <2>3. CASE x = o
    BY <1>8, <1>12, <2>1, <2>2, <2>3
  <2>4. CASE x # o
    BY <1>8, <1>12, <2>2, <2>4
  <2> QED
    BY <2>3, <2>4
<1>14. Born(ob2) = Born(ob)
  BY <1>8 DEF Born
<1>15. Books(ob2, M2, ct2, bd)
  BY <1>2, <1>6, <1>7, <1>9, <1>10, <1>13, <1>14 DEF Books
<1> QED
  BY <1>15 DEF ob2, o

\* An owned child is asked to terminate.
LEMMA AskBooks ==
  ASSUME NEW ob, NEW M, NEW ct, NEW bd, Books(ob, M, ct, bd),
         NEW c \in Children, c \in ob[Parent[c]].owned, NEW r \in Fields,
         LET p == ob[Parent[c]] IN
           /\ r.life = p.life /\ r.terminating = p.terminating /\ r.pending = p.pending
           /\ r.sent_seqnum = p.sent_seqnum /\ r.processed_seqnum = p.processed_seqnum
           /\ r.owned = p.owned \ {c} /\ r.term_acks = p.term_acks + 1
  PROVE  Books([ob EXCEPT ![Parent[c]] = r], M \cup {TermCmd(c)}, ct, bd)
<1> DEFINE o   == Parent[c]
           ob2 == [ob EXCEPT ![o] = r]
           M2  == M \cup {TermCmd(c)}
<1>1. o \in Objects /\ c \in Objects /\ c # Root /\ \A d \in Children : Parent[d] \in Objects
  BY OwnAssumption DEF Children
<1>2. ob \in [Objects -> Fields] /\ ob2 \in [Objects -> Fields]
  BY DEF Books
<1>3. ob2[o] = r /\ \A x \in Objects : x # o => ob2[x] = ob[x]
  BY <1>1, <1>2
<1> HIDE DEF ob2, o
<1>5. /\ r.life = ob[o].life /\ r.terminating = ob[o].terminating /\ r.pending = ob[o].pending
      /\ r.sent_seqnum = ob[o].sent_seqnum /\ r.processed_seqnum = ob[o].processed_seqnum
      /\ r.owned = ob[o].owned \ {c} /\ r.term_acks = ob[o].term_acks + 1
      /\ c \in ob[o].owned
  BY DEF o
<1>6. ob[o].life = "alive" /\ ~ ob[o].terminating
  BY <1>1, <1>5 DEF Books, Quiet
<1>7. SentRight(ob2, ct, bd)
  BY <1>3, <1>5 DEF Books, SentRight
<1>8. Quiet(ob2)
  BY <1>1, <1>3, <1>5, <1>6 DEF Books, Quiet
<1>9. \A x \in Objects : /\ ob2[x].life = ob[x].life /\ ob2[x].terminating = ob[x].terminating
                         /\ ob2[x].pending = ob[x].pending
                         /\ x # o => ob2[x].owned = ob[x].owned /\ ob2[x].term_acks = ob[x].term_acks
  BY <1>3, <1>5
<1>10. /\ Fresh(ob[c]) /\ OwnCmd(c) \notin M /\ TermCmd(c) \notin M /\ AckCmd(c) \notin M
  BY <1>1, <1>5 DEF Books, ChildRight, Fresh, o
<1>11. \A x \in Objects : \A d \in Children : Parent[d] = x =>
         (d \in ob2[x].owned <=> d \in ob[x].owned /\ d # c)
  <2> SUFFICES ASSUME NEW x \in Objects, NEW d \in Children, Parent[d] = x
               PROVE  d \in ob2[x].owned <=> d \in ob[x].owned /\ d # c
    OBVIOUS
  <2>1. CASE x = o
    BY <1>3, <1>5, <2>1
  <2>2. CASE x # o
    <3>1. d # c
      BY <2>2 DEF o
    <3> QED
      BY <1>9, <2>2, <3>1
  <2> QED
    BY <2>1, <2>2
<1>12. ChildRight(ob2, M2)
  <2> SUFFICES ASSUME NEW d \in Children
               PROVE  LET owned == d \in ob2[Parent[d]].owned IN
                      /\ owned => Fresh(ob2[d]) /\ OwnCmd(d) \notin M2 /\ TermCmd(d) \notin M2
                      /\ OwnCmd(d) \in M2 => Fresh(ob2[d]) /\ TermCmd(d) \notin M2
                      /\ TermCmd(d) \in M2 => Fresh(ob2[d])
                      /\ AckCmd(d) \in M2 => ob2[d].life = "deleted"
    BY DEF ChildRight
  <2>1. Fresh(ob2[d]) <=> Fresh(ob[d])
    BY <1>9 DEF Fresh, Children
  <2>2. d \in ob2[Parent[d]].owned <=> d \in ob[Parent[d]].owned /\ d # c
    BY <1>1, <1>11
  <2> QED
    BY <1>9, <1>10, <2>1, <2>2, CmdsDiffer DEF Books, ChildRight, Children
<1>13. OwnedRight(ob2)
  <2> SUFFICES ASSUME NEW x \in Objects, NEW d \in ob2[x].owned PROVE d \in Children /\ Parent[d] = x
    BY DEF OwnedRight
  <2>1. d \in ob[x].owned
    BY <1>3, <1>5
  <2> QED
    BY <2>1 DEF Books, OwnedRight
<1>14. /\ Waited(ob2, M2, o) = Waited(ob, M, o) \cup {c} /\ c \notin Waited(ob, M, o)
       /\ \A x \in Objects : x # o => Waited(ob2, M2, x) = Waited(ob, M, x)
  <2>1. ASSUME NEW x \in Objects, NEW d \in Children, Parent[d] = x
        PROVE  d \in Waited(ob2, M2, x) <=> d \in Waited(ob, M, x) \/ d = c
    BY <1>9, <1>10, <1>11, <2>1, CmdsDiffer DEF Waited, Children, Fresh
  <2>2. c \notin Waited(ob, M, o)
    BY <1>5, <1>10 DEF Waited
  <2>3. \A x : \A d \in Waited(ob2, M2, x) \cup Waited(ob, M, x) : d \in Children /\ Parent[d] = x
    BY DEF Waited
  <2>4. c \in Children /\ Parent[c] = o
    BY DEF o
  <2>5. Waited(ob2, M2, o) = Waited(ob, M, o) \cup {c}
    <3>1. \A d \in Children : Parent[d] = o => (d \in Waited(ob2, M2, o) <=> d \in Waited(ob, M, o) \/ d = c)
      BY <1>1, <2>1
    <3>2. \A d : d \in Waited(ob2, M2, o) <=> d \in Waited(ob, M, o) \/ d = c
      BY <2>3, <2>4, <3>1
    <3> QED
      BY <3>2
  <2>6. ASSUME NEW x \in Objects, x # o PROVE Waited(ob2, M2, x) = Waited(ob, M, x)
    BY <2>1, <2>3, <2>4, <2>6
  <2> QED
    BY <2>2, <2>5, <2>6
<1>15. AcksRight(ob2, M2)
  <2>1. Cardinality(Waited(ob, M, o) \cup {c}) = Cardinality(Waited(ob, M, o)) + 1
    BY <1>1, <1>14, WaitedFinite, FS_AddElement
  <2> SUFFICES ASSUME NEW x \in Objects PROVE ob2[x].term_acks = Cardinality(Waited(ob2, M2, x))
    BY DEF AcksRight
  <2>2. ob[x].term_acks = Cardinality(Waited(ob, M, x))
    BY DEF Books, AcksRight
  <2>3. CASE x = o
    BY <1>3, <1>5, <1>14, <2>1, <2>2, <2>3
  <2>4. CASE x # o
    BY <1>9, <1>14, <2>2, <2>4
  <2> QED
    BY <2>3, <2>4
<1>16. Born(ob2) = Born(ob)
  BY <1>9 DEF Born
<1>17. Books(ob2, M2, ct, bd)
  BY <1>2, <1>7, <1>8, <1>12, <1>13, <1>15, <1>16 DEF Books
<1> QED
  BY <1>17 DEF ob2, o

\* term arrives at a session that has to wait for its pipe.
LEMMA LingerBooks ==
  ASSUME NEW ob, NEW M, NEW ct, NEW bd, Books(ob, M, ct, bd),
         NEW o \in Children, TermCmd(o) \in M, NEW r \in Fields,
         /\ r.life = ob[o].life /\ r.terminating = ob[o].terminating /\ r.pending
         /\ r.sent_seqnum = ob[o].sent_seqnum /\ r.processed_seqnum = ob[o].processed_seqnum
         /\ r.owned = ob[o].owned /\ r.term_acks = ob[o].term_acks
  PROVE  Books([ob EXCEPT ![o] = r], M \ {TermCmd(o)}, ct, bd)
<1> DEFINE ob2 == [ob EXCEPT ![o] = r]
           M2  == M \ {TermCmd(o)}
<1>1. o \in Objects /\ \A d \in Children : d \in Objects /\ Parent[d] \in Objects
  BY OwnAssumption DEF Children
<1>2. ob \in [Objects -> Fields] /\ ob2 \in [Objects -> Fields]
  BY <1>1 DEF Books
<1>3. ob2[o] = r /\ \A x \in Objects : x # o => ob2[x] = ob[x]
  BY <1>1, <1>2
<1> HIDE DEF ob2
<1>4. SentRight(ob2, ct, bd)
  BY <1>3 DEF Books, SentRight
<1>5. \A x \in Objects : /\ ob2[x].life = ob[x].life /\ ob2[x].terminating = ob[x].terminating
                         /\ ob2[x].owned = ob[x].owned /\ ob2[x].term_acks = ob[x].term_acks
                         /\ x # o => ob2[x].pending = ob[x].pending
                         /\ ob2[x].sent_seqnum = ob[x].sent_seqnum
                         /\ ob2[x].processed_seqnum = ob[x].processed_seqnum
  BY <1>3
<1>6. Quiet(ob2)
  BY <1>5 DEF Books, Quiet
<1>7. Fresh(ob[o]) /\ o \notin ob[Parent[o]].owned /\ OwnCmd(o) \notin M
  BY <1>1 DEF Books, ChildRight
<1>8. ChildRight(ob2, M2)
  BY <1>1, <1>5, <1>7, CmdsDiffer DEF Books, ChildRight, Fresh
<1>9. OwnedRight(ob2)
  BY <1>5 DEF Books, OwnedRight
<1>10. \A x \in Objects : Waited(ob2, M2, x) = Waited(ob, M, x)
  BY <1>1, <1>5, CmdsDiffer DEF Waited
<1>11. AcksRight(ob2, M2)
  BY <1>5, <1>10 DEF Books, AcksRight
<1>12. Born(ob2) = Born(ob)
  BY <1>5 DEF Born
<1>13. Books(ob2, M2, ct, bd)
  BY <1>2, <1>4, <1>6, <1>8, <1>9, <1>11, <1>12 DEF Books
<1> QED
  BY <1>13 DEF ob2

\* An object begins to terminate, and asks all that it owns to do so.
LEMMA TermBooks ==
  ASSUME NEW ob, NEW M, NEW ct, NEW bd, Books(ob, M, ct, bd),
         NEW o \in Objects, ob[o].life = "alive", o = Root \/ ob[o].pending, NEW r \in Fields,
         /\ r.life = ob[o].life /\ r.terminating /\ ~ r.pending
         /\ r.sent_seqnum = ob[o].sent_seqnum /\ r.processed_seqnum = ob[o].processed_seqnum
         /\ r.owned = {} /\ r.term_acks = ob[o].term_acks + Cardinality(ob[o].owned)
  PROVE  Books([ob EXCEPT ![o] = r], M \cup {TermCmd(c) : c \in ob[o].owned}, ct, bd)
<1> DEFINE kids == ob[o].owned
           ob2  == [ob EXCEPT ![o] = r]
           M2   == M \cup {TermCmd(c) : c \in kids}
<1>1. \A d \in Children : d \in Objects /\ d # Root /\ Parent[d] \in Objects
  BY OwnAssumption DEF Children
<1>2. ob \in [Objects -> Fields] /\ ob2 \in [Objects -> Fields]
  BY DEF Books
<1>3. ob2[o] = r /\ \A x \in Objects : x # o => ob2[x] = ob[x]
  BY <1>2
<1>4. \A c \in kids : c \in Children /\ Parent[c] = o
  BY DEF Books, OwnedRight
<1>5. \A d : /\ OwnCmd(d) \in M2 <=> OwnCmd(d) \in M
             /\ TermCmd(d) \in M2 <=> TermCmd(d) \in M \/ d \in kids
             /\ AckCmd(d) \in M2 <=> AckCmd(d) \in M
  BY CmdsDiffer
<1>6. \A c \in kids : Fresh(ob[c]) /\ OwnCmd(c) \notin M /\ TermCmd(c) \notin M /\ AckCmd(c) \notin M
  BY <1>4 DEF Books, ChildRight, Fresh
<1>7. o \notin kids
  BY <1>1, <1>4, <1>6 DEF Fresh
<1> HIDE DEF ob2, M2
<1>8. SentRight(ob2, ct, bd)
  BY <1>3 DEF Books, SentRight
<1>9. Quiet(ob2)
  BY <1>3 DEF Books, Quiet
<1>10. \A x \in Objects : /\ ob2[x].life = ob[x].life
                          /\ x # o => /\ ob2[x].terminating = ob[x].terminating
                                      /\ ob2[x].pending = ob[x].pending
                                      /\ ob2[x].owned = ob[x].owned
                                      /\ ob2[x].term_acks = ob[x].term_acks
  BY <1>3
<1>11. o \in Children => OwnCmd(o) \notin M /\ TermCmd(o) \notin M /\ o \notin ob[Parent[o]].owned
  BY <1>1 DEF Books, ChildRight, Fresh
<1>12. ChildRight(ob2, M2)
  <2> SUFFICES ASSUME NEW d \in Children
               PROVE  LET owned == d \in ob2[Parent[d]].owned IN
                      /\ owned => Fresh(ob2[d]) /\ OwnCmd(d) \notin M2 /\ TermCmd(d) \notin M2
                      /\ OwnCmd(d) \in M2 => Fresh(ob2[d]) /\ TermCmd(d) \notin M2
                      /\ TermCmd(d) \in M2 => Fresh(ob2[d])
                      /\ AckCmd(d) \in M2 => ob2[d].life = "deleted"
    BY DEF ChildRight
  <2>1. d \in ob2[Parent[d]].owned <=> d \in ob[Parent[d]].owned /\ Parent[d] # o
    BY <1>1, <1>3
  <2>2. d \in kids => Parent[d] = o
    BY <1>4
  <2>3. d # o => (Fresh(ob2[d]) <=> Fresh(ob[d]))
    BY <1>1, <1>10 DEF Fresh
  <2>4. ob2[d].life = ob[d].life
    BY <1>1, <1>10
  <2>5. /\ d \in ob[Parent[d]].owned => Fresh(ob[d]) /\ OwnCmd(d) \notin M /\ TermCmd(d) \notin M
        /\ OwnCmd(d) \in M => Fresh(ob[d]) /\ TermCmd(d) \notin M /\ d \notin ob[Parent[d]].owned
        /\ TermCmd(d) \in M => Fresh(ob[d])
        /\ AckCmd(d) \in M => ob[d].life = "deleted"
    BY DEF Books, ChildRight
  <2>6. d \in kids => d \in ob[Parent[d]].owned
    BY <1>4
  <2>7. CASE d = o
    BY <1>5, <1>7, <1>11, <2>1, <2>4, <2>5, <2>7
  <2>8. CASE d # o
    BY <1>5, <2>1, <2>2, <2>3, <2>4, <2>5, <2>6, <2>8
  <2> QED
    BY <2>7, <2>8
<1>13. OwnedRight(ob2)
  BY <1>3 DEF Books, OwnedRight
<1>14. /\ Waited(ob2, M2, o) = Waited(ob, M, o) \cup kids /\ Waited(ob, M, o) \cap kids = {}
       /\ \A x \in Objects : x # o => Waited(ob2, M2, x) = Waited(ob, M, x)
  <2>1. Waited(ob2, M2, o) = Waited(ob, M, o) \cup kids
    <3>1. ASSUME NEW d PROVE d \in Waited(ob2, M2, o) <=> d \in Waited(ob, M, o) \/ d \in kids
      BY <1>1, <1>3, <1>4, <1>5, <1>6, <1>10 DEF Waited, Fresh
    <3> QED
      BY <3>1
  <2>2. Waited(ob, M, o) \cap kids = {}
    BY <1>6 DEF Waited
  <2>3. ASSUME NEW x \in Objects, x # o PROVE Waited(ob2, M2, x) = Waited(ob, M, x)
    BY <1>1, <1>5, <1>10, <2>3 DEF Waited
  <2> QED
    BY <2>1, <2>2, <2>3
<1>15. AcksRight(ob2, M2)
  <2>1. kids \subseteq Born(ob)
    BY <1>1, <1>4, <1>6 DEF Born, Fresh
  <2>2. IsFiniteSet(kids) /\ IsFiniteSet(Waited(ob, M, o))
    BY <2>1, WaitedFinite, FS_Subset DEF Books
  <2>3. /\ Cardinality(kids) \in Nat /\ Cardinality(Waited(ob, M, o)) \in Nat
        /\ Cardinality(Waited(ob, M, o) \cap kids) = 0
    BY <1>14, <2>2, FS_CardinalityType, FS_EmptySet
  <2>4. Cardinality(Waited(ob, M, o) \cup kids) =
          Cardinality(Waited(ob, M, o)) + Cardinality(kids) - Cardinality(Waited(ob, M, o) \cap kids)
    BY <2>2, FS_Union
  <2> SUFFICES ASSUME NEW x \in Objects PROVE ob2[x].term_acks = Cardinality(Waited(ob2, M2, x))
    BY DEF AcksRight
  <2>5. ob[x].term_acks = Cardinality(Waited(ob, M, x))
    BY DEF Books, AcksRight
  <2>6. CASE x = o
    <3>1. ob2[x].term_acks = Cardinality(Waited(ob, M, o)) + Cardinality(kids)
      BY <1>3, <2>5, <2>6
    <3>2. Cardinality(Waited(ob2, M2, x)) = Cardinality(Waited(ob, M, o) \cup kids)
      BY <1>14, <2>6
    <3> HIDE DEF kids
    <3> QED
      BY <2>3, <2>4, <3>1, <3>2
  <2>7. CASE x # o
    BY <1>10, <1>14, <2>5, <2>7
  <2> QED
    BY <2>6, <2>7
<1>16. Born(ob2) = Born(ob)
  BY <1>10 DEF Born
<1>17. Books(ob2, M2, ct, bd)
  BY <1>2, <1>8, <1>9, <1>12, <1>13, <1>15, <1>16 DEF Books
<1> QED
  BY <1>17 DEF ob2, M2

\* An acknowledgement arrives.
LEMMA AckBooks ==
  ASSUME NEW ob, NEW M, NEW ct, NEW bd, Books(ob, M, ct, bd),
         NEW c \in Children, AckCmd(c) \in M
  PROVE  LET o == Parent[c] IN
         /\ o \in Objects /\ ob[o].term_acks > 0
         /\ \A r \in Fields :
              (/\ r.life = ob[o].life /\ r.terminating = ob[o].terminating /\ r.pending = ob[o].pending
               /\ r.sent_seqnum = ob[o].sent_seqnum /\ r.processed_seqnum = ob[o].processed_seqnum
               /\ r.owned = ob[o].owned /\ r.term_acks = ob[o].term_acks - 1)
              => Books([ob EXCEPT ![o] = r], M \ {AckCmd(c)}, ct, bd)
<1> DEFINE o  == Parent[c]
           M2 == M \ {AckCmd(c)}
<1>1. o \in Objects /\ \A d \in Children : d \in Objects /\ Parent[d] \in Objects
  BY OwnAssumption DEF Children
<1>2. ob \in [Objects -> Fields]
  BY DEF Books
<1>3. IsFiniteSet(Waited(ob, M, o)) /\ c \in Waited(ob, M, o)
  BY <1>1, WaitedFinite DEF Waited
<1>4. ob[o].term_acks = Cardinality(Waited(ob, M, o)) /\ ob[o].term_acks \in Nat
  BY <1>1, <1>2 DEF Books, AcksRight, Fields
<1>5. ob[o].term_acks > 0
  <2>1. Cardinality(Waited(ob, M, o)) # 0
    BY <1>3, FS_EmptySet
  <2> QED
    BY <1>4, <2>1
<1>6. ob[o].life = "alive"
  BY <1>1, <1>5 DEF Books, Quiet
<1>7. ob[c].life = "deleted" /\ OwnCmd(c) \notin M /\ TermCmd(c) \notin M
  BY DEF Books, ChildRight, Fresh
<1>8. ASSUME NEW r \in Fields,
             /\ r.life = ob[o].life /\ r.terminating = ob[o].terminating /\ r.pending = ob[o].pending
             /\ r.sent_seqnum = ob[o].sent_seqnum /\ r.processed_seqnum = ob[o].processed_seqnum
             /\ r.owned = ob[o].owned /\ r.term_acks = ob[o].term_acks - 1
      PROVE  Books([ob EXCEPT ![o] = r], M2, ct, bd)
  <2> DEFINE ob2 == [ob EXCEPT ![o] = r]
  <2>1. ob2 \in [Objects -> Fields] /\ ob2[o] = r /\ \A x \in Objects : x # o => ob2[x] = ob[x]
    BY <1>1, <1>2
  <2> HIDE DEF ob2
  <2>2. \A x \in Objects : /\ ob2[x].life = ob[x].life /\ ob2[x].terminating = ob[x].terminating
                           /\ ob2[x].owned = ob[x].owned /\ ob2[x].pending = ob[x].pending
                           /\ x # o => ob2[x].term_acks = ob[x].term_acks
                           /\ ob2[x].sent_seqnum = ob[x].sent_seqnum
                           /\ ob2[x].processed_seqnum = ob[x].processed_seqnum
    BY <1>8, <2>1
  <2>3. SentRight(ob2, ct, bd)
    BY <2>2 DEF Books, SentRight
  <2>4. Quiet(ob2)
    BY <1>6, <2>2 DEF Books, Quiet
  <2>5. ChildRight(ob2, M2)
    BY <1>1, <2>2, CmdsDiffer DEF Books, ChildRight, Fresh
  <2>6. OwnedRight(ob2)
    BY <2>2 DEF Books, OwnedRight
  <2>7. /\ Waited(ob2, M2, o) = Waited(ob, M, o) \ {c}
        /\ \A x \in Objects : x # o => Waited(ob2, M2, x) = Waited(ob, M, x)
    <3>1. ASSUME NEW d PROVE d \in Waited(ob2, M2, o) <=> d \in Waited(ob, M, o) /\ d # c
      BY <1>1, <1>7, <2>2, CmdsDiffer DEF Waited
    <3>2. ASSUME NEW x \in Objects, x # o PROVE Waited(ob2, M2, x) = Waited(ob, M, x)
      <4>1. ASSUME NEW d \in Children, Parent[d] = x
            PROVE  d # c /\ (AckCmd(d) \in M2 <=> AckCmd(d) \in M) /\ (OwnCmd(d) \in M2 <=> OwnCmd(d) \in M)
        BY <3>2, <4>1, CmdsDiffer
      <4> HIDE DEF M2
      <4> QED
        BY <1>1, <2>2, <4>1 DEF Waited
    <3> QED
      BY <3>1, <3>2
  <2>8. AcksRight(ob2, M2)
    <3>1. Cardinality(Waited(ob, M, o) \ {c}) = Cardinality(Waited(ob, M, o)) - 1
      BY <1>3, FS_RemoveElement
    <3> SUFFICES ASSUME NEW x \in Objects PROVE ob2[x].term_acks = Cardinality(Waited(ob2, M2, x))
      BY DEF AcksRight
    <3>2. ob[x].term_acks = Cardinality(Waited(ob, M, x))
      BY DEF Books, AcksRight
    <3>3. CASE x = o
      BY <1>8, <2>1, <2>7, <3>1, <3>2, <3>3
    <3>4. CASE x # o
      BY <2>2, <2>7, <3>2, <3>4
    <3> QED
      BY <3>3, <3>4
  <2>9. Born(ob2) = Born(ob)
    BY <2>2 DEF Born
  <2>10. Books(ob2, M2, ct, bd)
    BY <2>1, <2>3, <2>4, <2>5, <2>6, <2>8, <2>9 DEF Books
  <2> QED
    BY <2>10 DEF ob2
<1> QED
  BY <1>1, <1>5, <1>8

\* An object that waits for nothing is destroyed.
LEMMA GoneBooks ==
  ASSUME NEW ob, NEW M, NEW ct, NEW bd, Books(ob, M, ct, bd),
         NEW o \in Objects, ob[o].life = "alive", Finished(ob[o]),
         \A c \in Children : OwnCmd(c) \in M => ct[Parent[c]] > 0
  PROVE  Books([ob EXCEPT ![o] = [ob[o] EXCEPT !.life = "deleted"]],
               IF o # Root THEN M \cup {AckCmd(o)} ELSE M, ct, bd)
<1> DEFINE r   == [ob[o] EXCEPT !.life = "deleted"]
           ob2 == [ob EXCEPT ![o] = r]
           M2  == IF o # Root THEN M \cup {AckCmd(o)} ELSE M
<1>1. \A d \in Children : d \in Objects /\ d # Root /\ Parent[d] \in Objects
  BY OwnAssumption DEF Children
<1>2. ob \in [Objects -> Fields] /\ ob[o] \in Fields
  BY DEF Books
<1>3. /\ r \in Fields /\ r.life = "deleted" /\ r.terminating = ob[o].terminating
      /\ r.pending = ob[o].pending /\ r.owned = ob[o].owned /\ r.term_acks = ob[o].term_acks
      /\ r.sent_seqnum = ob[o].sent_seqnum /\ r.processed_seqnum = ob[o].processed_seqnum
  BY <1>2 DEF Fields
<1> HIDE DEF r
<1>4. ob2 \in [Objects -> Fields] /\ ob2[o] = r /\ \A x \in Objects : x # o => ob2[x] = ob[x]
  BY <1>2, <1>3
<1>5. /\ ob[o].terminating /\ ob[o].owned = {} /\ ob[o].term_acks = 0
      /\ ob[o].sent_seqnum = ob[o].processed_seqnum
  BY DEF Finished, Books, Quiet
<1>6. \A d : /\ OwnCmd(d) \in M2 <=> OwnCmd(d) \in M
             /\ TermCmd(d) \in M2 <=> TermCmd(d) \in M
             /\ AckCmd(d) \in M2 <=> AckCmd(d) \in M \/ (o # Root /\ d = o)
  BY CmdsDiffer
<1> HIDE DEF ob2, M2
<1>7. \A x \in Objects : /\ ob2[x].terminating = ob[x].terminating /\ ob2[x].pending = ob[x].pending
                         /\ ob2[x].owned = ob[x].owned /\ ob2[x].term_acks = ob[x].term_acks
                         /\ ob2[x].sent_seqnum = ob[x].sent_seqnum
                         /\ ob2[x].processed_seqnum = ob[x].processed_seqnum
                         /\ x # o => ob2[x].life = ob[x].life
  BY <1>3, <1>4
<1>8. SentRight(ob2, ct, bd)
  BY <1>7 DEF Books, SentRight
<1>9. Quiet(ob2)
  BY <1>5, <1>7 DEF Books, Quiet
<1>10. o # Root => /\ OwnCmd(o) \notin M /\ TermCmd(o) \notin M /\ o \notin ob[Parent[o]].owned
                   /\ AckCmd(o) \notin M
  BY <1>5 DEF Books, ChildRight, Children, Fresh
<1>11. ChildRight(ob2, M2)
  <2> SUFFICES ASSUME NEW d \in Children
               PROVE  LET owned == d \in ob2[Parent[d]].owned IN
                      /\ owned => Fresh(ob2[d]) /\ OwnCmd(d) \notin M2 /\ TermCmd(d) \notin M2
                      /\ OwnCmd(d) \in M2 => Fresh(ob2[d]) /\ TermCmd(d) \notin M2
                      /\ TermCmd(d) \in M2 => Fresh(ob2[d])
                      /\ AckCmd(d) \in M2 => ob2[d].life = "deleted"
    BY DEF ChildRight
  <2>1. ob2[Parent[d]].owned = ob[Parent[d]].owned
    BY <1>1, <1>7
  <2>2. /\ d \in ob[Parent[d]].owned => Fresh(ob[d]) /\ OwnCmd(d) \notin M /\ TermCmd(d) \notin M
        /\ OwnCmd(d) \in M => Fresh(ob[d]) /\ TermCmd(d) \notin M
        /\ TermCmd(d) \in M => Fresh(ob[d])
        /\ AckCmd(d) \in M => ob[d].life = "deleted"
    BY DEF Books, ChildRight
  <2>3. CASE d = o
    BY <1>1, <1>3, <1>4, <1>6, <1>10, <2>1, <2>2, <2>3
  <2>4. CASE d # o
    <3>1. Fresh(ob2[d]) <=> Fresh(ob[d])
      BY <1>1, <1>7, <2>4 DEF Fresh
    <3> QED
      BY <1>1, <1>6, <1>7, <2>1, <2>2, <2>4, <3>1
  <2> QED
    BY <2>3, <2>4
<1>12. OwnedRight(ob2)
  BY <1>7 DEF Books, OwnedRight
<1>13. \A x \in Objects : Waited(ob2, M2, x) = Waited(ob, M, x)
  <2> SUFFICES ASSUME NEW x \in Objects, NEW d \in Children, Parent[d] = x
               PROVE  (\/ ob2[d].life = "alive" /\ d \notin ob2[x].owned /\ OwnCmd(d) \notin M2
                       \/ AckCmd(d) \in M2)
                      <=> (\/ ob[d].life = "alive" /\ d \notin ob[x].owned /\ OwnCmd(d) \notin M
                           \/ AckCmd(d) \in M)
    BY DEF Waited
  <2>1. CASE d = o
    <3>1. o # Root /\ AckCmd(d) \in M2 /\ ob[d].life = "alive" /\ d \notin ob[x].owned /\ OwnCmd(d) \notin M
      BY <1>1, <1>6, <1>10, <2>1
    <3> QED
      BY <3>1
  <2>2. CASE d # o
    BY <1>1, <1>6, <1>7, <2>2
  <2> QED
    BY <2>1, <2>2
<1>14. AcksRight(ob2, M2)
  BY <1>7, <1>13 DEF Books, AcksRight
<1>15. Born(ob2) = Born(ob)
  BY <1>3, <1>4 DEF Born
<1>16. Books(ob2, M2, ct, bd)
  BY <1>4, <1>8, <1>9, <1>11, <1>12, <1>14, <1>15 DEF Books
<1> QED
  BY <1>16 DEF ob2, M2, r

\* launch_child: a new object, with a plug and an own on their way.
LEMMA LaunchBooks ==
  ASSUME NEW ob, NEW M, NEW ct, NEW bd, Books(ob, M, ct, bd),
         NEW c \in Children, ob[c].life = "unborn", ob[Parent[c]].life = "alive",
         NEW ob2 \in [Objects -> Fields],
         \A x \in Objects : x # c =>
           /\ ob2[x].life = ob[x].life /\ ob2[x].terminating = ob[x].terminating
           /\ ob2[x].pending = ob[x].pending /\ ob2[x].owned = ob[x].owned
           /\ ob2[x].term_acks = ob[x].term_acks
           /\ ob2[x].processed_seqnum = ob[x].processed_seqnum
           /\ ob2[x].sent_seqnum = IF x = Parent[c] THEN ob[x].sent_seqnum + 1 ELSE ob[x].sent_seqnum,
         Fresh(ob2[c]), ob2[c].owned = {}, ob2[c].term_acks = 0,
         ob2[c].sent_seqnum = 1, ob2[c].processed_seqnum = 0,
         NEW ct2 \in [Objects -> Nat],
         \A x \in Objects : ct2[x] = IF x = c \/ x = Parent[c] THEN ct[x] + 1 ELSE ct[x]
  PROVE  Books(ob2, M \cup {OwnCmd(c)}, ct2, bd)
<1> DEFINE o  == Parent[c]
           M2 == M \cup {OwnCmd(c)}
<1>1. /\ o \in Objects /\ c \in Objects /\ c # Root /\ c # o
      /\ \A d \in Children : d \in Objects /\ Parent[d] \in Objects
  BY OwnAssumption DEF Children
<1>2. /\ ob \in [Objects -> Fields] /\ bd \in Nat
      /\ \A x \in Objects : ob[x].processed_seqnum \in Nat /\ ct[x] \in Nat
  BY DEF Books, Fields
<1>3. \A d : /\ OwnCmd(d) \in M2 <=> OwnCmd(d) \in M \/ d = c
             /\ TermCmd(d) \in M2 <=> TermCmd(d) \in M
             /\ AckCmd(d) \in M2 <=> AckCmd(d) \in M
  BY CmdsDiffer
<1> HIDE DEF M2
<1>4. /\ ob[c].sent_seqnum = ob[c].processed_seqnum /\ ob[c].term_acks = 0 /\ ob[c].owned = {}
  BY <1>1 DEF Books, Quiet
<1>5. OwnCmd(c) \notin M /\ TermCmd(c) \notin M /\ AckCmd(c) \notin M /\ c \notin ob[o].owned
  BY DEF Books, ChildRight, Fresh
<1>6. ob2[c].life = "alive" /\ ~ ob2[c].terminating /\ ~ ob2[c].pending
  BY DEF Fresh
<1>7. SentRight(ob2, ct2, bd)
  <2> DEFINE own(x) == IF x = Root THEN bd ELSE 0
  <2> SUFFICES ASSUME NEW x \in Objects
               PROVE  ob2[x].sent_seqnum = ob2[x].processed_seqnum + ct2[x] + own(x)
    BY DEF SentRight
  <2>1. ob[x].sent_seqnum = ob[x].processed_seqnum + ct[x] + own(x)
    BY DEF Books, SentRight
  <2>2. ct[x] \in Nat /\ ob[x].processed_seqnum \in Nat /\ own(x) \in Nat
    BY <1>2
  <2>3. x = c => own(x) = 0
    BY <1>1
  <2> HIDE DEF own
  <2>4. CASE x = c
    <3>1. ct[x] = 0
      BY <1>4, <2>1, <2>2, <2>3, <2>4
    <3> QED
      BY <2>3, <2>4, <3>1
  <2>5. CASE x = o
    BY <1>1, <2>1, <2>2, <2>5
  <2>6. CASE x # c /\ x # o
    BY <2>1, <2>2, <2>6
  <2> QED
    BY <2>4, <2>5, <2>6
<1>8. Quiet(ob2)
  <2> SUFFICES ASSUME NEW x \in Objects
               PROVE  /\ ob2[x].life # "alive" =>
                           ob2[x].sent_seqnum = ob2[x].processed_seqnum /\ ob2[x].term_acks = 0 /\ ob2[x].owned = {}
                      /\ ob2[x].terminating => ob2[x].owned = {}
    BY DEF Quiet
  <2>1. CASE x = c
    BY <1>6, <2>1
  <2>2. CASE x # c
    BY <2>2 DEF Books, Quiet
  <2> QED
    BY <2>1, <2>2
<1>9. \A x \in Objects : ob2[x].owned = ob[x].owned /\ ob2[x].term_acks = ob[x].term_acks
  BY <1>4
<1>10. ChildRight(ob2, M2)
  <2> SUFFICES ASSUME NEW d \in Children
               PROVE  LET owned == d \in ob2[Parent[d]].owned IN
                      /\ owned => Fresh(ob2[d]) /\ OwnCmd(d) \notin M2 /\ TermCmd(d) \notin M2
                      /\ OwnCmd(d) \in M2 => Fresh(ob2[d]) /\ TermCmd(d) \notin M2
                      /\ TermCmd(d) \in M2 => Fresh(ob2[d])
                      /\ AckCmd(d) \in M2 => ob2[d].life = "deleted"
    BY DEF ChildRight
  <2>1. ob2[Parent[d]].owned = ob[Parent[d]].owned
    BY <1>1, <1>9
  <2>2. CASE d = c
    BY <1>3, <1>5, <2>1, <2>2
  <2>3. CASE d # c
    <3>1. (Fresh(ob2[d]) <=> Fresh(ob[d])) /\ ob2[d].life = ob[d].life
      BY <1>1, <2>3 DEF Fresh
    <3> QED
      BY <1>3, <2>1, <2>3, <3>1 DEF Books, ChildRight
  <2> QED
    BY <2>2, <2>3
<1>11. OwnedRight(ob2)
  BY <1>9 DEF Books, OwnedRight
<1>12. \A x \in Objects : Waited(ob2, M2, x) = Waited(ob, M, x)
  <2> SUFFICES ASSUME NEW x \in Objects, NEW d \in Children, Parent[d] = x
               PROVE  (\/ ob2[d].life = "alive" /\ d \notin ob2[x].owned /\ OwnCmd(d) \notin M2
                       \/ AckCmd(d) \in M2)
                      <=> (\/ ob[d].life = "alive" /\ d \notin ob[x].owned /\ OwnCmd(d) \notin M
                           \/ AckCmd(d) \in M)
    BY DEF Waited
  <2>1. CASE d = c
    BY <1>3, <1>5, <2>1
  <2>2. CASE d # c
    BY <1>1, <1>3, <1>9, <2>2
  <2> QED
    BY <2>1, <2>2
<1>13. AcksRight(ob2, M2)
  BY <1>9, <1>12 DEF Books, AcksRight
<1>14. IsFiniteSet(Born(ob2))
  <2>1. Born(ob2) = Born(ob) \cup {c}
    BY <1>1, <1>6 DEF Born
  <2> QED
    BY <2>1, FS_AddElement DEF Books
<1>15. Books(ob2, M2, ct2, bd)
  BY <1>2, <1>7, <1>8, <1>10, <1>11, <1>13, <1>14 DEF Books
<1> QED
  BY <1>15 DEF M2

-----------------------------------------------------------------------------
(* The handlers keep the invariant.                                        *)

\* A command is one of those its kind and its child make.
LEMMA CmdIs ==
  ASSUME NEW m, WellFormed(m)
  PROVE  /\ m \in Commands /\ m.dest \in Objects /\ m.arg \in Objects
         /\ m.type = "own" => m.arg \in Children /\ m.dest = Parent[m.arg] /\ m = OwnCmd(m.arg)
         /\ m.type = "term" => m.dest \in Children /\ m = TermCmd(m.dest)
         /\ m.type = "term_ack" => m.arg \in Children /\ m.dest = Parent[m.arg] /\ m = AckCmd(m.arg)
<1>1. m \in Commands
  BY DEF WellFormed
<1>2. m = [type |-> m.type, dest |-> m.dest, arg |-> m.arg] /\ m.dest \in Objects /\ m.arg \in Objects
  BY <1>1 DEF Commands
<1> QED
  BY <1>1, <1>2 DEF WellFormed, OwnCmd, TermCmd, AckCmd, Cmd

\* The commands about a child are well formed.
LEMMA ChildCmds ==
  ASSUME NEW c \in Children
  PROVE  /\ c \in Objects /\ c # Root /\ Parent[c] \in Objects
         /\ WellFormed(OwnCmd(c)) /\ OwnCmd(c).type = "own" /\ OwnCmd(c).dest = Parent[c]
         /\ WellFormed(TermCmd(c)) /\ TermCmd(c).type = "term" /\ TermCmd(c).dest = c
         /\ WellFormed(AckCmd(c)) /\ AckCmd(c).type = "term_ack" /\ AckCmd(c).dest = Parent[c]
         /\ OwnCmd(c) \in Commands /\ TermCmd(c) \in Commands /\ AckCmd(c) \in Commands
<1>1. c \in Objects /\ c # Root /\ Parent[c] \in Objects
  BY OwnAssumption DEF Children
<1>2. OwnCmd(c) \in Commands /\ TermCmd(c) \in Commands /\ AckCmd(c) \in Commands
  BY <1>1 DEF Commands, OwnCmd, TermCmd, AckCmd, Cmd, CountedTypes, OnceTypes
<1> QED
  BY <1>1, <1>2 DEF WellFormed, OwnCmd, TermCmd, AckCmd, Cmd

\* A counted command on its way is counted.
LEMMA DuePositive ==
  ASSUME NEW mb, Boxes(mb), NEW t \in Threads, NEW i \in 1 .. Len(mb[t]),
         mb[t][i].type \in CountedTypes
  PROVE  mb[t][i].dest \in Objects /\ Dues(mb)[mb[t][i].dest] > 0
<1> DEFINE m == mb[t][i]
           o == m.dest
<1>1. WellFormed(m) /\ Thread[o] = t
  BY DEF Boxes
<1>2. o \in Objects /\ m \in Counted(o)
  BY <1>1, CmdIs DEF Counted
<1>3. i \in Places(mb[Thread[o]], Counted(o))
  BY <1>1, <1>2 DEF Places
<1>4. IsFiniteSet(Places(mb[Thread[o]], Counted(o))) /\ Cardinality(Places(mb[Thread[o]], Counted(o))) \in Nat
  BY <1>2, BoxOf, PlacesFinite
<1>5. Cardinality(Places(mb[Thread[o]], Counted(o))) # 0
  BY <1>3, <1>4, FS_EmptySet
<1>6. Dues(mb)[o] = Cardinality(Places(mb[Thread[o]], Counted(o)))
  BY <1>2 DEF Dues
<1> QED
  BY <1>2, <1>4, <1>5, <1>6

\* An announced child is counted by its owner.
LEMMA OwnDue ==
  ASSUME NEW mb, Boxes(mb), NEW c \in Children, OwnCmd(c) \in Once(mb)
  PROVE  Dues(mb)[Parent[c]] > 0
<1>1. PICK i \in 1 .. Len(mb[Thread[Parent[c]]]) : mb[Thread[Parent[c]]][i] = OwnCmd(c)
  BY ChildCmds DEF Once
<1>2. Thread[Parent[c]] \in Threads /\ OwnCmd(c).type \in CountedTypes
  BY ChildCmds, BoxOf DEF CountedTypes
<1> QED
  BY <1>1, <1>2, DuePositive, ChildCmds

\* A handler ends: the object stays, or is destroyed and acknowledges it.
LEMMA EndKeeps ==
  ASSUME NEW ob, NEW o \in Objects, NEW r \in Fields, NEW mail, NEW done \in BOOLEAN, NEW bd,
         NEW ob1, ob1 = [ob EXCEPT ![o] = r], ob \in [Objects -> Fields],
         OwnInvOf(ob1, mail, bd), r.life = "alive", done => Finished(r)
  PROVE  OwnInvOf([ob EXCEPT ![o] = IF done THEN [r EXCEPT !.life = "deleted"] ELSE r],
                  IF done /\ o # Root THEN Post(mail, Cmd("term_ack", Parent[o], o)) ELSE mail, bd)
<1>1. CASE ~ done
  BY <1>1
<1>2. CASE done
  <2> DEFINE ob2 == [ob EXCEPT ![o] = [r EXCEPT !.life = "deleted"]]
             M   == Once(mail)
  <2>1. ob1[o] = r /\ ob2 = [ob1 EXCEPT ![o] = [ob1[o] EXCEPT !.life = "deleted"]]
    OBVIOUS
  <2>2. Boxes(mail) /\ Order(ob1, mail) /\ Books(ob1, M, Dues(mail), bd)
    BY DEF OwnInvOf
  <2>3. \A c \in Children : OwnCmd(c) \in M => Dues(mail)[Parent[c]] > 0
    BY <2>2, OwnDue
  <2>4. ob1[o].life = "alive" /\ Finished(ob1[o])
    BY <1>2, <2>1
  <2> HIDE DEF M
  <2>5. Books([ob1 EXCEPT ![o] = [ob1[o] EXCEPT !.life = "deleted"]],
              IF o # Root THEN M \cup {AckCmd(o)} ELSE M, Dues(mail), bd)
    BY <2>2, <2>3, <2>4, GoneBooks
  <2>6. Books(ob2, IF o # Root THEN M \cup {AckCmd(o)} ELSE M, Dues(mail), bd)
    BY <2>1, <2>5
  <2>7. \A x \in Objects : x # o => ob2[x] = ob1[x]
    OBVIOUS
  <2> HIDE DEF ob2
  <2>8. CASE o = Root
    <3>1. Order(ob2, mail)
      <4>1. \A t \in Threads : \A i \in 1 .. Len(mail[t]) :
              mail[t][i].type = "term_req" => mail[t][i].arg \in Objects /\ mail[t][i].arg # Root
        BY <2>2 DEF Boxes, WellFormed, Children
      <4> QED
        BY <2>2, <2>7, <2>8, <4>1 DEF Order
    <3> QED
      BY <1>2, <2>2, <2>6, <2>8, <3>1 DEF OwnInvOf, M, ob2
  <2>9. CASE o # Root
    <3>1. o \in Children
      BY <2>9 DEF Children
    <3>2. WellFormed(AckCmd(o)) /\ AckCmd(o) \in Commands /\ AckCmd(o).type = "term_ack"
      BY <3>1, ChildCmds
    <3>3. AckCmd(o) \notin M
      BY <2>2, <2>4, <3>1 DEF Books, ChildRight
    <3>4. Boxes(Post(mail, AckCmd(o)))
      BY <2>2, <3>2, <3>3, PostBoxes DEF M
    <3>5. Once(Post(mail, AckCmd(o))) = M \cup {AckCmd(o)}
      BY <2>2, <3>2, PostOnce DEF M, OnceTypes
    <3>6. Dues(Post(mail, AckCmd(o))) = Dues(mail)
      BY <2>2, <3>2, PostDues DEF CountedTypes
    <3>7. Order(ob2, Post(mail, AckCmd(o)))
      BY <2>2, <2>7, <3>1, <3>2, AckOrder
    <3>8. OwnInvOf(ob2, Post(mail, AckCmd(o)), bd)
      BY <2>6, <2>9, <3>4, <3>5, <3>6, <3>7 DEF OwnInvOf
    <3> QED
      BY <1>2, <2>9, <3>8 DEF ob2, AckCmd
  <2> QED
    BY <2>8, <2>9
<1> QED
  BY <1>1, <1>2

\* The end of a handler, as the action states it.
LEMMA HandlerEnds ==
  ASSUME obj \in [Objects -> Fields], NEW o \in Objects, NEW r \in Fields, NEW mail,
         NEW done \in BOOLEAN, HandlerEnd(o, r, mail, done), binding' = binding,
         OwnInvOf([obj EXCEPT ![o] = r], mail, binding), r.life = "alive", done => Finished(r)
  PROVE  OwnInv'
<1>1. OwnInvOf([obj EXCEPT ![o] = IF done THEN [r EXCEPT !.life = "deleted"] ELSE r],
               IF done /\ o # Root THEN Post(mail, Cmd("term_ack", Parent[o], o)) ELSE mail, binding)
  BY EndKeeps
<1>2. /\ obj' = [obj EXCEPT ![o] = IF done THEN [r EXCEPT !.life = "deleted"] ELSE r]
      /\ inbox' = IF done /\ o # Root THEN Post(mail, Cmd("term_ack", Parent[o], o)) ELSE mail
  BY DEF HandlerEnd
<1>3. OwnInvOf(obj', inbox', binding)
  BY <1>1, <1>2
<1> QED
  BY <1>3 DEF OwnInv

\* Whether an object is finished can be told.
LEMMA FinishedBoolean == \A r \in Fields : Finished(r) \in BOOLEAN
BY DEF Finished, Fields

\* The end of a handler that checks the acknowledgements ...
LEMMA CheckEnds ==
  ASSUME obj \in [Objects -> Fields], NEW o \in Objects, NEW r \in Fields, NEW mail,
         check_term_acks(o, r, mail), binding' = binding,
         OwnInvOf([obj EXCEPT ![o] = r], mail, binding), r.life = "alive"
  PROVE  OwnInv'
<1>1. Finished(r) \in BOOLEAN /\ HandlerEnd(o, r, mail, Finished(r))
  BY FinishedBoolean DEF check_term_acks
<1>2. Finished(r) => Finished(r)
  OBVIOUS
<1> QED
  BY <1>1, <1>2, HandlerEnds

\* ... and of one that does not.
LEMMA NoCheckEnds ==
  ASSUME obj \in [Objects -> Fields], NEW o \in Objects, NEW r \in Fields, NEW mail,
         NoCheck(o, r, mail), binding' = binding,
         OwnInvOf([obj EXCEPT ![o] = r], mail, binding), r.life = "alive"
  PROVE  OwnInv'
<1>1. HandlerEnd(o, r, mail, FALSE)
  BY DEF NoCheck
<1> QED
  BY <1>1, HandlerEnds

\* The fields of an object that begins to terminate and waits for k children.
LEMMA TermFields ==
  ASSUME NEW r0 \in Fields, NEW k \in Nat
  PROVE  LET r == [r0 EXCEPT !.terminating = TRUE, !.pending = FALSE, !.owned = {}, !.term_acks = k]
         IN  /\ r \in Fields /\ r.life = r0.life /\ r.terminating = TRUE /\ r.pending = FALSE
             /\ r.sent_seqnum = r0.sent_seqnum /\ r.processed_seqnum = r0.processed_seqnum
             /\ r.owned = {} /\ r.term_acks = k
<1> DEFINE r == [r0 EXCEPT !.terminating = TRUE, !.pending = FALSE, !.owned = {}, !.term_acks = k]
<1>1. r \in Fields
  BY DEF Fields
<1>2. /\ r.life = r0.life /\ r.terminating = TRUE /\ r.pending = FALSE
      /\ r.sent_seqnum = r0.sent_seqnum /\ r.processed_seqnum = r0.processed_seqnum
  BY DEF Fields
<1>3. r.owned = {} /\ r.term_acks = k
  BY DEF Fields
<1> QED
  BY <1>1, <1>2, <1>3

\* An object terminates, from fields q that say that nothing is in the way.
LEMMA TermKeeps ==
  ASSUME obj \in [Objects -> Fields], NEW o \in Objects, NEW r0 \in Fields, NEW q \in Fields,
         NEW mail, own_process_term(o, r0, mail), binding' = binding,
         /\ q.life = r0.life /\ q.sent_seqnum = r0.sent_seqnum /\ q.owned = r0.owned
         /\ q.processed_seqnum = r0.processed_seqnum /\ q.term_acks = r0.term_acks,
         OwnInvOf([obj EXCEPT ![o] = q], mail, binding), q.life = "alive", o = Root \/ q.pending
  PROVE  OwnInv'
<1> DEFINE ob1  == [obj EXCEPT ![o] = q]
           kids == q.owned
           r    == [r0 EXCEPT !.terminating = TRUE, !.pending = FALSE, !.owned = {},
                              !.term_acks = @ + Cardinality(r0.owned)]
           mc   == PostTerms(mail, kids)
<1>1. Boxes(mail) /\ Order(ob1, mail) /\ Books(ob1, Once(mail), Dues(mail), binding)
  BY DEF OwnInvOf
<1>2. ob1[o] = q /\ ob1 \in [Objects -> Fields]
  OBVIOUS
<1>3. \A c \in kids : c \in Children /\ Parent[c] = o
  BY <1>1, <1>2 DEF Books, OwnedRight
<1>4. \A c \in kids : Fresh(ob1[c]) /\ TermCmd(c) \notin Once(mail)
  BY <1>1, <1>2, <1>3 DEF Books, ChildRight
<1>5. IsFiniteSet(kids) /\ Cardinality(kids) \in Nat
  <2>1. kids \subseteq Born(ob1)
    BY <1>3, <1>4 DEF Born, Fresh, Children
  <2> QED
    BY <1>1, <2>1, FS_Subset, FS_CardinalityType DEF Books
<1>6. /\ r \in Fields /\ r.life = q.life /\ r.terminating = TRUE /\ r.pending = FALSE
      /\ r.sent_seqnum = q.sent_seqnum /\ r.processed_seqnum = q.processed_seqnum
      /\ r.owned = {} /\ r.term_acks = q.term_acks + Cardinality(kids)
  <2>1. r0.owned = kids
    OBVIOUS
  <2> DEFINE k == r0.term_acks + Cardinality(kids)
  <2>2. k \in Nat
    BY <1>5 DEF Fields
  <2>3. r = [r0 EXCEPT !.terminating = TRUE, !.pending = FALSE, !.owned = {}, !.term_acks = k]
    BY <2>1
  <2> HIDE DEF kids, k, r
  <2>4. /\ r \in Fields /\ r.life = r0.life /\ r.terminating = TRUE /\ r.pending = FALSE
        /\ r.sent_seqnum = r0.sent_seqnum /\ r.processed_seqnum = r0.processed_seqnum
        /\ r.owned = {} /\ r.term_acks = k
    BY <2>2, <2>3, TermFields
  <2> QED
    BY <2>4 DEF k
<1>7. HandlerEnd(o, r, mc, Finished(r))
  BY DEF own_process_term, check_term_acks
<1> HIDE DEF r, mc, kids
<1>8. Boxes(mc)
  BY <1>1, <1>3, <1>4, <1>5, PostTermsBoxes DEF mc
<1>9. Once(mc) = Once(mail) \cup {TermCmd(c) : c \in kids}
  BY <1>1, <1>3, <1>5, PostTermsOnce DEF mc
<1>10. Dues(mc) = Dues(mail)
  BY <1>1, <1>3, <1>5, PostTermsDues DEF mc
<1> HIDE DEF ob1
<1>11. Books([ob1 EXCEPT ![o] = r], Once(mail) \cup {TermCmd(c) : c \in ob1[o].owned},
             Dues(mail), binding)
  <2>1. /\ ob1[o].life = "alive" /\ (o = Root \/ ob1[o].pending)
        /\ r.life = ob1[o].life /\ r.terminating /\ ~ r.pending
        /\ r.sent_seqnum = ob1[o].sent_seqnum /\ r.processed_seqnum = ob1[o].processed_seqnum
        /\ r.owned = {} /\ r.term_acks = ob1[o].term_acks + Cardinality(ob1[o].owned)
    BY <1>2, <1>6 DEF kids
  <2> QED
    BY <1>1, <1>6, <2>1, TermBooks
<1>12. [ob1 EXCEPT ![o] = r] = [obj EXCEPT ![o] = r] /\ ob1[o].owned = kids
  BY <1>2 DEF ob1, kids
<1>13. Order([ob1 EXCEPT ![o] = r], mc)
  <2>1. Order(ob1, mc)
    BY <1>1, <1>3, <1>5, PostTermsOrder DEF mc
  <2>2. \A x \in Objects : ob1[x].life = "alive" => [ob1 EXCEPT ![o] = r][x].life = "alive"
    BY <1>2, <1>6
  <2> QED
    BY <1>8, <2>1, <2>2, SameOrder
<1>14. OwnInvOf([obj EXCEPT ![o] = r], mc, binding)
  BY <1>8, <1>9, <1>10, <1>11, <1>12, <1>13 DEF OwnInvOf
<1> QED
  BY <1>6, <1>7, <1>14, FinishedBoolean, HandlerEnds

\* Thread t takes a command off its mailbox.
LEMMA TakesIs ==
  ASSUME OwnInv, NEW t \in Threads, inbox[t] # <<>>
  PROVE  LET h == Head(inbox[t]) IN
         /\ obj \in [Objects -> Fields] /\ binding \in Nat
         /\ Books(obj, Once(inbox), Dues(inbox), binding)
         /\ WellFormed(h) /\ h \in Commands /\ h.dest \in Objects /\ h.arg \in Objects
         /\ Rest(t) = Taken(inbox, t) /\ Boxes(Taken(inbox, t)) /\ Order(obj, Taken(inbox, t))
         /\ Once(Taken(inbox, t)) = Once(inbox) \ {h}
         /\ h.type \in OnceTypes => h \in Once(inbox)
         /\ h.type \notin OnceTypes => Once(Taken(inbox, t)) = Once(inbox)
         /\ Dues(Taken(inbox, t)) \in [Objects -> Nat]
         /\ h.type \in CountedTypes =>
              Dues(inbox) = [Dues(Taken(inbox, t)) EXCEPT ![h.dest] = @ + 1]
         /\ h.type \notin CountedTypes => Dues(inbox) = Dues(Taken(inbox, t))
<1> DEFINE h == Head(inbox[t])
<1>1. Boxes(inbox) /\ Order(obj, inbox) /\ Books(obj, Once(inbox), Dues(inbox), binding)
  BY DEF OwnInv, OwnInvOf
<1>2. obj \in [Objects -> Fields] /\ binding \in Nat
  BY <1>1 DEF Books
<1>3. WellFormed(h)
  BY <1>1, TakenIs
<1>4. h \in Commands /\ h.dest \in Objects /\ h.arg \in Objects
  BY <1>3, CmdIs
<1>5. Rest(t) = Taken(inbox, t)
  BY DEF Rest, Taken
<1>6. Boxes(Taken(inbox, t)) /\ Order(obj, Taken(inbox, t))
  BY <1>1, TakenBoxes, TakenOrder
<1>7. Once(Taken(inbox, t)) = Once(inbox) \ {h} /\ (h.type \in OnceTypes => h \in Once(inbox))
  BY <1>1, TakenOnce
<1>8. /\ Dues(Taken(inbox, t)) \in [Objects -> Nat]
      /\ Dues(inbox) = IF h.type \in CountedTypes
                       THEN [Dues(Taken(inbox, t)) EXCEPT ![h.dest] = @ + 1]
                       ELSE Dues(Taken(inbox, t))
  BY <1>1, TakenDues
<1>9. h.type \notin OnceTypes => Once(Taken(inbox, t)) = Once(inbox)
  BY <1>7 DEF Once
<1> HIDE DEF h
<1> QED
  BY <1>1, <1>2, <1>3, <1>4, <1>5, <1>6, <1>7, <1>8, <1>9 DEF h

\* The fields of an object that has processed one more command.
LEMMA SeenFields ==
  ASSUME NEW p \in Fields
  PROVE  /\ Seen(p) \in Fields /\ Seen(p).life = p.life /\ Seen(p).terminating = p.terminating
         /\ Seen(p).pending = p.pending /\ Seen(p).sent_seqnum = p.sent_seqnum
         /\ Seen(p).processed_seqnum = p.processed_seqnum + 1
         /\ Seen(p).owned = p.owned /\ Seen(p).term_acks = p.term_acks
<1>1. p.processed_seqnum + 1 \in Nat
  BY DEF Fields
<1>2. Seen(p) \in Fields
  BY <1>1 DEF Fields, Seen
<1> QED
  BY <1>2 DEF Fields, Seen

\* The fields of an object of which one or two are set.
LEMMA SetFields ==
  ASSUME NEW p \in Fields
  PROVE  /\ LET r == [p EXCEPT !.plugged = TRUE]
            IN  /\ r \in Fields /\ r.life = p.life /\ r.terminating = p.terminating
                /\ r.pending = p.pending /\ r.sent_seqnum = p.sent_seqnum
                /\ r.processed_seqnum = p.processed_seqnum /\ r.owned = p.owned
                /\ r.term_acks = p.term_acks
         /\ \A k \in Nat : LET r == [p EXCEPT !.term_acks = k]
            IN  /\ r \in Fields /\ r.life = p.life /\ r.terminating = p.terminating
                /\ r.pending = p.pending /\ r.sent_seqnum = p.sent_seqnum
                /\ r.processed_seqnum = p.processed_seqnum /\ r.owned = p.owned
                /\ r.term_acks = k
         /\ \A S \in SUBSET Objects : LET r == [p EXCEPT !.owned = S]
            IN  /\ r \in Fields /\ r.life = p.life /\ r.terminating = p.terminating
                /\ r.pending = p.pending /\ r.sent_seqnum = p.sent_seqnum
                /\ r.processed_seqnum = p.processed_seqnum /\ r.owned = S
                /\ r.term_acks = p.term_acks
         /\ \A S \in SUBSET Objects : \A k \in Nat : LET r == [p EXCEPT !.owned = S, !.term_acks = k]
            IN  /\ r \in Fields /\ r.life = p.life /\ r.terminating = p.terminating
                /\ r.pending = p.pending /\ r.sent_seqnum = p.sent_seqnum
                /\ r.processed_seqnum = p.processed_seqnum /\ r.owned = S
                /\ r.term_acks = k
         /\ LET r == [p EXCEPT !.pending = TRUE]
            IN  /\ r \in Fields /\ r.life = p.life /\ r.terminating = p.terminating
                /\ r.pending = TRUE /\ r.sent_seqnum = p.sent_seqnum
                /\ r.processed_seqnum = p.processed_seqnum /\ r.owned = p.owned
                /\ r.term_acks = p.term_acks
BY DEF Fields

\* The fields of an object that was sent a counted command.
LEMMA SentFields ==
  ASSUME NEW p \in Fields
  PROVE  LET r == [p EXCEPT !.sent_seqnum = @ + 1]
         IN  /\ r \in Fields /\ r.life = p.life /\ r.terminating = p.terminating
             /\ r.pending = p.pending /\ r.owned = p.owned /\ r.term_acks = p.term_acks
             /\ r.processed_seqnum = p.processed_seqnum /\ r.sent_seqnum = p.sent_seqnum + 1
<1>1. p.sent_seqnum + 1 \in Nat
  BY DEF Fields
<1>2. [p EXCEPT !.sent_seqnum = @ + 1] \in Fields
  BY <1>1 DEF Fields
<1> QED
  BY <1>2 DEF Fields

\* The fields of a connecter that has attached its engine.
LEMMA AttachedFields ==
  ASSUME NEW p \in Fields
  PROVE  LET r == [p EXCEPT !.attached = TRUE]
         IN  /\ r \in Fields /\ r.life = p.life /\ r.terminating = p.terminating
             /\ r.pending = p.pending /\ r.owned = p.owned /\ r.term_acks = p.term_acks
             /\ r.processed_seqnum = p.processed_seqnum /\ r.sent_seqnum = p.sent_seqnum
BY DEF Fields

\* plug, attach and bind.
LEMMA CountedKeeps ==
  ASSUME OwnInv, NEW t \in Threads, process_counted(t)
  PROVE  OwnInv'
<1> DEFINE h  == Head(inbox[t])
           o  == h.dest
           p  == obj[o]
           r  == [Seen(p) EXCEPT !.plugged = TRUE]
           mc == Taken(inbox, t)
           ob2 == [obj EXCEPT ![o] = r]
<1>1. inbox[t] # <<>> /\ h.type \in {"plug", "attach", "bind"} /\ p.life = "alive"
  BY DEF process_counted, Takes
<1>2. h.type \in CountedTypes /\ h.type \notin OnceTypes
  BY <1>1 DEF CountedTypes, OnceTypes
<1>3. /\ obj \in [Objects -> Fields] /\ binding \in Nat
      /\ Books(obj, Once(inbox), Dues(inbox), binding)
      /\ o \in Objects /\ Rest(t) = mc /\ Boxes(mc) /\ Order(obj, mc)
      /\ Once(mc) = Once(inbox) /\ Dues(mc) \in [Objects -> Nat]
      /\ Dues(inbox) = [Dues(mc) EXCEPT ![o] = @ + 1]
  BY <1>1, <1>2, TakesIs
<1>4. check_term_acks(o, r, mc) /\ binding' = binding
  BY <1>3 DEF process_counted
<1>5. p \in Fields
  BY <1>3
<1> HIDE DEF p, h, mc, o
<1>6. /\ r \in Fields /\ r.life = p.life /\ r.terminating = p.terminating /\ r.pending = p.pending
      /\ r.sent_seqnum = p.sent_seqnum /\ r.processed_seqnum = p.processed_seqnum + 1
      /\ r.owned = p.owned /\ r.term_acks = p.term_acks
  <2> DEFINE q == Seen(p)
  <2>1. /\ q \in Fields /\ q.life = p.life /\ q.terminating = p.terminating /\ q.pending = p.pending
        /\ q.sent_seqnum = p.sent_seqnum /\ q.processed_seqnum = p.processed_seqnum + 1
        /\ q.owned = p.owned /\ q.term_acks = p.term_acks
    BY <1>5, SeenFields
  <2> HIDE DEF q
  <2>2. LET s == [q EXCEPT !.plugged = TRUE]
        IN  /\ s \in Fields /\ s.life = q.life /\ s.terminating = q.terminating
            /\ s.pending = q.pending /\ s.sent_seqnum = q.sent_seqnum
            /\ s.processed_seqnum = q.processed_seqnum /\ s.owned = q.owned
            /\ s.term_acks = q.term_acks
    BY <2>1, SetFields
  <2> QED
    BY <2>1, <2>2 DEF q
<1> HIDE DEF r
<1>7. ob2 \in [Objects -> Fields] /\ ob2[o] = r /\ \A x \in Objects : x # o => ob2[x] = obj[x]
  BY <1>3, <1>6
<1> HIDE DEF ob2
<1>8. Alike(obj, ob2)
  BY <1>6, <1>7 DEF Alike, p
<1>9. SentRight(ob2, Dues(mc), binding)
  <2> DEFINE own(x) == IF x = Root THEN binding ELSE 0
  <2> SUFFICES ASSUME NEW x \in Objects
               PROVE  ob2[x].sent_seqnum = ob2[x].processed_seqnum + Dues(mc)[x] + own(x)
    BY DEF SentRight
  <2>1. obj[x].sent_seqnum = obj[x].processed_seqnum + Dues(inbox)[x] + own(x)
    BY <1>3 DEF Books, SentRight
  <2>2. Dues(mc)[x] \in Nat /\ obj[x].processed_seqnum \in Nat /\ own(x) \in Nat
    BY <1>3 DEF Fields
  <2>3. Dues(inbox)[x] = IF x = o THEN Dues(mc)[x] + 1 ELSE Dues(mc)[x]
    BY <1>3
  <2> HIDE DEF own
  <2>4. CASE x = o
    BY <1>6, <1>7, <2>1, <2>2, <2>3, <2>4 DEF p
  <2>5. CASE x # o
    BY <1>7, <2>1, <2>2, <2>3, <2>5
  <2> QED
    BY <2>4, <2>5
<1>10. \A x \in Objects : obj[x].life # "alive" => ob2[x].sent_seqnum = ob2[x].processed_seqnum
  BY <1>1, <1>3, <1>7 DEF Books, Quiet, p
<1>11. Books(ob2, Once(mc), Dues(mc), binding)
  BY <1>3, <1>7, <1>8, <1>9, <1>10, CountBooks
<1>12. Order(ob2, mc)
  BY <1>3, <1>8, SameOrder DEF Alike
<1>13. OwnInvOf(ob2, mc, binding)
  BY <1>3, <1>11, <1>12 DEF OwnInvOf
<1>14. r.life = "alive"
  BY <1>1, <1>6
<1>15. OwnInvOf([obj EXCEPT ![o] = r], mc, binding)
  BY <1>13 DEF ob2
<1>16. obj \in [Objects -> Fields] /\ o \in Objects /\ binding' = binding
  BY <1>3, <1>4
<1> QED
  BY <1>4, <1>6, <1>14, <1>15, <1>16, CheckEnds

\* A command is sent that is counted and may be sent again ...
LEMMA CountedPost ==
  ASSUME NEW ob, NEW mb, NEW m, Boxes(mb), Order(ob, mb), WellFormed(m),
         m.type \in CountedTypes \ OnceTypes
  PROVE  /\ Boxes(Post(mb, m)) /\ Order(ob, Post(mb, m)) /\ Once(Post(mb, m)) = Once(mb)
         /\ Dues(Post(mb, m)) = [Dues(mb) EXCEPT ![m.dest] = @ + 1]
         /\ Dues(mb) \in [Objects -> Nat]
<1>1. m \in Commands /\ m.type \in CountedTypes /\ m.type \notin OnceTypes /\ m.type # "term_req"
  BY DEF WellFormed, CountedTypes
<1>2. m.type \in OnceTypes => m \notin Once(mb)
  BY <1>1
<1>3. m.type = "term_req" => ob[m.arg].life = "alive"
  BY <1>1
<1>4. Boxes(Post(mb, m))
  BY <1>2, PostBoxes
<1>5. Order(ob, Post(mb, m))
  BY <1>1, <1>3, PostOrder
<1>6. Once(Post(mb, m)) = Once(mb)
  BY <1>1, PostOnce
<1>7. Dues(Post(mb, m)) = [Dues(mb) EXCEPT ![m.dest] = @ + 1] /\ Dues(mb) \in [Objects -> Nat]
  BY <1>1, PostDues
<1> QED
  BY <1>4, <1>5, <1>6, <1>7

\* ... own is sent, once for each child ...
LEMMA OwnPost ==
  ASSUME NEW ob, NEW mb, Boxes(mb), Order(ob, mb), NEW c \in Children, OwnCmd(c) \notin Once(mb)
  PROVE  /\ Boxes(Post(mb, OwnCmd(c))) /\ Order(ob, Post(mb, OwnCmd(c)))
         /\ Once(Post(mb, OwnCmd(c))) = Once(mb) \cup {OwnCmd(c)}
         /\ Dues(Post(mb, OwnCmd(c))) = [Dues(mb) EXCEPT ![Parent[c]] = @ + 1]
         /\ Dues(mb) \in [Objects -> Nat]
<1> DEFINE m == OwnCmd(c)
<1>1. /\ m \in Commands /\ WellFormed(m) /\ m.type = "own" /\ m.dest = Parent[c]
  BY ChildCmds
<1> HIDE DEF m
<1>2. m.type \in CountedTypes /\ m.type \in OnceTypes /\ m.type # "term_req"
  BY <1>1 DEF CountedTypes, OnceTypes
<1>3. m.type \in OnceTypes => m \notin Once(mb)
  BY DEF m
<1>4. m.type = "term_req" => ob[m.arg].life = "alive"
  BY <1>2
<1>5. Boxes(Post(mb, m))
  BY <1>1, <1>3, PostBoxes
<1>6. Order(ob, Post(mb, m))
  BY <1>1, <1>4, PostOrder
<1>7. Once(Post(mb, m)) = Once(mb) \cup {m}
  BY <1>1, <1>2, PostOnce
<1>8. Dues(Post(mb, m)) = [Dues(mb) EXCEPT ![m.dest] = @ + 1] /\ Dues(mb) \in [Objects -> Nat]
  BY <1>1, <1>2, PostDues
<1> QED
  BY <1>1, <1>5, <1>6, <1>7, <1>8 DEF m

\* ... term is sent, once for each child ...
LEMMA TermPost ==
  ASSUME NEW ob, NEW mb, Boxes(mb), Order(ob, mb), NEW c \in Children, TermCmd(c) \notin Once(mb)
  PROVE  /\ Boxes(Post(mb, TermCmd(c))) /\ Order(ob, Post(mb, TermCmd(c)))
         /\ Once(Post(mb, TermCmd(c))) = Once(mb) \cup {TermCmd(c)}
         /\ Dues(Post(mb, TermCmd(c))) = Dues(mb)
<1> DEFINE m == TermCmd(c)
<1>1. /\ m \in Commands /\ WellFormed(m) /\ m.type = "term"
  BY ChildCmds
<1> HIDE DEF m
<1>2. m.type \notin CountedTypes /\ m.type \in OnceTypes /\ m.type # "term_req"
  BY <1>1 DEF CountedTypes, OnceTypes
<1>3. m.type \in OnceTypes => m \notin Once(mb)
  BY DEF m
<1>4. m.type = "term_req" => ob[m.arg].life = "alive"
  BY <1>2
<1>5. Boxes(Post(mb, m))
  BY <1>1, <1>3, PostBoxes
<1>6. Order(ob, Post(mb, m))
  BY <1>1, <1>4, PostOrder
<1>7. Once(Post(mb, m)) = Once(mb) \cup {m}
  BY <1>1, <1>2, PostOnce
<1>8. Dues(Post(mb, m)) = Dues(mb)
  BY <1>1, <1>2, PostDues
<1> QED
  BY <1>5, <1>6, <1>7, <1>8 DEF m

\* ... and a child that is there asks for its end.
LEMMA AskPost ==
  ASSUME NEW ob, NEW mb, NEW m, Boxes(mb), Order(ob, mb), WellFormed(m),
         m.type = "term_req", ob[m.arg].life = "alive"
  PROVE  /\ Boxes(Post(mb, m)) /\ Order(ob, Post(mb, m))
         /\ Once(Post(mb, m)) = Once(mb) /\ Dues(Post(mb, m)) = Dues(mb)
<1>1. m \in Commands /\ m.type \notin CountedTypes /\ m.type \notin OnceTypes
  BY DEF WellFormed, CountedTypes, OnceTypes
<1>2. m.type \in OnceTypes => m \notin Once(mb)
  BY <1>1
<1>3. m.type = "term_req" => ob[m.arg].life = "alive"
  OBVIOUS
<1>4. Boxes(Post(mb, m))
  BY <1>2, PostBoxes
<1>5. Order(ob, Post(mb, m))
  BY <1>1, <1>3, PostOrder
<1>6. Once(Post(mb, m)) = Once(mb)
  BY <1>1, PostOnce
<1>7. Dues(Post(mb, m)) = Dues(mb)
  BY <1>1, PostDues
<1> QED
  BY <1>4, <1>5, <1>6, <1>7

\* own.
LEMMA OwnKeeps ==
  ASSUME OwnInv, NEW t \in Threads, process_own(t)
  PROVE  OwnInv'
<1> DEFINE h  == Head(inbox[t])
           c  == h.arg
           o  == h.dest
           p  == obj[o]
           mc == Taken(inbox, t)
<1>1. inbox[t] # <<>> /\ h.type = "own" /\ p.life = "alive"
  BY DEF process_own, Takes
<1>2. h.type \in CountedTypes /\ h.type \in OnceTypes
  BY <1>1 DEF CountedTypes, OnceTypes
<1>3. /\ obj \in [Objects -> Fields] /\ binding \in Nat
      /\ Books(obj, Once(inbox), Dues(inbox), binding)
      /\ o \in Objects /\ Rest(t) = mc /\ Boxes(mc) /\ Order(obj, mc) /\ WellFormed(h)
      /\ Once(mc) = Once(inbox) \ {h} /\ h \in Once(inbox) /\ Dues(mc) \in [Objects -> Nat]
      /\ Dues(inbox) = [Dues(mc) EXCEPT ![o] = @ + 1]
  BY <1>1, <1>2, TakesIs
<1>4. c \in Children /\ o = Parent[c] /\ h = OwnCmd(c)
  BY <1>1, <1>3, CmdIs
<1>5. p \in Fields
  BY <1>3
<1>6. binding' = binding
  BY DEF process_own
<1>7. IF p.terminating
      THEN check_term_acks(o, [Seen(p) EXCEPT !.term_acks = @ + 1],
                           Post(mc, Cmd("term", c, o)))
      ELSE check_term_acks(o, [Seen(p) EXCEPT !.owned = @ \cup {c}], mc)
  <2>1. Seen(p).terminating = p.terminating
    BY <1>5 DEF Seen, Fields
  <2> QED
    BY <1>3, <2>1 DEF process_own
<1> HIDE DEF h, c, o, mc
<1>8. CASE p.terminating
  <2> DEFINE r   == [Seen(p) EXCEPT !.term_acks = @ + 1]
             ob2 == [obj EXCEPT ![o] = r]
             mc2 == Post(mc, TermCmd(c))
  <2>1. check_term_acks(o, r, mc2)
    BY <1>4, <1>7, <1>8 DEF TermCmd
  <2>2. /\ r \in Fields /\ r.life = p.life /\ r.terminating = p.terminating /\ r.pending = p.pending
        /\ r.sent_seqnum = p.sent_seqnum /\ r.processed_seqnum = p.processed_seqnum + 1
        /\ r.owned = p.owned /\ r.term_acks = p.term_acks + 1
    <3> DEFINE q == Seen(p)
               k == q.term_acks + 1
    <3> HIDE DEF p
    <3>1. /\ q \in Fields /\ q.life = p.life /\ q.terminating = p.terminating /\ q.pending = p.pending
          /\ q.sent_seqnum = p.sent_seqnum /\ q.processed_seqnum = p.processed_seqnum + 1
          /\ q.owned = p.owned /\ q.term_acks = p.term_acks
      BY <1>5, SeenFields
    <3> HIDE DEF q
    <3>2. k \in Nat
      BY <3>1 DEF Fields
    <3>3. r = [q EXCEPT !.term_acks = k]
      BY DEF q
    <3> HIDE DEF k, r
    <3>4. LET s == [q EXCEPT !.term_acks = k]
          IN  /\ s \in Fields /\ s.life = q.life /\ s.terminating = q.terminating
              /\ s.pending = q.pending /\ s.sent_seqnum = q.sent_seqnum
              /\ s.processed_seqnum = q.processed_seqnum /\ s.owned = q.owned
              /\ s.term_acks = k
      BY <3>1, <3>2, SetFields
    <3> QED
      BY <3>1, <3>3, <3>4 DEF k
  <2> HIDE DEF r
  <2>3. TermCmd(c) \notin Once(inbox)
    BY <1>3, <1>4 DEF Books, ChildRight
  <2>4. /\ Boxes(mc2) /\ Order(obj, mc2) /\ Dues(mc2) = Dues(mc)
        /\ Once(mc2) = (Once(inbox) \ {OwnCmd(c)}) \cup {TermCmd(c)}
    <3>1. c \in Children /\ TermCmd(c) \notin Once(mc) /\ Boxes(mc) /\ Order(obj, mc)
      BY <1>3, <1>4, <2>3
    <3>2. /\ Boxes(Post(mc, TermCmd(c))) /\ Order(obj, Post(mc, TermCmd(c)))
          /\ Once(Post(mc, TermCmd(c))) = Once(mc) \cup {TermCmd(c)}
          /\ Dues(Post(mc, TermCmd(c))) = Dues(mc)
      BY <3>1, TermPost
    <3> QED
      BY <1>3, <1>4, <3>2
  <2>5. Books([obj EXCEPT ![Parent[c]] = r], (Once(inbox) \ {OwnCmd(c)}) \cup {TermCmd(c)},
              Dues(mc), binding)
    <3>1. /\ obj[Parent[c]].life = "alive"
          /\ r.life = obj[Parent[c]].life /\ r.terminating = obj[Parent[c]].terminating
          /\ r.pending = obj[Parent[c]].pending
          /\ r.sent_seqnum = obj[Parent[c]].sent_seqnum
          /\ r.processed_seqnum = obj[Parent[c]].processed_seqnum + 1
          /\ r.owned = obj[Parent[c]].owned /\ r.term_acks = obj[Parent[c]].term_acks + 1
      BY <1>1, <1>4, <2>2
    <3>2. OwnCmd(c) \in Once(inbox) /\ Dues(inbox) = [Dues(mc) EXCEPT ![Parent[c]] = @ + 1]
      BY <1>3, <1>4
    <3> QED
      BY <1>3, <1>4, <2>2, <3>1, <3>2, LateOwnBooks
  <2>6. Order(ob2, mc2)
    <3>1. \A x \in Objects : obj[x].life = "alive" => ob2[x].life = "alive"
      BY <1>1, <1>3, <2>2
    <3> QED
      BY <2>4, <3>1, SameOrder
  <2>7. OwnInvOf(ob2, mc2, binding)
    BY <1>4, <2>4, <2>5, <2>6 DEF OwnInvOf
  <2>8. r.life = "alive"
    BY <1>1, <2>2
  <2>9. obj \in [Objects -> Fields] /\ o \in Objects
    BY <1>3
  <2> HIDE DEF mc2
  <2> QED
    BY <1>6, <2>1, <2>2, <2>7, <2>8, <2>9, CheckEnds
<1>9. CASE ~ p.terminating
  <2> DEFINE r   == [Seen(p) EXCEPT !.owned = @ \cup {c}]
             ob2 == [obj EXCEPT ![o] = r]
  <2>1. check_term_acks(o, r, mc)
    BY <1>7, <1>9
  <2>2. /\ r \in Fields /\ r.life = p.life /\ r.terminating = p.terminating /\ r.pending = p.pending
        /\ r.sent_seqnum = p.sent_seqnum /\ r.processed_seqnum = p.processed_seqnum + 1
        /\ r.owned = p.owned \cup {c} /\ r.term_acks = p.term_acks
    <3> DEFINE q == Seen(p)
               S == q.owned \cup {c}
    <3> HIDE DEF p
    <3>1. /\ q \in Fields /\ q.life = p.life /\ q.terminating = p.terminating /\ q.pending = p.pending
          /\ q.sent_seqnum = p.sent_seqnum /\ q.processed_seqnum = p.processed_seqnum + 1
          /\ q.owned = p.owned /\ q.term_acks = p.term_acks
      BY <1>5, SeenFields
    <3> HIDE DEF q
    <3>2. S \in SUBSET Objects
      BY <1>4, <3>1 DEF Fields, Children
    <3>3. r = [q EXCEPT !.owned = S]
      BY DEF q
    <3> HIDE DEF S, r
    <3>4. LET s == [q EXCEPT !.owned = S]
          IN  /\ s \in Fields /\ s.life = q.life /\ s.terminating = q.terminating
              /\ s.pending = q.pending /\ s.sent_seqnum = q.sent_seqnum
              /\ s.processed_seqnum = q.processed_seqnum /\ s.owned = S
              /\ s.term_acks = q.term_acks
      BY <3>1, <3>2, SetFields
    <3> QED
      BY <3>1, <3>3, <3>4 DEF S
  <2> HIDE DEF r
  <2>3. Books([obj EXCEPT ![Parent[c]] = r], Once(inbox) \ {OwnCmd(c)}, Dues(mc), binding)
    <3>1. /\ obj[Parent[c]].life = "alive" /\ ~ obj[Parent[c]].terminating
          /\ r.life = obj[Parent[c]].life /\ r.terminating = obj[Parent[c]].terminating
          /\ r.pending = obj[Parent[c]].pending
          /\ r.sent_seqnum = obj[Parent[c]].sent_seqnum
          /\ r.processed_seqnum = obj[Parent[c]].processed_seqnum + 1
          /\ r.owned = obj[Parent[c]].owned \cup {c} /\ r.term_acks = obj[Parent[c]].term_acks
      BY <1>1, <1>4, <1>9, <2>2
    <3>2. OwnCmd(c) \in Once(inbox) /\ Dues(inbox) = [Dues(mc) EXCEPT ![Parent[c]] = @ + 1]
      BY <1>3, <1>4
    <3> QED
      BY <1>3, <1>4, <2>2, <3>1, <3>2, OwnBooks
  <2>4. Order(ob2, mc)
    <3>1. \A x \in Objects : obj[x].life = "alive" => ob2[x].life = "alive"
      BY <1>1, <1>3, <2>2
    <3> QED
      BY <1>3, <3>1, SameOrder
  <2>5. OwnInvOf(ob2, mc, binding)
    BY <1>3, <1>4, <2>3, <2>4 DEF OwnInvOf
  <2>6. r.life = "alive"
    BY <1>1, <2>2
  <2>7. obj \in [Objects -> Fields] /\ o \in Objects
    BY <1>3
  <2> QED
    BY <1>6, <2>1, <2>2, <2>5, <2>6, <2>7, CheckEnds
<1> QED
  BY <1>8, <1>9

\* A request to terminate a child, by the command or by term_child ().
LEMMA RequestKeeps ==
  ASSUME NEW mail, OwnInvOf(obj, mail, binding), NEW o \in Objects, NEW c,
         obj[o].life = "alive", term_req(o, c, mail), binding' = binding
  PROVE  OwnInv'
<1> DEFINE p == obj[o]
<1>1. /\ Boxes(mail) /\ Order(obj, mail) /\ Books(obj, Once(mail), Dues(mail), binding)
      /\ obj \in [Objects -> Fields] /\ p \in Fields
  BY DEF OwnInvOf, Books
<1>2. CASE p.terminating \/ c \notin p.owned
  <2>1. NoCheck(o, p, mail)
    BY <1>2 DEF term_req
  <2>2. [obj EXCEPT ![o] = p] = obj
    BY <1>1
  <2>3. OwnInvOf([obj EXCEPT ![o] = p], mail, binding)
    BY <2>2
  <2>4. p.life = "alive"
    OBVIOUS
  <2> HIDE DEF p
  <2> QED
    BY <1>1, <2>1, <2>3, <2>4, NoCheckEnds
<1>3. CASE ~ (p.terminating \/ c \notin p.owned)
  <2> DEFINE S  == p.owned \ {c}
             k  == p.term_acks + 1
             r  == [p EXCEPT !.owned = S, !.term_acks = k]
             mc == Post(mail, TermCmd(c))
  <2>1. c \in Children /\ Parent[c] = o
    BY <1>1, <1>3 DEF Books, OwnedRight
  <2>2. NoCheck(o, r, mc)
    BY <1>3, <2>1 DEF term_req, TermCmd
  <2>3. S \in SUBSET Objects /\ k \in Nat
    BY <1>1 DEF Fields
  <2> HIDE DEF S, k, p
  <2>4. /\ r \in Fields /\ r.life = p.life /\ r.terminating = p.terminating
        /\ r.pending = p.pending /\ r.sent_seqnum = p.sent_seqnum
        /\ r.processed_seqnum = p.processed_seqnum /\ r.owned = S /\ r.term_acks = k
    <3>1. \A T \in SUBSET Objects : \A j \in Nat : LET s == [p EXCEPT !.owned = T, !.term_acks = j]
            IN  /\ s \in Fields /\ s.life = p.life /\ s.terminating = p.terminating
                /\ s.pending = p.pending /\ s.sent_seqnum = p.sent_seqnum
                /\ s.processed_seqnum = p.processed_seqnum /\ s.owned = T
                /\ s.term_acks = j
      BY <1>1, SetFields
    <3> QED
      BY <2>3, <3>1
  <2> HIDE DEF r
  <2>5. TermCmd(c) \notin Once(mail) /\ c \in obj[Parent[c]].owned
    BY <1>1, <1>3, <2>1 DEF Books, ChildRight, p
  <2>7. /\ Boxes(mc) /\ Order(obj, mc) /\ Dues(mc) = Dues(mail)
        /\ Once(mc) = Once(mail) \cup {TermCmd(c)}
    BY <1>1, <2>1, <2>5, TermPost
  <2>8. Books([obj EXCEPT ![Parent[c]] = r], Once(mail) \cup {TermCmd(c)}, Dues(mail), binding)
    <3>1. /\ r.life = obj[Parent[c]].life /\ r.terminating = obj[Parent[c]].terminating
          /\ r.pending = obj[Parent[c]].pending
          /\ r.sent_seqnum = obj[Parent[c]].sent_seqnum
          /\ r.processed_seqnum = obj[Parent[c]].processed_seqnum
          /\ r.owned = obj[Parent[c]].owned \ {c} /\ r.term_acks = obj[Parent[c]].term_acks + 1
      BY <2>1, <2>4 DEF p, S, k
    <3> QED
      BY <1>1, <2>1, <2>4, <2>5, <3>1, AskBooks
  <2>9. r.life = "alive"
    BY <2>4 DEF p
  <2>10. Order([obj EXCEPT ![o] = r], mc)
    <3>1. \A x \in Objects : obj[x].life = "alive" => [obj EXCEPT ![o] = r][x].life = "alive"
      BY <1>1, <2>9
    <3> QED
      BY <2>7, <3>1, SameOrder
  <2>11. OwnInvOf([obj EXCEPT ![o] = r], mc, binding)
    BY <2>1, <2>7, <2>8, <2>10 DEF OwnInvOf
  <2> HIDE DEF mc
  <2> QED
    BY <1>1, <2>2, <2>4, <2>9, <2>11, NoCheckEnds
<1> QED
  BY <1>2, <1>3

\* term_req.
LEMMA TermReqKeeps ==
  ASSUME OwnInv, NEW t \in Threads, process_term_req(t)
  PROVE  OwnInv'
<1> DEFINE h  == Head(inbox[t])
           mc == Taken(inbox, t)
<1>1. inbox[t] # <<>> /\ h.type = "term_req" /\ obj[h.dest].life = "alive"
  BY DEF process_term_req, Takes
<1>2. h.type \notin CountedTypes /\ h.type \notin OnceTypes
  BY <1>1 DEF CountedTypes, OnceTypes
<1>3. /\ Books(obj, Once(inbox), Dues(inbox), binding)
      /\ h.dest \in Objects /\ Rest(t) = mc /\ Boxes(mc) /\ Order(obj, mc)
      /\ Once(mc) = Once(inbox) /\ Dues(inbox) = Dues(mc)
  BY <1>1, <1>2, TakesIs
<1>4. term_req(h.dest, h.arg, mc) /\ binding' = binding
  BY <1>3 DEF process_term_req
<1>5. OwnInvOf(obj, mc, binding)
  BY <1>3 DEF OwnInvOf
<1> HIDE DEF h, mc
<1> QED
  BY <1>1, <1>3, <1>4, <1>5, RequestKeeps

\* term_child.
LEMMA TermChildKeeps ==
  ASSUME OwnInv, NEW c \in Objects, term_child(c)
  PROVE  OwnInv'
<1>1. OwnInvOf(obj, inbox, binding) /\ Root \in Objects
  BY OwnAssumption DEF OwnInv
<1>2. obj[Root].life = "alive" /\ term_req(Root, c, inbox) /\ binding' = binding
  BY DEF term_child
<1> QED
  BY <1>1, <1>2, RequestKeeps

\* term.
LEMMA TermCommandKeeps ==
  ASSUME OwnInv, NEW t \in Threads, process_term(t)
  PROVE  OwnInv'
<1> DEFINE h  == Head(inbox[t])
           o  == h.dest
           p  == obj[o]
           q  == [p EXCEPT !.pending = TRUE]
           mc == Taken(inbox, t)
<1>1. inbox[t] # <<>> /\ h.type = "term" /\ p.life = "alive"
  BY DEF process_term, Takes
<1>2. h.type \notin CountedTypes /\ h.type \in OnceTypes
  BY <1>1 DEF CountedTypes, OnceTypes
<1>3. /\ obj \in [Objects -> Fields] /\ o \in Objects /\ p \in Fields
      /\ Books(obj, Once(inbox), Dues(inbox), binding)
      /\ Rest(t) = mc /\ Boxes(mc) /\ Order(obj, mc) /\ WellFormed(h)
      /\ Once(mc) = Once(inbox) \ {h} /\ h \in Once(inbox) /\ Dues(inbox) = Dues(mc)
  BY <1>1, <1>2, TakesIs
<1>4. o \in Children /\ h = TermCmd(o)
  BY <1>1, <1>3, CmdIs
<1>5. binding' = binding /\ (own_process_term(o, p, mc) \/ NoCheck(o, q, mc))
  BY <1>3 DEF process_term
<1> HIDE DEF h, o, mc, p
<1>6. /\ q \in Fields /\ q.life = p.life /\ q.terminating = p.terminating
      /\ q.pending = TRUE /\ q.sent_seqnum = p.sent_seqnum
      /\ q.processed_seqnum = p.processed_seqnum /\ q.owned = p.owned /\ q.term_acks = p.term_acks
  BY <1>3, SetFields
<1> HIDE DEF q
<1>7. Books([obj EXCEPT ![o] = q], Once(inbox) \ {TermCmd(o)}, Dues(inbox), binding)
  <2>1. /\ q.life = obj[o].life /\ q.terminating = obj[o].terminating /\ q.pending
        /\ q.sent_seqnum = obj[o].sent_seqnum /\ q.processed_seqnum = obj[o].processed_seqnum
        /\ q.owned = obj[o].owned /\ q.term_acks = obj[o].term_acks
    BY <1>6 DEF p
  <2>2. TermCmd(o) \in Once(inbox)
    BY <1>3, <1>4
  <2> QED
    BY <1>3, <1>4, <1>6, <2>1, <2>2, LingerBooks
<1>8. q.life = "alive"
  BY <1>1, <1>6
<1>9. Order([obj EXCEPT ![o] = q], mc)
  <2>1. \A x \in Objects : obj[x].life = "alive" => [obj EXCEPT ![o] = q][x].life = "alive"
    BY <1>3, <1>8
  <2> QED
    BY <1>3, <2>1, SameOrder
<1>10. OwnInvOf([obj EXCEPT ![o] = q], mc, binding)
  BY <1>3, <1>4, <1>7, <1>9 DEF OwnInvOf
<1>11. CASE own_process_term(o, p, mc)
  BY <1>3, <1>5, <1>6, <1>8, <1>10, <1>11, TermKeeps
<1>12. CASE NoCheck(o, q, mc)
  BY <1>3, <1>5, <1>6, <1>8, <1>10, <1>12, NoCheckEnds
<1> QED
  BY <1>5, <1>11, <1>12

\* terminate () of the root.
LEMMA TerminateRootKeeps ==
  ASSUME OwnInv, terminateRoot
  PROVE  OwnInv'
<1> DEFINE p == obj[Root]
<1>1. /\ obj \in [Objects -> Fields] /\ Root \in Objects /\ p \in Fields
      /\ OwnInvOf(obj, inbox, binding)
  BY OwnAssumption DEF OwnInv, OwnInvOf, Books
<1>2. p.life = "alive" /\ own_process_term(Root, p, inbox) /\ binding' = binding
  BY DEF terminateRoot
<1>3. [obj EXCEPT ![Root] = p] = obj
  BY <1>1
<1>4. OwnInvOf([obj EXCEPT ![Root] = p], inbox, binding)
  BY <1>1, <1>3
<1> HIDE DEF p
<1> QED
  BY <1>1, <1>2, <1>4, TermKeeps

\* The pipe of a session is gone.
LEMMA ProceedKeeps ==
  ASSUME OwnInv, NEW o \in Objects, proceed_with_term(o)
  PROVE  OwnInv'
<1> DEFINE p == obj[o]
<1>1. obj \in [Objects -> Fields] /\ p \in Fields /\ OwnInvOf(obj, inbox, binding)
  BY DEF OwnInv, OwnInvOf, Books
<1>2. p.life = "alive" /\ p.pending /\ own_process_term(o, p, inbox) /\ binding' = binding
  BY DEF proceed_with_term
<1>3. [obj EXCEPT ![o] = p] = obj
  BY <1>1
<1>4. OwnInvOf([obj EXCEPT ![o] = p], inbox, binding)
  BY <1>1, <1>3
<1> HIDE DEF p
<1> QED
  BY <1>1, <1>2, <1>4, TermKeeps

\* term_ack.
LEMMA TermAckKeeps ==
  ASSUME OwnInv, NEW t \in Threads, process_term_ack(t)
  PROVE  OwnInv'
<1> DEFINE h  == Head(inbox[t])
           c  == h.arg
           o  == h.dest
           p  == obj[o]
           k  == p.term_acks - 1
           r  == [p EXCEPT !.term_acks = k]
           mc == Taken(inbox, t)
<1>1. inbox[t] # <<>> /\ h.type = "term_ack" /\ p.life = "alive"
  BY DEF process_term_ack, Takes
<1>2. h.type \notin CountedTypes /\ h.type \in OnceTypes
  BY <1>1 DEF CountedTypes, OnceTypes
<1>3. /\ obj \in [Objects -> Fields] /\ o \in Objects /\ p \in Fields
      /\ Books(obj, Once(inbox), Dues(inbox), binding)
      /\ Rest(t) = mc /\ Boxes(mc) /\ Order(obj, mc) /\ WellFormed(h)
      /\ Once(mc) = Once(inbox) \ {h} /\ h \in Once(inbox) /\ Dues(inbox) = Dues(mc)
  BY <1>1, <1>2, TakesIs
<1>4. c \in Children /\ o = Parent[c] /\ h = AckCmd(c)
  BY <1>1, <1>3, CmdIs
<1>5. binding' = binding /\ check_term_acks(o, r, mc)
  BY <1>3 DEF process_term_ack
<1> HIDE DEF h, o, mc, p, c
<1>6. AckCmd(c) \in Once(inbox)
  BY <1>3, <1>4
<1>7. /\ obj[Parent[c]].term_acks > 0
      /\ \A s \in Fields :
           (/\ s.life = obj[Parent[c]].life /\ s.terminating = obj[Parent[c]].terminating
            /\ s.pending = obj[Parent[c]].pending
            /\ s.sent_seqnum = obj[Parent[c]].sent_seqnum
            /\ s.processed_seqnum = obj[Parent[c]].processed_seqnum
            /\ s.owned = obj[Parent[c]].owned /\ s.term_acks = obj[Parent[c]].term_acks - 1)
           => Books([obj EXCEPT ![Parent[c]] = s], Once(inbox) \ {AckCmd(c)}, Dues(inbox), binding)
  BY <1>3, <1>4, <1>6, AckBooks
<1>8. k \in Nat
  <2>1. p.term_acks \in Nat /\ p.term_acks > 0
    BY <1>3, <1>4, <1>7 DEF Fields, p
  <2> QED
    BY <2>1
<1> HIDE DEF k
<1>9. /\ r \in Fields /\ r.life = p.life /\ r.terminating = p.terminating
      /\ r.pending = p.pending /\ r.sent_seqnum = p.sent_seqnum
      /\ r.processed_seqnum = p.processed_seqnum /\ r.owned = p.owned /\ r.term_acks = k
  <2>1. \A j \in Nat :
          LET s == [p EXCEPT !.term_acks = j]
          IN  /\ s \in Fields /\ s.life = p.life /\ s.terminating = p.terminating
              /\ s.pending = p.pending /\ s.sent_seqnum = p.sent_seqnum
              /\ s.processed_seqnum = p.processed_seqnum /\ s.owned = p.owned
              /\ s.term_acks = j
    BY <1>3, SetFields
  <2> QED
    BY <1>8, <2>1
<1> HIDE DEF r
<1>10. Books([obj EXCEPT ![o] = r], Once(inbox) \ {AckCmd(c)}, Dues(inbox), binding)
  BY <1>4, <1>7, <1>9 DEF p, k
<1>11. r.life = "alive"
  BY <1>1, <1>9
<1>12. Order([obj EXCEPT ![o] = r], mc)
  <2>1. \A x \in Objects : obj[x].life = "alive" => [obj EXCEPT ![o] = r][x].life = "alive"
    BY <1>3, <1>11
  <2> QED
    BY <1>3, <2>1, SameOrder
<1>13. OwnInvOf([obj EXCEPT ![o] = r], mc, binding)
  BY <1>3, <1>4, <1>10, <1>12 DEF OwnInvOf
<1> QED
  BY <1>3, <1>5, <1>9, <1>11, <1>13, CheckEnds

\* launch_child.
LEMMA LaunchKeeps ==
  ASSUME OwnInv, NEW c \in Objects, launch_child(c)
  PROVE  OwnInv'
<1> DEFINE o   == Parent[c]
           m1  == Cmd("plug", c, o)
           mb1 == Post(inbox, m1)
           mb2 == Post(mb1, OwnCmd(c))
           n   == [Unborn EXCEPT !.life = "alive", !.sent_seqnum = 1]
           ob2 == [obj EXCEPT ![c] = n, ![o].sent_seqnum = @ + 1]
<1>1. /\ c \in Children /\ obj[c].life = "unborn" /\ obj[o].life = "alive"
      /\ obj' = ob2 /\ inbox' = mb2 /\ binding' = binding
  BY DEF launch_child, Alive, Children, OwnCmd
<1>2. /\ Boxes(inbox) /\ Order(obj, inbox) /\ Books(obj, Once(inbox), Dues(inbox), binding)
      /\ obj \in [Objects -> Fields] /\ o \in Objects /\ c # o
  BY <1>1, ChildCmds DEF OwnInv, OwnInvOf, Books
<1>3. WellFormed(m1) /\ m1.type = "plug" /\ m1.dest = c
  <2>1. m1 \in Commands
    BY <1>2 DEF Commands, CountedTypes, Cmd
  <2> QED
    BY <1>1, <2>1 DEF WellFormed, Cmd
<1>4. /\ n \in Fields /\ Fresh(n) /\ n.owned = {} /\ n.term_acks = 0
      /\ n.sent_seqnum = 1 /\ n.processed_seqnum = 0
  BY DEF Unborn, Fields, Fresh
<1> HIDE DEF m1, n
<1>5. /\ Boxes(mb1) /\ Order(obj, mb1) /\ Once(mb1) = Once(inbox)
      /\ Dues(mb1) = [Dues(inbox) EXCEPT ![c] = @ + 1] /\ Dues(inbox) \in [Objects -> Nat]
  <2>1. m1.type \in CountedTypes \ OnceTypes
    BY <1>3 DEF CountedTypes, OnceTypes
  <2>2. Boxes(inbox) /\ Order(obj, inbox) /\ WellFormed(m1)
    BY <1>2, <1>3
  <2>3. /\ Boxes(Post(inbox, m1)) /\ Order(obj, Post(inbox, m1)) /\ Once(Post(inbox, m1)) = Once(inbox)
        /\ Dues(Post(inbox, m1)) = [Dues(inbox) EXCEPT ![m1.dest] = @ + 1]
        /\ Dues(inbox) \in [Objects -> Nat]
    BY <2>1, <2>2, CountedPost
  <2> QED
    BY <1>3, <2>3
<1> HIDE DEF mb1
<1>6. OwnCmd(c) \notin Once(mb1)
  BY <1>1, <1>2, <1>5 DEF Books, ChildRight, Fresh
<1>7. /\ Boxes(mb2) /\ Order(obj, mb2) /\ Once(mb2) = Once(inbox) \cup {OwnCmd(c)}
      /\ Dues(mb2) = [Dues(mb1) EXCEPT ![o] = @ + 1] /\ Dues(mb1) \in [Objects -> Nat]
  <2>1. c \in Children /\ Boxes(mb1) /\ Order(obj, mb1)
    BY <1>1, <1>5
  <2>2. /\ Boxes(Post(mb1, OwnCmd(c))) /\ Order(obj, Post(mb1, OwnCmd(c)))
        /\ Once(Post(mb1, OwnCmd(c))) = Once(mb1) \cup {OwnCmd(c)}
        /\ Dues(Post(mb1, OwnCmd(c))) = [Dues(mb1) EXCEPT ![Parent[c]] = @ + 1]
        /\ Dues(mb1) \in [Objects -> Nat]
    BY <1>6, <2>1, OwnPost
  <2> QED
    BY <1>5, <2>2
<1> HIDE DEF mb2
<1>8. /\ Dues(mb2) \in [Objects -> Nat]
      /\ \A x \in Objects : Dues(mb2)[x] = IF x = c \/ x = o THEN Dues(inbox)[x] + 1 ELSE Dues(inbox)[x]
  <2>1. Dues(mb1)[o] + 1 \in Nat
    BY <1>2, <1>7
  <2>2. Dues(mb2) \in [Objects -> Nat]
    BY <1>7, <2>1
  <2>3. \A x \in Objects : Dues(mb1)[x] = IF x = c THEN Dues(inbox)[x] + 1 ELSE Dues(inbox)[x]
    BY <1>5
  <2>4. \A x \in Objects : Dues(mb2)[x] = IF x = o THEN Dues(mb1)[x] + 1 ELSE Dues(mb1)[x]
    BY <1>7
  <2> QED
    BY <1>2, <2>2, <2>3, <2>4
<1> DEFINE po == [obj[o] EXCEPT !.sent_seqnum = @ + 1]
<1>9. /\ po \in Fields /\ po.life = obj[o].life /\ po.terminating = obj[o].terminating
      /\ po.pending = obj[o].pending /\ po.owned = obj[o].owned /\ po.term_acks = obj[o].term_acks
      /\ po.processed_seqnum = obj[o].processed_seqnum /\ po.sent_seqnum = obj[o].sent_seqnum + 1
  BY <1>2, SentFields
<1>10. ob2[c] = n /\ ob2[o] = po /\ \A x \in Objects : x # c /\ x # o => ob2[x] = obj[x]
  BY <1>1, <1>2
<1>11. ob2 \in [Objects -> Fields]
  <2>1. DOMAIN ob2 = Objects /\ ob2 = [x \in DOMAIN ob2 |-> ob2[x]]
    BY <1>2
  <2>2. \A x \in Objects : ob2[x] \in Fields
    BY <1>2, <1>4, <1>9, <1>10
  <2> HIDE DEF ob2
  <2> QED
    BY <2>1, <2>2
<1> HIDE DEF ob2, po
<1>12. \A x \in Objects : x # c =>
         /\ ob2[x].life = obj[x].life /\ ob2[x].terminating = obj[x].terminating
         /\ ob2[x].pending = obj[x].pending /\ ob2[x].owned = obj[x].owned
         /\ ob2[x].term_acks = obj[x].term_acks
         /\ ob2[x].processed_seqnum = obj[x].processed_seqnum
         /\ ob2[x].sent_seqnum = IF x = o THEN obj[x].sent_seqnum + 1 ELSE obj[x].sent_seqnum
  BY <1>9, <1>10
<1>13. Books(ob2, Once(inbox) \cup {OwnCmd(c)}, Dues(mb2), binding)
  <2>1. /\ Fresh(ob2[c]) /\ ob2[c].owned = {} /\ ob2[c].term_acks = 0
        /\ ob2[c].sent_seqnum = 1 /\ ob2[c].processed_seqnum = 0
    BY <1>4, <1>10
  <2> QED
    BY <1>1, <1>2, <1>8, <1>11, <1>12, <2>1, LaunchBooks
<1>14. Order(ob2, mb2)
  <2>1. \A x \in Objects : obj[x].life = "alive" => ob2[x].life = "alive"
    BY <1>1, <1>12
  <2> QED
    BY <1>7, <2>1, SameOrder
<1> QED
  BY <1>1, <1>7, <1>13, <1>14 DEF OwnInv, OwnInvOf

\* A counted command is sent to an object that is there: the counter of the
\* object, which may have been changed in other ways too, and the mailbox agree.
LEMMA SendKeeps ==
  ASSUME OwnInv, NEW o \in Objects, obj[o].life = "alive", NEW ob2 \in [Objects -> Fields],
         Alike(obj, ob2),
         \A x \in Objects : /\ ob2[x].processed_seqnum = obj[x].processed_seqnum
                            /\ ob2[x].sent_seqnum =
                                 IF x = o THEN obj[x].sent_seqnum + 1 ELSE obj[x].sent_seqnum,
         NEW m, WellFormed(m), m.type \in CountedTypes \ OnceTypes, m.dest = o
  PROVE  OwnInvOf(ob2, Post(inbox, m), binding)
<1> DEFINE mb == Post(inbox, m)
<1>1. /\ Boxes(inbox) /\ Order(obj, inbox) /\ Books(obj, Once(inbox), Dues(inbox), binding)
      /\ obj \in [Objects -> Fields] /\ binding \in Nat
  BY DEF OwnInv, OwnInvOf, Books
<1>2. /\ Boxes(mb) /\ Order(obj, mb) /\ Once(mb) = Once(inbox)
      /\ Dues(mb) = [Dues(inbox) EXCEPT ![o] = @ + 1] /\ Dues(inbox) \in [Objects -> Nat]
  <2>1. Boxes(inbox) /\ Order(obj, inbox) /\ m.dest = o
    BY <1>1
  <2>2. /\ Boxes(Post(inbox, m)) /\ Order(obj, Post(inbox, m)) /\ Once(Post(inbox, m)) = Once(inbox)
        /\ Dues(Post(inbox, m)) = [Dues(inbox) EXCEPT ![m.dest] = @ + 1]
        /\ Dues(inbox) \in [Objects -> Nat]
    BY <2>1, CountedPost
  <2> QED
    BY <2>1, <2>2
<1> HIDE DEF mb
<1>3. Dues(mb) \in [Objects -> Nat]
  <2>1. Dues(inbox)[o] + 1 \in Nat
    BY <1>2
  <2> QED
    BY <1>2, <2>1
<1>4. SentRight(ob2, Dues(mb), binding)
  <2> DEFINE own(x) == IF x = Root THEN binding ELSE 0
  <2> SUFFICES ASSUME NEW x \in Objects
               PROVE  ob2[x].sent_seqnum = ob2[x].processed_seqnum + Dues(mb)[x] + own(x)
    BY DEF SentRight
  <2>1. obj[x].sent_seqnum = obj[x].processed_seqnum + Dues(inbox)[x] + own(x)
    BY <1>1 DEF Books, SentRight
  <2>2. Dues(inbox)[x] \in Nat /\ obj[x].processed_seqnum \in Nat /\ own(x) \in Nat
    BY <1>1, <1>2 DEF Fields
  <2>3. Dues(mb)[x] = IF x = o THEN Dues(inbox)[x] + 1 ELSE Dues(inbox)[x]
    BY <1>2
  <2> HIDE DEF own
  <2> QED
    BY <2>1, <2>2, <2>3
<1>5. \A x \in Objects : obj[x].life # "alive" => ob2[x].sent_seqnum = ob2[x].processed_seqnum
  BY <1>1 DEF Books, Quiet
<1>6. Books(ob2, Once(inbox), Dues(mb), binding)
  <2> HIDE DEF Alike
  <2> QED
    BY <1>1, <1>3, <1>4, <1>5, CountBooks
<1>7. Order(ob2, mb)
  BY <1>2, SameOrder DEF Alike
<1>8. Books(ob2, Once(mb), Dues(mb), binding)
  BY <1>2, <1>6
<1> QED
  BY <1>2, <1>7, <1>8 DEF OwnInvOf, mb

\* A request to terminate a child that is there.
LEMMA AskKeeps ==
  ASSUME NEW ob, NEW mb, NEW bd, OwnInvOf(ob, mb, bd), NEW c \in Children, ob[c].life = "alive"
  PROVE  OwnInvOf(ob, Post(mb, Cmd("term_req", Parent[c], c)), bd)
<1> DEFINE m == Cmd("term_req", Parent[c], c)
<1>1. m.type = "term_req" /\ m.arg = c /\ WellFormed(m)
  <2>1. m \in Commands
    BY ChildCmds DEF Commands, Cmd
  <2> QED
    BY <2>1 DEF WellFormed, Cmd
<1>2. ob[m.arg].life = "alive"
  BY <1>1
<1>3. Boxes(mb) /\ Order(ob, mb) /\ Books(ob, Once(mb), Dues(mb), bd)
  BY DEF OwnInvOf
<1> HIDE DEF m
<1>4. /\ Boxes(Post(mb, m)) /\ Order(ob, Post(mb, m))
      /\ Once(Post(mb, m)) = Once(mb) /\ Dues(Post(mb, m)) = Dues(mb)
  BY <1>1, <1>2, <1>3, AskPost
<1> QED
  BY <1>3, <1>4 DEF OwnInvOf, m

\* The connecter attaches its engine and asks for its end.
LEMMA ConnectedKeeps ==
  ASSUME OwnInv, NEW c \in Objects, c # Root, connected(c)
  PROVE  OwnInv'
<1> DEFINE o   == Parent[c]
           m1  == Cmd("attach", o, c)
           pc  == [obj[c] EXCEPT !.attached = TRUE]
           ob1 == [obj EXCEPT ![c] = pc]
           po  == [ob1[o] EXCEPT !.sent_seqnum = @ + 1]
           ob2 == [obj EXCEPT ![c].attached = TRUE, ![o].sent_seqnum = @ + 1]
<1>1. /\ c \in Children /\ obj[c].life = "alive" /\ obj' = ob2 /\ binding' = binding
      /\ inbox' = Post(Post(inbox, m1), Cmd("term_req", o, c))
  BY DEF connected, Alive, Children
<1>2. /\ Boxes(inbox) /\ Books(obj, Once(inbox), Dues(inbox), binding)
      /\ obj \in [Objects -> Fields] /\ o \in Objects
  BY <1>1, ChildCmds DEF OwnInv, OwnInvOf, Books
<1>3. obj[o].life = "alive"
  <2>1. OwnCmd(c) \in Once(inbox) => Dues(inbox)[o] > 0
    BY <1>1, <1>2, OwnDue
  <2> QED
    BY <1>1, <1>2, <2>1, OwnerThere
<1>4. WellFormed(m1) /\ m1.type = "attach" /\ m1.dest = o
  <2>1. m1 \in Commands
    BY <1>1, <1>2 DEF Commands, CountedTypes, Cmd, Children
  <2> QED
    BY <1>1, <2>1 DEF WellFormed, Cmd
<1>5. /\ pc \in Fields /\ pc.life = obj[c].life /\ pc.terminating = obj[c].terminating
      /\ pc.pending = obj[c].pending /\ pc.owned = obj[c].owned /\ pc.term_acks = obj[c].term_acks
      /\ pc.processed_seqnum = obj[c].processed_seqnum /\ pc.sent_seqnum = obj[c].sent_seqnum
  BY <1>2, AttachedFields
<1> HIDE DEF pc
<1>6. ob1 \in [Objects -> Fields] /\ ob1[c] = pc /\ \A x \in Objects : x # c => ob1[x] = obj[x]
  BY <1>2, <1>5
<1>7. ob2 = [ob1 EXCEPT ![o] = po]
  BY <1>2 DEF pc
<1> HIDE DEF ob1
<1>8. /\ po \in Fields /\ po.life = ob1[o].life /\ po.terminating = ob1[o].terminating
      /\ po.pending = ob1[o].pending /\ po.owned = ob1[o].owned /\ po.term_acks = ob1[o].term_acks
      /\ po.processed_seqnum = ob1[o].processed_seqnum /\ po.sent_seqnum = ob1[o].sent_seqnum + 1
  BY <1>2, <1>6, SentFields
<1> HIDE DEF po
<1>9. ob2 \in [Objects -> Fields] /\ ob2[o] = po /\ \A x \in Objects : x # o => ob2[x] = ob1[x]
  <2> HIDE DEF ob2
  <2> QED
    BY <1>2, <1>6, <1>7, <1>8
<1> HIDE DEF ob2, o, m1
<1>10. \A x \in Objects :
         /\ ob1[x].life = obj[x].life /\ ob1[x].terminating = obj[x].terminating
         /\ ob1[x].pending = obj[x].pending /\ ob1[x].owned = obj[x].owned
         /\ ob1[x].term_acks = obj[x].term_acks
         /\ ob1[x].processed_seqnum = obj[x].processed_seqnum /\ ob1[x].sent_seqnum = obj[x].sent_seqnum
  BY <1>5, <1>6
<1>11. Alike(obj, ob2)
  BY <1>2, <1>8, <1>9, <1>10 DEF Alike
<1>12. \A x \in Objects : /\ ob2[x].processed_seqnum = obj[x].processed_seqnum
                          /\ ob2[x].sent_seqnum =
                               IF x = o THEN obj[x].sent_seqnum + 1 ELSE obj[x].sent_seqnum
  BY <1>2, <1>8, <1>9, <1>10
<1>13. m1.type \in CountedTypes \ OnceTypes
  BY <1>4 DEF CountedTypes, OnceTypes
<1>14. OwnInvOf(ob2, Post(inbox, m1), binding)
  BY <1>2, <1>3, <1>4, <1>9, <1>11, <1>12, <1>13, SendKeeps
<1>15. ob2[c].life = "alive"
  BY <1>1, <1>11 DEF Alike
<1>16. OwnInvOf(ob2, Post(Post(inbox, m1), Cmd("term_req", Parent[c], c)), binding)
  BY <1>1, <1>14, <1>15, AskKeeps
<1> QED
  BY <1>1, <1>16 DEF OwnInv, o

\* terminate () of an owned object.
LEMMA TerminateKeeps ==
  ASSUME OwnInv, NEW c \in Objects, terminate(c)
  PROVE  OwnInv'
<1>1. c \in Children /\ obj[c].life = "alive" /\ OwnInvOf(obj, inbox, binding)
  BY DEF terminate, Alive, Children, OwnInv
<1>2. OwnInvOf(obj, Post(inbox, Cmd("term_req", Parent[c], c)), binding)
  BY <1>1, AskKeeps
<1> QED
  BY <1>2 DEF terminate, OwnInv

\* find_endpoint counts a bind that is not sent yet ...
LEMMA FindKeeps ==
  ASSUME OwnInv, find_endpoint
  PROVE  OwnInv'
<1> DEFINE po  == [obj[Root] EXCEPT !.sent_seqnum = @ + 1]
           ob2 == [obj EXCEPT ![Root] = po]
<1>1. /\ obj[Root].life = "alive" /\ binding' = binding + 1 /\ inbox' = inbox
      /\ obj' = ob2 /\ Root \in Objects
  BY OwnAssumption DEF find_endpoint
<1>2. /\ Boxes(inbox) /\ Order(obj, inbox) /\ Books(obj, Once(inbox), Dues(inbox), binding)
      /\ obj \in [Objects -> Fields] /\ binding \in Nat /\ Dues(inbox) \in [Objects -> Nat]
  BY DEF OwnInv, OwnInvOf, Books
<1>3. /\ po \in Fields /\ po.life = obj[Root].life /\ po.terminating = obj[Root].terminating
      /\ po.pending = obj[Root].pending /\ po.owned = obj[Root].owned
      /\ po.term_acks = obj[Root].term_acks
      /\ po.processed_seqnum = obj[Root].processed_seqnum
      /\ po.sent_seqnum = obj[Root].sent_seqnum + 1
  BY <1>1, <1>2, SentFields
<1> HIDE DEF po
<1>4. ob2 \in [Objects -> Fields] /\ ob2[Root] = po /\ \A x \in Objects : x # Root => ob2[x] = obj[x]
  BY <1>1, <1>2, <1>3
<1> HIDE DEF ob2
<1>5. Alike(obj, ob2)
  BY <1>3, <1>4 DEF Alike
<1>6. SentRight(ob2, Dues(inbox), binding + 1)
  <2> SUFFICES ASSUME NEW x \in Objects
               PROVE  ob2[x].sent_seqnum = ob2[x].processed_seqnum + Dues(inbox)[x]
                                           + IF x = Root THEN binding + 1 ELSE 0
    BY DEF SentRight
  <2>1. obj[x].sent_seqnum = obj[x].processed_seqnum + Dues(inbox)[x] + IF x = Root THEN binding ELSE 0
    BY <1>2 DEF Books, SentRight
  <2>2. Dues(inbox)[x] \in Nat /\ obj[x].processed_seqnum \in Nat
    BY <1>2 DEF Fields
  <2>3. CASE x = Root
    BY <1>2, <1>3, <1>4, <2>1, <2>2, <2>3
  <2>4. CASE x # Root
    BY <1>4, <2>1, <2>2, <2>4
  <2> QED
    BY <2>3, <2>4
<1>7. \A x \in Objects : obj[x].life # "alive" => ob2[x].sent_seqnum = ob2[x].processed_seqnum
  BY <1>1, <1>2, <1>4 DEF Books, Quiet
<1>8. binding + 1 \in Nat
  BY <1>2
<1>9. Books(ob2, Once(inbox), Dues(inbox), binding + 1)
  BY <1>2, <1>4, <1>5, <1>6, <1>7, <1>8, CountBooks
<1>10. Order(ob2, inbox)
  BY <1>2, <1>5, SameOrder DEF Alike
<1> QED
  BY <1>1, <1>2, <1>9, <1>10 DEF OwnInv, OwnInvOf

\* ... and sends it later.
LEMMA BindKeeps ==
  ASSUME OwnInv, send_bind
  PROVE  OwnInv'
<1> DEFINE m  == Cmd("bind", Root, Root)
           mb == Post(inbox, m)
<1>1. binding > 0 /\ binding' = binding - 1 /\ inbox' = mb /\ obj' = obj /\ Root \in Objects
  BY OwnAssumption DEF send_bind
<1>2. /\ Boxes(inbox) /\ Order(obj, inbox) /\ Books(obj, Once(inbox), Dues(inbox), binding)
      /\ obj \in [Objects -> Fields] /\ binding \in Nat
  BY DEF OwnInv, OwnInvOf, Books
<1>3. WellFormed(m) /\ m.type = "bind" /\ m.dest = Root
  <2>1. m \in Commands
    BY <1>1 DEF Commands, CountedTypes, Cmd
  <2> QED
    BY <2>1 DEF WellFormed, Cmd
<1>4. m.type \in CountedTypes \ OnceTypes
  BY <1>3 DEF CountedTypes, OnceTypes
<1> HIDE DEF m
<1>5. /\ Boxes(mb) /\ Order(obj, mb) /\ Once(mb) = Once(inbox)
      /\ Dues(mb) = [Dues(inbox) EXCEPT ![Root] = @ + 1] /\ Dues(inbox) \in [Objects -> Nat]
  BY <1>2, <1>3, <1>4, CountedPost
<1> HIDE DEF mb
<1>6. Dues(mb) \in [Objects -> Nat]
  <2>1. Dues(inbox)[Root] + 1 \in Nat
    BY <1>1, <1>5
  <2> QED
    BY <1>5, <2>1
<1>7. SentRight(obj, Dues(mb), binding - 1)
  <2> SUFFICES ASSUME NEW x \in Objects
               PROVE  obj[x].sent_seqnum = obj[x].processed_seqnum + Dues(mb)[x]
                                           + IF x = Root THEN binding - 1 ELSE 0
    BY DEF SentRight
  <2>1. obj[x].sent_seqnum = obj[x].processed_seqnum + Dues(inbox)[x] + IF x = Root THEN binding ELSE 0
    BY <1>2 DEF Books, SentRight
  <2>2. Dues(inbox)[x] \in Nat /\ obj[x].processed_seqnum \in Nat
    BY <1>2, <1>5 DEF Fields
  <2>3. Dues(mb)[x] = IF x = Root THEN Dues(inbox)[x] + 1 ELSE Dues(inbox)[x]
    BY <1>5
  <2> QED
    BY <1>2, <2>1, <2>2, <2>3
<1>8. binding - 1 \in Nat /\ Alike(obj, obj)
  BY <1>1, <1>2 DEF Alike
<1>9. \A x \in Objects : obj[x].life # "alive" => obj[x].sent_seqnum = obj[x].processed_seqnum
  BY <1>2 DEF Books, Quiet
<1>10. Books(obj, Once(mb), Dues(mb), binding - 1)
  BY <1>2, <1>5, <1>6, <1>7, <1>8, <1>9, CountBooks
<1> QED
  BY <1>1, <1>5, <1>10 DEF OwnInv, OwnInvOf

\* At the start only the socket is there and nothing is on its way.
LEMMA InitOwn == Init => OwnInv
<1> SUFFICES ASSUME Init PROVE OwnInv
  OBVIOUS
<1>1. /\ Root \in Objects /\ binding = 0
      /\ obj = [o \in Objects |->
                  IF o = Root THEN [Unborn EXCEPT !.life = "alive", !.plugged = TRUE] ELSE Unborn]
      /\ inbox = [t \in Threads |-> <<>>]
  BY OwnAssumption DEF Init
<1>2. \A t \in Threads : inbox[t] = <<>> /\ <<>> \in Seq(Commands) /\ Len(inbox[t]) = 0
  BY <1>1
<1>3. inbox \in [Threads -> Seq(Commands)]
  BY <1>1, <1>2
<1>4. Boxes(inbox) /\ Order(obj, inbox)
  BY <1>2, <1>3 DEF Boxes, Order
<1>5. Once(inbox) = {}
  <2>1. \A m \in Commands : Thread[m.dest] \in Threads
    BY DEF Commands, Threads
  <2> QED
    BY <1>2, <2>1 DEF Once
<1>6. Dues(inbox) \in [Objects -> Nat] /\ \A o \in Objects : Dues(inbox)[o] = 0
  <2>1. \A o \in Objects : Places(inbox[Thread[o]], Counted(o)) = {}
    BY <1>2 DEF Places, Threads
  <2>2. \A o \in Objects : Dues(inbox)[o] = 0
    BY <2>1, FS_EmptySet DEF Dues
  <2>3. \A o \in Objects : Cardinality(Places(inbox[Thread[o]], Counted(o))) \in Nat
    BY <2>1, FS_EmptySet
  <2> QED
    BY <2>2, <2>3 DEF Dues
<1>7. \A o \in Objects :
        /\ obj[o] \in Fields /\ obj[o].owned = {} /\ obj[o].terminating = FALSE
        /\ obj[o].sent_seqnum = 0 /\ obj[o].processed_seqnum = 0 /\ obj[o].term_acks = 0
        /\ obj[o].life = IF o = Root THEN "alive" ELSE "unborn"
  BY <1>1 DEF Unborn, Fields
<1>8. obj \in [Objects -> Fields]
  BY <1>1, <1>7
<1> HIDE DEF Init
<1>9. SentRight(obj, Dues(inbox), binding) /\ Quiet(obj) /\ OwnedRight(obj)
  BY <1>1, <1>6, <1>7 DEF SentRight, Quiet, OwnedRight
<1>10. \A c \in Children : Parent[c] \in Objects /\ c \in Objects /\ c # Root
  BY OwnAssumption DEF Children
<1>11. ChildRight(obj, Once(inbox))
  BY <1>5, <1>7, <1>10 DEF ChildRight
<1>12. AcksRight(obj, Once(inbox))
  <2>1. \A o \in Objects : Waited(obj, Once(inbox), o) = {}
    BY <1>5, <1>7, <1>10 DEF Waited
  <2> QED
    BY <1>7, <2>1, FS_EmptySet DEF AcksRight
<1>13. IsFiniteSet(Born(obj))
  <2>1. Born(obj) = {Root}
    BY <1>1, <1>7 DEF Born
  <2> QED
    BY <2>1, FS_Singleton
<1>14. binding \in Nat
  BY <1>1
<1> QED
  BY <1>4, <1>6, <1>8, <1>9, <1>11, <1>12, <1>13, <1>14 DEF OwnInv, OwnInvOf, Books

\* Every step keeps it.
LEMMA NextKeeps == OwnInv /\ [Next]_vars => OwnInv'
<1> SUFFICES ASSUME OwnInv, [Next]_vars PROVE OwnInv'
  OBVIOUS
<1>1. ASSUME NEW c \in Objects, launch_child(c) PROVE OwnInv'
  BY <1>1, LaunchKeeps
<1>2. ASSUME NEW c \in Objects, connected(c) PROVE OwnInv'
  <2>1. c # Root
    BY <1>2, OwnAssumption DEF connected
  <2> QED
    BY <1>2, <2>1, ConnectedKeeps
<1>3. ASSUME NEW c \in Objects, terminate(c) PROVE OwnInv'
  BY <1>3, TerminateKeeps
<1>4. ASSUME NEW c \in Objects, term_child(c) PROVE OwnInv'
  BY <1>4, TermChildKeeps
<1>5. ASSUME NEW o \in Objects, proceed_with_term(o) PROVE OwnInv'
  BY <1>5, ProceedKeeps
<1>6. CASE terminateRoot
  BY <1>6, TerminateRootKeeps
<1>7. CASE find_endpoint
  BY <1>7, FindKeeps
<1>8. CASE send_bind
  BY <1>8, BindKeeps
<1>9. ASSUME NEW t \in Threads, process_command(t) PROVE OwnInv'
  <2>1. CASE process_counted(t)
    BY <2>1, CountedKeeps
  <2>2. CASE process_own(t)
    BY <2>2, OwnKeeps
  <2>3. CASE process_term_req(t)
    BY <2>3, TermReqKeeps
  <2>4. CASE process_term(t)
    BY <2>4, TermCommandKeeps
  <2>5. CASE process_term_ack(t)
    BY <2>5, TermAckKeeps
  <2> QED
    BY <1>9, <2>1, <2>2, <2>3, <2>4, <2>5 DEF process_command
<1>10. CASE UNCHANGED vars
  <2>1. obj' = obj /\ inbox' = inbox /\ binding' = binding
    BY <1>10 DEF vars
  <2> QED
    BY <2>1 DEF OwnInv
<1> QED
  BY <1>1, <1>2, <1>3, <1>4, <1>5, <1>6, <1>7, <1>8, <1>9, <1>10 DEF Next

-----------------------------------------------------------------------------
(* What it says.                                                           *)

\* What lies in the mailboxes.
LEMMA MailIs ==
  ASSUME Boxes(inbox), NEW m
  PROVE  m \in Mail <=> \E t \in Threads : \E i \in 1 .. Len(inbox[t]) : inbox[t][i] = m
<1>1. \A t \in Threads : inbox[t] \in Seq(Commands)
  BY DEF Boxes
<1>2. \A t \in Threads : m \in ToSet(inbox[t]) <=> \E i \in 1 .. Len(inbox[t]) : inbox[t][i] = m
  BY <1>1 DEF ToSet
<1> QED
  BY <1>2 DEF Mail

\* ... and of own, term and term_ack, what is on its way.
LEMMA OnceMail ==
  ASSUME Boxes(inbox), NEW m \in Commands, m.type \in OnceTypes
  PROVE  m \in Mail <=> m \in Once(inbox)
<1>1. ASSUME m \in Mail PROVE m \in Once(inbox)
  <2>1. PICK t \in Threads : \E i \in 1 .. Len(inbox[t]) : inbox[t][i] = m
    BY <1>1, MailIs
  <2>2. PICK i \in 1 .. Len(inbox[t]) : inbox[t][i] = m
    BY <2>1
  <2> QED
    BY <2>2, OnceIs
<1>2. ASSUME m \in Once(inbox) PROVE m \in Mail
  <2>1. m.dest \in Objects
    BY DEF Commands
  <2>2. Thread[m.dest] \in Threads
    BY <2>1, BoxOf
  <2>3. \E i \in 1 .. Len(inbox[Thread[m.dest]]) : inbox[Thread[m.dest]][i] = m
    BY <1>2 DEF Once
  <2> QED
    BY <2>2, <2>3, MailIs
<1> QED
  BY <1>1, <1>2

\* Nobody talks to an object that is gone.
LEMMA InvNobodyCalls == OwnInv => NobodyCallsTheDead
<1> SUFFICES ASSUME OwnInv PROVE NobodyCallsTheDead
  OBVIOUS
<1>1. /\ Boxes(inbox) /\ Order(obj, inbox) /\ Books(obj, Once(inbox), Dues(inbox), binding)
      /\ obj \in [Objects -> Fields] /\ binding \in Nat /\ Dues(inbox) \in [Objects -> Nat]
      /\ SentRight(obj, Dues(inbox), binding) /\ Quiet(obj) /\ ChildRight(obj, Once(inbox))
      /\ AcksRight(obj, Once(inbox))
  BY DEF OwnInv, OwnInvOf, Books
<1>2. ASSUME NEW o \in Objects, Dues(inbox)[o] > 0 \/ (o = Root /\ binding > 0)
      PROVE  obj[o].life = "alive"
  <2>1. /\ obj[o].processed_seqnum \in Nat /\ Dues(inbox)[o] \in Nat
        /\ obj[o].sent_seqnum = obj[o].processed_seqnum + Dues(inbox)[o] + IF o = Root THEN binding ELSE 0
    BY <1>1 DEF SentRight, Fields
  <2>2. obj[o].sent_seqnum # obj[o].processed_seqnum
    BY <1>1, <1>2, <2>1
  <2> QED
    BY <1>1, <2>2 DEF Quiet
<1>3. ASSUME NEW c \in Children, AckCmd(c) \in Once(inbox)
      PROVE  obj[Parent[c]].life = "alive"
  <2>1. Parent[c] \in Objects
    BY ChildCmds
  <2>2. c \in Waited(obj, Once(inbox), Parent[c])
    BY <1>3 DEF Waited
  <2>3. IsFiniteSet(Waited(obj, Once(inbox), Parent[c]))
    BY <1>1, <2>1, WaitedFinite
  <2>4. Cardinality(Waited(obj, Once(inbox), Parent[c])) # 0
    BY <2>2, <2>3, FS_EmptySet
  <2>5. obj[Parent[c]].term_acks # 0
    BY <1>1, <2>1, <2>4 DEF AcksRight
  <2> QED
    BY <1>1, <2>1, <2>5 DEF Quiet
<1>4. ASSUME NEW t \in Threads, NEW i \in 1 .. Len(inbox[t])
      PROVE  /\ obj[inbox[t][i].dest].life = "alive"
             /\ inbox[t][i].type = "term" =>
                  ~ obj[inbox[t][i].dest].terminating /\ ~ obj[inbox[t][i].dest].pending
  <2> DEFINE m == inbox[t][i]
  <2>1. WellFormed(m) /\ Thread[m.dest] = t
    BY <1>1 DEF Boxes
  <2>2. m \in Commands /\ m.dest \in Objects
    BY <2>1, CmdIs
  <2>3. m.type \in CountedTypes \/ m.type \in {"term", "term_ack", "term_req"}
    BY <2>2 DEF Commands, CountedTypes, OnceTypes
  <2>4. CASE m.type \in CountedTypes
    <3>1. Dues(inbox)[m.dest] > 0
      BY <1>1, <2>4, DuePositive
    <3>2. m.type # "term"
      BY <2>4 DEF CountedTypes
    <3> QED
      BY <1>2, <2>2, <3>1, <3>2
  <2>5. CASE m.type = "term"
    <3>1. m \in Once(inbox)
      BY <1>1, <2>5, OnceIs DEF OnceTypes
    <3>2. m.dest \in Children /\ TermCmd(m.dest) \in Once(inbox)
      BY <2>1, <2>5, <3>1, CmdIs
    <3>3. Fresh(obj[m.dest])
      BY <1>1, <3>2 DEF ChildRight
    <3> QED
      BY <3>3 DEF Fresh
  <2>6. CASE m.type = "term_ack"
    <3>1. m \in Once(inbox)
      BY <1>1, <2>6, OnceIs DEF OnceTypes
    <3>2. m.arg \in Children /\ m.dest = Parent[m.arg] /\ AckCmd(m.arg) \in Once(inbox)
      BY <2>1, <2>6, <3>1, CmdIs
    <3> QED
      BY <1>3, <2>6, <3>2
  <2>7. CASE m.type = "term_req"
    <3> DEFINE c == m.arg
    <3>1. c \in Children /\ m.dest = Parent[c]
      BY <2>1, <2>7 DEF WellFormed
    <3>2. obj[c].life = "alive" \/ \E j \in i + 1 .. Len(inbox[t]) : inbox[t][j] = AckCmd(c)
      BY <1>1, <2>7 DEF Order
    <3>3. CASE obj[c].life = "alive"
      <4>1. OwnCmd(c) \in Once(inbox) => Dues(inbox)[Parent[c]] > 0
        BY <1>1, <3>1, OwnDue
      <4>2. obj[Parent[c]].life = "alive"
        BY <1>1, <3>1, <3>3, <4>1, OwnerThere
      <4> QED
        BY <2>7, <3>1, <4>2
    <3>4. CASE \E j \in i + 1 .. Len(inbox[t]) : inbox[t][j] = AckCmd(c)
      <4>1. PICK j \in i + 1 .. Len(inbox[t]) : inbox[t][j] = AckCmd(c)
        BY <3>4
      <4>2. j \in 1 .. Len(inbox[t])
        BY <4>1
      <4>3. inbox[t][j].type \in OnceTypes
        BY <3>1, <4>1, ChildCmds DEF OnceTypes
      <4>4. AckCmd(c) \in Once(inbox)
        BY <1>1, <4>1, <4>2, <4>3, OnceIs
      <4> QED
        BY <1>3, <2>7, <3>1, <4>4
    <3> QED
      BY <3>2, <3>3, <3>4
  <2> QED
    BY <2>3, <2>4, <2>5, <2>6, <2>7
<1>5. \A m \in Mail : /\ obj[m.dest].life = "alive"
                      /\ m.type = "term" => ~ obj[m.dest].terminating /\ ~ obj[m.dest].pending
  <2> SUFFICES ASSUME NEW m \in Mail
               PROVE  /\ obj[m.dest].life = "alive"
                      /\ m.type = "term" => ~ obj[m.dest].terminating /\ ~ obj[m.dest].pending
    OBVIOUS
  <2>1. PICK t \in Threads : \E i \in 1 .. Len(inbox[t]) : inbox[t][i] = m
    BY <1>1, MailIs
  <2> QED
    BY <1>4, <2>1
<1>6. binding > 0 => obj[Root].life = "alive"
  BY <1>2, OwnAssumption
<1> QED
  BY <1>5, <1>6 DEF NobodyCallsTheDead

\* An own or a term_ack command to o that lies in a mailbox is about a child of
\* o's and is on its way.
LEMMA ChildMail ==
  ASSUME Boxes(inbox), NEW o \in Objects, NEW c
  PROVE  /\ Cmd("own", o, c) \in Mail <=>
              c \in Children /\ Parent[c] = o /\ OwnCmd(c) \in Once(inbox)
         /\ Cmd("term_ack", o, c) \in Mail <=>
              c \in Children /\ Parent[c] = o /\ AckCmd(c) \in Once(inbox)
<1>1. ASSUME NEW m \in Mail PROVE WellFormed(m)
  <2>1. PICK t \in Threads : \E i \in 1 .. Len(inbox[t]) : inbox[t][i] = m
    BY MailIs
  <2> QED
    BY <2>1 DEF Boxes
<1>2. ASSUME NEW type \in {"own", "term_ack"}, Cmd(type, o, c) \in Mail
      PROVE  c \in Children /\ Parent[c] = o
  <2>1. WellFormed(Cmd(type, o, c))
    BY <1>1, <1>2
  <2> QED
    BY <2>1 DEF WellFormed, Cmd
<1>3. ASSUME c \in Children, Parent[c] = o
      PROVE  /\ OwnCmd(c) = Cmd("own", o, c) /\ AckCmd(c) = Cmd("term_ack", o, c)
             /\ OwnCmd(c) \in Mail <=> OwnCmd(c) \in Once(inbox)
             /\ AckCmd(c) \in Mail <=> AckCmd(c) \in Once(inbox)
  <2>1. /\ OwnCmd(c) \in Commands /\ OwnCmd(c).type \in OnceTypes
        /\ AckCmd(c) \in Commands /\ AckCmd(c).type \in OnceTypes
    BY <1>3, ChildCmds DEF OnceTypes
  <2> QED
    BY <1>3, <2>1, OnceMail DEF OwnCmd, AckCmd
<1>4. Cmd("own", o, c) \in Mail => c \in Children /\ Parent[c] = o
  BY <1>2
<1>5. Cmd("term_ack", o, c) \in Mail => c \in Children /\ Parent[c] = o
  BY <1>2
<1> QED
  BY <1>3, <1>4, <1>5

\* An owner counts each of its children once, and goes after them.
LEMMA InvOwnerOutlives == OwnInv => OwnerOutlivesChildren
<1> SUFFICES ASSUME OwnInv PROVE OwnerOutlivesChildren
  OBVIOUS
<1> DEFINE M == Once(inbox)
<1>1. /\ Boxes(inbox) /\ Books(obj, M, Dues(inbox), binding)
      /\ obj \in [Objects -> Fields] /\ Quiet(obj) /\ ChildRight(obj, M) /\ OwnedRight(obj)
      /\ AcksRight(obj, M)
  BY DEF OwnInv, OwnInvOf, Books
<1>2. \A c \in Children : OwnCmd(c) \in M => Dues(inbox)[Parent[c]] > 0
  BY <1>1, OwnDue
<1> HIDE DEF M
<1> SUFFICES ASSUME NEW o \in Objects
             PROVE  LET children == {c \in Objects \ {Root} : Parent[c] = o /\ obj[c].life = "alive"}
                        announced == {c \in Objects : Cmd("own", o, c) \in Mail}
                        acks == {c \in Objects : Cmd("term_ack", o, c) \in Mail}
                    IN /\ children # {} => obj[o].life = "alive"
                       /\ obj[o].life = "alive" =>
                            /\ obj[o].owned \cup announced \subseteq children
                            /\ obj[o].owned \cap announced = {}
                            /\ obj[o].term_acks = Cardinality(children \ (obj[o].owned \cup announced))
                                                  + Cardinality(acks)
                       /\ obj[o].life = "deleted" => obj[o].owned = {}
  BY DEF OwnerOutlivesChildren
<1> DEFINE children == {c \in Objects \ {Root} : Parent[c] = o /\ obj[c].life = "alive"}
           announced == {c \in Objects : Cmd("own", o, c) \in Mail}
           acks == {c \in Objects : Cmd("term_ack", o, c) \in Mail}
           awaited == children \ (obj[o].owned \cup announced)
<1>3. \A c : c \in children <=> c \in Children /\ Parent[c] = o /\ obj[c].life = "alive"
  BY DEF Children
<1>4. \A c : c \in announced <=> c \in Children /\ Parent[c] = o /\ OwnCmd(c) \in M
  BY <1>1, ChildMail DEF Children, M
<1>5. \A c : c \in acks <=> c \in Children /\ Parent[c] = o /\ AckCmd(c) \in M
  BY <1>1, ChildMail DEF Children, M
<1>6. \A c \in obj[o].owned : c \in Children /\ Parent[c] = o
  BY <1>1 DEF OwnedRight
<1>7. \A c : c \in awaited <=> c \in children /\ c \notin obj[o].owned /\ c \notin announced
  OBVIOUS
<1> HIDE DEF children, announced, acks, awaited
<1>8. children # {} => obj[o].life = "alive"
  <2> SUFFICES ASSUME NEW c \in children PROVE obj[o].life = "alive"
    OBVIOUS
  <2>1. c \in Children /\ Parent[c] = o /\ obj[c].life = "alive"
    BY <1>3
  <2>2. OwnCmd(c) \in M => Dues(inbox)[Parent[c]] > 0
    BY <1>2, <2>1
  <2> QED
    BY <1>1, <2>1, <2>2, OwnerThere
<1>9. obj[o].owned \cup announced \subseteq children /\ obj[o].owned \cap announced = {}
  <2>1. \A c \in obj[o].owned : c \in children /\ c \notin announced
    BY <1>1, <1>3, <1>4, <1>6 DEF ChildRight, Fresh
  <2>2. \A c \in announced : c \in children
    BY <1>1, <1>3, <1>4 DEF ChildRight, Fresh
  <2> QED
    BY <2>1, <2>2
<1>10. Waited(obj, M, o) = awaited \cup acks
  <2>1. \A c : c \in Waited(obj, M, o) <=> c \in awaited \/ c \in acks
    BY <1>3, <1>4, <1>5, <1>7 DEF Waited
  <2> QED
    BY <2>1
<1>11. awaited \cap acks = {}
  BY <1>1, <1>3, <1>5, <1>7 DEF ChildRight
<1>12. obj[o].term_acks = Cardinality(awaited) + Cardinality(acks)
  <2>1. IsFiniteSet(Waited(obj, M, o))
    BY <1>1, WaitedFinite
  <2>2. IsFiniteSet(awaited) /\ IsFiniteSet(acks)
    BY <1>10, <2>1, FS_Subset
  <2>3. Cardinality(awaited \cap acks) = 0
    BY <1>11, FS_EmptySet
  <2>4. Cardinality(awaited \cup acks) = Cardinality(awaited) + Cardinality(acks) - Cardinality(awaited \cap acks)
    BY <2>2, FS_Union
  <2>5. Cardinality(awaited) \in Nat /\ Cardinality(acks) \in Nat
    BY <2>2, FS_CardinalityType
  <2>6. obj[o].term_acks = Cardinality(awaited \cup acks)
    BY <1>1, <1>10 DEF AcksRight
  <2> QED
    BY <2>3, <2>4, <2>5, <2>6
<1>13. obj[o].life = "deleted" => obj[o].owned = {}
  BY <1>1 DEF Quiet
<1> QED
  BY <1>8, <1>9, <1>12, <1>13 DEF children, announced, acks, awaited

\* For every tree of objects over any threads: no object is destroyed while a
\* command for it, or the announcement of a bind, is on its way; no object is
\* asked to terminate twice; and an owner, which goes after its children, counts
\* each of them once, as owned, announced, or an acknowledgement to come
\* (own.cpp and the inc_seqnum () calls of object.cpp and ctx.cpp).
THEOREM OwnAlwaysSafe == Spec => []OwnSafe
<1>1. OwnInv => OwnSafe
  BY InvNobodyCalls, InvOwnerOutlives DEF OwnSafe
<1> QED
  BY <1>1, InitOwn, NextKeeps, PTL DEF Spec
=============================================================================
