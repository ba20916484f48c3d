----------------------------- MODULE PipeProofs ------------------------------
(***************************************************************************)
(* Proofs about Pipe: the handlers' assertions, the absence of dangling    *)
(* references, both watermarks and the delimiter, for every setting of the *)
(* watermarks and any number of messages, terminations and hiccups.        *)
(***************************************************************************)
EXTENDS Pipe, SequenceTheorems, FiniteSetTheorems, NaturalsInduction, WellFoundedInduction, TLAPS

-----------------------------------------------------------------------------
(* Counting the items of a sequence.                                       *)

Items == {"more", "last", "delim"}

Places(s, kinds) == {i \in 1 .. Len(s) : s[i] \in kinds}

\* A count is a natural number: a sequence is finite.
LEMMA CountNat ==
  ASSUME NEW s \in Seq(Items), NEW kinds
  PROVE  IsFiniteSet(Places(s, kinds)) /\ Count(s, kinds) \in Nat
<1>1. Len(s) \in Nat /\ IsFiniteSet(1 .. Len(s)) /\ Places(s, kinds) \in SUBSET (1 .. Len(s))
  BY FS_Interval, LenProperties DEF Places
<1> QED
  BY <1>1, FS_Subset, FS_CardinalityType DEF Count, Places

\* Nothing is counted where there is nothing to count.
LEMMA CountNone ==
  ASSUME NEW s \in Seq(Items), NEW kinds, \A i \in 1 .. Len(s) : s[i] \notin kinds
  PROVE  Count(s, kinds) = 0
<1>1. {i \in 1 .. Len(s) : s[i] \in kinds} = {}
  OBVIOUS
<1> QED
  BY <1>1, FS_EmptySet DEF Count

\* A sequence of one item.
LEMMA CountOne ==
  ASSUME NEW x \in Items, NEW kinds
  PROVE  Count(<<x>>, kinds) = IF x \in kinds THEN 1 ELSE 0
<1>1. <<x>> \in Seq(Items) /\ Len(<<x>>) = 1 /\ <<x>>[1] = x
  OBVIOUS
<1>2. CASE x \in kinds
  <2>1. {i \in 1 .. Len(<<x>>) : <<x>>[i] \in kinds} = {1}
    BY <1>1, <1>2
  <2> QED
    BY <1>2, <2>1, FS_Singleton DEF Count
<1>3. CASE x \notin kinds
  BY <1>1, <1>3, CountNone
<1> QED
  BY <1>2, <1>3

\* The count of two sequences, one after the other, is the sum of the counts.
LEMMA CountConcat ==
  ASSUME NEW s \in Seq(Items), NEW t \in Seq(Items), NEW kinds
  PROVE  Count(s \o t, kinds) = Count(s, kinds) + Count(t, kinds)
<1> DEFINE n == Len(s)
           A == Places(s, kinds)
           B == Places(t, kinds)
           C == Places(s \o t, kinds)
           f == [i \in B |-> n + i]
           D == {i \in C : i > n}
<1>1. /\ n \in Nat /\ Len(t) \in Nat /\ s \o t \in Seq(Items) /\ Len(s \o t) = n + Len(t)
      /\ \A i \in 1 .. n + Len(t) : (s \o t)[i] = IF i <= n THEN s[i] ELSE t[i - n]
  BY LenProperties, ConcatProperties
<1>2. IsFiniteSet(A) /\ IsFiniteSet(B) /\ Cardinality(A) \in Nat /\ Cardinality(B) \in Nat
  BY CountNat DEF Count, Places
<1>3. C = A \cup D /\ A \cap D = {}
  <2>1. \A i \in A : i \in C /\ ~ (i > n)
    BY <1>1 DEF Places
  <2>2. \A i \in C : i > n \/ i \in A
    BY <1>1 DEF Places
  <2> QED
    BY <2>1, <2>2
<1>4. f \in Bijection(B, D)
  <2>1. \A i \in B : f[i] \in D /\ i \in Int
    BY <1>1 DEF Places
  <2>2. \A i, j \in B : f[i] = f[j] => i = j
    BY <1>1, <2>1 DEF Places
  <2>3. \A k \in D : \E i \in B : f[i] = k
    <3> SUFFICES ASSUME NEW k \in D PROVE k - n \in B /\ f[k - n] = k
      OBVIOUS
    <3>1. k \in 1 .. n + Len(t) /\ k > n /\ t[k - n] \in kinds
      BY <1>1 DEF Places
    <3>2. k - n \in B
      BY <1>1, <3>1 DEF Places
    <3> QED
      BY <1>1, <3>1, <3>2
  <2>4. f \in [B -> D]
    BY <2>1
  <2> HIDE DEF f, B, D
  <2> QED
    BY <2>2, <2>3, <2>4 DEF Bijection, Injection, Surjection, IsInjective
<1>5. IsFiniteSet(D) /\ Cardinality(D) = Cardinality(B)
  BY <1>2, <1>4, FS_Bijection DEF ExistsBijection
<1>6. Cardinality(C) = Cardinality(A) + Cardinality(D)
  <2>1. Cardinality(A \cup D) = Cardinality(A) + Cardinality(D) - Cardinality(A \cap D)
    BY <1>2, <1>5, FS_Union
  <2>2. Cardinality(A \cap D) = 0
    BY <1>3, FS_EmptySet
  <2> HIDE DEF A, B, C, D
  <2> QED
    BY <1>2, <1>3, <1>5, <2>1, <2>2
<1> QED
  BY <1>5, <1>6 DEF Count, Places

\* One item more.
LEMMA CountAppend ==
  ASSUME NEW s \in Seq(Items), NEW x \in Items, NEW kinds
  PROVE  Count(Append(s, x), kinds) = Count(s, kinds) + (IF x \in kinds THEN 1 ELSE 0)
<1>1. Append(s, x) = s \o <<x>> /\ <<x>> \in Seq(Items)
  BY AppendIsConcat
<1> QED
  BY <1>1, CountConcat, CountOne, SMTT(40)

\* One item less.
LEMMA CountTail ==
  ASSUME NEW s \in Seq(Items), s # <<>>, NEW kinds
  PROVE  Count(s, kinds) = Count(Tail(s), kinds) + (IF Head(s) \in kinds THEN 1 ELSE 0)
<1>1. Head(s) \in Items /\ Tail(s) \in Seq(Items) /\ <<Head(s)>> \in Seq(Items)
  BY HeadTailProperties
<1>2. s = <<Head(s)>> \o Tail(s)
  OBVIOUS
<1>3. Count(<<Head(s)>>, kinds) \in Nat /\ Count(Tail(s), kinds) \in Nat
  BY <1>1, CountNat
<1>4. Count(<<Head(s)>> \o Tail(s), kinds) = Count(<<Head(s)>>, kinds) + Count(Tail(s), kinds)
  BY <1>1, CountConcat
<1>5. Count(<<Head(s)>>, kinds) = IF Head(s) \in kinds THEN 1 ELSE 0
  BY <1>1, CountOne
<1>6. Count(s, kinds) = Count(<<Head(s)>> \o Tail(s), kinds)
  BY <1>2, Zenon
<1> QED
  BY <1>3, <1>4, <1>5, <1>6

-----------------------------------------------------------------------------
(* The border of the last complete message.                                *)

\* A set of natural numbers has a least element.
LEMMA LeastNatural ==
  ASSUME NEW T \in SUBSET Nat, T # {}
  PROVE  \E x \in T : \A y \in T : x <= y
<1>1. IsWellFoundedOn(OpToRel(<, Nat), Nat)
  BY NatLessThanWellFounded
<1>2. PICK x \in T : \A y \in T : ~ (<<y, x>> \in OpToRel(<, Nat))
  BY <1>1, WFMin
<1>3. \A y \in T : ~ (y < x)
  BY <1>2 DEF OpToRel
<1> QED
  BY <1>3

\* Behind the border there are only parts of an unfinished message.
LEMMA Border ==
  ASSUME NEW s \in Seq(Items)
  PROVE  /\ CompleteLen(s) \in 0 .. Len(s)
         /\ CompleteLen(s) > 0 => s[CompleteLen(s)] # "more"
         /\ \A j \in CompleteLen(s) + 1 .. Len(s) : s[j] = "more"
<1> DEFINE T == {i \in 0 .. Len(s) : \A j \in i + 1 .. Len(s) : s[j] = "more"}
<1>1. Len(s) \in Nat
  BY LenProperties
<1>2. CASE \E i \in 1 .. Len(s) : s[i] # "more"
  <2>1. \E i \in 1 .. Len(s) : s[i] # "more" /\ \A j \in i + 1 .. Len(s) : s[j] = "more"
    <3>1. T \in SUBSET Nat /\ Len(s) \in T
      BY <1>1
    <3>2. PICK x \in T : \A y \in T : x <= y
      BY <3>1, LeastNatural
    <3>3. x \in 1 .. Len(s)
      BY <1>1, <1>2, <3>2
    <3>4. s[x] # "more"
      <4>1. SUFFICES ASSUME s[x] = "more" PROVE FALSE
        OBVIOUS
      <4>2. x - 1 \in T
        BY <1>1, <3>2, <3>3, <4>1
      <4>3. x <= x - 1
        BY <3>2, <4>2
      <4> QED
        BY <1>1, <3>3, <4>3
    <3> QED
      BY <3>2, <3>3, <3>4
  <2> QED
    BY <1>1, <1>2, <2>1 DEF CompleteLen
<1>3. CASE ~ \E i \in 1 .. Len(s) : s[i] # "more"
  BY <1>1, <1>3 DEF CompleteLen
<1> QED
  BY <1>2, <1>3

\* A message that was completed last is complete.
LEMMA BorderAtEnd ==
  ASSUME NEW s \in Seq(Items), NEW x \in Items, x # "more"
  PROVE  CompleteLen(Append(s, x)) = Len(s) + 1
<1>1. /\ Append(s, x) \in Seq(Items) /\ Len(Append(s, x)) = Len(s) + 1 /\ Len(s) \in Nat
      /\ Append(s, x)[Len(s) + 1] = x
  BY AppendProperties, LenProperties
<1>2. /\ CompleteLen(Append(s, x)) \in 0 .. Len(s) + 1
      /\ \A j \in CompleteLen(Append(s, x)) + 1 .. Len(s) + 1 : Append(s, x)[j] = "more"
  BY <1>1, Border
<1> QED
  BY <1>1, <1>2

-----------------------------------------------------------------------------
(* What the operations do to a upipe.                                      *)

Lives == {"live", "unborn", "deleted"}
Upipe == [done : Seq(Items), held : Seq(Items), asleep : BOOLEAN, life : Lives]

Empty(p)    == p.done = <<>> /\ p.held = <<>>
Delim(s)    == \E i \in 1 .. Len(s) : s[i] = "delim"
HasDelim(p) == Delim(p.done) \/ Delim(p.held)

\* At most the last of the flushed items is a delimiter.
DelimLast(p) == \A i \in 1 .. Len(p.done) - 1 : p.done[i] # "delim"

\* A delimiter in the first part or in the second.
LEMMA DelimConcat ==
  ASSUME NEW s \in Seq(Items), NEW t \in Seq(Items)
  PROVE  Delim(s \o t) <=> Delim(s) \/ Delim(t)
<1>1. /\ Len(s) \in Nat /\ Len(t) \in Nat /\ Len(s \o t) = Len(s) + Len(t)
      /\ \A i \in 1 .. Len(s) + Len(t) : (s \o t)[i] = IF i <= Len(s) THEN s[i] ELSE t[i - Len(s)]
  BY LenProperties, ConcatProperties
<1>2. ASSUME Delim(s \o t) PROVE Delim(s) \/ Delim(t)
  BY <1>1, <1>2 DEF Delim
<1>3. ASSUME Delim(s) PROVE Delim(s \o t)
  BY <1>1, <1>3 DEF Delim
<1>4. ASSUME Delim(t) PROVE Delim(s \o t)
  <2>1. PICK i \in 1 .. Len(t) : t[i] = "delim"
    BY <1>4 DEF Delim
  <2>2. Len(s) + i \in 1 .. Len(s \o t) /\ (s \o t)[Len(s) + i] = t[i]
    BY <1>1
  <2> QED
    BY <2>1, <2>2 DEF Delim
<1> QED
  BY <1>2, <1>3, <1>4

\* Complete messages are flushed or held back.
LEMMA MessagesSum ==
  ASSUME NEW p \in Upipe
  PROVE  /\ Count(p.done, {"last"}) \in Nat /\ Count(p.held, {"last"}) \in Nat
         /\ Messages(p) = Count(p.done, {"last"}) + Count(p.held, {"last"})
         /\ Empty(p) => Messages(p) = 0
<1>1. p.done \in Seq(Items) /\ p.held \in Seq(Items)
  BY DEF Upipe
<1>2. Count(p.done, {"last"}) \in Nat /\ Count(p.held, {"last"}) \in Nat
  BY <1>1, CountNat
<1>3. Messages(p) = Count(p.done, {"last"}) + Count(p.held, {"last"})
  BY <1>1, CountConcat DEF Messages
<1>4. ASSUME Empty(p) PROVE Messages(p) = 0
  <2>1. Count(p.done, {"last"}) = 0 /\ Count(p.held, {"last"}) = 0
    <3>1. \A i \in 1 .. Len(<<>>) : <<>>[i] \notin {"last"}
      OBVIOUS
    <3>2. Count(<<>>, {"last"}) = 0
      BY <3>1, CountNone, EmptySeq
    <3> QED
      BY <1>4, <3>2 DEF Empty
  <2> QED
    BY <1>2, <1>3, <2>1
<1> QED
  BY <1>2, <1>3, <1>4

\* The complete part of what is held, and the rest.
LEMMA HeldParts ==
  ASSUME NEW s \in Seq(Items)
  PROVE  LET n == CompleteLen(s)
             a == SubSeq(s, 1, n)
             b == SubSeq(s, n + 1, Len(s))
         IN /\ n \in 0 .. Len(s)
            /\ a \in Seq(Items) /\ b \in Seq(Items) /\ s = a \o b
            /\ Len(a) = n /\ Len(b) = Len(s) - n
            /\ \A i \in 1 .. n : a[i] = s[i]
            /\ \A i \in 1 .. Len(b) : b[i] = s[n + i]
            /\ \A i \in 1 .. Len(b) : b[i] = "more"
            /\ Count(a, {"last"}) = Count(s, {"last"})
            /\ Count(b, {"last"}) = 0
<1> DEFINE n == CompleteLen(s)
           a == SubSeq(s, 1, n)
           b == SubSeq(s, n + 1, Len(s))
<1>1. Len(s) \in Nat /\ n \in 0 .. Len(s) /\ \A j \in n + 1 .. Len(s) : s[j] = "more"
  BY Border, LenProperties
<1>2. \A i \in 1 .. Len(s) : s[i] \in Items
  BY ElementOfSeq
<1> HIDE DEF n
<1>3. a \in Seq(Items) /\ Len(a) = n /\ \A i \in 1 .. n : a[i] = s[i]
  <2>1. \A i \in 1 .. n : s[i] \in Items
    BY <1>1, <1>2
  <2>2. /\ SubSeq(s, 1, n) \in Seq(Items) /\ Len(SubSeq(s, 1, n)) = IF 1 <= n THEN n - 1 + 1 ELSE 0
        /\ \A i \in 1 .. n - 1 + 1 : SubSeq(s, 1, n)[i] = s[1 + i - 1]
    BY <1>1, <2>1, SubSeqProperties
  <2> QED
    BY <1>1, <2>2
<1>4. b \in Seq(Items) /\ Len(b) = Len(s) - n /\ \A i \in 1 .. Len(b) : b[i] = s[n + i]
  <2>1. \A i \in n + 1 .. Len(s) : s[i] \in Items
    BY <1>1, <1>2
  <2>2. /\ b \in Seq(Items)
        /\ Len(b) = IF n + 1 <= Len(s) THEN Len(s) - (n + 1) + 1 ELSE 0
        /\ \A i \in 1 .. Len(s) - (n + 1) + 1 : b[i] = s[(n + 1) + i - 1]
    BY <1>1, <2>1, SubSeqProperties
  <2> HIDE DEF b
  <2> QED
    BY <1>1, <2>2
<1>5. s = a \o b
  <2>1. SubSeq(s, 1, n) \o SubSeq(s, n + 1, Len(s)) = SubSeq(s, 1, Len(s))
    <3>1. 1 \in 1 .. Len(s) + 1 /\ n \in 1 - 1 .. Len(s) /\ Len(s) \in n .. Len(s)
      BY <1>1
    <3> QED
      BY <3>1, ConcatAdjacentSubSeq
  <2>2. SubSeq(s, 1, Len(s)) = s
    BY SubSeqFull
  <2> QED
    BY <2>1, <2>2
<1> HIDE DEF a, b
<1>6. \A i \in 1 .. Len(b) : b[i] = "more"
  BY <1>1, <1>4
<1>7. Count(b, {"last"}) = 0
  BY <1>4, <1>6, CountNone
<1>8. Count(s, {"last"}) = Count(a, {"last"}) + Count(b, {"last"}) /\ Count(a, {"last"}) \in Nat
  BY <1>3, <1>4, <1>5, CountConcat, CountNat
<1>9. Count(a, {"last"}) = Count(s, {"last"})
  BY <1>7, <1>8
<1> QED
  BY <1>1, <1>3, <1>4, <1>5, <1>6, <1>7, <1>9 DEF n, a, b

\* flush () moves the complete part, and loses and invents nothing.
LEMMA FlushedUpipe ==
  ASSUME NEW p \in Upipe
  PROVE  LET n == CompleteLen(p.held)
         IN /\ Flushed(p) \in Upipe /\ Flushed(p).life = p.life
            /\ Flushed(p).done = p.done \o SubSeq(p.held, 1, n)
            /\ Flushed(p).held = SubSeq(p.held, n + 1, Len(p.held))
            /\ Messages(Flushed(p)) = Messages(p)
            /\ HasDelim(Flushed(p)) <=> HasDelim(p)
<1> DEFINE n == CompleteLen(p.held)
           a == SubSeq(p.held, 1, n)
           b == SubSeq(p.held, n + 1, Len(p.held))
           F == Flushed(p)
<1>0. p = [done |-> p.done, held |-> p.held, asleep |-> p.asleep, life |-> p.life]
  BY DEF Upipe
<1>1. p.done \in Seq(Items) /\ p.held \in Seq(Items) /\ p.life \in Lives
  BY DEF Upipe
<1>2. /\ n \in 0 .. Len(p.held) /\ a \in Seq(Items) /\ b \in Seq(Items) /\ p.held = a \o b
      /\ Len(a) = n /\ Len(b) = Len(p.held) - n
      /\ \A i \in 1 .. n : a[i] = p.held[i]
      /\ \A i \in 1 .. Len(b) : b[i] = p.held[n + i] /\ b[i] = "more"
      /\ Count(a, {"last"}) = Count(p.held, {"last"})
      /\ Count(b, {"last"}) = 0
  BY <1>1, HeldParts
<1>3. Len(p.done) \in Nat /\ Len(p.held) \in Nat
  BY <1>1, LenProperties
<1>4. F \in Upipe /\ F.life = p.life /\ F.done = p.done \o a /\ F.held = b
  <2>1. CASE n = 0
    <3>1. a = <<>> /\ b = p.held
      BY <1>1, <1>3, <2>1, SubSeqEmpty, SubSeqFull
    <3>2. F = p
      BY <2>1 DEF Flushed
    <3>3. p.done \o <<>> = p.done
      BY <1>1, ConcatEmptySeq
    <3> QED
      BY <3>1, <3>2, <3>3
  <2>2. CASE n # 0
    <3>1. F = [p EXCEPT !.done = p.done \o a, !.held = b, !.asleep = FALSE]
      BY <2>2 DEF Flushed
    <3>2. p.done \o a \in Seq(Items)
      BY <1>1, <1>2, ConcatProperties
    <3> HIDE DEF F, a, b
    <3>3. F = [done |-> p.done \o a, held |-> b, asleep |-> FALSE, life |-> p.life]
      BY <1>0, <3>1
    <3> QED
      BY <1>1, <1>2, <3>2, <3>3 DEF Upipe
  <2> QED
    BY <2>1, <2>2
<1> HIDE DEF n, a, b, F
<1>5. Messages(F) = Messages(p)
  <2>1. /\ Messages(F) = Count(F.done, {"last"}) + Count(F.held, {"last"})
        /\ Messages(p) = Count(p.done, {"last"}) + Count(p.held, {"last"})
        /\ Count(p.done, {"last"}) \in Nat /\ Count(p.held, {"last"}) \in Nat
    BY <1>4, MessagesSum
  <2>2. Count(F.done, {"last"}) = Count(p.done, {"last"}) + Count(a, {"last"})
    BY <1>1, <1>2, <1>4, CountConcat
  <2> QED
    BY <1>2, <1>4, <2>1, <2>2
<1>6. ~ Delim(b)
  BY <1>2 DEF Delim
<1>7. HasDelim(F) <=> HasDelim(p)
  <2>1. Delim(F.done) <=> Delim(p.done) \/ Delim(a)
    BY <1>1, <1>2, <1>4, DelimConcat
  <2>2. Delim(p.held) <=> Delim(a) \/ Delim(b)
    BY <1>2, DelimConcat
  <2> QED
    BY <1>4, <1>6, <2>1, <2>2 DEF HasDelim
<1> QED
  BY <1>4, <1>5, <1>7 DEF n, a, b, F

\* rollback () drops parts that are not counted and no delimiter.
LEMMA RolledBackUpipe ==
  ASSUME NEW p \in Upipe
  PROVE  /\ RolledBack(p) \in Upipe /\ RolledBack(p).life = p.life
         /\ RolledBack(p).done = p.done
         /\ RolledBack(p).held = SubSeq(p.held, 1, CompleteLen(p.held))
         /\ Messages(RolledBack(p)) = Messages(p)
         /\ HasDelim(RolledBack(p)) => HasDelim(p)
<1> DEFINE n == CompleteLen(p.held)
           a == SubSeq(p.held, 1, n)
           R == RolledBack(p)
<1>1. /\ p.done \in Seq(Items) /\ p.held \in Seq(Items) /\ p.life \in Lives
      /\ p.asleep \in BOOLEAN
  BY DEF Upipe
<1>0. p = [done |-> p.done, held |-> p.held, asleep |-> p.asleep, life |-> p.life]
  BY DEF Upipe
<1>2. /\ n \in 0 .. Len(p.held) /\ a \in Seq(Items) /\ Len(a) = n
      /\ \A i \in 1 .. n : a[i] = p.held[i]
      /\ Count(a, {"last"}) = Count(p.held, {"last"})
  BY <1>1, HeldParts
<1>3. R = [p EXCEPT !.held = a]
  BY DEF RolledBack
<1> HIDE DEF a, R
<1>4. R = [done |-> p.done, held |-> a, asleep |-> p.asleep, life |-> p.life]
  BY <1>0, <1>3
<1>5. R \in Upipe /\ R.life = p.life /\ R.done = p.done /\ R.held = a
  BY <1>1, <1>2, <1>4 DEF Upipe
<1>6. Messages(R) = Messages(p)
  BY <1>2, <1>5, MessagesSum
<1>7. HasDelim(R) => HasDelim(p)
  <2>1. Len(p.held) \in Nat
    BY <1>1, LenProperties
  <2> HIDE DEF n
  <2> QED
    BY <1>2, <1>5, <2>1 DEF HasDelim, Delim
<1> QED
  BY <1>5, <1>6, <1>7 DEF a, R

\* The delimiter put behind a sequence without one is its only one.
LEMMA DelimAtEnd ==
  ASSUME NEW s \in Seq(Items), NEW t \in Seq(Items), ~ Delim(s),
         \A i \in 1 .. Len(t) - 1 : t[i] # "delim"
  PROVE  \A i \in 1 .. Len(s \o t) - 1 : (s \o t)[i] # "delim"
<1>1. /\ Len(s) \in Nat /\ Len(t) \in Nat /\ Len(s \o t) = Len(s) + Len(t)
      /\ \A i \in 1 .. Len(s) + Len(t) : (s \o t)[i] = IF i <= Len(s) THEN s[i] ELSE t[i - Len(s)]
  BY LenProperties, ConcatProperties
<1> SUFFICES ASSUME NEW i \in 1 .. Len(s \o t) - 1 PROVE (s \o t)[i] # "delim"
  OBVIOUS
<1>2. CASE i <= Len(s)
  <2>1. i \in 1 .. Len(s) /\ (s \o t)[i] = s[i]
    BY <1>1, <1>2
  <2> QED
    BY <2>1 DEF Delim
<1>3. CASE i > Len(s)
  <2>1. i - Len(s) \in 1 .. Len(t) - 1 /\ (s \o t)[i] = t[i - Len(s)]
    BY <1>1, <1>3
  <2> QED
    BY <2>1
<1> QED
  BY <1>1, <1>2, <1>3

\* With nothing held back there is nothing to flush and nothing to roll back.
LEMMA NothingHeld ==
  ASSUME NEW p \in Upipe, p.held = <<>>
  PROVE  Flushed(p) = p /\ RolledBack(p) = p
<1>1. CompleteLen(<<>>) = 0
  BY DEF CompleteLen
<1>2. SubSeq(<<>>, 1, 0) = <<>>
  BY SubSeqEmpty
<1>3. Flushed(p) = p
  BY <1>1 DEF Flushed
<1>4. RolledBack(p) = [p EXCEPT !.held = <<>>]
  BY <1>1, <1>2 DEF RolledBack
<1>5. p = [done |-> p.done, held |-> p.held, asleep |-> p.asleep, life |-> p.life]
  BY DEF Upipe
<1>6. RolledBack(p) = p
  BY <1>4, <1>5
<1> QED
  BY <1>3, <1>6

\* terminate () leaves the delimiter as the last item, flushed.
LEMMA DelimitedUpipe ==
  ASSUME NEW p \in Upipe
  PROVE  LET F == Flushed(WithDelimiter(p))
         IN /\ F \in Upipe /\ F.life = p.life /\ F.held = <<>>
            /\ Messages(F) = Messages(p)
            /\ HasDelim(F)
            /\ ~ HasDelim(p) => DelimLast(F)
<1> DEFINE R == RolledBack(p)
           W == WithDelimiter(p)
           F == Flushed(W)
           h == Append(R.held, "delim")
<1>1. /\ R \in Upipe /\ R.life = p.life /\ Messages(R) = Messages(p)
      /\ HasDelim(R) => HasDelim(p)
  BY RolledBackUpipe
<1> HIDE DEF R
<1>2. /\ R.done \in Seq(Items) /\ R.held \in Seq(Items) /\ R.life \in Lives /\ R.asleep \in BOOLEAN
      /\ R = [done |-> R.done, held |-> R.held, asleep |-> R.asleep, life |-> R.life]
  BY <1>1 DEF Upipe
<1>3. "delim" \in Items /\ "delim" # "more"
  BY DEF Items
<1>4. /\ h \in Seq(Items) /\ Len(h) = Len(R.held) + 1 /\ Len(R.held) \in Nat /\ Len(R.done) \in Nat
      /\ \A i \in 1 .. Len(R.held) : h[i] = R.held[i]
      /\ h[Len(R.held) + 1] = "delim"
  BY <1>2, <1>3, AppendProperties, LenProperties
<1>5. W = [R EXCEPT !.held = h]
  BY DEF WithDelimiter, R
<1>6. CompleteLen(h) = Len(h)
  BY <1>2, <1>3, <1>4, BorderAtEnd
<1>7. Count(h, {"last"}) = Count(R.held, {"last"})
  <2>1. Count(h, {"last"}) = Count(R.held, {"last"}) + (IF "delim" \in {"last"} THEN 1 ELSE 0)
    BY <1>2, <1>3, CountAppend
  <2>2. Count(R.held, {"last"}) \in Nat
    BY <1>2, CountNat
  <2> QED
    BY <2>1, <2>2
<1> HIDE DEF W, h
<1>8. W = [done |-> R.done, held |-> h, asleep |-> R.asleep, life |-> R.life]
  BY <1>2, <1>5
<1>9. W \in Upipe /\ W.done = R.done /\ W.held = h /\ W.life = p.life
  BY <1>1, <1>2, <1>4, <1>8 DEF Upipe
<1>10. Messages(W) = Messages(p)
  BY <1>1, <1>7, <1>9, MessagesSum
<1>11. /\ F \in Upipe /\ F.life = W.life /\ Messages(F) = Messages(W)
       /\ F.done = W.done \o SubSeq(h, 1, Len(h)) /\ F.held = SubSeq(h, Len(h) + 1, Len(h))
       /\ HasDelim(F) <=> HasDelim(W)
  BY <1>6, <1>9, FlushedUpipe
<1> HIDE DEF F
<1>12. SubSeq(h, 1, Len(h)) = h /\ SubSeq(h, Len(h) + 1, Len(h)) = <<>>
  BY <1>4, SubSeqFull, SubSeqEmpty
<1>13. F.held = <<>> /\ F.done = R.done \o h
  BY <1>9, <1>11, <1>12
<1>14. HasDelim(F)
  <2>1. Delim(h)
    BY <1>4 DEF Delim
  <2> QED
    BY <1>9, <1>11, <2>1 DEF HasDelim
<1>15. ASSUME ~ HasDelim(p) PROVE DelimLast(F)
  <2>1. ~ Delim(R.done) /\ ~ Delim(R.held)
    BY <1>1, <1>15 DEF HasDelim
  <2>2. \A i \in 1 .. Len(h) - 1 : h[i] # "delim"
    BY <1>4, <2>1 DEF Delim
  <2>3. \A i \in 1 .. Len(R.done \o h) - 1 : (R.done \o h)[i] # "delim"
    BY <1>2, <1>4, <2>1, <2>2, DelimAtEnd
  <2> QED
    BY <1>13, <2>3 DEF DelimLast
<1> QED
  BY <1>9, <1>10, <1>11, <1>13, <1>14, <1>15 DEF F, W

\* A write appends one part, and the last one makes a message.
LEMMA WrittenUpipe ==
  ASSUME NEW p \in Upipe, NEW part \in {"more", "last"}
  PROVE  LET W == [p EXCEPT !.held = Append(@, part)]
         IN /\ W \in Upipe /\ W.life = p.life
            /\ Messages(W) = Messages(p) + (IF part = "last" THEN 1 ELSE 0)
            /\ HasDelim(W) => HasDelim(p)
<1> DEFINE h == Append(p.held, part)
           W == [p EXCEPT !.held = h]
<1>1. /\ p.done \in Seq(Items) /\ p.held \in Seq(Items) /\ p.life \in Lives /\ p.asleep \in BOOLEAN
      /\ p = [done |-> p.done, held |-> p.held, asleep |-> p.asleep, life |-> p.life]
      /\ part \in Items
  BY DEF Upipe, Items
<1>2. /\ h \in Seq(Items) /\ Len(h) = Len(p.held) + 1 /\ Len(p.held) \in Nat
      /\ \A i \in 1 .. Len(p.held) : h[i] = p.held[i]
      /\ h[Len(p.held) + 1] = part
  BY <1>1, AppendProperties, LenProperties
<1>3. Count(h, {"last"}) = Count(p.held, {"last"}) + (IF part = "last" THEN 1 ELSE 0)
  BY <1>1, CountAppend
<1> HIDE DEF h
<1>4. W = [done |-> p.done, held |-> h, asleep |-> p.asleep, life |-> p.life]
  BY <1>1
<1>5. W \in Upipe /\ W.done = p.done /\ W.held = h /\ W.life = p.life
  BY <1>1, <1>2, <1>4 DEF Upipe
<1> HIDE DEF W
<1>6. Messages(W) = Messages(p) + (IF part = "last" THEN 1 ELSE 0)
  BY <1>3, <1>5, MessagesSum
<1>7. HasDelim(W) => HasDelim(p)
  BY <1>2, <1>5 DEF HasDelim, Delim
<1> QED
  BY <1>5, <1>6, <1>7 DEF W, h

\* A read takes the first item, and the last part of a message with it.
LEMMA ReadUpipe ==
  ASSUME NEW p \in Upipe, p.done # <<>>
  PROVE  LET W == [p EXCEPT !.done = Tail(@)]
         IN /\ W \in Upipe /\ W.life = p.life /\ W.held = p.held
            /\ Messages(p) = Messages(W) + (IF Head(p.done) = "last" THEN 1 ELSE 0)
            /\ HasDelim(W) => HasDelim(p)
            /\ HasDelim(p) => HasDelim(W) \/ Head(p.done) = "delim"
            /\ DelimLast(p) => DelimLast(W)
            /\ DelimLast(p) /\ Head(p.done) = "delim" => W.done = <<>>
            /\ Head(p.done) = "delim" => HasDelim(p)
<1> DEFINE d == Tail(p.done)
           W == [p EXCEPT !.done = d]
<1>1. /\ p.done \in Seq(Items) /\ p.held \in Seq(Items) /\ p.life \in Lives /\ p.asleep \in BOOLEAN
      /\ p = [done |-> p.done, held |-> p.held, asleep |-> p.asleep, life |-> p.life]
  BY DEF Upipe
<1>2. /\ d \in Seq(Items) /\ Len(d) = Len(p.done) - 1 /\ Len(p.done) \in Nat \ {0}
      /\ \A i \in 1 .. Len(d) : d[i] = p.done[i + 1]
      /\ Head(p.done) = p.done[1]
  BY <1>1, HeadTailProperties, EmptySeq
<1>3. Count(p.done, {"last"}) = Count(d, {"last"}) + (IF Head(p.done) = "last" THEN 1 ELSE 0)
  BY <1>1, CountTail
<1> HIDE DEF d
<1>4. W = [done |-> d, held |-> p.held, asleep |-> p.asleep, life |-> p.life]
  BY <1>1
<1>5. W \in Upipe /\ W.done = d /\ W.held = p.held /\ W.life = p.life
  BY <1>1, <1>2, <1>4 DEF Upipe
<1> HIDE DEF W
<1>6. Messages(p) = Messages(W) + (IF Head(p.done) = "last" THEN 1 ELSE 0)
  BY <1>3, <1>5, MessagesSum
<1>7. Delim(d) => Delim(p.done)
  BY <1>2 DEF Delim
<1>8. Delim(p.done) => Delim(d) \/ Head(p.done) = "delim"
  <2> SUFFICES ASSUME NEW i \in 1 .. Len(p.done), p.done[i] = "delim", i # 1 PROVE Delim(d)
    BY <1>2 DEF Delim
  <2>1. i - 1 \in 1 .. Len(d) /\ d[i - 1] = p.done[i]
    BY <1>2
  <2> QED
    BY <2>1 DEF Delim
<1>9. DelimLast(p) => DelimLast(W)
  BY <1>2, <1>5 DEF DelimLast
<1>10. ASSUME DelimLast(p), Head(p.done) = "delim" PROVE W.done = <<>>
  <2>1. ~ (1 \in 1 .. Len(p.done) - 1)
    BY <1>2, <1>10 DEF DelimLast
  <2>2. Len(d) = 0
    <3>1. Len(d) = Len(p.done) - 1 /\ Len(p.done) \in Nat /\ Len(p.done) # 0
      BY <1>2
    <3>2. ~ (1 <= Len(p.done) - 1)
      BY <2>1, <3>1
    <3>3. \A x \in Nat : x # 0 /\ ~ (1 <= x - 1) => x = 1
      OBVIOUS
    <3>4. Len(p.done) = 1
      BY <3>1, <3>2, <3>3, Zenon
    <3> QED
      BY <3>1, <3>4
  <2> QED
    BY <1>2, <1>5, <2>2, EmptySeq
<1>11. Head(p.done) = "delim" => Delim(p.done)
  BY <1>2 DEF Delim
<1> QED
  BY <1>5, <1>6, <1>7, <1>8, <1>9, <1>10, <1>11 DEF HasDelim, W, d

\* What process_hiccup () drains from a pipe without a delimiter are the
\* messages that were counted.
LEMMA DrainedUpipe ==
  ASSUME NEW p \in Upipe, ~ HasDelim(p)
  PROVE  Count(Flushed(p).done, {"last", "delim"}) = Messages(p)
<1> DEFINE n == CompleteLen(p.held)
           a == SubSeq(p.held, 1, n)
           F == Flushed(p)
<1>1. p.done \in Seq(Items) /\ p.held \in Seq(Items)
  BY DEF Upipe
<1>2. a \in Seq(Items) /\ Count(a, {"last"}) = Count(p.held, {"last"})
  BY <1>1, HeldParts
<1>3. F \in Upipe /\ ~ HasDelim(F) /\ F.done = p.done \o a
  BY FlushedUpipe
<1> HIDE DEF F, a
<1>4. ~ Delim(F.done)
  BY <1>3 DEF HasDelim
<1>5. Count(F.done, {"last", "delim"}) = Count(F.done, {"last"})
  <2>1. {i \in 1 .. Len(F.done) : F.done[i] \in {"last", "delim"}}
        = {i \in 1 .. Len(F.done) : F.done[i] \in {"last"}}
    BY <1>4 DEF Delim
  <2> QED
    BY <2>1 DEF Count
<1>6. Count(F.done, {"last"}) = Count(p.done, {"last"}) + Count(a, {"last"})
  BY <1>1, <1>2, <1>3, CountConcat
<1> QED
  BY <1>2, <1>5, <1>6, MessagesSum DEF F

-----------------------------------------------------------------------------
(* Commands on their way to an end.                                        *)

ActivateRead     == [type |-> "activate_read"]
ActivateWrite(n) == [type |-> "activate_write", n |-> n]
Hiccup(u)        == [type |-> "hiccup", pipe |-> u]

Cmds == {Term, TermAck, ActivateRead} \cup {ActivateWrite(n) : n \in Nat}
        \cup {Hiccup(u) : u \in Upipes}

Has(q, type) == \E c \in ToSet(q) : c.type = type

\* c may be followed by d: nothing comes after the acknowledgement, hardly
\* anything after the request; counts and new upipes come in ascending order.
Before(c, d) ==
  /\ c.type # "pipe_term_ack"
  /\ c.type = "pipe_term" => d.type \in {"activate_read", "pipe_term_ack"}
  /\ c.type = "activate_write" /\ d.type = "activate_write" => c.n <= d.n
  /\ c.type = "hiccup" /\ d.type = "hiccup" => c.pipe < d.pipe

Ordered(q) == \A i, j \in 1 .. Len(q) : i < j => Before(q[i], q[j])

\* The fields of the commands tell them apart.
LEMMA CmdFields ==
  /\ \A c \in Cmds : /\ c.type \in {"pipe_term", "pipe_term_ack", "activate_read",
                                    "activate_write", "hiccup"}
                     /\ c.type = "activate_write" => c.n \in Nat
                     /\ c.type = "hiccup" => c.pipe \in Upipes
                     /\ c.type = "pipe_term_ack" => c = TermAck
  /\ Term.type = "pipe_term" /\ TermAck.type = "pipe_term_ack"
  /\ ActivateRead.type = "activate_read"
  /\ \A n : ActivateWrite(n).type = "activate_write" /\ ActivateWrite(n).n = n
  /\ \A u : Hiccup(u).type = "hiccup" /\ Hiccup(u).pipe = u
  /\ Term \in Cmds /\ TermAck \in Cmds /\ ActivateRead \in Cmds
  /\ \A n \in Nat : ActivateWrite(n) \in Cmds
  /\ \A u \in Upipes : Hiccup(u) \in Cmds
<1>1. /\ Term.type = "pipe_term" /\ TermAck.type = "pipe_term_ack"
      /\ ActivateRead.type = "activate_read"
      /\ \A n : ActivateWrite(n).type = "activate_write" /\ ActivateWrite(n).n = n
      /\ \A u : Hiccup(u).type = "hiccup" /\ Hiccup(u).pipe = u
  BY DEF Term, TermAck, ActivateRead, ActivateWrite, Hiccup
<1>2. /\ Term \in Cmds /\ TermAck \in Cmds /\ ActivateRead \in Cmds
      /\ \A n \in Nat : ActivateWrite(n) \in Cmds
      /\ \A u \in Upipes : Hiccup(u) \in Cmds
  BY DEF Cmds
<1>3. ASSUME NEW c \in Cmds
      PROVE  /\ c.type \in {"pipe_term", "pipe_term_ack", "activate_read", "activate_write", "hiccup"}
             /\ c.type = "activate_write" => c.n \in Nat
             /\ c.type = "hiccup" => c.pipe \in Upipes
             /\ c.type = "pipe_term_ack" => c = TermAck
  <2>1. CASE c \in {Term, TermAck, ActivateRead}
    BY <1>1, <2>1
  <2>2. CASE c \in {ActivateWrite(n) : n \in Nat}
    <3>1. PICK n \in Nat : c = ActivateWrite(n)
      BY <2>2
    <3> QED
      BY <1>1, <3>1
  <2>3. CASE c \in {Hiccup(u) : u \in Upipes}
    <3>1. PICK u \in Upipes : c = Hiccup(u)
      BY <2>3
    <3> QED
      BY <1>1, <3>1
  <2> QED
    BY <2>1, <2>2, <2>3 DEF Cmds
<1> QED
  BY <1>1, <1>2, <1>3

\* A command is sent.
LEMMA Sent ==
  ASSUME NEW q \in Seq(Cmds), NEW c \in Cmds
  PROVE  /\ Append(q, c) \in Seq(Cmds) /\ Append(q, c) # <<>>
         /\ ToSet(Append(q, c)) = ToSet(q) \cup {c}
         /\ \A type : Has(Append(q, c), type) <=> Has(q, type) \/ c.type = type
         /\ Ordered(q) /\ (\A d \in ToSet(q) : Before(d, c)) => Ordered(Append(q, c))
         /\ ToSet(q) \subseteq Cmds
<1> DEFINE a == Append(q, c)
<1>1. /\ a \in Seq(Cmds) /\ a # <<>> /\ Len(a) = Len(q) + 1 /\ Len(q) \in Nat
      /\ DOMAIN a = 1 .. Len(a) /\ DOMAIN q = 1 .. Len(q)
      /\ \A i \in 1 .. Len(q) : a[i] = q[i] /\ q[i] \in Cmds
      /\ a[Len(q) + 1] = c
  BY AppendProperties, LenProperties, ElementOfSeq
<1> HIDE DEF a
<1>2. ToSet(a) = ToSet(q) \cup {c}
  <2>1. \A d \in ToSet(a) : d \in ToSet(q) \cup {c}
    <3> SUFFICES ASSUME NEW i \in 1 .. Len(q) + 1 PROVE a[i] \in ToSet(q) \cup {c}
      BY <1>1 DEF ToSet
    <3>1. CASE i = Len(q) + 1
      BY <1>1, <3>1
    <3>2. CASE i # Len(q) + 1
      <4>1. i \in 1 .. Len(q)
        BY <1>1, <3>2
      <4> QED
        BY <1>1, <4>1 DEF ToSet
    <3> QED
      BY <3>1, <3>2
  <2>2. \A i \in 1 .. Len(q) : q[i] \in ToSet(a)
    BY <1>1 DEF ToSet
  <2>3. c \in ToSet(a)
    BY <1>1 DEF ToSet
  <2>4. \A d \in ToSet(q) : d \in ToSet(a)
    BY <1>1, <2>2 DEF ToSet
  <2> QED
    BY <2>1, <2>3, <2>4
<1>3. \A type : Has(a, type) <=> Has(q, type) \/ c.type = type
  BY <1>2 DEF Has
<1>4. ASSUME Ordered(q), \A d \in ToSet(q) : Before(d, c) PROVE Ordered(a)
  <2> SUFFICES ASSUME NEW i \in 1 .. Len(a), NEW j \in 1 .. Len(a), i < j PROVE Before(a[i], a[j])
    BY DEF Ordered
  <2>1. i \in 1 .. Len(q) /\ a[i] = q[i] /\ q[i] \in ToSet(q)
    BY <1>1 DEF ToSet
  <2>2. CASE j = Len(q) + 1
    BY <1>1, <1>4, <2>1, <2>2
  <2>3. CASE j # Len(q) + 1
    <3>1. j \in 1 .. Len(q) /\ a[j] = q[j]
      BY <1>1, <2>3
    <3> QED
      BY <1>4, <2>1, <3>1 DEF Ordered
  <2> QED
    BY <2>2, <2>3
<1>5. ToSet(q) \subseteq Cmds
  BY <1>1 DEF ToSet
<1> QED
  BY <1>1, <1>2, <1>3, <1>4, <1>5 DEF a

\* A command is taken.
LEMMA Received ==
  ASSUME NEW q \in Seq(Cmds), q # <<>>
  PROVE  /\ Tail(q) \in Seq(Cmds) /\ Head(q) \in Cmds
         /\ ToSet(q) = {Head(q)} \cup ToSet(Tail(q))
         /\ \A type : Has(q, type) <=> Head(q).type = type \/ Has(Tail(q), type)
         /\ Ordered(q) => Ordered(Tail(q)) /\ \A d \in ToSet(Tail(q)) : Before(Head(q), d)
         /\ ToSet(q) \subseteq Cmds
         /\ ToSet(Tail(q)) = {} => Tail(q) = <<>>
<1> DEFINE a == Tail(q)
           h == Head(q)
<1>1. /\ a \in Seq(Cmds) /\ h \in Cmds /\ h = q[1] /\ Len(a) = Len(q) - 1 /\ Len(q) \in Nat \ {0}
      /\ DOMAIN a = 1 .. Len(a) /\ DOMAIN q = 1 .. Len(q)
      /\ \A i \in 1 .. Len(a) : a[i] = q[i + 1]
  BY HeadTailProperties, LenProperties, EmptySeq
<1>0. \A i \in 1 .. Len(q) : q[i] \in Cmds
  BY ElementOfSeq
<1> HIDE DEF a, h
<1>2. ToSet(q) = {h} \cup ToSet(a)
  <2>1. \A i \in 1 .. Len(q) : q[i] \in {h} \cup ToSet(a)
    <3> SUFFICES ASSUME NEW i \in 1 .. Len(q), i # 1 PROVE q[i] \in ToSet(a)
      BY <1>1
    <3>1. i - 1 \in 1 .. Len(a) /\ a[i - 1] = q[i]
      BY <1>1
    <3> QED
      BY <1>1, <3>1 DEF ToSet
  <2>2. \A i \in 1 .. Len(a) : a[i] \in ToSet(q)
    BY <1>1 DEF ToSet
  <2>3. h \in ToSet(q)
    BY <1>1 DEF ToSet
  <2>4. \A d \in ToSet(q) : d \in {h} \cup ToSet(a)
    BY <1>1, <2>1 DEF ToSet
  <2>5. \A d \in ToSet(a) : d \in ToSet(q)
    BY <1>1, <2>2 DEF ToSet
  <2> QED
    BY <2>3, <2>4, <2>5
<1>3. \A type : Has(q, type) <=> h.type = type \/ Has(a, type)
  BY <1>2 DEF Has
<1>4. ASSUME Ordered(q) PROVE Ordered(a) /\ \A d \in ToSet(a) : Before(h, d)
  <2>1. Ordered(a)
    <3> SUFFICES ASSUME NEW i \in 1 .. Len(a), NEW j \in 1 .. Len(a), i < j PROVE Before(a[i], a[j])
      BY DEF Ordered
    <3>1. /\ i + 1 \in 1 .. Len(q) /\ j + 1 \in 1 .. Len(q) /\ i + 1 < j + 1
          /\ a[i] = q[i + 1] /\ a[j] = q[j + 1]
      BY <1>1
    <3> QED
      BY <1>4, <3>1 DEF Ordered
  <2>2. \A i \in 1 .. Len(a) : Before(h, a[i])
    <3> SUFFICES ASSUME NEW i \in 1 .. Len(a) PROVE Before(h, a[i])
      OBVIOUS
    <3>1. 1 \in 1 .. Len(q) /\ i + 1 \in 1 .. Len(q) /\ 1 < i + 1 /\ a[i] = q[i + 1] /\ h = q[1]
      BY <1>1
    <3> QED
      BY <1>4, <3>1 DEF Ordered
  <2> QED
    BY <1>1, <2>1, <2>2 DEF ToSet
<1>5. ToSet(q) \subseteq Cmds
  BY <1>0, <1>1 DEF ToSet
<1>6. ASSUME a # <<>> PROVE ToSet(a) # {}
  <2>1. 1 \in 1 .. Len(a)
    BY <1>1, <1>6, EmptySeq
  <2> QED
    BY <1>1, <2>1 DEF ToSet
<1> QED
  BY <1>1, <1>2, <1>3, <1>4, <1>5, <1>6 DEF a, h

-----------------------------------------------------------------------------
(* The termination protocol: the states of an end and its peer, and the    *)
(* requests and acknowledgements between them.                             *)

States == {"active", "delimiter_received", "waiting_for_delimiter", "term_req_sent1",
           "term_req_sent2", "term_ack_sent", "deleted"}
Calm   == {"active", "delimiter_received"}
Gone   == {"term_ack_sent", "term_req_sent2", "deleted"}

\* The states that two ends can be in at the same time.
Fits(s, t) ==
  \/ s \in Calm \cup {"term_req_sent1"} /\ t \in Calm \cup {"term_req_sent1"}
  \/ s = "term_req_sent1" /\ t \in {"waiting_for_delimiter", "term_ack_sent", "term_req_sent2"}
  \/ t = "term_req_sent1" /\ s \in {"waiting_for_delimiter", "term_ack_sent", "term_req_sent2"}
  \/ s = "deleted" /\ t \in Gone
  \/ t = "deleted" /\ s \in Gone
  \/ s = "term_req_sent2" /\ t = "term_req_sent2"

\* An end in state s whose peer is in state t, and the commands q for it.
TermEnd(s, t, q) ==
  /\ s \in States /\ t \in States /\ Fits(s, t)
  /\ Has(q, "pipe_term") <=> t \in {"term_req_sent1", "term_req_sent2"}
                             /\ s \in Calm \cup {"term_req_sent1"}
  /\ Has(q, "pipe_term_ack") <=> s # "deleted" /\ t \in Gone
  /\ Ordered(q)
  /\ s \in {"waiting_for_delimiter", "term_ack_sent", "term_req_sent2"} =>
       \A c \in ToSet(q) : c.type \in {"activate_read", "pipe_term_ack"}
  /\ s = "deleted" => q = <<>>

\* An end takes a command that is not about termination.
LEMMA TermTake ==
  ASSUME NEW s, NEW t, NEW q \in Seq(Cmds), TermEnd(s, t, q), q # <<>>,
         Head(q).type \notin {"pipe_term", "pipe_term_ack"}
  PROVE  TermEnd(s, t, Tail(q))
<1>1. /\ ToSet(q) = {Head(q)} \cup ToSet(Tail(q))
      /\ \A type : Has(q, type) <=> Head(q).type = type \/ Has(Tail(q), type)
      /\ Ordered(q) => Ordered(Tail(q))
  BY Received
<1> QED
  BY <1>1 DEF TermEnd

\* Its peer, in state t, sends one.
LEMMA TermSend ==
  ASSUME NEW s, NEW t, NEW q \in Seq(Cmds), TermEnd(s, t, q), NEW c \in Cmds,
         \/ c.type = "activate_read" /\ t \notin Gone
         \/ c.type \in {"activate_write", "hiccup"} /\ t \in {"active", "waiting_for_delimiter"},
         c.type = "activate_write" => \A d \in ToSet(q) : d.type = "activate_write" => d.n <= c.n,
         c.type = "hiccup" => \A d \in ToSet(q) : d.type = "hiccup" => d.pipe < c.pipe
  PROVE  TermEnd(s, t, Append(q, c))
<1>1. /\ ToSet(Append(q, c)) = ToSet(q) \cup {c}
      /\ \A type : Has(Append(q, c), type) <=> Has(q, type) \/ c.type = type
      /\ Ordered(q) /\ (\A d \in ToSet(q) : Before(d, c)) => Ordered(Append(q, c))
  BY Sent
<1>2. ~ Has(q, "pipe_term_ack") /\ t \notin Gone /\ s # "deleted"
  <2>1. t \notin Gone
    BY DEF Gone
  <2>2. ~ Has(q, "pipe_term_ack")
    BY <2>1 DEF TermEnd
  <2>3. s # "deleted"
    BY <2>1 DEF TermEnd, Calm, Gone, Fits
  <2> QED
    BY <2>1, <2>2, <2>3
<1>3. c.type # "activate_read" => ~ Has(q, "pipe_term") /\ s \in Calm \cup {"term_req_sent1"}
  BY DEF TermEnd, Fits, Calm, Gone
<1>4. \A d \in ToSet(q) : Before(d, c)
  BY <1>2, <1>3 DEF Has, Before
<1>5. c.type \notin {"pipe_term", "pipe_term_ack"}
  OBVIOUS
<1>6. s \in {"waiting_for_delimiter", "term_ack_sent", "term_req_sent2"} => c.type = "activate_read"
  BY <1>3 DEF Calm
<1> QED
  BY <1>1, <1>2, <1>4, <1>5, <1>6 DEF TermEnd

\* A calm end asks for termination.
LEMMA TermAsk ==
  ASSUME NEW s \in Calm, NEW t, NEW q \in Seq(Cmds), NEW r \in Seq(Cmds),
         TermEnd(s, t, q), TermEnd(t, s, r)
  PROVE  TermEnd("term_req_sent1", t, q) /\ TermEnd(t, "term_req_sent1", Append(r, Term))
<1>1. /\ Term \in Cmds /\ Term.type = "pipe_term"
      /\ ToSet(Append(r, Term)) = ToSet(r) \cup {Term}
      /\ \A type : Has(Append(r, Term), type) <=> Has(r, type) \/ Term.type = type
      /\ Ordered(r) /\ (\A d \in ToSet(r) : Before(d, Term)) => Ordered(Append(r, Term))
  BY Sent, CmdFields
<1>2. t \in Calm \cup {"term_req_sent1"}
  BY DEF TermEnd, Fits, Calm, Gone
<1>3. ~ Has(r, "pipe_term_ack") /\ ~ Has(r, "pipe_term")
  BY DEF TermEnd, Calm, Gone
<1>4. \A d \in ToSet(r) : Before(d, Term)
  BY <1>1, <1>3 DEF Has, Before
<1>5. TermEnd("term_req_sent1", t, q)
  BY <1>2 DEF TermEnd, Fits, Calm, Gone, States
<1>6. TermEnd(t, "term_req_sent1", Append(r, Term))
  BY <1>1, <1>2, <1>3, <1>4 DEF TermEnd, Fits, Calm, Gone, States
<1> QED
  BY <1>5, <1>6

\* An active end reads the delimiter.
LEMMA TermDelimiter ==
  ASSUME NEW t, NEW q \in Seq(Cmds), NEW r \in Seq(Cmds),
         TermEnd("active", t, q), TermEnd(t, "active", r)
  PROVE  TermEnd("delimiter_received", t, q) /\ TermEnd(t, "delimiter_received", r)
BY DEF TermEnd, Fits, Calm, Gone, States

\* The peer of an end that acknowledges, before that end has a new state.
LEMMA AckSent ==
  ASSUME NEW s, NEW t, NEW r \in Seq(Cmds), TermEnd(t, s, r), s \notin Gone
  PROVE  /\ \A type : Has(Append(r, TermAck), type) <=> Has(r, type) \/ type = "pipe_term_ack"
         /\ Ordered(Append(r, TermAck))
         /\ t \in {"waiting_for_delimiter", "term_ack_sent", "term_req_sent2"} =>
              \A c \in ToSet(Append(r, TermAck)) : c.type \in {"activate_read", "pipe_term_ack"}
<1>1. /\ TermAck \in Cmds /\ TermAck.type = "pipe_term_ack"
      /\ ToSet(Append(r, TermAck)) = ToSet(r) \cup {TermAck}
      /\ \A type : Has(Append(r, TermAck), type) <=> Has(r, type) \/ TermAck.type = type
      /\ Ordered(r) /\ (\A d \in ToSet(r) : Before(d, TermAck)) => Ordered(Append(r, TermAck))
  BY Sent, CmdFields
<1>2. ~ Has(r, "pipe_term_ack")
  BY DEF TermEnd
<1>3. \A d \in ToSet(r) : Before(d, TermAck)
  BY <1>1, <1>2 DEF Has, Before
<1> QED
  BY <1>1, <1>3 DEF TermEnd

\* An end that waits for the delimiter gets it, or is told not to wait.
LEMMA TermWaited ==
  ASSUME NEW t, NEW q \in Seq(Cmds), NEW r \in Seq(Cmds),
         TermEnd("waiting_for_delimiter", t, q), TermEnd(t, "waiting_for_delimiter", r)
  PROVE  TermEnd("term_ack_sent", t, q) /\ TermEnd(t, "term_ack_sent", Append(r, TermAck))
<1>1. t = "term_req_sent1"
  BY DEF TermEnd, Fits, Calm, Gone
<1>2. /\ \A type : Has(Append(r, TermAck), type) <=> Has(r, type) \/ type = "pipe_term_ack"
      /\ Ordered(Append(r, TermAck))
  BY AckSent DEF Gone
<1>3. TermEnd("term_ack_sent", t, q)
  BY <1>1 DEF TermEnd, Fits, Calm, Gone, States
<1>4. TermEnd(t, "term_ack_sent", Append(r, TermAck))
  BY <1>1, <1>2 DEF TermEnd, Fits, Calm, Gone, States
<1> QED
  BY <1>3, <1>4

\* An end is asked to terminate.
LEMMA TermAsked ==
  ASSUME NEW s, NEW t, NEW q \in Seq(Cmds), NEW r \in Seq(Cmds),
         TermEnd(s, t, q), TermEnd(t, s, r), q # <<>>, Head(q).type = "pipe_term"
  PROVE  /\ s \in Calm \cup {"term_req_sent1"}
         /\ s = "active" => /\ TermEnd("waiting_for_delimiter", t, Tail(q))
                            /\ TermEnd(t, "waiting_for_delimiter", r)
         /\ s \in Calm => /\ TermEnd("term_ack_sent", t, Tail(q))
                          /\ TermEnd(t, "term_ack_sent", Append(r, TermAck))
         /\ s = "term_req_sent1" => /\ TermEnd("term_req_sent2", t, Tail(q))
                                    /\ TermEnd(t, "term_req_sent2", Append(r, TermAck))
<1>1. /\ ToSet(q) = {Head(q)} \cup ToSet(Tail(q))
      /\ \A type : Has(q, type) <=> Head(q).type = type \/ Has(Tail(q), type)
      /\ Ordered(q) => Ordered(Tail(q)) /\ \A d \in ToSet(Tail(q)) : Before(Head(q), d)
  BY Received
<1>2. t \in {"term_req_sent1", "term_req_sent2"} /\ s \in Calm \cup {"term_req_sent1"}
  BY <1>1 DEF TermEnd
<1>3. \A d \in ToSet(Tail(q)) : d.type \in {"activate_read", "pipe_term_ack"}
  BY <1>1 DEF TermEnd, Before
<1>4. ~ Has(Tail(q), "pipe_term") /\ Ordered(Tail(q))
      /\ (Has(Tail(q), "pipe_term_ack") <=> Has(q, "pipe_term_ack"))
  BY <1>1, <1>3 DEF TermEnd, Has
<1>5. s \in Calm => t = "term_req_sent1"
  BY <1>2 DEF TermEnd, Fits, Calm, Gone
<1>6. /\ \A type : Has(Append(r, TermAck), type) <=> Has(r, type) \/ type = "pipe_term_ack"
      /\ Ordered(Append(r, TermAck))
      /\ t \in {"waiting_for_delimiter", "term_ack_sent", "term_req_sent2"} =>
           \A c \in ToSet(Append(r, TermAck)) : c.type \in {"activate_read", "pipe_term_ack"}
  <2>1. s \notin Gone
    BY <1>2 DEF Calm, Gone
  <2> QED
    BY <2>1, AckSent
<1>7. ASSUME s = "active"
      PROVE  TermEnd("waiting_for_delimiter", t, Tail(q)) /\ TermEnd(t, "waiting_for_delimiter", r)
  BY <1>3, <1>4, <1>5, <1>7 DEF TermEnd, Fits, Calm, Gone, States
<1>8. ASSUME s \in Calm
      PROVE  TermEnd("term_ack_sent", t, Tail(q)) /\ TermEnd(t, "term_ack_sent", Append(r, TermAck))
  <2>1. TermEnd("term_ack_sent", t, Tail(q))
    BY <1>3, <1>4, <1>5, <1>8 DEF TermEnd, Fits, Calm, Gone, States
  <2>2. TermEnd(t, "term_ack_sent", Append(r, TermAck))
    BY <1>5, <1>6, <1>8 DEF TermEnd, Fits, Calm, Gone, States
  <2> QED
    BY <2>1, <2>2
<1>9. ASSUME s = "term_req_sent1"
      PROVE  TermEnd("term_req_sent2", t, Tail(q)) /\ TermEnd(t, "term_req_sent2", Append(r, TermAck))
  <2>1. TermEnd("term_req_sent2", t, Tail(q))
    BY <1>2, <1>3, <1>4, <1>9 DEF TermEnd, Fits, Calm, Gone, States
  <2>2. TermEnd(t, "term_req_sent2", Append(r, TermAck))
    BY <1>2, <1>6, <1>9 DEF TermEnd, Fits, Calm, Gone, States
  <2> QED
    BY <2>1, <2>2
<1> QED
  BY <1>2, <1>7, <1>8, <1>9

\* An end gets the acknowledgement, the last command there is.
LEMMA TermAcked ==
  ASSUME NEW s, NEW t, NEW q \in Seq(Cmds), NEW r \in Seq(Cmds),
         TermEnd(s, t, q), TermEnd(t, s, r), q # <<>>, Head(q).type = "pipe_term_ack"
  PROVE  /\ s \in {"term_req_sent1", "term_req_sent2", "term_ack_sent"} /\ t \in Gone
         /\ TermEnd("deleted", t, Tail(q))
         /\ s = "term_req_sent1" => TermEnd(t, "deleted", Append(r, TermAck))
         /\ s # "term_req_sent1" => TermEnd(t, "deleted", r)
<1>1. /\ ToSet(q) = {Head(q)} \cup ToSet(Tail(q))
      /\ \A type : Has(q, type) <=> Head(q).type = type \/ Has(Tail(q), type)
      /\ Ordered(q) => Ordered(Tail(q)) /\ \A d \in ToSet(Tail(q)) : Before(Head(q), d)
      /\ ToSet(Tail(q)) = {} => Tail(q) = <<>>
  BY Received
<1>2. ToSet(Tail(q)) = {} /\ Tail(q) = <<>>
  BY <1>1 DEF TermEnd, Before
<1>3. ~ Has(q, "pipe_term") /\ Has(q, "pipe_term_ack")
  BY <1>1, <1>2 DEF Has
<1>4. /\ s # "deleted" /\ t \in Gone
      /\ ~ (t = "term_req_sent2" /\ s \in Calm \cup {"term_req_sent1"})
  BY <1>3 DEF TermEnd
<1>5. /\ s \in {"term_req_sent1", "term_req_sent2", "term_ack_sent"}
      /\ s = "term_req_sent1" => t = "term_ack_sent"
  BY <1>4 DEF TermEnd, Fits, Calm, Gone
<1>6. TermEnd("deleted", t, Tail(q))
  BY <1>1, <1>2, <1>4 DEF TermEnd, Fits, Calm, Gone, States, Has
<1>7. ASSUME s = "term_req_sent1" PROVE TermEnd(t, "deleted", Append(r, TermAck))
  <2>1. /\ \A type : Has(Append(r, TermAck), type) <=> Has(r, type) \/ type = "pipe_term_ack"
        /\ Ordered(Append(r, TermAck))
        /\ t \in {"waiting_for_delimiter", "term_ack_sent", "term_req_sent2"} =>
             \A c \in ToSet(Append(r, TermAck)) : c.type \in {"activate_read", "pipe_term_ack"}
    BY <1>7, AckSent DEF Gone
  <2> QED
    BY <1>5, <1>7, <2>1 DEF TermEnd, Fits, Calm, Gone, States
<1>8. ASSUME s # "term_req_sent1" PROVE TermEnd(t, "deleted", r)
  <2>1. s \in Gone
    BY <1>5, <1>8 DEF Gone
  <2>2. Has(r, "pipe_term_ack") <=> t # "deleted"
    BY <2>1 DEF TermEnd
  <2>3. ~ Has(r, "pipe_term")
    BY <1>4, <1>5, <1>8 DEF TermEnd, Gone, Calm
  <2> QED
    BY <1>4, <1>5, <1>8, <2>2, <2>3 DEF TermEnd, Fits, Calm, Gone, States
<1> QED
  BY <1>4, <1>5, <1>6, <1>7, <1>8

-----------------------------------------------------------------------------
(* One direction of the pipe: the end d in state s writes, its peer in     *)
(* state t reads.  q are the commands for the writer, up the upipes, o the *)
(* one it writes, i the one the reader reads; rd messages were read, wr    *)
(* written, and the writer knows of pr reads.                              *)

Dir(u) == IF u = 2 THEN "session" ELSE "socket"

\* The upipes are alive, and the writer reaches the reader's after the hiccups
\* that are on their way to it; until then nobody has used those.
Plugged(d, s, t, q, up, o, i) ==
  /\ o \in {NULL} \cup Upipes /\ i \in {NULL} \cup Upipes
  /\ o = NULL <=> s \in Gone
  /\ i = NULL <=> t = "deleted"
  /\ i # NULL => up[i].life = "live" /\ Dir(i) = d
  /\ o # NULL => /\ up[o].life = "live" /\ Dir(o) = d
                 /\ i = o \/ \E c \in ToSet(q) : c.type = "hiccup" /\ c.pipe = i
  /\ \A c \in ToSet(q) : c.type = "hiccup" =>
       /\ c.pipe > o /\ c.pipe <= i /\ Dir(c.pipe) = d
       /\ up[c.pipe].life = "live" /\ Empty(up[c.pipe])

\* The writer's count is exact as long as it may matter: until a hiccup finds
\* a delimiter in the old upipe and takes it for a message.
Counted(s, t, p) ==
  \/ s \in {"active", "delimiter_received", "waiting_for_delimiter"}
  \/ s = "term_req_sent1" /\ (HasDelim(p) \/ t = "delimiter_received")

Counts(d, s, t, q, up, o, rd, wr, pr) ==
  /\ rd \in Nat /\ wr \in Int /\ pr \in Nat /\ pr <= rd
  /\ \A c \in ToSet(q) : c.type = "activate_write" => pr <= c.n /\ c.n <= rd
  /\ o # NULL /\ Counted(s, t, up[o]) => wr = rd + Messages(up[o])
  /\ s = "active" /\ Hwm[d] > 0 => wr - pr <= Hwm[d]

\* A delimiter is the last item, written by an end that has asked to terminate;
\* whoever has read it has read everything.
Delims(s, t, up, o, i) ==
  /\ s \in Calm => ~ HasDelim(up[o])
  /\ s = "term_req_sent1" => up[o].held = <<>> /\ DelimLast(up[o])
  /\ t = "delimiter_received" => s = "term_req_sent1" /\ i = o /\ Empty(up[o])

Direction(d, s, t, q, up, o, i, rd, wr, pr) ==
  Plugged(d, s, t, q, up, o, i) /\ Counts(d, s, t, q, up, o, rd, wr, pr) /\ Delims(s, t, up, o, i)

\* Upipes are numbered from 1, watermarks are natural numbers.
LEMMA PipeNumbers ==
  /\ NULL = 0 /\ Upipes \subseteq Nat /\ NULL \notin Upipes /\ 1 \in Upipes /\ 2 \in Upipes
  /\ \A u \in Upipes : u \in Nat /\ u > 0
  /\ \A e \in Ends : Hwm[e] \in Nat
BY PipeAssumption DEF NULL, Upipes

\* The hiccups on their way name upipes between the writer's and the reader's.
LEMMA HiccupPipes ==
  ASSUME NEW d, NEW s, NEW t, NEW q \in Seq(Cmds), NEW up, NEW o, NEW i,
         Plugged(d, s, t, q, up, o, i)
  PROVE  /\ o \in Nat /\ i \in Nat
         /\ \A c \in ToSet(q) : c.type = "hiccup" =>
              c.pipe \in Upipes /\ c.pipe \in Nat /\ c.pipe # o /\ c.pipe > o /\ c.pipe <= i
<1>1. ToSet(q) \subseteq Cmds
  BY Sent, CmdFields
<1>2. o \in Nat /\ i \in Nat
  BY PipeNumbers DEF Plugged
<1>3. ASSUME NEW c \in ToSet(q), c.type = "hiccup"
      PROVE  c.pipe \in Upipes /\ c.pipe \in Nat /\ c.pipe # o /\ c.pipe > o /\ c.pipe <= i
  <2>1. c.pipe \in Upipes /\ c.pipe \in Nat
    BY <1>1, <1>3, CmdFields, PipeNumbers
  <2>2. c.pipe > o /\ c.pipe <= i
    BY <1>3 DEF Plugged
  <2> QED
    BY <1>2, <2>1, <2>2
<1> QED
  BY <1>2, <1>3

\* What happens to the other direction's upipes does not matter.
LEMMA OtherUpipes ==
  ASSUME NEW d, NEW s, NEW t, NEW q \in Seq(Cmds), NEW up, NEW o, NEW i, NEW rd, NEW wr, NEW pr,
         Direction(d, s, t, q, up, o, i, rd, wr, pr), s \in States,
         NEW up1, \A u \in Upipes : Dir(u) = d => up1[u] = up[u]
  PROVE  Direction(d, s, t, q, up1, o, i, rd, wr, pr)
<1>1. ToSet(q) \subseteq Cmds
  BY Sent, CmdFields
<1>2. /\ o # NULL => up1[o] = up[o]
      /\ i # NULL => up1[i] = up[i]
      /\ \A c \in ToSet(q) : c.type = "hiccup" => up1[c.pipe] = up[c.pipe]
  BY <1>1, CmdFields DEF Direction, Plugged
<1>3. Plugged(d, s, t, q, up1, o, i)
  BY <1>2 DEF Direction, Plugged
<1>4. Counts(d, s, t, q, up1, o, rd, wr, pr)
  BY <1>2 DEF Direction, Counts
<1>5. o = NULL => s \notin Calm /\ s # "term_req_sent1"
  BY DEF Direction, Plugged, Gone, Calm
<1>6. Delims(s, t, up1, o, i)
  BY <1>2, <1>5 DEF Direction, Delims
<1> QED
  BY <1>3, <1>4, <1>6 DEF Direction

\* Commands come and go that are neither a hiccup nor a new count.
LEMMA OtherCommands ==
  ASSUME NEW d, NEW s, NEW t, NEW q, NEW up, NEW o, NEW i, NEW rd, NEW wr, NEW pr,
         Direction(d, s, t, q, up, o, i, rd, wr, pr), NEW q1,
         \A c : c.type = "hiccup" => (c \in ToSet(q1) <=> c \in ToSet(q)),
         \A c \in ToSet(q1) : c.type = "activate_write" => c \in ToSet(q)
  PROVE  Direction(d, s, t, q1, up, o, i, rd, wr, pr)
<1>1. Plugged(d, s, t, q1, up, o, i)
  BY DEF Direction, Plugged
<1>2. Counts(d, s, t, q1, up, o, rd, wr, pr)
  BY DEF Direction, Counts
<1> QED
  BY <1>1, <1>2 DEF Direction

\* write (), rollback (), flush (), and terminate () while waiting: k messages
\* more in the upipe.
LEMMA WriterWrites ==
  ASSUME NEW d, NEW s \in {"active", "delimiter_received", "waiting_for_delimiter"}, NEW t,
         NEW q, NEW up \in [Upipes -> Upipe], NEW o, NEW i, NEW rd, NEW wr, NEW pr,
         Direction(d, s, t, q, up, o, i, rd, wr, pr),
         NEW v \in Upipe, NEW k \in Nat, v.life = up[o].life, Messages(v) = Messages(up[o]) + k,
         s \in Calm => ~ HasDelim(v), s = "active" /\ Hwm[d] > 0 => wr + k - pr <= Hwm[d],
         q \in Seq(Cmds)
  PROVE  /\ o \in Upipes
         /\ Direction(d, s, t, q, [up EXCEPT ![o] = v], o, i, rd, wr + k, pr)
<1> DEFINE up1 == [up EXCEPT ![o] = v]
<1>1. o \in Upipes /\ o # NULL /\ o \in Nat
  BY PipeNumbers DEF Direction, Plugged, Gone
<1>2. up1[o] = v /\ \A u \in Upipes : u # o => up1[u] = up[u]
  BY <1>1
<1> HIDE DEF up1
<1>3. \A c \in ToSet(q) : c.type = "hiccup" => c.pipe \in Upipes /\ c.pipe # o /\ up1[c.pipe] = up[c.pipe]
  BY <1>1, <1>2, HiccupPipes DEF Direction
<1>4. Plugged(d, s, t, q, up1, o, i)
  <2>1. i # NULL => up1[i].life = "live" /\ Dir(i) = d
    BY <1>1, <1>2 DEF Direction, Plugged
  <2> QED
    BY <1>1, <1>2, <1>3, <2>1 DEF Direction, Plugged
<1>5. Counts(d, s, t, q, up1, o, rd, wr + k, pr)
  <2>1. wr = rd + Messages(up[o]) /\ Messages(up[o]) \in Nat
    BY <1>1, MessagesSum DEF Direction, Counts, Counted
  <2> QED
    BY <1>2, <2>1 DEF Direction, Counts
<1>6. Delims(s, t, up1, o, i)
  BY <1>2 DEF Direction, Delims
<1> QED
  BY <1>1, <1>4, <1>5, <1>6 DEF Direction, up1

\* terminate () of a calm end.
LEMMA WriterTerminates ==
  ASSUME NEW d, NEW s \in Calm, NEW t, NEW q \in Seq(Cmds), NEW up \in [Upipes -> Upipe],
         NEW o, NEW i, NEW rd, NEW wr, NEW pr, Direction(d, s, t, q, up, o, i, rd, wr, pr),
         NEW v \in Upipe, v.life = up[o].life, Messages(v) = Messages(up[o]),
         v.held = <<>>, DelimLast(v)
  PROVE  /\ o \in Upipes
         /\ Direction(d, "term_req_sent1", t, q, [up EXCEPT ![o] = v], o, i, rd, wr, pr)
<1> DEFINE up1 == [up EXCEPT ![o] = v]
<1>1. o \in Upipes /\ o # NULL /\ o \in Nat
  BY PipeNumbers DEF Direction, Plugged, Gone, Calm
<1>2. up1[o] = v /\ \A u \in Upipes : u # o => up1[u] = up[u]
  BY <1>1
<1> HIDE DEF up1
<1>3. \A c \in ToSet(q) : c.type = "hiccup" => c.pipe \in Upipes /\ c.pipe # o /\ up1[c.pipe] = up[c.pipe]
  BY <1>1, <1>2, HiccupPipes DEF Direction
<1>4. Plugged(d, "term_req_sent1", t, q, up1, o, i)
  <2>1. i # NULL => up1[i].life = "live" /\ Dir(i) = d
    BY <1>1, <1>2 DEF Direction, Plugged
  <2>2. "term_req_sent1" \notin Gone
    BY DEF Gone
  <2> QED
    BY <1>1, <1>2, <1>3, <2>1, <2>2 DEF Direction, Plugged
<1>5. Counts(d, "term_req_sent1", t, q, up1, o, rd, wr, pr)
  <2>1. wr = rd + Messages(up[o])
    BY <1>1 DEF Direction, Counts, Counted, Calm
  <2> QED
    BY <1>2, <2>1 DEF Direction, Counts
<1>6. Delims("term_req_sent1", t, up1, o, i)
  <2>1. t # "delimiter_received"
    BY DEF Direction, Delims, Calm
  <2> QED
    BY <1>2, <2>1 DEF Delims, Calm
<1> QED
  BY <1>1, <1>4, <1>5, <1>6 DEF Direction, up1

\* An active end is asked to terminate and waits for the delimiter.
LEMMA WriterWaits ==
  ASSUME NEW d, NEW t, NEW q, NEW up, NEW o, NEW i, NEW rd, NEW wr, NEW pr,
         Direction(d, "active", t, q, up, o, i, rd, wr, pr)
  PROVE  Direction(d, "waiting_for_delimiter", t, q, up, o, i, rd, wr, pr)
<1>1. Plugged(d, "waiting_for_delimiter", t, q, up, o, i)
  BY DEF Direction, Plugged, Gone
<1>2. Counts(d, "waiting_for_delimiter", t, q, up, o, rd, wr, pr)
  BY DEF Direction, Counts, Counted
<1>3. Delims("waiting_for_delimiter", t, up, o, i)
  BY DEF Direction, Delims, Calm
<1> QED
  BY <1>1, <1>2, <1>3 DEF Direction

\* An active end reads the delimiter and writes no more.
LEMMA WriterStops ==
  ASSUME NEW d, NEW t, NEW q, NEW up, NEW o, NEW i, NEW rd, NEW wr, NEW pr,
         Direction(d, "active", t, q, up, o, i, rd, wr, pr)
  PROVE  Direction(d, "delimiter_received", t, q, up, o, i, rd, wr, pr)
<1>1. Plugged(d, "delimiter_received", t, q, up, o, i)
  BY DEF Direction, Plugged, Gone
<1>2. Counts(d, "delimiter_received", t, q, up, o, rd, wr, pr)
  BY DEF Direction, Counts, Counted
<1>3. Delims("delimiter_received", t, up, o, i)
  BY DEF Direction, Delims, Calm
<1> QED
  BY <1>1, <1>2, <1>3 DEF Direction

\* A writer lets go of its upipe.
LEMMA WriterGoes ==
  ASSUME NEW d, NEW s, NEW t, NEW q \in Seq(Cmds), NEW up, NEW o, NEW i, NEW rd, NEW wr, NEW pr,
         Direction(d, s, t, q, up, o, i, rd, wr, pr), NEW s1 \in Gone, t # "delimiter_received"
  PROVE  Direction(d, s1, t, q, up, NULL, i, rd, wr, pr)
<1>1. ToSet(q) \subseteq Cmds
  BY Sent, CmdFields
<1>2. Plugged(d, s1, t, q, up, NULL, i)
  BY <1>1, PipeNumbers, CmdFields DEF Direction, Plugged
<1>3. Counts(d, s1, t, q, up, NULL, rd, wr, pr)
  BY DEF Direction, Counts, Gone
<1>4. Delims(s1, t, up, NULL, i)
  BY DEF Direction, Delims, Gone, Calm
<1> QED
  BY <1>2, <1>3, <1>4 DEF Direction

\* The writer learns what was read.
LEMMA WriterLearns ==
  ASSUME NEW d \in Ends, NEW s, NEW t, NEW q \in Seq(Cmds), NEW up, NEW o, NEW i, NEW rd, NEW wr, NEW pr,
         Direction(d, s, t, q, up, o, i, rd, wr, pr), Ordered(q), q # <<>>,
         Head(q).type = "activate_write"
  PROVE  Direction(d, s, t, Tail(q), up, o, i, rd, wr, Head(q).n)
<1> DEFINE n == Head(q).n
<1>1. /\ ToSet(q) = {Head(q)} \cup ToSet(Tail(q)) /\ Head(q) \in Cmds
      /\ \A c \in ToSet(Tail(q)) : Before(Head(q), c)
  BY Received
<1>2. n \in Nat /\ pr <= n /\ n <= rd /\ Hwm[d] \in Nat
  BY <1>1, CmdFields, PipeNumbers DEF Direction, Counts
<1>3. \A c \in ToSet(Tail(q)) : c.type = "activate_write" => n <= c.n /\ c.n <= rd
  BY <1>1 DEF Before, Direction, Counts
<1> HIDE DEF n
<1>4. Plugged(d, s, t, Tail(q), up, o, i)
  BY <1>1 DEF Direction, Plugged
<1>5. Counts(d, s, t, Tail(q), up, o, rd, wr, n)
  BY <1>2, <1>3 DEF Direction, Counts
<1> QED
  BY <1>4, <1>5 DEF Direction, n

\* process_hiccup (): the writer drains its upipe, deletes it and goes on with
\* the one in the command.
LEMMA WriterHiccups ==
  ASSUME NEW d \in Ends, NEW s \in Calm \cup {"term_req_sent1"}, NEW t, NEW q \in Seq(Cmds),
         NEW up \in [Upipes -> Upipe], NEW o, NEW i, NEW rd, NEW wr, NEW pr,
         Direction(d, s, t, q, up, o, i, rd, wr, pr), Ordered(q), q # <<>>,
         Head(q).type = "hiccup", t \in States,
         NEW k, k = Count(Flushed(up[o]).done, {"last", "delim"})
  PROVE  /\ o \in Upipes /\ Head(q).pipe \in Upipes /\ Head(q).pipe # o
         /\ Direction(d, s, t, Tail(q), [up EXCEPT ![o] = Deleted], Head(q).pipe, i, rd, wr - k, pr)
<1> DEFINE u == Head(q).pipe
           up1 == [up EXCEPT ![o] = Deleted]
           r == Tail(q)
<1>1. /\ ToSet(q) = {Head(q)} \cup ToSet(r) /\ Head(q) \in Cmds /\ r \in Seq(Cmds)
      /\ \A c \in ToSet(r) : Before(Head(q), c)
  BY Received
<1>2. o \in Upipes /\ o # NULL /\ o \in Nat
  BY PipeNumbers DEF Direction, Plugged, Gone, Calm
<1>3. /\ u \in Upipes /\ u \in Nat /\ u # o /\ u > o /\ u <= i /\ i \in Nat
      /\ \A c \in ToSet(r) : c.type = "hiccup" =>
           c.pipe \in Upipes /\ c.pipe # o /\ c.pipe > u /\ c.pipe <= i
  BY <1>1, HiccupPipes DEF Direction, Before
<1>4. \A x \in Upipes : x # o => up1[x] = up[x]
  BY <1>2
<1>5. i # o /\ i # NULL
  BY <1>2, <1>3, PipeNumbers
<1>6. up[u].life = "live" /\ Dir(u) = d /\ Empty(up[u]) /\ up1[u] = up[u] /\ up[u] \in Upipe
  BY <1>1, <1>3, <1>4 DEF Direction, Plugged
<1>7. k \in Nat
  <2>1. Flushed(up[o]) \in Upipe
    BY <1>2, FlushedUpipe
  <2>2. Flushed(up[o]).done \in Seq(Items)
    BY <2>1 DEF Upipe
  <2> QED
    BY <2>2, CountNat
<1>8. \A c \in ToSet(r) : c \in ToSet(q)
  BY <1>1
<1> HIDE DEF u, up1, r
<1>9. Plugged(d, s, t, r, up1, u, i)
  <2>1. i \in Upipes /\ up1[i] = up[i] /\ up[i].life = "live" /\ Dir(i) = d /\ t # "deleted"
    BY <1>4, <1>5 DEF Direction, Plugged
  <2>2. i = u \/ \E c \in ToSet(r) : c.type = "hiccup" /\ c.pipe = i
    BY <1>1, <1>2, <1>5 DEF Direction, Plugged, u
  <2>3. s \notin Gone /\ u # NULL
    BY <1>3, PipeNumbers DEF Calm, Gone
  <2>4. ASSUME NEW c \in ToSet(r), c.type = "hiccup"
        PROVE  /\ c.pipe > u /\ c.pipe <= i /\ Dir(c.pipe) = d
               /\ up1[c.pipe].life = "live" /\ Empty(up1[c.pipe])
    <3>1. c.pipe \in Upipes /\ c.pipe > u /\ c.pipe <= i /\ up1[c.pipe] = up[c.pipe]
      BY <1>3, <1>4, <2>4
    <3>2. Dir(c.pipe) = d /\ up[c.pipe].life = "live" /\ Empty(up[c.pipe])
      BY <1>8, <2>4 DEF Direction, Plugged
    <3> QED
      BY <3>1, <3>2
  <2> QED
    BY <1>3, <1>5, <1>6, <2>1, <2>2, <2>3, <2>4 DEF Plugged
<1>10. t # "delimiter_received"
  BY <1>5 DEF Direction, Delims
<1>11. ~ HasDelim(up1[u]) /\ Messages(up1[u]) = 0
  <2>1. Len(<<>>) = 0 /\ ~ Delim(<<>>)
    BY DEF Delim
  <2> QED
    BY <1>6, <2>1, MessagesSum DEF Empty, HasDelim
<1>12. Counts(d, s, t, r, up1, u, rd, wr - k, pr)
  <2>1. Counted(s, t, up1[u]) => wr - k = rd + Messages(up1[u])
    <3> SUFFICES ASSUME Counted(s, t, up1[u]) PROVE wr - k = rd
      BY <1>11 DEF Direction, Counts
    <3>1. s \in Calm
      BY <1>10, <1>11 DEF Counted, Calm
    <3>2. k = Messages(up[o])
      BY <1>2, <3>1, DrainedUpipe DEF Direction, Delims
    <3>3. wr = rd + Messages(up[o])
      BY <1>2, <3>1 DEF Direction, Counts, Counted, Calm
    <3> QED
      BY <1>7, <3>2, <3>3 DEF Direction, Counts
  <2>2. s = "active" /\ Hwm[d] > 0 => wr - k - pr <= Hwm[d]
    BY <1>7, PipeNumbers DEF Direction, Counts
  <2> QED
    BY <1>7, <1>8, <2>1, <2>2 DEF Direction, Counts
<1>13. Delims(s, t, up1, u, i)
  <2>1. up1[u].held = <<>> /\ DelimLast(up1[u])
    BY <1>6 DEF Empty, DelimLast
  <2> QED
    BY <1>10, <1>11, <2>1 DEF Delims
<1> QED
  BY <1>2, <1>3, <1>9, <1>12, <1>13 DEF Direction, u, up1, r

\* The reader finds nothing and goes to sleep.
LEMMA ReaderSleeps ==
  ASSUME NEW d, NEW s \in States, NEW t, NEW q \in Seq(Cmds), NEW up \in [Upipes -> Upipe],
         NEW o, NEW i \in Upipes, NEW rd, NEW wr, NEW pr, Direction(d, s, t, q, up, o, i, rd, wr, pr),
         NEW v, v.done = up[i].done, v.held = up[i].held, v.life = up[i].life
  PROVE  Direction(d, s, t, q, [up EXCEPT ![i] = v], o, i, rd, wr, pr)
<1> DEFINE up1 == [up EXCEPT ![i] = v]
<1>1. \A u \in Upipes : up1[u].done = up[u].done /\ up1[u].held = up[u].held /\ up1[u].life = up[u].life
  OBVIOUS
<1> HIDE DEF up1
<1>2. \A u \in Upipes : /\ Empty(up1[u]) <=> Empty(up[u])
                        /\ HasDelim(up1[u]) <=> HasDelim(up[u])
                        /\ DelimLast(up1[u]) <=> DelimLast(up[u])
                        /\ Messages(up1[u]) = Messages(up[u])
  BY <1>1 DEF Empty, HasDelim, DelimLast, Messages
<1>3. \A c \in ToSet(q) : c.type = "hiccup" => c.pipe \in Upipes
  BY HiccupPipes DEF Direction
<1>4. o # NULL => o \in Upipes
  BY DEF Direction, Plugged
<1>5. o = NULL => s \notin Calm /\ s # "term_req_sent1"
  BY DEF Direction, Plugged, Gone, Calm
<1>6. Plugged(d, s, t, q, up1, o, i)
  BY <1>1, <1>2, <1>3, <1>4 DEF Direction, Plugged
<1>7. Counts(d, s, t, q, up1, o, rd, wr, pr)
  <2>1. o # NULL => (Counted(s, t, up1[o]) <=> Counted(s, t, up[o]))
    BY <1>2, <1>4 DEF Counted
  <2> QED
    BY <1>2, <1>4, <2>1 DEF Direction, Counts
<1>8. Delims(s, t, up1, o, i)
  BY <1>1, <1>2, <1>4, <1>5 DEF Direction, Delims
<1> QED
  BY <1>6, <1>7, <1>8 DEF Direction, up1

\* Where the reader finds something the writer writes, or wrote.
LEMMA ReaderFinds ==
  ASSUME NEW d, NEW s, NEW t, NEW q, NEW up, NEW o, NEW i, Plugged(d, s, t, q, up, o, i),
         t \in {"active", "waiting_for_delimiter"}, Fits(s, t), up[i].done # <<>>
  PROVE  o \in Upipes /\ i = o /\ s \in Calm \cup {"term_req_sent1"}
<1>1. s \in Calm \cup {"term_req_sent1"} /\ s \notin Gone
  BY DEF Fits, Calm, Gone
<1>2. o \in Upipes
  BY <1>1 DEF Plugged
<1>3. ~ \E c \in ToSet(q) : c.type = "hiccup" /\ c.pipe = i
  BY DEF Plugged, Empty
<1> QED
  BY <1>1, <1>2, <1>3, PipeNumbers DEF Plugged

\* The reader reads a part, with it k messages, and may tell the writer.
LEMMA ReaderReads ==
  ASSUME NEW d, NEW s, NEW t \in {"active", "waiting_for_delimiter"}, NEW q \in Seq(Cmds),
         NEW up \in [Upipes -> Upipe], NEW o, NEW i, NEW rd, NEW wr, NEW pr,
         Direction(d, s, t, q, up, o, i, rd, wr, pr), Fits(s, t), up[i].done # <<>>,
         NEW k \in Nat, NEW v \in Upipe, v.life = up[i].life, v.held = up[i].held,
         Messages(up[i]) = Messages(v) + k, HasDelim(v) => HasDelim(up[i]),
         DelimLast(up[i]) => DelimLast(v),
         NEW q1 \in Seq(Cmds), ToSet(q1) \in {ToSet(q), ToSet(q) \cup {ActivateWrite(rd + k)}}
  PROVE  Direction(d, s, t, q1, [up EXCEPT ![i] = v], o, i, rd + k, wr, pr)
<1> DEFINE up1 == [up EXCEPT ![i] = v]
<1>0. Plugged(d, s, t, q, up, o, i)
  BY DEF Direction
<1>1. o \in Upipes /\ i = o /\ s \in Calm \cup {"term_req_sent1"}
  BY <1>0, ReaderFinds
<1>2. up1[o] = v /\ \A u \in Upipes : u # o => up1[u] = up[u]
  BY <1>1
<1> HIDE DEF up1
<1>3. /\ \A c \in ToSet(q1) : c.type = "hiccup" => c \in ToSet(q)
      /\ \A c \in ToSet(q) : c \in ToSet(q1)
      /\ \A c \in ToSet(q1) : c.type = "activate_write" => c \in ToSet(q) \/ c.n = rd + k
  BY CmdFields
<1>4. \A c \in ToSet(q) : c.type = "hiccup" => c.pipe \in Upipes /\ c.pipe # o /\ up1[c.pipe] = up[c.pipe]
  BY <1>2, HiccupPipes DEF Direction
<1>5. Plugged(d, s, t, q1, up1, o, i)
  <2>1. ASSUME NEW c \in ToSet(q1), c.type = "hiccup"
        PROVE  /\ c.pipe > o /\ c.pipe <= i /\ Dir(c.pipe) = d
               /\ up1[c.pipe].life = "live" /\ Empty(up1[c.pipe])
    BY <1>3, <1>4, <2>1 DEF Direction, Plugged
  <2> QED
    BY <1>1, <1>2, <2>1 DEF Direction, Plugged
<1>6. Counts(d, s, t, q1, up1, o, rd + k, wr, pr)
  <2>1. Counted(s, t, v) => Counted(s, t, up[o])
    BY <1>1 DEF Counted
  <2>2. Messages(v) \in Nat /\ Messages(up[o]) = Messages(v) + k
    BY <1>1, MessagesSum
  <2>3. o # NULL
    BY <1>1, PipeNumbers
  <2>4. Counted(s, t, up1[o]) => wr = (rd + k) + Messages(up1[o])
    BY <1>2, <2>1, <2>2, <2>3 DEF Direction, Counts
  <2>5. \A c \in ToSet(q1) : c.type = "activate_write" => pr <= c.n /\ c.n <= rd + k
    <3>1. \A c \in ToSet(q) : c.type = "activate_write" => c.n \in Nat
      BY Sent, CmdFields
    <3> QED
      BY <1>3, <3>1 DEF Direction, Counts
  <2> QED
    BY <2>4, <2>5 DEF Direction, Counts
<1>7. Delims(s, t, up1, o, i)
  BY <1>1, <1>2 DEF Direction, Delims
<1> QED
  BY <1>5, <1>6, <1>7 DEF Direction, up1

\* The reader reads the delimiter, and has then read everything.
LEMMA ReaderDelimited ==
  ASSUME NEW d, NEW s, NEW t \in {"active", "waiting_for_delimiter"}, NEW q \in Seq(Cmds),
         NEW up \in [Upipes -> Upipe], NEW o, NEW i, NEW rd, NEW wr, NEW pr,
         Direction(d, s, t, q, up, o, i, rd, wr, pr), Fits(s, t), up[i].done # <<>>,
         HasDelim(up[i]), NEW v \in Upipe, v.life = up[i].life, v.held = up[i].held,
         Messages(up[i]) = Messages(v), DelimLast(up[i]) => v.done = <<>>
  PROVE  Direction(d, s, "delimiter_received", q, [up EXCEPT ![i] = v], o, i, rd, wr, pr)
<1> DEFINE up1 == [up EXCEPT ![i] = v]
<1>0. Plugged(d, s, t, q, up, o, i)
  BY DEF Direction
<1>1. o \in Upipes /\ i = o /\ s \in Calm \cup {"term_req_sent1"} /\ o # NULL
  BY <1>0, ReaderFinds, PipeNumbers
<1>2. up1[o] = v /\ \A u \in Upipes : u # o => up1[u] = up[u]
  BY <1>1
<1> HIDE DEF up1
<1>3. s = "term_req_sent1"
  BY <1>1 DEF Direction, Delims
<1>4. v.held = <<>> /\ v.done = <<>>
  BY <1>1, <1>3 DEF Direction, Delims
<1>5. \A c \in ToSet(q) : c.type = "hiccup" => c.pipe \in Upipes /\ c.pipe # o /\ up1[c.pipe] = up[c.pipe]
  BY <1>2, HiccupPipes DEF Direction
<1>6. Plugged(d, s, "delimiter_received", q, up1, o, i)
  BY <1>1, <1>2, <1>5 DEF Direction, Plugged
<1>7. Counts(d, s, "delimiter_received", q, up1, o, rd, wr, pr)
  <2>1. wr = rd + Messages(up[o])
    BY <1>1, <1>3 DEF Direction, Counts, Counted
  <2> QED
    BY <1>1, <1>2, <2>1 DEF Direction, Counts
<1>8. Delims(s, "delimiter_received", up1, o, i)
  BY <1>1, <1>2, <1>3, <1>4 DEF Delims, Calm, Empty, DelimLast
<1> QED
  BY <1>6, <1>7, <1>8 DEF Direction, up1

\* The reader changes its upipe.
LEMMA ReaderHiccups ==
  ASSUME NEW d, NEW s \in States, NEW q \in Seq(Cmds),
         NEW up \in [Upipes -> Upipe], NEW o, NEW i, NEW rd, NEW wr, NEW pr,
         Direction(d, s, "active", q, up, o, i, rd, wr, pr),
         NEW u \in Upipes, u > i, Dir(u) = d
  PROVE  /\ \A c \in ToSet(q) : c.type = "hiccup" => c.pipe < u
         /\ Direction(d, s, "active", Append(q, Hiccup(u)), [up EXCEPT ![u] = Fresh], o, u, rd, wr, pr)
<1> DEFINE up1 == [up EXCEPT ![u] = Fresh]
           q1 == Append(q, Hiccup(u))
<1>1. /\ o \in Nat /\ i \in Nat /\ u \in Nat
      /\ \A c \in ToSet(q) : c.type = "hiccup" =>
           c.pipe \in Upipes /\ c.pipe \in Nat /\ c.pipe > o /\ c.pipe <= i /\ c.pipe < u
  BY HiccupPipes, PipeNumbers DEF Direction
<1>2. ToSet(q1) = ToSet(q) \cup {Hiccup(u)} /\ Hiccup(u).type = "hiccup" /\ Hiccup(u).pipe = u
  BY Sent, CmdFields
<1>3. o <= i
  BY <1>1, PipeNumbers DEF Direction, Plugged
<1>4. o # u /\ i # u /\ u # NULL
  BY <1>1, <1>3, PipeNumbers
<1>5. up1[u] = Fresh /\ \A x \in Upipes : x # u => up1[x] = up[x]
  OBVIOUS
<1>6. Fresh.life = "live" /\ Empty(Fresh)
  BY DEF Fresh, Empty
<1> HIDE DEF up1, q1
<1>7. o # NULL => o \in Upipes /\ up1[o] = up[o]
  BY <1>4, <1>5 DEF Direction, Plugged
<1>8. Plugged(d, s, "active", q1, up1, o, u)
  <2>1. ASSUME NEW c \in ToSet(q1), c.type = "hiccup"
        PROVE  /\ c.pipe > o /\ c.pipe <= u /\ Dir(c.pipe) = d
               /\ up1[c.pipe].life = "live" /\ Empty(up1[c.pipe])
    <3>1. CASE c = Hiccup(u)
      BY <1>1, <1>2, <1>3, <1>5, <1>6, <3>1
    <3>2. CASE c \in ToSet(q)
      <4>1. c.pipe \in Upipes /\ c.pipe \in Nat /\ c.pipe > o /\ c.pipe < u /\ c.pipe # u
        BY <1>1, <2>1, <3>2
      <4>2. up1[c.pipe] = up[c.pipe]
        BY <1>5, <4>1
      <4> QED
        BY <1>1, <2>1, <3>2, <4>1, <4>2 DEF Direction, Plugged
    <3> QED
      BY <1>2, <3>1, <3>2
  <2>2. \E c \in ToSet(q1) : c.type = "hiccup" /\ c.pipe = u
    BY <1>2
  <2> QED
    BY <1>4, <1>5, <1>6, <1>7, <2>1, <2>2 DEF Direction, Plugged
<1>9. Counts(d, s, "active", q1, up1, o, rd, wr, pr)
  <2>1. \A c \in ToSet(q1) : c.type = "activate_write" => c \in ToSet(q)
    BY <1>2
  <2> QED
    BY <1>7, <2>1 DEF Direction, Counts
<1>10. Delims(s, "active", up1, o, u)
  <2>1. o = NULL => s \notin Calm /\ s # "term_req_sent1"
    BY DEF Direction, Plugged, Gone, Calm
  <2> QED
    BY <1>7, <2>1 DEF Direction, Delims
<1> QED
  BY <1>1, <1>8, <1>9, <1>10 DEF Direction, up1, q1

\* The reader's state changes otherwise.
LEMMA ReaderMoves ==
  ASSUME NEW d, NEW s, NEW t, NEW q, NEW up, NEW o, NEW i, NEW rd, NEW wr, NEW pr,
         Direction(d, s, t, q, up, o, i, rd, wr, pr), t # "deleted",
         NEW t1, t1 \notin {"deleted", "delimiter_received"}
  PROVE  Direction(d, s, t1, q, up, o, i, rd, wr, pr)
<1>1. Plugged(d, s, t1, q, up, o, i)
  BY DEF Direction, Plugged
<1>2. Counts(d, s, t1, q, up, o, rd, wr, pr)
  BY DEF Direction, Counts, Counted
<1>3. Delims(s, t1, up, o, i)
  BY DEF Direction, Delims
<1> QED
  BY <1>1, <1>2, <1>3 DEF Direction

\* The reader is deallocated with its upipe, after the writer let go of it.
LEMMA ReaderGoes ==
  ASSUME NEW d, NEW s \in Gone, NEW t, NEW q \in Seq(Cmds), NEW up, NEW o, NEW i, NEW rd, NEW wr, NEW pr,
         Direction(d, s, t, q, up, o, i, rd, wr, pr), ~ Has(q, "hiccup"), NEW up1
  PROVE  Direction(d, s, "deleted", q, up1, o, NULL, rd, wr, pr)
<1>1. o = NULL
  BY DEF Direction, Plugged
<1>2. Plugged(d, s, "deleted", q, up1, o, NULL)
  BY <1>1 DEF Direction, Plugged, Has
<1>3. Counts(d, s, "deleted", q, up1, o, rd, wr, pr)
  BY <1>1 DEF Direction, Counts
<1>4. Delims(s, "deleted", up1, o, NULL)
  BY DEF Delims, Calm, Gone
<1> QED
  BY <1>2, <1>3, <1>4 DEF Direction

-----------------------------------------------------------------------------
(* The invariant: both ends end together, both directions are in order.    *)

\* An upipe that no hiccup has created yet is later than all in use.
Unborns(up, i) ==
  \A u \in Upipes : up[u].life = "unborn" => up[u] = Unborn /\ u > 2 /\ u > i

Ending(e) == TermEnd(state[e], state[Peer(e)], cmds[e])

Writing(e) == Direction(e, state[e], state[Peer(e)], cmds[e], upipe, outpipe[e], inpipe[Peer(e)],
                        msgs_read[Peer(e)], msgs_written[e], peers_msgs_read[e])

PipeTypes ==
  /\ state \in [Ends -> States] /\ cmds \in [Ends -> Seq(Cmds)]
  /\ inpipe \in [Ends -> {NULL} \cup Upipes] /\ outpipe \in [Ends -> {NULL} \cup Upipes]
  /\ msgs_read \in [Ends -> Nat] /\ peers_msgs_read \in [Ends -> Nat]
  /\ msgs_written \in [Ends -> Int] /\ upipe \in [Upipes -> Upipe]

PipeInv ==
  /\ PipeTypes
  /\ \A e \in Ends : Ending(e) /\ Writing(e)
  /\ Unborns(upipe, inpipe["session"])

\* There are two ends, each the other's peer.
LEMMA TwoEnds ==
  /\ "session" \in Ends /\ "socket" \in Ends
  /\ \A e \in Ends : /\ Peer(e) \in Ends /\ Peer(e) # e /\ Peer(Peer(e)) = e
                     /\ \A x \in Ends : x = e \/ x = Peer(e)
BY DEF Ends, Peer

\* What the invariant says of an end e and its peer f.
LEMMA Known ==
  ASSUME PipeInv, NEW e \in Ends, NEW f, f = Peer(e)
  PROVE  /\ f \in Ends /\ f # e /\ Peer(f) = e /\ \A x \in Ends : x = e \/ x = f
         /\ state \in [Ends -> States] /\ cmds \in [Ends -> Seq(Cmds)]
         /\ upipe \in [Upipes -> Upipe]
         /\ state[e] \in States /\ state[f] \in States
         /\ cmds[e] \in Seq(Cmds) /\ cmds[f] \in Seq(Cmds)
         /\ TermEnd(state[e], state[f], cmds[e]) /\ TermEnd(state[f], state[e], cmds[f])
         /\ Direction(e, state[e], state[f], cmds[e], upipe, outpipe[e], inpipe[f],
                      msgs_read[f], msgs_written[e], peers_msgs_read[e])
         /\ Direction(f, state[f], state[e], cmds[f], upipe, outpipe[f], inpipe[e],
                      msgs_read[e], msgs_written[f], peers_msgs_read[f])
<1>1. f \in Ends /\ f # e /\ Peer(f) = e /\ \A x \in Ends : x = e \/ x = f
  BY TwoEnds
<1>2. /\ state \in [Ends -> States] /\ cmds \in [Ends -> Seq(Cmds)]
      /\ upipe \in [Upipes -> Upipe]
  BY DEF PipeInv, PipeTypes
<1>3. /\ state[e] \in States /\ state[f] \in States
      /\ cmds[e] \in Seq(Cmds) /\ cmds[f] \in Seq(Cmds)
  BY <1>1, <1>2
<1>4. Ending(e) /\ Ending(f) /\ Writing(e) /\ Writing(f)
  BY <1>1 DEF PipeInv
<1> QED
  BY <1>1, <1>2, <1>3, <1>4 DEF Ending, Writing

\* What has to be shown of them after a step.
LEMMA Kept ==
  ASSUME NEW e \in Ends, NEW f, f = Peer(e), PipeTypes',
         TermEnd(state'[e], state'[f], cmds'[e]), TermEnd(state'[f], state'[e], cmds'[f]),
         Direction(e, state'[e], state'[f], cmds'[e], upipe', outpipe'[e], inpipe'[f],
                   msgs_read'[f], msgs_written'[e], peers_msgs_read'[e]),
         Direction(f, state'[f], state'[e], cmds'[f], upipe', outpipe'[f], inpipe'[e],
                   msgs_read'[e], msgs_written'[f], peers_msgs_read'[f]),
         Unborns(upipe', inpipe'["session"])
  PROVE  PipeInv'
<1>1. f \in Ends /\ Peer(f) = e /\ \A x \in Ends : x = e \/ x = f
  BY TwoEnds
<1>2. Ending(e)' /\ Writing(e)'
  BY DEF Ending, Writing
<1>3. Ending(f)' /\ Writing(f)'
  BY <1>1 DEF Ending, Writing
<1>4. \A x \in Ends : Ending(x)' /\ Writing(x)'
  BY <1>1, <1>2, <1>3
<1> QED
  BY <1>4 DEF PipeInv

\* A new value for an upipe that is or was in use.
LEMMA UnbornsKept ==
  ASSUME NEW up \in [Upipes -> Upipe], NEW i, Unborns(up, i), NEW x \in Upipes,
         NEW v \in Upipe, v.life # "unborn"
  PROVE  [up EXCEPT ![x] = v] \in [Upipes -> Upipe] /\ Unborns([up EXCEPT ![x] = v], i)
BY DEF Unborns

\* Sending a list of commands is appending them.
LEMMA Joined ==
  ASSUME NEW q \in Seq(Cmds), NEW a \in Cmds, NEW w \in Seq(Cmds)
  PROVE  /\ q \o <<>> = q /\ <<>> \o w = w /\ q \o <<a>> = Append(q, a)
         /\ q \o (<<a>> \o w) = Append(q, a) \o w
<1>1. <<a>> \in Seq(Cmds) /\ <<>> \in Seq(Cmds)
  OBVIOUS
<1>2. q \o <<>> = q /\ <<>> \o w = w
  BY ConcatEmptySeq
<1>3. q \o <<a>> = Append(q, a)
  BY AppendIsConcat
<1>4. q \o (<<a>> \o w) = (q \o <<a>>) \o w
  BY <1>1, ConcatAssociative
<1> QED
  BY <1>2, <1>3, <1>4

\* The invariant is strong enough.
LEMMA InvSafe ==
  ASSUME PipeInv
  PROVE  PipeSafe
<1> SUFFICES ASSUME NEW e \in Ends
             PROVE  /\ \A i \in 1 .. Len(cmds[e]) :
                         LET c == cmds[e][i] IN
                         /\ i = 1 /\ c.type = "pipe_term" =>
                              state[e] \in {"active", "delimiter_received", "term_req_sent1"}
                         /\ i = 1 /\ c.type = "pipe_term_ack" =>
                              state[e] \in {"term_req_sent1", "term_req_sent2", "term_ack_sent"}
                         /\ i = 1 /\ c.type = "hiccup" => outpipe[e] # NULL
                    /\ state[e] = "deleted" => cmds[e] = <<>>
                    /\ state[e] = "deleted" /\ state[Peer(e)] # "deleted" =>
                         TermAck \in ToSet(cmds[Peer(e)]) /\ outpipe[Peer(e)] = NULL
                    /\ state[e] # "deleted" => In(e).life = "live"
                    /\ outpipe[e] # NULL => Out(e).life = "live"
                    /\ Hwm[e] > 0 /\ state[e] = "active" =>
                         /\ Messages(Out(e)) <= Hwm[e]
                         /\ msgs_written[e] - peers_msgs_read[e] \in 0 .. Hwm[e]
                    /\ state[e] = "delimiter_received" /\ state[Peer(e)] # "deleted" =>
                         msgs_read[e] = msgs_written[Peer(e)]
  BY DEF PipeSafe, HandlersAssert, NoDanglingReferences, HwmRespected, DelimiterAfterAll
<1> DEFINE f == Peer(e)
           s == state[e]
           t == state[f]
           q == cmds[e]
           r == cmds[f]
           o == outpipe[e]
<1>1. /\ q \in Seq(Cmds) /\ r \in Seq(Cmds) /\ s \in States /\ t \in States
      /\ TermEnd(s, t, q) /\ TermEnd(t, s, r) /\ upipe \in [Upipes -> Upipe]
      /\ Direction(e, s, t, q, upipe, o, inpipe[f], msgs_read[f], msgs_written[e], peers_msgs_read[e])
      /\ Direction(f, t, s, r, upipe, outpipe[f], inpipe[e], msgs_read[e], msgs_written[f],
                   peers_msgs_read[f])
  BY Known
<1> HIDE DEF f, s, t, q, r, o
<1>2. ASSUME NEW i \in 1 .. Len(q), i = 1
      PROVE  /\ q[i].type = "pipe_term" => s \in {"active", "delimiter_received", "term_req_sent1"}
             /\ q[i].type = "pipe_term_ack" =>
                  s \in {"term_req_sent1", "term_req_sent2", "term_ack_sent"}
             /\ q[i].type = "hiccup" => o # NULL
  <2>1. q # <<>> /\ q[i] = Head(q) /\ q[i] \in ToSet(q)
    <3>1. q # <<>>
      BY <1>1, <1>2
    <3> QED
      BY <1>1, <1>2, <3>1, HeadTailProperties, Received
  <2>2. q[i].type = "pipe_term" => s \in {"active", "delimiter_received", "term_req_sent1"}
    BY <1>1, <2>1 DEF TermEnd, Has, Calm
  <2>3. q[i].type = "pipe_term_ack" => s \in {"term_req_sent1", "term_req_sent2", "term_ack_sent"}
    BY <1>1, <2>1, TermAcked
  <2>4. q[i].type = "hiccup" => s \notin Gone
    BY <1>1, <2>1 DEF TermEnd, Gone
  <2>5. s \notin Gone => o # NULL
    BY <1>1 DEF Direction, Plugged
  <2> QED
    BY <2>2, <2>3, <2>4, <2>5
<1>3. s = "deleted" => q = <<>>
  BY <1>1 DEF TermEnd
<1>4. ASSUME s = "deleted", t # "deleted" PROVE TermAck \in ToSet(r) /\ outpipe[f] = NULL
  <2>1. t \in Gone
    BY <1>1, <1>4 DEF TermEnd, Fits, Calm, Gone
  <2>2. Has(r, "pipe_term_ack")
    BY <1>1, <1>4 DEF TermEnd, Gone
  <2>3. ToSet(r) \subseteq Cmds
    BY <1>1, Sent, CmdFields
  <2> QED
    BY <1>1, <2>1, <2>2, <2>3, CmdFields DEF Has, Direction, Plugged
<1>5. /\ s # "deleted" => upipe[inpipe[e]].life = "live"
      /\ o # NULL => upipe[o].life = "live"
  BY <1>1 DEF Direction, Plugged
<1>6. ASSUME Hwm[e] > 0, s = "active"
      PROVE  /\ Messages(upipe[o]) <= Hwm[e]
             /\ msgs_written[e] - peers_msgs_read[e] \in 0 .. Hwm[e]
  <2>1. o \in Upipes /\ o # NULL
    BY <1>1, <1>6, PipeNumbers DEF Direction, Plugged, Gone
  <2>2. Messages(upipe[o]) \in Nat /\ Hwm[e] \in Nat
    <3>1. upipe[o] \in Upipe
      BY <1>1, <2>1
    <3>2. Messages(upipe[o]) \in Nat
      BY <3>1, MessagesSum
    <3> QED
      BY <3>2, PipeNumbers
  <2> QED
    BY <1>1, <1>6, <2>1, <2>2, SMTT(40) DEF Direction, Counts, Counted
<1>7. ASSUME s = "delimiter_received" PROVE msgs_read[e] = msgs_written[f]
  <2>1. t = "term_req_sent1" /\ Empty(upipe[outpipe[f]]) /\ outpipe[f] \in Upipes /\ outpipe[f] # NULL
    BY <1>1, <1>7, PipeNumbers DEF Direction, Delims, Plugged, Gone
  <2>2. Messages(upipe[outpipe[f]]) = 0
    BY <1>1, <2>1, MessagesSum
  <2> QED
    BY <1>1, <1>7, <2>1, <2>2 DEF Direction, Counts, Counted
<1> QED
  BY <1>2, <1>3, <1>4, <1>5, <1>6, <1>7 DEF In, Out, f, s, t, q, r, o

\* Upipes that are new, to come, and gone.
LEMMA NewUpipes ==
  /\ Fresh \in Upipe /\ Fresh.life = "live" /\ Empty(Fresh)
  /\ Unborn \in Upipe /\ Unborn.life = "unborn"
  /\ Deleted \in Upipe /\ Deleted.life = "deleted"
<1>1. <<>> \in Seq(Items)
  OBVIOUS
<1>2. Fresh \in Upipe /\ Fresh.life = "live" /\ Empty(Fresh)
  BY <1>1 DEF Fresh, Upipe, Lives, Empty
<1>3. /\ Unborn = [done |-> <<>>, held |-> <<>>, asleep |-> FALSE, life |-> "unborn"]
      /\ Deleted = [done |-> <<>>, held |-> <<>>, asleep |-> FALSE, life |-> "deleted"]
  <2>1. Fresh = [done |-> <<>>, held |-> <<>>, asleep |-> FALSE, life |-> "live"]
    BY DEF Fresh
  <2>2. /\ Unborn = [Fresh EXCEPT !.life = "unborn"]
        /\ Deleted = [Fresh EXCEPT !.life = "deleted"]
    BY DEF Unborn, Deleted
  <2> QED
    BY <2>1, <2>2
<1>4. Unborn \in Upipe /\ Unborn.life = "unborn"
  BY <1>1, <1>3 DEF Upipe, Lives
<1>5. Deleted \in Upipe /\ Deleted.life = "deleted"
  BY <1>1, <1>3 DEF Upipe, Lives
<1> QED
  BY <1>2, <1>4, <1>5

\* pipepair () establishes the invariant.
LEMMA InvInit ==
  ASSUME Init
  PROVE  PipeInv
<1>1. \A u \in Upipes : u \in Nat /\ u > 0 /\ 1 \in Upipes /\ 2 \in Upipes
  BY PipeNumbers
<1>2. Fresh \in Upipe /\ Unborn \in Upipe /\ Fresh.life = "live" /\ Empty(Fresh) /\ Unborn.life = "unborn"
  BY NewUpipes
<1>3. \A u \in Upipes : upipe[u] = IF u <= 2 THEN Fresh ELSE Unborn
  BY DEF Init
<1>4. PipeTypes
  <2>1. upipe \in [Upipes -> Upipe]
    BY <1>2 DEF Init
  <2> QED
    BY <2>1, PipeNumbers DEF Init, PipeTypes, States
<1>5. ~ HasDelim(Fresh) /\ Messages(Fresh) = 0
  BY <1>2, MessagesSum DEF HasDelim, Delim, Empty
<1>6. ToSet(<<>>) = {}
  BY DEF ToSet
<1>7. ASSUME NEW e \in Ends PROVE Ending(e)
  <2>1. state[e] = "active" /\ state[Peer(e)] = "active" /\ cmds[e] = <<>>
    BY TwoEnds DEF Init
  <2> QED
    BY <1>6, <2>1 DEF Ending, TermEnd, Fits, Calm, Gone, States, Has, Ordered
<1>8. ASSUME NEW e \in Ends PROVE Writing(e)
  <2> DEFINE o == IF e = "session" THEN 2 ELSE 1
  <2>1. /\ state[e] = "active" /\ state[Peer(e)] = "active" /\ cmds[e] = <<>>
        /\ msgs_read[Peer(e)] = 0 /\ msgs_written[e] = 0 /\ peers_msgs_read[e] = 0
    BY TwoEnds DEF Init
  <2>2. outpipe[e] = o /\ inpipe[Peer(e)] = o
    BY DEF Init, Peer, Ends
  <2>3. o \in Upipes /\ o # NULL /\ upipe[o] = Fresh /\ Dir(o) = e
    BY <1>1, <1>3, PipeNumbers DEF Dir, Ends
  <2> HIDE DEF o
  <2>4. Plugged(e, "active", "active", <<>>, upipe, o, o)
    BY <1>2, <1>6, <2>3 DEF Plugged, Gone
  <2>5. Counts(e, "active", "active", <<>>, upipe, o, 0, 0, 0)
    BY <1>5, <1>6, <2>3, PipeNumbers DEF Counts
  <2>6. Delims("active", "active", upipe, o, o)
    BY <1>5, <2>3 DEF Delims
  <2> QED
    BY <2>1, <2>2, <2>4, <2>5, <2>6 DEF Writing, Direction
<1>9. Unborns(upipe, inpipe["session"])
  BY <1>1, <1>2, <1>3 DEF Init, Unborns, Ends
<1> QED
  BY <1>4, <1>7, <1>8, <1>9 DEF PipeInv

-----------------------------------------------------------------------------
(* Every step keeps the invariant.  The end that acts is e, its peer f.    *)

\* An end that is there has a live upipe to read, and one to write until it lets go.
LEMMA UpipesInUse ==
  ASSUME PipeInv, NEW e \in Ends, NEW f, f = Peer(e)
  PROVE  /\ state[e] # "deleted" =>
              /\ inpipe[e] \in Upipes /\ Dir(inpipe[e]) = f
              /\ upipe[inpipe[e]] \in Upipe /\ upipe[inpipe[e]].life = "live"
         /\ outpipe[e] # NULL =>
              /\ outpipe[e] \in Upipes /\ Dir(outpipe[e]) = e /\ state[e] \notin Gone
              /\ upipe[outpipe[e]] \in Upipe /\ upipe[outpipe[e]].life = "live"
         /\ state[e] \notin Gone => outpipe[e] # NULL
<1>1. /\ upipe \in [Upipes -> Upipe]
      /\ Direction(e, state[e], state[f], cmds[e], upipe, outpipe[e], inpipe[f],
                   msgs_read[f], msgs_written[e], peers_msgs_read[e])
      /\ Direction(f, state[f], state[e], cmds[f], upipe, outpipe[f], inpipe[e],
                   msgs_read[e], msgs_written[f], peers_msgs_read[f])
  BY Known
<1> QED
  BY <1>1 DEF Direction, Plugged

\* check_read () or read () of an empty pipe.
LEMMA readEmptyKeeps ==
  ASSUME PipeInv, NEW e \in Ends, readEmpty(e)
  PROVE  PipeInv'
<1> DEFINE f == Peer(e)
           i == inpipe[e]
           v == [upipe[i] EXCEPT !.asleep = TRUE]
           up1 == [upipe EXCEPT ![i] = v]
<1>1. /\ state[e] # "deleted" /\ upipe' = up1
      /\ UNCHANGED <<state, inpipe, outpipe, msgs_read, msgs_written, peers_msgs_read, cmds>>
  BY DEF readEmpty, Readable, flow
<1>2. /\ f \in Ends /\ f # e
      /\ upipe \in [Upipes -> Upipe]
      /\ state[e] \in States /\ state[f] \in States
      /\ cmds[e] \in Seq(Cmds) /\ cmds[f] \in Seq(Cmds)
      /\ TermEnd(state[e], state[f], cmds[e]) /\ TermEnd(state[f], state[e], cmds[f])
      /\ Direction(e, state[e], state[f], cmds[e], upipe, outpipe[e], inpipe[f],
                   msgs_read[f], msgs_written[e], peers_msgs_read[e])
      /\ Direction(f, state[f], state[e], cmds[f], upipe, outpipe[f], i,
                   msgs_read[e], msgs_written[f], peers_msgs_read[f])
  BY Known
<1>3. i \in Upipes /\ Dir(i) = f /\ upipe[i] \in Upipe /\ upipe[i].life = "live"
  BY <1>1, UpipesInUse
<1> HIDE DEF f, i
<1>4. v \in Upipe /\ v.done = upipe[i].done /\ v.held = upipe[i].held /\ v.life = upipe[i].life
  BY <1>3 DEF Upipe
<1> HIDE DEF v
<1>5. up1 \in [Upipes -> Upipe] /\ Unborns(up1, inpipe["session"])
  BY <1>2, <1>3, <1>4, UnbornsKept DEF PipeInv
<1>6. \A u \in Upipes : Dir(u) = e => up1[u] = upipe[u]
  BY <1>2, <1>3
<1>7. Direction(f, state[f], state[e], cmds[f], up1, outpipe[f], i,
                msgs_read[e], msgs_written[f], peers_msgs_read[f])
  BY <1>2, <1>3, <1>4, ReaderSleeps
<1> HIDE DEF up1
<1>8. Direction(e, state[e], state[f], cmds[e], up1, outpipe[e], inpipe[f],
                msgs_read[f], msgs_written[e], peers_msgs_read[e])
  BY <1>2, <1>6, OtherUpipes
<1>9. PipeTypes'
  BY <1>1, <1>5 DEF PipeInv, PipeTypes
<1> QED
  BY <1>1, <1>2, <1>5, <1>7, <1>8, <1>9, Kept DEF f, i

\* read () of a message part, which may tell the writer how much was read.
LEMMA readKeeps ==
  ASSUME PipeInv, NEW e \in Ends, read(e)
  PROVE  PipeInv'
<1> DEFINE f == Peer(e)
           i == inpipe[e]
           p == upipe[i]
           v == [p EXCEPT !.done = Tail(@)]
           up1 == [upipe EXCEPT ![i] = v]
           k == IF Head(p.done) = "last" THEN 1 ELSE 0
           n == msgs_read[e] + k
           q == cmds[f]
           q1 == cmds'[f]
<1>1. /\ state[e] \in {"active", "waiting_for_delimiter"} /\ upipe' = up1 /\ p.done # <<>>
      /\ UNCHANGED <<state, inpipe, outpipe, msgs_written, peers_msgs_read>>
      /\ msgs_read' = [msgs_read EXCEPT ![e] = n]
      /\ cmds' = cmds \/ cmds' = [cmds EXCEPT ![f] = q \o <<ActivateWrite(n)>>]
  <2>1. cmds' = IF Lwm(e) > 0 /\ n % Lwm(e) = 0
                THEN Send(f, <<[type |-> "activate_write", n |-> n]>>) ELSE cmds
    BY DEF read, In
  <2>2. cmds' = cmds \/ cmds' = [cmds EXCEPT ![f] = q \o <<ActivateWrite(n)>>]
    BY <2>1 DEF Send, ActivateWrite
  <2> QED
    BY <2>2 DEF read, Readable, In
<1>2. /\ f \in Ends /\ f # e
      /\ upipe \in [Upipes -> Upipe] /\ cmds \in [Ends -> Seq(Cmds)]
      /\ state[e] \in States /\ state[f] \in States
      /\ cmds[e] \in Seq(Cmds) /\ q \in Seq(Cmds)
      /\ TermEnd(state[e], state[f], cmds[e]) /\ TermEnd(state[f], state[e], q)
      /\ Direction(e, state[e], state[f], cmds[e], upipe, outpipe[e], inpipe[f],
                   msgs_read[f], msgs_written[e], peers_msgs_read[e])
      /\ Direction(f, state[f], state[e], q, upipe, outpipe[f], i,
                   msgs_read[e], msgs_written[f], peers_msgs_read[f])
  BY Known
<1>3. i \in Upipes /\ Dir(i) = f /\ p \in Upipe /\ p.life = "live"
  BY <1>1, UpipesInUse
<1>4. /\ v \in Upipe /\ v.life = p.life /\ v.held = p.held /\ Messages(p) = Messages(v) + k
      /\ HasDelim(v) => HasDelim(p)
      /\ DelimLast(p) => DelimLast(v)
  BY <1>1, <1>3, ReadUpipe
<1>5. msgs_read \in [Ends -> Nat] /\ msgs_read[e] \in Nat /\ k \in Nat /\ n \in Nat
  BY DEF PipeInv, PipeTypes
<1>6. /\ up1 \in [Upipes -> Upipe] /\ Unborns(up1, inpipe["session"])
      /\ \A u \in Upipes : Dir(u) = e => up1[u] = upipe[u]
  <2>1. v.life # "unborn"
    BY <1>3, <1>4
  <2>2. up1 \in [Upipes -> Upipe] /\ Unborns(up1, inpipe["session"])
    BY <1>2, <1>3, <1>4, <2>1, UnbornsKept DEF PipeInv
  <2> QED
    BY <1>2, <1>3, <2>2
<1> HIDE DEF f, i, p, v, k, q
<1>7. /\ msgs_read' \in [Ends -> Nat] /\ msgs_read'[e] = n /\ msgs_read'[f] = msgs_read[f]
  BY <1>1, <1>2, <1>5
<1>8. /\ cmds' \in [Ends -> Seq(Cmds)] /\ cmds'[e] = cmds[e] /\ q1 \in Seq(Cmds)
      /\ q1 = q \/ q1 = Append(q, ActivateWrite(n))
  <2>1. CASE cmds' = cmds
    BY <1>2, <2>1 DEF q
  <2>2. CASE cmds' = [cmds EXCEPT ![f] = q \o <<ActivateWrite(n)>>]
    <3>1. ActivateWrite(n) \in Cmds
      BY <1>5, CmdFields
    <3>2. q \o <<ActivateWrite(n)>> = Append(q, ActivateWrite(n))
      BY <1>2, <3>1, Joined
    <3>3. Append(q, ActivateWrite(n)) \in Seq(Cmds)
      BY <1>2, <3>1, Sent
    <3> QED
      BY <1>2, <2>2, <3>2, <3>3
  <2> QED
    BY <1>1, <2>1, <2>2
<1> HIDE DEF q1, n
<1>9. ToSet(q1) \in {ToSet(q), ToSet(q) \cup {ActivateWrite(n)}}
  <2>1. ActivateWrite(n) \in Cmds
    BY <1>5, CmdFields
  <2> QED
    BY <1>2, <1>8, <2>1, Sent
<1>10. TermEnd(state[f], state[e], q1)
  <2>1. CASE q1 = q
    BY <1>2, <2>1
  <2>2. CASE q1 = Append(q, ActivateWrite(n))
    <3>1. /\ ActivateWrite(n) \in Cmds /\ ActivateWrite(n).type = "activate_write"
          /\ ActivateWrite(n).n = n
      BY <1>5, CmdFields
    <3>2. ASSUME NEW d \in ToSet(q), d.type = "activate_write" PROVE d.n <= n
      <4>1. d.n \in Nat
        BY <1>2, <3>2, Sent, CmdFields
      <4>2. d.n <= msgs_read[e]
        BY <1>2, <3>2 DEF Direction, Counts
      <4> QED
        BY <1>5, <4>1, <4>2 DEF n
    <3> QED
      BY <1>1, <1>2, <2>2, <3>1, <3>2, TermSend
  <2> QED
    BY <1>8, <2>1, <2>2
<1>11. Fits(state[f], state[e])
  BY <1>2 DEF TermEnd
<1>12. Direction(f, state[f], state[e], q1, up1, outpipe[f], i, n, msgs_written[f], peers_msgs_read[f])
  <2>1. /\ upipe[i].done # <<>> /\ v.life = upipe[i].life /\ v.held = upipe[i].held
        /\ Messages(upipe[i]) = Messages(v) + k
        /\ HasDelim(v) => HasDelim(upipe[i])
        /\ DelimLast(upipe[i]) => DelimLast(v)
    BY <1>1, <1>4 DEF p
  <2>2. ToSet(q1) \in {ToSet(q), ToSet(q) \cup {ActivateWrite(msgs_read[e] + k)}}
    BY <1>9 DEF n
  <2>3. /\ state[e] \in {"active", "waiting_for_delimiter"} /\ q \in Seq(Cmds)
        /\ upipe \in [Upipes -> Upipe] /\ k \in Nat /\ v \in Upipe /\ q1 \in Seq(Cmds)
        /\ Direction(f, state[f], state[e], q, upipe, outpipe[f], i,
                     msgs_read[e], msgs_written[f], peers_msgs_read[f])
    BY <1>1, <1>2, <1>4, <1>5, <1>8
  <2>4. Direction(f, state[f], state[e], q1, [upipe EXCEPT ![i] = v], outpipe[f], i,
                  msgs_read[e] + k, msgs_written[f], peers_msgs_read[f])
    BY <1>11, <2>1, <2>2, <2>3, ReaderReads
  <2> QED
    BY <2>4 DEF n
<1> HIDE DEF up1
<1>13. Direction(e, state[e], state[f], cmds[e], up1, outpipe[e], inpipe[f],
                 msgs_read[f], msgs_written[e], peers_msgs_read[e])
  BY <1>2, <1>6, OtherUpipes
<1>14. PipeTypes'
  BY <1>1, <1>6, <1>7, <1>8 DEF PipeInv, PipeTypes
<1> QED
  BY <1>1, <1>2, <1>6, <1>7, <1>8, <1>10, <1>12, <1>13, <1>14, Kept DEF f, i, q1

\* The acknowledgement does not disturb the direction of the end it goes to.
LEMMA AckOnItsWay ==
  ASSUME NEW d, NEW s, NEW t, NEW q \in Seq(Cmds), NEW up, NEW o, NEW i, NEW rd, NEW wr, NEW pr,
         Direction(d, s, t, q, up, o, i, rd, wr, pr)
  PROVE  /\ Append(q, TermAck) \in Seq(Cmds)
         /\ Direction(d, s, t, Append(q, TermAck), up, o, i, rd, wr, pr)
<1>1. /\ TermAck.type = "pipe_term_ack" /\ Append(q, TermAck) \in Seq(Cmds)
      /\ ToSet(Append(q, TermAck)) = ToSet(q) \cup {TermAck}
  BY Sent, CmdFields
<1>2. \A c : c.type = "hiccup" => (c \in ToSet(Append(q, TermAck)) <=> c \in ToSet(q))
  BY <1>1
<1>3. \A c \in ToSet(Append(q, TermAck)) : c.type = "activate_write" => c \in ToSet(q)
  BY <1>1
<1> QED
  BY <1>1, <1>2, <1>3, OtherCommands

\* process_delimiter ().
LEMMA readDelimiterKeeps ==
  ASSUME PipeInv, NEW e \in Ends, readDelimiter(e)
  PROVE  PipeInv'
<1> DEFINE f == Peer(e)
           i == inpipe[e]
           p == upipe[i]
           v == [p EXCEPT !.done = Tail(@)]
           up1 == [upipe EXCEPT ![i] = v]
           q == cmds[f]
<1>1. /\ state[e] \in {"active", "waiting_for_delimiter"} /\ upipe' = up1 /\ p.done # <<>>
      /\ Head(p.done) = "delim"
      /\ UNCHANGED <<inpipe, msgs_read, msgs_written, peers_msgs_read>>
      /\ IF state[e] = "active"
         THEN /\ state' = [state EXCEPT ![e] = "delimiter_received"]
              /\ UNCHANGED <<outpipe, cmds>>
         ELSE /\ state' = [state EXCEPT ![e] = "term_ack_sent"]
              /\ outpipe' = [outpipe EXCEPT ![e] = NULL]
              /\ cmds' = [cmds EXCEPT ![f] = q \o <<TermAck>>]
  BY DEF readDelimiter, Readable, In, Send, flow
<1>2. /\ f \in Ends /\ f # e
      /\ state \in [Ends -> States]
      /\ upipe \in [Upipes -> Upipe] /\ cmds \in [Ends -> Seq(Cmds)]
      /\ state[e] \in States /\ state[f] \in States
      /\ cmds[e] \in Seq(Cmds) /\ q \in Seq(Cmds)
      /\ TermEnd(state[e], state[f], cmds[e]) /\ TermEnd(state[f], state[e], q)
      /\ Direction(e, state[e], state[f], cmds[e], upipe, outpipe[e], inpipe[f],
                   msgs_read[f], msgs_written[e], peers_msgs_read[e])
      /\ Direction(f, state[f], state[e], q, upipe, outpipe[f], i,
                   msgs_read[e], msgs_written[f], peers_msgs_read[f])
  BY Known
<1>3. i \in Upipes /\ Dir(i) = f /\ p \in Upipe /\ p.life = "live"
  BY <1>1, UpipesInUse
<1>4. /\ v \in Upipe /\ v.life = p.life /\ v.held = p.held /\ Messages(p) = Messages(v)
      /\ HasDelim(p)
      /\ DelimLast(p) => v.done = <<>>
  <2>1. /\ v \in Upipe /\ v.life = p.life /\ v.held = p.held
        /\ Messages(p) = Messages(v) + (IF Head(p.done) = "last" THEN 1 ELSE 0)
        /\ HasDelim(p)
        /\ DelimLast(p) => v.done = <<>>
    BY <1>1, <1>3, ReadUpipe
  <2>2. Messages(v) \in Nat
    BY <2>1, MessagesSum
  <2> QED
    BY <1>1, <2>1, <2>2
<1>5. /\ up1 \in [Upipes -> Upipe] /\ Unborns(up1, inpipe["session"])
      /\ \A u \in Upipes : Dir(u) = e => up1[u] = upipe[u]
  <2>1. v.life # "unborn"
    BY <1>3, <1>4
  <2>2. up1 \in [Upipes -> Upipe] /\ Unborns(up1, inpipe["session"])
    BY <1>2, <1>3, <1>4, <2>1, UnbornsKept DEF PipeInv
  <2> QED
    BY <1>2, <1>3, <2>2
<1>6. ASSUME NEW t1 \in {"delimiter_received", "term_ack_sent"}
      PROVE  Direction(f, state[f], t1, q, up1, outpipe[f], i,
                       msgs_read[e], msgs_written[f], peers_msgs_read[f])
  <2>1. /\ upipe[i].done # <<>> /\ v.life = upipe[i].life /\ v.held = upipe[i].held
        /\ Messages(upipe[i]) = Messages(v) /\ HasDelim(upipe[i])
        /\ DelimLast(upipe[i]) => v.done = <<>>
    BY <1>1, <1>4
  <2>2. Fits(state[f], state[e])
    BY <1>2 DEF TermEnd
  <2>3. /\ state[e] \in {"active", "waiting_for_delimiter"} /\ q \in Seq(Cmds)
        /\ upipe \in [Upipes -> Upipe] /\ v \in Upipe
        /\ Direction(f, state[f], state[e], q, upipe, outpipe[f], i,
                     msgs_read[e], msgs_written[f], peers_msgs_read[f])
    BY <1>1, <1>2, <1>4
  <2> HIDE DEF v, f, i, q, p
  <2>4. Direction(f, state[f], "delimiter_received", q, [upipe EXCEPT ![i] = v], outpipe[f], i,
                  msgs_read[e], msgs_written[f], peers_msgs_read[f])
    BY <2>1, <2>2, <2>3, ReaderDelimited
  <2> HIDE DEF up1
  <2>5. Direction(f, state[f], "delimiter_received", q, up1, outpipe[f], i,
                  msgs_read[e], msgs_written[f], peers_msgs_read[f])
    BY <2>4 DEF up1
  <2>6. Direction(f, state[f], "term_ack_sent", q, up1, outpipe[f], i,
                  msgs_read[e], msgs_written[f], peers_msgs_read[f])
    BY <2>5, ReaderMoves
  <2> QED
    BY <2>5, <2>6
<1> HIDE DEF f, i, p, v, q, up1
<1>7. Direction(e, state[e], state[f], cmds[e], up1, outpipe[e], inpipe[f],
                msgs_read[f], msgs_written[e], peers_msgs_read[e])
  BY <1>2, <1>5, OtherUpipes
<1>8. CASE state[e] = "active"
  <2>1. /\ state'[e] = "delimiter_received" /\ state'[f] = state[f] /\ state' \in [Ends -> States]
        /\ cmds' = cmds /\ outpipe' = outpipe
    BY <1>1, <1>2, <1>8 DEF States
  <2>2. TermEnd(state'[e], state'[f], cmds[e]) /\ TermEnd(state'[f], state'[e], q)
    BY <1>2, <1>8, <2>1, TermDelimiter
  <2>3. Direction(e, state'[e], state'[f], cmds[e], up1, outpipe[e], inpipe[f],
                  msgs_read[f], msgs_written[e], peers_msgs_read[e])
    BY <1>7, <1>8, <2>1, WriterStops
  <2>4. PipeTypes'
    BY <1>1, <1>5, <2>1 DEF PipeInv, PipeTypes
  <2> QED
    BY <1>1, <1>5, <1>6, <2>1, <2>2, <2>3, <2>4, Kept DEF f, i, q
<1>9. CASE state[e] = "waiting_for_delimiter"
  <2>1. TermAck \in Cmds /\ q \o <<TermAck>> = Append(q, TermAck)
    BY <1>2, CmdFields, Joined
  <2>2. /\ TermEnd("term_ack_sent", state[f], cmds[e])
        /\ TermEnd(state[f], "term_ack_sent", Append(q, TermAck))
    BY <1>2, <1>9, TermWaited
  <2>3. /\ Append(q, TermAck) \in Seq(Cmds)
        /\ Direction(f, state[f], "term_ack_sent", Append(q, TermAck), up1, outpipe[f], i,
                     msgs_read[e], msgs_written[f], peers_msgs_read[f])
    BY <1>2, <1>6, AckOnItsWay
  <2>4. Direction(e, "term_ack_sent", state[f], cmds[e], up1, NULL, inpipe[f],
                  msgs_read[f], msgs_written[e], peers_msgs_read[e])
    <3>1. state[f] # "delimiter_received" /\ "term_ack_sent" \in Gone
      BY <1>2, <1>9 DEF TermEnd, Fits, Calm, Gone
    <3> QED
      BY <1>2, <1>7, <3>1, WriterGoes
  <2>5. outpipe \in [Ends -> {NULL} \cup Upipes]
    BY DEF PipeInv, PipeTypes
  <2>6. state'[e] = "term_ack_sent" /\ state'[f] = state[f] /\ state' \in [Ends -> States]
    BY <1>1, <1>2, <1>9 DEF States
  <2>7. outpipe'[e] = NULL /\ outpipe'[f] = outpipe[f] /\ outpipe' \in [Ends -> {NULL} \cup Upipes]
    BY <1>1, <1>2, <1>9, <2>5
  <2>8. cmds'[e] = cmds[e] /\ cmds'[f] = Append(q, TermAck) /\ cmds' \in [Ends -> Seq(Cmds)]
    <3>1. cmds' = [cmds EXCEPT ![f] = Append(q, TermAck)]
      BY <1>1, <1>9, <2>1
    <3> QED
      BY <1>2, <2>3, <3>1
  <2>9. PipeTypes'
    BY <1>1, <1>5, <2>6, <2>7, <2>8 DEF PipeInv, PipeTypes
  <2>10. /\ TermEnd(state'[e], state'[f], cmds'[e]) /\ TermEnd(state'[f], state'[e], cmds'[f])
         /\ Direction(e, state'[e], state'[f], cmds'[e], upipe', outpipe'[e], inpipe'[f],
                      msgs_read'[f], msgs_written'[e], peers_msgs_read'[e])
         /\ Direction(f, state'[f], state'[e], cmds'[f], upipe', outpipe'[f], inpipe'[e],
                      msgs_read'[e], msgs_written'[f], peers_msgs_read'[f])
    BY <1>1, <2>2, <2>3, <2>4, <2>6, <2>7, <2>8 DEF i
  <2> QED
    BY <1>1, <1>5, <2>9, <2>10, Kept DEF f
<1> QED
  BY <1>1, <1>8, <1>9

\* A step that changes nothing the invariant is about.
LEMMA OthersKeep ==
  ASSUME PipeInv,
         UNCHANGED <<state, cmds, inpipe, outpipe, msgs_read, msgs_written, peers_msgs_read, upipe>>
  PROVE  PipeInv'
<1>1. PipeTypes'
  BY DEF PipeInv, PipeTypes
<1>2. ASSUME NEW e \in Ends PROVE Ending(e)' /\ Writing(e)'
  <2>1. Ending(e) /\ Writing(e)
    BY DEF PipeInv
  <2> QED
    BY <2>1 DEF Ending, Writing
<1>3. Unborns(upipe, inpipe["session"])'
  BY DEF PipeInv, Unborns
<1> QED
  BY <1>1, <1>2, <1>3 DEF PipeInv

\* A writer that is not done changes its upipe, k messages more.
LEMMA WritesKeep ==
  ASSUME PipeInv, NEW e \in Ends, NEW f, f = Peer(e),
         state[e] \in {"active", "delimiter_received", "waiting_for_delimiter"},
         NEW o, o = outpipe[e], NEW v \in Upipe, NEW k \in Nat,
         v.life = upipe[o].life, Messages(v) = Messages(upipe[o]) + k,
         state[e] \in Calm => ~ HasDelim(v),
         state[e] = "active" /\ Hwm[e] > 0 => msgs_written[e] + k - peers_msgs_read[e] <= Hwm[e],
         NEW up1, up1 = [upipe EXCEPT ![o] = v]
  PROVE  /\ up1 \in [Upipes -> Upipe] /\ Unborns(up1, inpipe["session"])
         /\ Direction(e, state[e], state[f], cmds[e], up1, o, inpipe[f],
                      msgs_read[f], msgs_written[e] + k, peers_msgs_read[e])
         /\ Direction(f, state[f], state[e], cmds[f], up1, outpipe[f], inpipe[e],
                      msgs_read[e], msgs_written[f], peers_msgs_read[f])
<1>1. /\ f \in Ends /\ f # e
      /\ upipe \in [Upipes -> Upipe] /\ state[f] \in States
      /\ cmds[e] \in Seq(Cmds) /\ cmds[f] \in Seq(Cmds)
      /\ Direction(e, state[e], state[f], cmds[e], upipe, o, inpipe[f],
                   msgs_read[f], msgs_written[e], peers_msgs_read[e])
      /\ Direction(f, state[f], state[e], cmds[f], upipe, outpipe[f], inpipe[e],
                   msgs_read[e], msgs_written[f], peers_msgs_read[f])
  BY Known
<1>2. o \in Upipes /\ Dir(o) = e /\ upipe[o] \in Upipe /\ upipe[o].life = "live"
  BY UpipesInUse DEF Gone
<1>3. up1 \in [Upipes -> Upipe] /\ Unborns(up1, inpipe["session"])
  BY <1>1, <1>2, UnbornsKept DEF PipeInv
<1>4. \A u \in Upipes : Dir(u) = f => up1[u] = upipe[u]
  BY <1>1, <1>2
<1>5. Direction(f, state[f], state[e], cmds[f], up1, outpipe[f], inpipe[e],
                msgs_read[e], msgs_written[f], peers_msgs_read[f])
  BY <1>1, <1>4, OtherUpipes, ZenonT(60)
<1>6. Direction(e, state[e], state[f], cmds[e], [upipe EXCEPT ![o] = v], o, inpipe[f],
                msgs_read[f], msgs_written[e] + k, peers_msgs_read[e])
  BY <1>1, WriterWrites
<1> QED
  BY <1>3, <1>5, <1>6

\* write ().
LEMMA writeKeeps ==
  ASSUME PipeInv, NEW e \in Ends, NEW part \in {"more", "last"}, write(e, part)
  PROVE  PipeInv'
<1> DEFINE f == Peer(e)
           o == outpipe[e]
           p == upipe[o]
           v == [p EXCEPT !.held = Append(@, part)]
           up1 == [upipe EXCEPT ![o] = v]
           k == IF part = "last" THEN 1 ELSE 0
<1>1. /\ state[e] = "active" /\ upipe' = up1 /\ ~ Full(e)
      /\ UNCHANGED <<state, cmds, inpipe, outpipe, msgs_read, peers_msgs_read>>
      /\ msgs_written' = [msgs_written EXCEPT ![e] = IF part = "last" THEN @ + 1 ELSE @]
  BY DEF write
<1>2. p \in Upipe /\ ~ HasDelim(p)
  <2>1. p \in Upipe
    BY <1>1, UpipesInUse DEF Gone
  <2>2. ~ HasDelim(p)
    BY <1>1, Known DEF Direction, Delims, Calm
  <2> QED
    BY <2>1, <2>2
<1>3. v \in Upipe /\ v.life = p.life /\ Messages(v) = Messages(p) + k /\ ~ HasDelim(v)
  BY <1>2, WrittenUpipe
<1>4. /\ msgs_written \in [Ends -> Int] /\ peers_msgs_read[e] \in Nat /\ k \in Nat
      /\ msgs_written[e] \in Int /\ Hwm[e] \in Nat
  BY PipeNumbers DEF PipeInv, PipeTypes
<1>5. Hwm[e] > 0 => msgs_written[e] + k - peers_msgs_read[e] <= Hwm[e]
  <2>1. Hwm[e] > 0 => msgs_written[e] - peers_msgs_read[e] <= Hwm[e]
    BY <1>1, Known DEF Direction, Counts
  <2>2. Hwm[e] > 0 => msgs_written[e] - peers_msgs_read[e] # Hwm[e]
    BY <1>1 DEF Full
  <2> QED
    BY <1>4, <2>1, <2>2
<1>6. /\ msgs_written'[e] = msgs_written[e] + k /\ msgs_written' \in [Ends -> Int]
      /\ msgs_written'[f] = msgs_written[f]
  <2>1. (IF part = "last" THEN msgs_written[e] + 1 ELSE msgs_written[e]) = msgs_written[e] + k
    BY <1>4
  <2>2. msgs_written' = [msgs_written EXCEPT ![e] = msgs_written[e] + k]
    BY <1>1, <2>1
  <2> QED
    BY <1>4, <2>2, TwoEnds
<1> HIDE DEF v, k
<1>7. /\ up1 \in [Upipes -> Upipe] /\ Unborns(up1, inpipe["session"])
      /\ Direction(e, state[e], state[f], cmds[e], up1, o, inpipe[f],
                   msgs_read[f], msgs_written[e] + k, peers_msgs_read[e])
      /\ Direction(f, state[f], state[e], cmds[f], up1, outpipe[f], inpipe[e],
                   msgs_read[e], msgs_written[f], peers_msgs_read[f])
  BY <1>1, <1>3, <1>4, <1>5, WritesKeep
<1> HIDE DEF up1, p
<1>8. PipeTypes'
  BY <1>1, <1>6, <1>7 DEF PipeInv, PipeTypes
<1>9. TermEnd(state[e], state[f], cmds[e]) /\ TermEnd(state[f], state[e], cmds[f])
  BY Known
<1> QED
  BY <1>1, <1>6, <1>7, <1>8, <1>9, Kept

\* The same without a new message.
LEMMA RewritesKeep ==
  ASSUME PipeInv, NEW e \in Ends, NEW f, f = Peer(e),
         state[e] \in {"active", "delimiter_received", "waiting_for_delimiter"},
         NEW o, o = outpipe[e], NEW v \in Upipe,
         v.life = upipe[o].life, Messages(v) = Messages(upipe[o]),
         state[e] \in Calm => ~ HasDelim(v),
         NEW up1, up1 = [upipe EXCEPT ![o] = v]
  PROVE  /\ up1 \in [Upipes -> Upipe] /\ Unborns(up1, inpipe["session"])
         /\ Direction(e, state[e], state[f], cmds[e], up1, o, inpipe[f],
                      msgs_read[f], msgs_written[e], peers_msgs_read[e])
         /\ Direction(f, state[f], state[e], cmds[f], up1, outpipe[f], inpipe[e],
                      msgs_read[e], msgs_written[f], peers_msgs_read[f])
<1>1. /\ Messages(v) \in Nat /\ msgs_written[e] \in Int /\ peers_msgs_read[e] \in Nat
      /\ Hwm[e] \in Nat
  BY MessagesSum, PipeNumbers, SMTT(40) DEF PipeInv, PipeTypes
<1>2. Messages(v) = Messages(upipe[o]) + 0 /\ 0 \in Nat /\ msgs_written[e] + 0 = msgs_written[e]
  BY <1>1
<1>3. state[e] = "active" /\ Hwm[e] > 0 => msgs_written[e] - peers_msgs_read[e] <= Hwm[e]
  BY Known DEF Direction, Counts
<1>4. state[e] = "active" /\ Hwm[e] > 0 => msgs_written[e] + 0 - peers_msgs_read[e] <= Hwm[e]
  BY <1>1, <1>3
<1>5. /\ up1 \in [Upipes -> Upipe] /\ Unborns(up1, inpipe["session"])
      /\ Direction(e, state[e], state[f], cmds[e], up1, o, inpipe[f],
                   msgs_read[f], msgs_written[e] + 0, peers_msgs_read[e])
      /\ Direction(f, state[f], state[e], cmds[f], up1, outpipe[f], inpipe[e],
                   msgs_read[e], msgs_written[f], peers_msgs_read[f])
  BY <1>2, <1>4, WritesKeep
<1> QED
  BY <1>2, <1>5

\* rollback ().
LEMMA rollbackKeeps ==
  ASSUME PipeInv, NEW e \in Ends, rollback(e)
  PROVE  PipeInv'
<1> DEFINE f == Peer(e)
           o == outpipe[e]
           p == upipe[o]
           v == RolledBack(p)
           up1 == [upipe EXCEPT ![o] = v]
<1>1. /\ o # NULL /\ v # p /\ upipe' = up1
      /\ UNCHANGED <<state, cmds, inpipe, outpipe, msgs_read, msgs_written, peers_msgs_read>>
  BY DEF rollback, Out, flow
<1>2. p \in Upipe /\ state[e] \in States /\ state[e] \notin Gone
  BY <1>1, UpipesInUse, Known
<1>3. state[e] \in {"active", "delimiter_received", "waiting_for_delimiter"}
  <2>1. ASSUME state[e] = "term_req_sent1" PROVE FALSE
    <3>1. p.held = <<>>
      BY <2>1, Known DEF Direction, Delims
    <3> QED
      BY <1>1, <1>2, <3>1, NothingHeld
  <2> QED
    BY <1>2, <2>1 DEF Gone, States
<1>4. v \in Upipe /\ v.life = p.life /\ Messages(v) = Messages(p) /\ (HasDelim(v) => HasDelim(p))
  BY <1>2, RolledBackUpipe
<1>5. state[e] \in Calm => ~ HasDelim(v)
  BY <1>4, Known DEF Direction, Delims
<1> HIDE DEF v
<1>6. /\ up1 \in [Upipes -> Upipe] /\ Unborns(up1, inpipe["session"])
      /\ Direction(e, state[e], state[f], cmds[e], up1, o, inpipe[f],
                   msgs_read[f], msgs_written[e], peers_msgs_read[e])
      /\ Direction(f, state[f], state[e], cmds[f], up1, outpipe[f], inpipe[e],
                   msgs_read[e], msgs_written[f], peers_msgs_read[f])
  BY <1>3, <1>4, <1>5, RewritesKeep
<1> HIDE DEF up1, p
<1>7. PipeTypes'
  BY <1>1, <1>6 DEF PipeInv, PipeTypes
<1>8. TermEnd(state[e], state[f], cmds[e]) /\ TermEnd(state[f], state[e], cmds[f])
  BY Known
<1> QED
  BY <1>1, <1>6, <1>7, <1>8, Kept

\* The peer of a writer that flushes is woken if need be.
LEMMA Woken ==
  ASSUME NEW d, NEW s, NEW t, NEW q \in Seq(Cmds), NEW up, NEW o, NEW i, NEW rd, NEW wr, NEW pr,
         TermEnd(s, t, q), t \notin Gone, Direction(d, s, t, q, up, o, i, rd, wr, pr),
         NEW w, w \in {<<>>, <<ActivateRead>>}
  PROVE  /\ q \o w \in Seq(Cmds) /\ w \in Seq(Cmds)
         /\ TermEnd(s, t, q \o w)
         /\ Direction(d, s, t, q \o w, up, o, i, rd, wr, pr)
<1>1. ActivateRead \in Cmds /\ ActivateRead.type = "activate_read"
  BY CmdFields
<1>2. CASE w = <<>>
  <2>1. q \o w = q
    BY <1>1, <1>2, Joined
  <2> QED
    BY <1>2, <2>1
<1>3. CASE w = <<ActivateRead>>
  <2>1. q \o w = Append(q, ActivateRead) /\ w \in Seq(Cmds)
    BY <1>1, <1>3, Joined
  <2>2. /\ Append(q, ActivateRead) \in Seq(Cmds)
        /\ ToSet(Append(q, ActivateRead)) = ToSet(q) \cup {ActivateRead}
    BY <1>1, Sent
  <2>3. TermEnd(s, t, Append(q, ActivateRead))
    BY <1>1, TermSend
  <2>4. /\ \A c : c.type = "hiccup" => (c \in ToSet(Append(q, ActivateRead)) <=> c \in ToSet(q))
        /\ \A c \in ToSet(Append(q, ActivateRead)) : c.type = "activate_write" => c \in ToSet(q)
    BY <1>1, <2>2
  <2>5. Direction(d, s, t, Append(q, ActivateRead), up, o, i, rd, wr, pr)
    BY <2>4, OtherCommands
  <2> QED
    BY <2>1, <2>2, <2>3, <2>5
<1> QED
  BY <1>2, <1>3

\* A flush wakes the reader or sends nothing.
LEMMA WakeSends ==
  ASSUME NEW p
  PROVE  Wake(p) \in {<<>>, <<ActivateRead>>}
BY DEF Wake, ActivateRead

\* flush ().
LEMMA flushKeeps ==
  ASSUME PipeInv, NEW e \in Ends, flush(e)
  PROVE  PipeInv'
<1> DEFINE f == Peer(e)
           o == outpipe[e]
           p == upipe[o]
           v == Flushed(p)
           w == Wake(p)
           up1 == [upipe EXCEPT ![o] = v]
<1>1. /\ o # NULL /\ v # p /\ upipe' = up1 /\ cmds' = [cmds EXCEPT ![f] = cmds[f] \o w]
      /\ UNCHANGED <<state, inpipe, outpipe, msgs_read, msgs_written, peers_msgs_read>>
  BY DEF flush, Out, flow, Send
<1>2. p \in Upipe /\ state[e] \in States /\ state[e] \notin Gone
  BY <1>1, UpipesInUse, Known
<1>3. state[e] \in {"active", "delimiter_received", "waiting_for_delimiter"}
  <2>1. ASSUME state[e] = "term_req_sent1" PROVE FALSE
    <3>1. p.held = <<>>
      BY <2>1, Known DEF Direction, Delims
    <3> QED
      BY <1>1, <1>2, <3>1, NothingHeld
  <2> QED
    BY <1>2, <2>1 DEF Gone, States
<1>4. v \in Upipe /\ v.life = p.life /\ Messages(v) = Messages(p) /\ (HasDelim(v) <=> HasDelim(p))
  BY <1>2, FlushedUpipe
<1>5. state[e] \in Calm => ~ HasDelim(v)
  BY <1>4, Known DEF Direction, Delims
<1> HIDE DEF v, w
<1>6. /\ up1 \in [Upipes -> Upipe] /\ Unborns(up1, inpipe["session"])
      /\ Direction(e, state[e], state[f], cmds[e], up1, o, inpipe[f],
                   msgs_read[f], msgs_written[e], peers_msgs_read[e])
      /\ Direction(f, state[f], state[e], cmds[f], up1, outpipe[f], inpipe[e],
                   msgs_read[e], msgs_written[f], peers_msgs_read[f])
  BY <1>3, <1>4, <1>5, RewritesKeep
<1> HIDE DEF up1, p
<1>7. /\ TermEnd(state[e], state[f], cmds[e]) /\ TermEnd(state[f], state[e], cmds[f])
      /\ cmds[f] \in Seq(Cmds) /\ cmds \in [Ends -> Seq(Cmds)] /\ f \in Ends /\ f # e
  BY Known
<1>8. w \in {<<>>, <<ActivateRead>>}
  BY WakeSends DEF w
<1>9. /\ cmds[f] \o w \in Seq(Cmds)
      /\ TermEnd(state[f], state[e], cmds[f] \o w)
      /\ Direction(f, state[f], state[e], cmds[f] \o w, up1, outpipe[f], inpipe[e],
                   msgs_read[e], msgs_written[f], peers_msgs_read[f])
  BY <1>2, <1>6, <1>7, <1>8, Woken
<1>10. cmds'[e] = cmds[e] /\ cmds'[f] = cmds[f] \o w /\ cmds' \in [Ends -> Seq(Cmds)]
  BY <1>1, <1>7, <1>9
<1>11. PipeTypes'
  BY <1>1, <1>6, <1>10 DEF PipeInv, PipeTypes
<1> QED
  BY <1>1, <1>6, <1>7, <1>9, <1>10, <1>11, Kept

\* A calm end asks for termination: it writes the delimiter ...
LEMMA DelimiterWritten ==
  ASSUME NEW e, NEW s \in Calm, NEW t, NEW q \in Seq(Cmds), NEW up \in [Upipes -> Upipe],
         NEW o, NEW i, NEW rd, NEW wr, NEW pr, Direction(e, s, t, q, up, o, i, rd, wr, pr)
  PROVE  LET v == Flushed(WithDelimiter(up[o]))
         IN /\ o \in Upipes /\ Dir(o) = e /\ v \in Upipe /\ v.life = "live"
            /\ Direction(e, "term_req_sent1", t, q, [up EXCEPT ![o] = v], o, i, rd, wr, pr)
<1> DEFINE v == Flushed(WithDelimiter(up[o]))
<1>1. o \in Upipes /\ up[o] \in Upipe /\ up[o].life = "live" /\ Dir(o) = e /\ ~ HasDelim(up[o])
  BY DEF Direction, Plugged, Delims, Calm, Gone
<1>2. /\ v \in Upipe /\ v.life = up[o].life /\ v.held = <<>> /\ Messages(v) = Messages(up[o])
      /\ DelimLast(v)
  BY <1>1, DelimitedUpipe
<1> HIDE DEF v
<1>3. Direction(e, "term_req_sent1", t, q, [up EXCEPT ![o] = v], o, i, rd, wr, pr)
  BY <1>2, WriterTerminates
<1> QED
  BY <1>1, <1>2, <1>3 DEF v

\* ... and sends its peer the request and the wake-up.
LEMMA RequestSent ==
  ASSUME NEW f, NEW s \in Calm, NEW t, NEW r \in Seq(Cmds), NEW up,
         NEW o, NEW i, NEW rd, NEW wr, NEW pr, Direction(f, t, s, r, up, o, i, rd, wr, pr),
         TermEnd(t, "term_req_sent1", Append(r, Term)),
         NEW w, w \in {<<>>, <<ActivateRead>>}
  PROVE  /\ r \o (<<Term>> \o w) \in Seq(Cmds)
         /\ TermEnd(t, "term_req_sent1", r \o (<<Term>> \o w))
         /\ Direction(f, t, "term_req_sent1", r \o (<<Term>> \o w), up, o, i, rd, wr, pr)
<1>1. s # "deleted" /\ "term_req_sent1" \notin {"deleted", "delimiter_received"}
      /\ "term_req_sent1" \notin Gone
  BY DEF Calm, Gone
<1>2. Direction(f, t, "term_req_sent1", r, up, o, i, rd, wr, pr)
  BY <1>1, ReaderMoves
<1>3. /\ Term \in Cmds /\ Term.type = "pipe_term" /\ Append(r, Term) \in Seq(Cmds)
      /\ ToSet(Append(r, Term)) = ToSet(r) \cup {Term}
  BY Sent, CmdFields
<1>4. /\ \A c : c.type = "hiccup" => (c \in ToSet(Append(r, Term)) <=> c \in ToSet(r))
      /\ \A c \in ToSet(Append(r, Term)) : c.type = "activate_write" => c \in ToSet(r)
  BY <1>3
<1>5. Direction(f, t, "term_req_sent1", Append(r, Term), up, o, i, rd, wr, pr)
  BY <1>2, <1>4, OtherCommands
<1>6. /\ Append(r, Term) \o w \in Seq(Cmds) /\ w \in Seq(Cmds)
      /\ TermEnd(t, "term_req_sent1", Append(r, Term) \o w)
      /\ Direction(f, t, "term_req_sent1", Append(r, Term) \o w, up, o, i, rd, wr, pr)
  BY <1>1, <1>3, <1>5, Woken
<1>7. r \o (<<Term>> \o w) = Append(r, Term) \o w
  BY <1>3, <1>6, Joined
<1> QED
  BY <1>6, <1>7

\* terminate (), in any state of the end.
LEMMA terminateKeeps ==
  ASSUME PipeInv, NEW e \in Ends, NEW d \in BOOLEAN, terminate(e, d)
  PROVE  PipeInv'
<1> DEFINE f == Peer(e)
           s == state[e]
           o == outpipe[e]
           r == cmds[f]
           w == Wake(WithDelimiter(upipe[o]))
           v == Flushed(WithDelimiter(upipe[o]))
           up1 == [upipe EXCEPT ![o] = v]
<1>1. /\ f \in Ends /\ f # e
      /\ state \in [Ends -> States] /\ cmds \in [Ends -> Seq(Cmds)] /\ upipe \in [Upipes -> Upipe]
      /\ s \in States /\ state[f] \in States /\ cmds[e] \in Seq(Cmds) /\ r \in Seq(Cmds)
      /\ TermEnd(s, state[f], cmds[e]) /\ TermEnd(state[f], s, r)
      /\ Direction(e, s, state[f], cmds[e], upipe, o, inpipe[f],
                   msgs_read[f], msgs_written[e], peers_msgs_read[e])
      /\ Direction(f, state[f], s, r, upipe, outpipe[f], inpipe[e],
                   msgs_read[e], msgs_written[f], peers_msgs_read[f])
  BY Known
<1>2. UNCHANGED <<inpipe, msgs_read, msgs_written, peers_msgs_read>>
  BY DEF terminate, flow
<1>3. w \in {<<>>, <<ActivateRead>>}
  BY WakeSends
<1>4. Unborns(upipe, inpipe["session"]) /\ outpipe \in [Ends -> {NULL} \cup Upipes]
  BY DEF PipeInv, PipeTypes
<1>5. CASE UNCHANGED <<state, outpipe, upipe, cmds>>
  BY <1>2, <1>5, OthersKeep
<1>6. CASE /\ s = "waiting_for_delimiter"
           /\ state' = [state EXCEPT ![e] = "term_ack_sent"]
           /\ outpipe' = [outpipe EXCEPT ![e] = NULL]
           /\ cmds' = [cmds EXCEPT ![f] = r \o <<TermAck>>]
           /\ upipe' = upipe
  <2>1. TermAck \in Cmds /\ r \o <<TermAck>> = Append(r, TermAck)
    BY <1>1, CmdFields, Joined
  <2> HIDE DEF f, s, o, r, w, v, up1
  <2>2. /\ TermEnd("term_ack_sent", state[f], cmds[e])
        /\ TermEnd(state[f], "term_ack_sent", Append(r, TermAck))
    BY <1>1, <1>6, TermWaited
  <2>3. state[f] # "delimiter_received" /\ "term_ack_sent" \in Gone
    BY <1>1, <1>6 DEF TermEnd, Fits, Calm, Gone
  <2>4. Direction(e, "term_ack_sent", state[f], cmds[e], upipe, NULL, inpipe[f],
                  msgs_read[f], msgs_written[e], peers_msgs_read[e])
    BY <1>1, <2>3, WriterGoes
  <2>5. Direction(f, state[f], "term_ack_sent", r, upipe, outpipe[f], inpipe[e],
                  msgs_read[e], msgs_written[f], peers_msgs_read[f])
    BY <1>1, <1>6, ReaderMoves
  <2>6. /\ Append(r, TermAck) \in Seq(Cmds)
        /\ Direction(f, state[f], "term_ack_sent", Append(r, TermAck), upipe, outpipe[f], inpipe[e],
                     msgs_read[e], msgs_written[f], peers_msgs_read[f])
    BY <1>1, <2>5, AckOnItsWay
  <2>7. state'[e] = "term_ack_sent" /\ state'[f] = state[f] /\ state' \in [Ends -> States]
    BY <1>1, <1>6 DEF States
  <2>8. outpipe'[e] = NULL /\ outpipe'[f] = outpipe[f] /\ outpipe' \in [Ends -> {NULL} \cup Upipes]
    BY <1>1, <1>4, <1>6
  <2>9. cmds'[e] = cmds[e] /\ cmds'[f] = Append(r, TermAck) /\ cmds' \in [Ends -> Seq(Cmds)]
    <3>1. cmds' = [cmds EXCEPT ![f] = Append(r, TermAck)]
      BY <1>6, <2>1
    <3> QED
      BY <1>1, <2>6, <3>1
  <2>10. PipeTypes'
    BY <1>1, <1>2, <1>6, <2>7, <2>8, <2>9 DEF PipeInv, PipeTypes
  <2>11. /\ TermEnd(state'[e], state'[f], cmds'[e]) /\ TermEnd(state'[f], state'[e], cmds'[f])
         /\ Direction(e, state'[e], state'[f], cmds'[e], upipe', outpipe'[e], inpipe'[f],
                      msgs_read'[f], msgs_written'[e], peers_msgs_read'[e])
         /\ Direction(f, state'[f], state'[e], cmds'[f], upipe', outpipe'[f], inpipe'[e],
                      msgs_read'[e], msgs_written'[f], peers_msgs_read'[f])
    BY <1>2, <1>6, <2>2, <2>4, <2>6, <2>7, <2>8, <2>9
  <2> QED
    BY <1>2, <1>4, <1>6, <2>10, <2>11, Kept DEF f
<1>7. CASE /\ s = "waiting_for_delimiter" /\ state' = [state EXCEPT ![e] = s]
           /\ upipe' = up1 /\ cmds' = [cmds EXCEPT ![f] = r \o w] /\ outpipe' = outpipe
  <2>1. upipe[o] \in Upipe /\ "waiting_for_delimiter" \notin Gone
    BY <1>7, UpipesInUse DEF Gone
  <2>2. v \in Upipe /\ v.life = upipe[o].life /\ Messages(v) = Messages(upipe[o])
    BY <2>1, DelimitedUpipe
  <2> HIDE DEF v, w
  <2>3. /\ up1 \in [Upipes -> Upipe] /\ Unborns(up1, inpipe["session"])
        /\ Direction(e, s, state[f], cmds[e], up1, o, inpipe[f],
                     msgs_read[f], msgs_written[e], peers_msgs_read[e])
        /\ Direction(f, state[f], s, r, up1, outpipe[f], inpipe[e],
                     msgs_read[e], msgs_written[f], peers_msgs_read[f])
    BY <1>7, <2>2, RewritesKeep DEF Calm
  <2> HIDE DEF up1, f, s, o, r
  <2>4. /\ r \o w \in Seq(Cmds)
        /\ TermEnd(state[f], s, r \o w)
        /\ Direction(f, state[f], s, r \o w, up1, outpipe[f], inpipe[e],
                     msgs_read[e], msgs_written[f], peers_msgs_read[f])
    BY <1>1, <1>3, <1>7, <2>1, <2>3, Woken
  <2>5. cmds'[e] = cmds[e] /\ cmds'[f] = r \o w /\ cmds' \in [Ends -> Seq(Cmds)]
    BY <1>1, <1>7, <2>4
  <2>6. state' = state
    BY <1>1, <1>7 DEF s
  <2>7. PipeTypes'
    BY <1>2, <1>7, <2>3, <2>5, <2>6 DEF PipeInv, PipeTypes
  <2> QED
    BY <1>1, <1>2, <1>7, <2>3, <2>4, <2>5, <2>6, <2>7, Kept DEF f, s, o
<1>8. CASE /\ s \in Calm /\ state' = [state EXCEPT ![e] = "term_req_sent1"]
           /\ upipe' = up1 /\ cmds' = [cmds EXCEPT ![f] = r \o (<<Term>> \o w)]
           /\ outpipe' = outpipe
  <2> DEFINE r1 == r \o (<<Term>> \o w)
  <2>1. cmds' = [cmds EXCEPT ![f] = r1]
    BY <1>8
  <2> HIDE DEF v, f, s, o, r, w
  <2>2. TermEnd("term_req_sent1", state[f], cmds[e]) /\ TermEnd(state[f], "term_req_sent1", Append(r, Term))
    BY <1>1, <1>8, TermAsk
  <2>3. /\ o \in Upipes /\ Dir(o) = e /\ v \in Upipe /\ v.life = "live"
        /\ Direction(e, "term_req_sent1", state[f], cmds[e], up1, o, inpipe[f],
                     msgs_read[f], msgs_written[e], peers_msgs_read[e])
    BY <1>1, <1>8, DelimiterWritten DEF v
  <2>4. /\ up1 \in [Upipes -> Upipe] /\ Unborns(up1, inpipe["session"])
        /\ \A u \in Upipes : Dir(u) = f => up1[u] = upipe[u]
    BY <1>1, <1>4, <2>3, UnbornsKept
  <2> HIDE DEF up1
  <2>5. Direction(f, state[f], s, r, up1, outpipe[f], inpipe[e],
                  msgs_read[e], msgs_written[f], peers_msgs_read[f])
    BY <1>1, <2>4, OtherUpipes
  <2>6. /\ r1 \in Seq(Cmds) /\ TermEnd(state[f], "term_req_sent1", r1)
        /\ Direction(f, state[f], "term_req_sent1", r1, up1, outpipe[f], inpipe[e],
                     msgs_read[e], msgs_written[f], peers_msgs_read[f])
    BY <1>1, <1>3, <1>8, <2>2, <2>5, RequestSent
  <2> HIDE DEF r1
  <2>7. state'[e] = "term_req_sent1" /\ state'[f] = state[f] /\ state' \in [Ends -> States]
    BY <1>1, <1>8 DEF States
  <2>8. cmds'[e] = cmds[e] /\ cmds'[f] = r1 /\ cmds' \in [Ends -> Seq(Cmds)]
    BY <1>1, <2>1, <2>6
  <2>9. PipeTypes'
    BY <1>2, <1>8, <2>4, <2>7, <2>8 DEF PipeInv, PipeTypes
  <2>10. /\ TermEnd(state'[e], state'[f], cmds'[e]) /\ TermEnd(state'[f], state'[e], cmds'[f])
         /\ Direction(e, state'[e], state'[f], cmds'[e], upipe', outpipe'[e], inpipe'[f],
                      msgs_read'[f], msgs_written'[e], peers_msgs_read'[e])
         /\ Direction(f, state'[f], state'[e], cmds'[f], upipe', outpipe'[f], inpipe'[e],
                      msgs_read'[e], msgs_written'[f], peers_msgs_read'[f])
    BY <1>2, <1>8, <2>2, <2>3, <2>6, <2>7, <2>8 DEF o
  <2> QED
    BY <1>2, <1>8, <2>4, <2>9, <2>10, Kept DEF f
<1>9. \/ UNCHANGED <<state, outpipe, upipe, cmds>>
      \/ /\ s = "waiting_for_delimiter"
         /\ state' = [state EXCEPT ![e] = "term_ack_sent"]
         /\ outpipe' = [outpipe EXCEPT ![e] = NULL]
         /\ cmds' = [cmds EXCEPT ![f] = r \o <<TermAck>>]
         /\ upipe' = upipe
      \/ /\ s \in {"active", "delimiter_received", "waiting_for_delimiter"}
         /\ state' = [state EXCEPT ![e] =
                        IF s = "waiting_for_delimiter" THEN s ELSE "term_req_sent1"]
         /\ upipe' = up1
         /\ cmds' = [cmds EXCEPT ![f] =
                       r \o ((IF s \in {"active", "delimiter_received"} THEN <<Term>> ELSE <<>>) \o w)]
         /\ outpipe' = outpipe
  BY DEF terminate, Send, Out, TerminateSends
<1>10. <<>> \o w = w
  BY <1>3
<1> QED
  BY <1>5, <1>6, <1>7, <1>8, <1>9, <1>10 DEF Calm

\* hiccup () by the session.
LEMMA hiccupKeeps ==
  ASSUME PipeInv, hiccup
  PROVE  PipeInv'
<1> DEFINE e == "session"
           f == "socket"
           i == inpipe[e]
           r == cmds[f]
<1>1. PICK u \in Upipes :
        /\ upipe[u] = Unborn /\ \A x \in 1 .. u - 1 : upipe[x] # Unborn
        /\ inpipe' = [inpipe EXCEPT ![e] = u]
        /\ upipe' = [upipe EXCEPT ![u] = Fresh]
        /\ cmds' = [cmds EXCEPT ![Peer(e)] = @ \o <<[type |-> "hiccup", pipe |-> u]>>]
  BY DEF hiccup, Send
<1>2. state[e] = "active" /\ UNCHANGED <<state, outpipe, msgs_read, msgs_written, peers_msgs_read>>
  BY DEF hiccup, flow
<1>3. e \in Ends /\ f \in Ends /\ f # e /\ f = Peer(e)
  BY DEF Ends, Peer
<1>4. /\ state \in [Ends -> States] /\ cmds \in [Ends -> Seq(Cmds)] /\ upipe \in [Upipes -> Upipe]
      /\ state[e] \in States /\ state[f] \in States /\ cmds[e] \in Seq(Cmds) /\ r \in Seq(Cmds)
      /\ TermEnd(state[e], state[f], cmds[e]) /\ TermEnd(state[f], state[e], r)
      /\ Direction(e, state[e], state[f], cmds[e], upipe, outpipe[e], inpipe[f],
                   msgs_read[f], msgs_written[e], peers_msgs_read[e])
      /\ Direction(f, state[f], state[e], r, upipe, outpipe[f], i,
                   msgs_read[e], msgs_written[f], peers_msgs_read[f])
  BY <1>3, Known
<1>5. Unborns(upipe, i) /\ inpipe \in [Ends -> {NULL} \cup Upipes]
  BY DEF PipeInv, PipeTypes
<1>6. u \in Nat /\ u > 2 /\ u > i /\ Dir(u) = f
  BY <1>1, <1>5, NewUpipes, PipeNumbers DEF Unborns, Dir
<1> DEFINE up1 == [upipe EXCEPT ![u] = Fresh]
           r1 == Append(r, Hiccup(u))
<1>7. Hiccup(u) \in Cmds /\ Hiccup(u).type = "hiccup" /\ Hiccup(u).pipe = u
  BY CmdFields
<1>8. r1 \in Seq(Cmds) /\ cmds' = [cmds EXCEPT ![f] = r1]
  <2>1. r \o <<Hiccup(u)>> = r1 /\ r1 \in Seq(Cmds)
    BY <1>4, <1>7, Joined, Sent
  <2> QED
    BY <1>1, <1>3, <2>1 DEF Hiccup
<1> HIDE DEF e, f, i, r
<1>9. /\ \A c \in ToSet(r) : c.type = "hiccup" => c.pipe < u
      /\ Direction(f, state[f], state[e], r1, up1, outpipe[f], u,
                   msgs_read[e], msgs_written[f], peers_msgs_read[f])
  <2>1. Direction(f, state[f], "active", r, upipe, outpipe[f], i,
                  msgs_read[e], msgs_written[f], peers_msgs_read[f])
    BY <1>2, <1>4
  <2>2. /\ \A c \in ToSet(r) : c.type = "hiccup" => c.pipe < u
        /\ Direction(f, state[f], "active", r1, up1, outpipe[f], u,
                     msgs_read[e], msgs_written[f], peers_msgs_read[f])
    BY <1>4, <1>6, <2>1, ReaderHiccups
  <2> QED
    BY <1>2, <2>2
<1>10. TermEnd(state[f], state[e], r1)
  BY <1>2, <1>4, <1>7, <1>9, TermSend
<1>11. up1 \in [Upipes -> Upipe] /\ \A x \in Upipes : Dir(x) = e => up1[x] = upipe[x]
  BY <1>3, <1>4, <1>6, NewUpipes
<1>12. Unborns(up1, u)
  <2> SUFFICES ASSUME NEW x \in Upipes, up1[x].life = "unborn"
               PROVE  up1[x] = Unborn /\ x > 2 /\ x > u
    BY DEF Unborns
  <2>1. x # u /\ up1[x] = upipe[x]
    BY <1>4, NewUpipes
  <2>2. upipe[x] = Unborn /\ x > 2
    BY <1>5, <2>1 DEF Unborns
  <2>3. x \in Nat /\ x > 0
    BY PipeNumbers
  <2>4. x \notin 1 .. u - 1
    BY <1>1, <2>2
  <2> QED
    BY <1>6, <2>1, <2>2, <2>3, <2>4
<1> HIDE DEF up1, r1
<1>13. Direction(e, state[e], state[f], cmds[e], up1, outpipe[e], inpipe[f],
                 msgs_read[f], msgs_written[e], peers_msgs_read[e])
  BY <1>4, <1>11, OtherUpipes
<1>14. inpipe'[e] = u /\ inpipe'[f] = inpipe[f] /\ inpipe' \in [Ends -> {NULL} \cup Upipes]
  BY <1>1, <1>3, <1>5
<1>15. cmds'[e] = cmds[e] /\ cmds'[f] = r1 /\ cmds' \in [Ends -> Seq(Cmds)]
  BY <1>3, <1>4, <1>8
<1>16. upipe' = up1
  BY <1>1 DEF up1
<1>17. PipeTypes'
  BY <1>2, <1>11, <1>14, <1>15, <1>16 DEF PipeInv, PipeTypes
<1>18. Unborns(upipe', inpipe'["session"])
  BY <1>12, <1>14, <1>16 DEF e
<1> QED
  BY <1>2, <1>3, <1>4, <1>9, <1>10, <1>13, <1>14, <1>15, <1>16, <1>17, <1>18, Kept

\* A command that is neither a hiccup nor a count leaves the mailbox.
LEMMA OtherTaken ==
  ASSUME NEW d, NEW s, NEW t, NEW q \in Seq(Cmds), NEW up, NEW o, NEW i, NEW rd, NEW wr, NEW pr,
         Direction(d, s, t, q, up, o, i, rd, wr, pr), q # <<>>,
         Head(q).type \notin {"hiccup", "activate_write"}
  PROVE  Direction(d, s, t, Tail(q), up, o, i, rd, wr, pr)
<1>1. ToSet(q) = {Head(q)} \cup ToSet(Tail(q))
  BY Received
<1>2. /\ \A c : c.type = "hiccup" => (c \in ToSet(Tail(q)) <=> c \in ToSet(q))
      /\ \A c \in ToSet(Tail(q)) : c.type = "activate_write" => c \in ToSet(q)
  BY <1>1
<1> QED
  BY <1>2, OtherCommands

\* process_activate_read ().
LEMMA process_activate_readKeeps ==
  ASSUME PipeInv, NEW e \in Ends, process_activate_read(e)
  PROVE  PipeInv'
<1> DEFINE f == Peer(e)
           q == cmds[e]
<1>1. /\ q # <<>> /\ Head(q).type = "activate_read" /\ cmds' = [cmds EXCEPT ![e] = Tail(q)]
      /\ UNCHANGED <<state, inpipe, outpipe, msgs_read, msgs_written, peers_msgs_read, upipe>>
  BY DEF process_activate_read, Receives, Taken, flow
<1>2. /\ f \in Ends /\ f # e /\ cmds \in [Ends -> Seq(Cmds)] /\ q \in Seq(Cmds)
      /\ TermEnd(state[e], state[f], q) /\ TermEnd(state[f], state[e], cmds[f])
      /\ Direction(e, state[e], state[f], q, upipe, outpipe[e], inpipe[f],
                   msgs_read[f], msgs_written[e], peers_msgs_read[e])
      /\ Direction(f, state[f], state[e], cmds[f], upipe, outpipe[f], inpipe[e],
                   msgs_read[e], msgs_written[f], peers_msgs_read[f])
  BY Known
<1> HIDE DEF f, q
<1>3. TermEnd(state[e], state[f], Tail(q))
  BY <1>1, <1>2, TermTake
<1>4. Direction(e, state[e], state[f], Tail(q), upipe, outpipe[e], inpipe[f],
                msgs_read[f], msgs_written[e], peers_msgs_read[e])
  BY <1>1, <1>2, OtherTaken
<1>5. cmds'[e] = Tail(q) /\ cmds'[f] = cmds[f] /\ cmds' \in [Ends -> Seq(Cmds)]
  BY <1>1, <1>2, Received
<1>6. PipeTypes' /\ Unborns(upipe, inpipe["session"])
  BY <1>1, <1>5 DEF PipeInv, PipeTypes
<1> QED
  BY <1>1, <1>2, <1>3, <1>4, <1>5, <1>6, Kept DEF f

\* process_activate_write ().
LEMMA process_activate_writeKeeps ==
  ASSUME PipeInv, NEW e \in Ends, process_activate_write(e)
  PROVE  PipeInv'
<1> DEFINE f == Peer(e)
           q == cmds[e]
<1>1. /\ q # <<>> /\ Head(q).type = "activate_write" /\ cmds' = [cmds EXCEPT ![e] = Tail(q)]
      /\ peers_msgs_read' = [peers_msgs_read EXCEPT ![e] = Head(q).n]
      /\ UNCHANGED <<state, inpipe, outpipe, msgs_read, msgs_written, upipe>>
  BY DEF process_activate_write, Receives, Taken
<1>2. /\ f \in Ends /\ f # e /\ cmds \in [Ends -> Seq(Cmds)] /\ q \in Seq(Cmds)
      /\ TermEnd(state[e], state[f], q) /\ TermEnd(state[f], state[e], cmds[f])
      /\ Direction(e, state[e], state[f], q, upipe, outpipe[e], inpipe[f],
                   msgs_read[f], msgs_written[e], peers_msgs_read[e])
      /\ Direction(f, state[f], state[e], cmds[f], upipe, outpipe[f], inpipe[e],
                   msgs_read[e], msgs_written[f], peers_msgs_read[f])
  BY Known
<1> HIDE DEF f, q
<1>3. TermEnd(state[e], state[f], Tail(q))
  BY <1>1, <1>2, TermTake
<1>4. Direction(e, state[e], state[f], Tail(q), upipe, outpipe[e], inpipe[f],
                msgs_read[f], msgs_written[e], Head(q).n)
  BY <1>1, <1>2, WriterLearns DEF TermEnd
<1>5. cmds'[e] = Tail(q) /\ cmds'[f] = cmds[f] /\ cmds' \in [Ends -> Seq(Cmds)]
  BY <1>1, <1>2, Received
<1>6. /\ peers_msgs_read'[e] = Head(q).n /\ peers_msgs_read'[f] = peers_msgs_read[f]
      /\ peers_msgs_read' \in [Ends -> Nat]
  <2>1. Head(q).n \in Nat
    BY <1>1, <1>2, Received, CmdFields
  <2>2. peers_msgs_read \in [Ends -> Nat]
    BY DEF PipeInv, PipeTypes
  <2> QED
    BY <1>1, <1>2, <2>1, <2>2
<1>7. PipeTypes' /\ Unborns(upipe, inpipe["session"])
  BY <1>1, <1>5, <1>6 DEF PipeInv, PipeTypes
<1> QED
  BY <1>1, <1>2, <1>3, <1>4, <1>5, <1>6, <1>7, Kept DEF f

\* process_hiccup (), with and without the termination that may follow.
LEMMA process_hiccupKeeps ==
  ASSUME PipeInv, NEW e \in Ends, process_hiccup(e)
  PROVE  PipeInv'
<1> DEFINE f == Peer(e)
           s == state[e]
           q == cmds[e]
           r == cmds[f]
           o == outpipe[e]
           u == Head(q).pipe
           k == Count(Flushed(upipe[o]).done, {"last", "delim"})
           wr == msgs_written[e] - k
           up1 == [upipe EXCEPT ![o] = Deleted]
           w == Wake(WithDelimiter(upipe[u]))
           v == Flushed(WithDelimiter(up1[u]))
           r1 == r \o (<<Term>> \o w)
<1>1. /\ q # <<>> /\ Head(q).type = "hiccup"
      /\ UNCHANGED <<inpipe, msgs_read, peers_msgs_read>>
      /\ outpipe' = [outpipe EXCEPT ![e] = u]
      /\ msgs_written' = [msgs_written EXCEPT ![e] = wr]
  BY DEF process_hiccup, Receives
<1>2. \/ /\ upipe' = up1 /\ cmds' = [cmds EXCEPT ![e] = Tail(q)] /\ state' = state
      \/ /\ s = "active"
         /\ upipe' = [upipe EXCEPT ![o] = Deleted, ![u] = Flushed(WithDelimiter(@))]
         /\ state' = [state EXCEPT ![e] = "term_req_sent1"]
         /\ cmds' = [[cmds EXCEPT ![e] = Tail(q)] EXCEPT ![f] = @ \o TerminateSends(e, upipe[u])]
  BY DEF process_hiccup, Taken
<1>3. /\ f \in Ends /\ f # e
      /\ state \in [Ends -> States] /\ cmds \in [Ends -> Seq(Cmds)] /\ upipe \in [Upipes -> Upipe]
      /\ s \in States /\ state[f] \in States /\ q \in Seq(Cmds) /\ r \in Seq(Cmds)
      /\ TermEnd(s, state[f], q) /\ TermEnd(state[f], s, r)
      /\ Direction(e, s, state[f], q, upipe, o, inpipe[f],
                   msgs_read[f], msgs_written[e], peers_msgs_read[e])
      /\ Direction(f, state[f], s, r, upipe, outpipe[f], inpipe[e],
                   msgs_read[e], msgs_written[f], peers_msgs_read[f])
  BY Known
<1>4. /\ Unborns(upipe, inpipe["session"]) /\ msgs_written \in [Ends -> Int]
      /\ outpipe \in [Ends -> {NULL} \cup Upipes]
  BY DEF PipeInv, PipeTypes
<1>5. k = Count(Flushed(upipe[o]).done, {"last", "delim"})
  OBVIOUS
<1> HIDE DEF f, s, q, r, o, k, w, v
<1>6. s \in Calm \cup {"term_req_sent1"} /\ Ordered(q)
  <2>1. Head(q) \in ToSet(q)
    BY <1>1, <1>3, Received
  <2> QED
    BY <1>1, <1>3, <2>1 DEF TermEnd, States, Calm
<1>7. /\ o \in Upipes /\ u \in Upipes /\ u # o
      /\ Direction(e, s, state[f], Tail(q), up1, u, inpipe[f],
                   msgs_read[f], wr, peers_msgs_read[e])
  BY <1>1, <1>3, <1>5, <1>6, WriterHiccups, ZenonT(60)
<1>8. Dir(o) = e /\ o # NULL
  BY <1>3, <1>7, PipeNumbers DEF Direction, Plugged
<1>9. /\ up1 \in [Upipes -> Upipe] /\ Unborns(up1, inpipe["session"]) /\ up1[u] = upipe[u]
      /\ \A x \in Upipes : Dir(x) = f => up1[x] = upipe[x]
  BY <1>3, <1>4, <1>7, <1>8, UnbornsKept, NewUpipes
<1>10. k \in Nat
  <2>1. Flushed(upipe[o]) \in Upipe
    BY <1>3, <1>7, FlushedUpipe
  <2>2. Flushed(upipe[o]).done \in Seq(Items)
    BY <2>1 DEF Upipe
  <2> QED
    BY <1>5, <2>2, CountNat
<1>11. wr \in Int
  BY <1>4, <1>10
<1>12. up1 = [upipe EXCEPT ![o] = Deleted]
  OBVIOUS
<1> HIDE DEF up1, wr, u
<1>13. TermEnd(s, state[f], Tail(q)) /\ Tail(q) \in Seq(Cmds)
  BY <1>1, <1>3, TermTake, Received
<1>14. Direction(f, state[f], s, r, up1, outpipe[f], inpipe[e],
                 msgs_read[e], msgs_written[f], peers_msgs_read[f])
  BY <1>3, <1>9, OtherUpipes
<1>15. /\ outpipe'[e] = u /\ outpipe'[f] = outpipe[f] /\ outpipe' \in [Ends -> {NULL} \cup Upipes]
       /\ msgs_written'[e] = wr /\ msgs_written'[f] = msgs_written[f] /\ msgs_written' \in [Ends -> Int]
  BY <1>1, <1>3, <1>4, <1>7, <1>11
<1>16. CASE upipe' = up1 /\ cmds' = [cmds EXCEPT ![e] = Tail(q)] /\ state' = state
  <2>1. cmds'[e] = Tail(q) /\ cmds'[f] = r /\ cmds' \in [Ends -> Seq(Cmds)]
    BY <1>3, <1>13, <1>16 DEF r
  <2>2. PipeTypes'
    BY <1>1, <1>9, <1>15, <1>16, <2>1 DEF PipeInv, PipeTypes
  <2>3. /\ TermEnd(state'[e], state'[f], cmds'[e]) /\ TermEnd(state'[f], state'[e], cmds'[f])
        /\ Direction(e, state'[e], state'[f], cmds'[e], upipe', outpipe'[e], inpipe'[f],
                     msgs_read'[f], msgs_written'[e], peers_msgs_read'[e])
        /\ Direction(f, state'[f], state'[e], cmds'[f], upipe', outpipe'[f], inpipe'[e],
                     msgs_read'[e], msgs_written'[f], peers_msgs_read'[f])
    BY <1>1, <1>3, <1>7, <1>13, <1>14, <1>15, <1>16, <2>1 DEF s
  <2> QED
    BY <1>1, <1>9, <1>16, <2>2, <2>3, Kept DEF f
<1>17. CASE /\ s = "active"
            /\ upipe' = [upipe EXCEPT ![o] = Deleted, ![u] = Flushed(WithDelimiter(@))]
            /\ state' = [state EXCEPT ![e] = "term_req_sent1"]
            /\ cmds' = [[cmds EXCEPT ![e] = Tail(q)] EXCEPT ![f] = @ \o TerminateSends(e, upipe[u])]
  <2>1. s \in Calm /\ w \in {<<>>, <<ActivateRead>>}
    BY <1>17, WakeSends DEF Calm, w
  <2>2. /\ TermEnd("term_req_sent1", state[f], Tail(q))
        /\ TermEnd(state[f], "term_req_sent1", Append(r, Term))
    BY <1>3, <1>13, <2>1, TermAsk
  <2>3. /\ Dir(u) = e /\ v \in Upipe /\ v.life = "live"
        /\ Direction(e, "term_req_sent1", state[f], Tail(q), [up1 EXCEPT ![u] = v], u, inpipe[f],
                     msgs_read[f], wr, peers_msgs_read[e])
    <3> DEFINE q1 == Tail(q)
    <3>1. /\ up1 \in [Upipes -> Upipe] /\ q1 \in Seq(Cmds) /\ s \in Calm
          /\ Direction(e, s, state[f], q1, up1, u, inpipe[f],
                       msgs_read[f], wr, peers_msgs_read[e])
      BY <1>7, <1>9, <1>13, <2>1
    <3> HIDE DEF q1
    <3>2. u \in Upipes /\ up1[u] \in Upipe /\ up1[u].life = "live" /\ Dir(u) = e /\ ~ HasDelim(up1[u])
      BY <3>1 DEF Direction, Plugged, Delims, Calm, Gone
    <3>3. /\ v \in Upipe /\ v.life = up1[u].life /\ v.held = <<>> /\ Messages(v) = Messages(up1[u])
          /\ DelimLast(v)
      BY <3>2, DelimitedUpipe DEF v
    <3>4. Direction(e, "term_req_sent1", state[f], q1, [up1 EXCEPT ![u] = v], u, inpipe[f],
                    msgs_read[f], wr, peers_msgs_read[e])
      BY <3>1, <3>3, WriterTerminates
    <3> QED
      BY <3>2, <3>3, <3>4 DEF q1
  <2> DEFINE up2 == [up1 EXCEPT ![u] = v]
  <2>4. /\ up2 \in [Upipes -> Upipe] /\ Unborns(up2, inpipe["session"])
        /\ \A x \in Upipes : Dir(x) = f => up2[x] = up1[x]
    BY <1>3, <1>7, <1>9, <2>3, UnbornsKept
  <2>5. upipe' = up2
    <3> DEFINE v2 == Flushed(WithDelimiter(upipe[u]))
    <3>1. v2 = v
      BY <1>9 DEF v
    <3> HIDE DEF v2
    <3>2. upipe' = [[upipe EXCEPT ![o] = Deleted] EXCEPT ![u] = v2]
      BY <1>3, <1>7, <1>17 DEF v2
    <3> QED
      BY <1>12, <3>1, <3>2
  <2> HIDE DEF up2
  <2>6. Direction(f, state[f], s, r, up2, outpipe[f], inpipe[e],
                  msgs_read[e], msgs_written[f], peers_msgs_read[f])
    BY <1>3, <1>14, <2>4, OtherUpipes
  <2>7. /\ r1 \in Seq(Cmds) /\ TermEnd(state[f], "term_req_sent1", r1)
        /\ Direction(f, state[f], "term_req_sent1", r1, up2, outpipe[f], inpipe[e],
                     msgs_read[e], msgs_written[f], peers_msgs_read[f])
    BY <1>3, <2>1, <2>2, <2>6, RequestSent
  <2>8. TerminateSends(e, upipe[u]) = <<Term>> \o w
    BY <1>17 DEF TerminateSends, w, s
  <2>9. cmds'[e] = Tail(q) /\ cmds'[f] = r1 /\ cmds' \in [Ends -> Seq(Cmds)]
    <3>1. cmds' = [[cmds EXCEPT ![e] = Tail(q)] EXCEPT ![f] = r1]
      BY <1>3, <1>17, <2>8 DEF r
    <3> HIDE DEF r1
    <3> QED
      BY <1>3, <1>13, <2>7, <3>1
  <2> HIDE DEF r1
  <2>10. state'[e] = "term_req_sent1" /\ state'[f] = state[f] /\ state' \in [Ends -> States]
    BY <1>3, <1>17 DEF States
  <2>11. PipeTypes'
    BY <1>1, <1>15, <2>4, <2>5, <2>9, <2>10 DEF PipeInv, PipeTypes
  <2>12. /\ TermEnd(state'[e], state'[f], cmds'[e]) /\ TermEnd(state'[f], state'[e], cmds'[f])
         /\ Direction(e, state'[e], state'[f], cmds'[e], upipe', outpipe'[e], inpipe'[f],
                      msgs_read'[f], msgs_written'[e], peers_msgs_read'[e])
         /\ Direction(f, state'[f], state'[e], cmds'[f], upipe', outpipe'[f], inpipe'[e],
                      msgs_read'[e], msgs_written'[f], peers_msgs_read'[f])
    BY <1>1, <1>15, <2>2, <2>3, <2>5, <2>7, <2>9, <2>10 DEF up2
  <2> QED
    BY <1>1, <2>4, <2>5, <2>11, <2>12, Kept DEF f
<1> QED
  BY <1>2, <1>16, <1>17

\* process_pipe_term ().
LEMMA process_pipe_termKeeps ==
  ASSUME PipeInv, NEW e \in Ends, process_pipe_term(e)
  PROVE  PipeInv'
<1> DEFINE f == Peer(e)
           s == state[e]
           t == state[f]
           q == cmds[e]
           r == cmds[f]
           o == outpipe[e]
<1>1. /\ q # <<>> /\ Head(q).type = "pipe_term"
      /\ UNCHANGED <<inpipe, msgs_read, msgs_written, peers_msgs_read, upipe>>
  BY DEF process_pipe_term, Receives, flow
<1>2. \/ /\ s = "active" /\ state' = [state EXCEPT ![e] = "waiting_for_delimiter"]
         /\ cmds' = [cmds EXCEPT ![e] = Tail(q)] /\ outpipe' = outpipe
      \/ /\ s \in {"active", "delimiter_received", "term_req_sent1"}
         /\ state' = [state EXCEPT ![e] =
                        IF s = "term_req_sent1" THEN "term_req_sent2" ELSE "term_ack_sent"]
         /\ outpipe' = [outpipe EXCEPT ![e] = NULL]
         /\ cmds' = [[cmds EXCEPT ![e] = Tail(q)] EXCEPT ![f] = Append(@, TermAck)]
  BY DEF process_pipe_term, Taken
<1>3. /\ f \in Ends /\ f # e
      /\ state \in [Ends -> States] /\ cmds \in [Ends -> Seq(Cmds)]
      /\ s \in States /\ t \in States /\ q \in Seq(Cmds) /\ r \in Seq(Cmds)
      /\ TermEnd(s, t, q) /\ TermEnd(t, s, r)
      /\ Direction(e, s, t, q, upipe, o, inpipe[f],
                   msgs_read[f], msgs_written[e], peers_msgs_read[e])
      /\ Direction(f, t, s, r, upipe, outpipe[f], inpipe[e],
                   msgs_read[e], msgs_written[f], peers_msgs_read[f])
  BY Known
<1>4. Unborns(upipe, inpipe["session"]) /\ outpipe \in [Ends -> {NULL} \cup Upipes]
  BY DEF PipeInv, PipeTypes
<1> HIDE DEF f, s, t, q, r, o
<1>5. /\ s = "active" => /\ TermEnd("waiting_for_delimiter", t, Tail(q))
                         /\ TermEnd(t, "waiting_for_delimiter", r)
      /\ s \in Calm => /\ TermEnd("term_ack_sent", t, Tail(q))
                       /\ TermEnd(t, "term_ack_sent", Append(r, TermAck))
      /\ s = "term_req_sent1" => /\ TermEnd("term_req_sent2", t, Tail(q))
                                 /\ TermEnd(t, "term_req_sent2", Append(r, TermAck))
  BY <1>1, <1>3, TermAsked
<1>6. Tail(q) \in Seq(Cmds) /\ t \in {"term_req_sent1", "term_req_sent2"} /\ s # "deleted"
  <2>1. Tail(q) \in Seq(Cmds) /\ Has(q, "pipe_term")
    BY <1>1, <1>3, Received
  <2> QED
    BY <1>3, <2>1 DEF TermEnd, Calm
<1>7. Direction(e, s, t, Tail(q), upipe, o, inpipe[f],
                msgs_read[f], msgs_written[e], peers_msgs_read[e])
  BY <1>1, <1>3, OtherTaken
<1>8. CASE /\ s = "active" /\ state' = [state EXCEPT ![e] = "waiting_for_delimiter"]
           /\ cmds' = [cmds EXCEPT ![e] = Tail(q)] /\ outpipe' = outpipe
  <2>1. Direction(e, "waiting_for_delimiter", t, Tail(q), upipe, o, inpipe[f],
                  msgs_read[f], msgs_written[e], peers_msgs_read[e])
    BY <1>7, <1>8, WriterWaits
  <2>2. Direction(f, t, "waiting_for_delimiter", r, upipe, outpipe[f], inpipe[e],
                  msgs_read[e], msgs_written[f], peers_msgs_read[f])
    BY <1>3, <1>6, ReaderMoves
  <2>3. state'[e] = "waiting_for_delimiter" /\ state'[f] = t /\ state' \in [Ends -> States]
    BY <1>3, <1>8 DEF States, t
  <2>4. cmds'[e] = Tail(q) /\ cmds'[f] = r /\ cmds' \in [Ends -> Seq(Cmds)]
    BY <1>3, <1>6, <1>8 DEF r
  <2>5. PipeTypes'
    BY <1>1, <1>8, <2>3, <2>4 DEF PipeInv, PipeTypes
  <2>6. /\ TermEnd(state'[e], state'[f], cmds'[e]) /\ TermEnd(state'[f], state'[e], cmds'[f])
        /\ Direction(e, state'[e], state'[f], cmds'[e], upipe', outpipe'[e], inpipe'[f],
                     msgs_read'[f], msgs_written'[e], peers_msgs_read'[e])
        /\ Direction(f, state'[f], state'[e], cmds'[f], upipe', outpipe'[f], inpipe'[e],
                     msgs_read'[e], msgs_written'[f], peers_msgs_read'[f])
    BY <1>1, <1>5, <1>8, <2>1, <2>2, <2>3, <2>4 DEF o
  <2> QED
    BY <1>1, <1>4, <2>5, <2>6, Kept DEF f
<1>9. CASE /\ s \in {"active", "delimiter_received", "term_req_sent1"}
           /\ state' = [state EXCEPT ![e] =
                          IF s = "term_req_sent1" THEN "term_req_sent2" ELSE "term_ack_sent"]
           /\ outpipe' = [outpipe EXCEPT ![e] = NULL]
           /\ cmds' = [[cmds EXCEPT ![e] = Tail(q)] EXCEPT ![f] = Append(@, TermAck)]
  <2> DEFINE s1 == IF s = "term_req_sent1" THEN "term_req_sent2" ELSE "term_ack_sent"
             r1 == Append(r, TermAck)
  <2>1. TermEnd(s1, t, Tail(q)) /\ TermEnd(t, s1, r1)
    BY <1>5, <1>9 DEF Calm
  <2>2. s1 \in Gone /\ s1 \in States /\ s1 \notin {"deleted", "delimiter_received"}
    BY DEF Gone, States
  <2>3. state' = [state EXCEPT ![e] = s1]
    BY <1>9
  <2> HIDE DEF s1
  <2>4. Direction(e, s1, t, Tail(q), upipe, NULL, inpipe[f],
                  msgs_read[f], msgs_written[e], peers_msgs_read[e])
    BY <1>6, <1>7, <2>2, WriterGoes
  <2>5. Direction(f, t, s1, r, upipe, outpipe[f], inpipe[e],
                  msgs_read[e], msgs_written[f], peers_msgs_read[f])
    BY <1>3, <1>6, <2>2, ReaderMoves
  <2>6. /\ r1 \in Seq(Cmds)
        /\ Direction(f, t, s1, r1, upipe, outpipe[f], inpipe[e],
                     msgs_read[e], msgs_written[f], peers_msgs_read[f])
    BY <1>3, <2>5, AckOnItsWay
  <2>7. cmds' = [[cmds EXCEPT ![e] = Tail(q)] EXCEPT ![f] = r1]
    BY <1>3, <1>9 DEF r
  <2> HIDE DEF r1
  <2>8. state'[e] = s1 /\ state'[f] = t /\ state' \in [Ends -> States]
    BY <1>3, <2>2, <2>3 DEF t
  <2>9. cmds'[e] = Tail(q) /\ cmds'[f] = r1 /\ cmds' \in [Ends -> Seq(Cmds)]
    BY <1>3, <1>6, <2>6, <2>7
  <2>10. outpipe'[e] = NULL /\ outpipe'[f] = outpipe[f] /\ outpipe' \in [Ends -> {NULL} \cup Upipes]
    BY <1>3, <1>4, <1>9
  <2>11. PipeTypes'
    BY <1>1, <2>8, <2>9, <2>10 DEF PipeInv, PipeTypes
  <2>12. /\ TermEnd(state'[e], state'[f], cmds'[e]) /\ TermEnd(state'[f], state'[e], cmds'[f])
         /\ Direction(e, state'[e], state'[f], cmds'[e], upipe', outpipe'[e], inpipe'[f],
                      msgs_read'[f], msgs_written'[e], peers_msgs_read'[e])
         /\ Direction(f, state'[f], state'[e], cmds'[f], upipe', outpipe'[f], inpipe'[e],
                      msgs_read'[e], msgs_written'[f], peers_msgs_read'[f])
    BY <1>1, <2>1, <2>4, <2>6, <2>8, <2>9, <2>10
  <2> QED
    BY <1>1, <1>4, <2>11, <2>12, Kept DEF f
<1> QED
  BY <1>2, <1>8, <1>9

\* process_pipe_term_ack ().
LEMMA process_pipe_term_ackKeeps ==
  ASSUME PipeInv, NEW e \in Ends, process_pipe_term_ack(e)
  PROVE  PipeInv'
<1> DEFINE f == Peer(e)
           s == state[e]
           t == state[f]
           q == cmds[e]
           r == cmds[f]
           i == inpipe[e]
           r1 == IF s = "term_req_sent1" THEN Append(r, TermAck) ELSE r
           up1 == [upipe EXCEPT ![i] = Deleted]
<1>1. /\ q # <<>> /\ Head(q).type = "pipe_term_ack" /\ s # "deleted"
      /\ UNCHANGED <<msgs_read, msgs_written, peers_msgs_read>>
      /\ state' = [state EXCEPT ![e] = "deleted"]
      /\ outpipe' = [outpipe EXCEPT ![e] = NULL]
      /\ inpipe' = [inpipe EXCEPT ![e] = NULL]
      /\ upipe' = up1
  BY DEF process_pipe_term_ack, Receives, flow
<1>2. cmds' = IF s = "term_req_sent1"
              THEN [[cmds EXCEPT ![e] = Tail(q)] EXCEPT ![f] = Append(@, TermAck)]
              ELSE [cmds EXCEPT ![e] = Tail(q)]
  BY DEF process_pipe_term_ack, Taken
<1>3. /\ f \in Ends /\ f # e
      /\ state \in [Ends -> States] /\ cmds \in [Ends -> Seq(Cmds)] /\ upipe \in [Upipes -> Upipe]
      /\ s \in States /\ t \in States /\ q \in Seq(Cmds) /\ r \in Seq(Cmds)
      /\ TermEnd(s, t, q) /\ TermEnd(t, s, r)
      /\ Direction(e, s, t, q, upipe, outpipe[e], inpipe[f],
                   msgs_read[f], msgs_written[e], peers_msgs_read[e])
      /\ Direction(f, t, s, r, upipe, outpipe[f], i,
                   msgs_read[e], msgs_written[f], peers_msgs_read[f])
  BY Known
<1>4. /\ Unborns(upipe, inpipe["session"])
      /\ outpipe \in [Ends -> {NULL} \cup Upipes] /\ inpipe \in [Ends -> {NULL} \cup Upipes]
  BY DEF PipeInv, PipeTypes
<1>5. i \in Upipes /\ Dir(i) = f
  BY <1>1, UpipesInUse
<1> HIDE DEF f, s, t, q, r, i
<1>6. t \in Gone /\ TermEnd("deleted", t, Tail(q)) /\ TermEnd(t, "deleted", r1)
  BY <1>1, <1>3, TermAcked
<1>7. Tail(q) \in Seq(Cmds)
  BY <1>1, <1>3, Received
<1>8. /\ up1 \in [Upipes -> Upipe] /\ Unborns(up1, inpipe["session"])
      /\ \A u \in Upipes : Dir(u) = e => up1[u] = upipe[u]
  BY <1>3, <1>4, <1>5, UnbornsKept, NewUpipes
<1> HIDE DEF up1
<1>9. Direction(e, "deleted", t, Tail(q), up1, NULL, inpipe[f],
                msgs_read[f], msgs_written[e], peers_msgs_read[e])
  <2>1. Direction(e, s, t, Tail(q), upipe, outpipe[e], inpipe[f],
                  msgs_read[f], msgs_written[e], peers_msgs_read[e])
    BY <1>1, <1>3, OtherTaken
  <2>2. Direction(e, s, t, Tail(q), up1, outpipe[e], inpipe[f],
                  msgs_read[f], msgs_written[e], peers_msgs_read[e])
    BY <1>3, <1>7, <1>8, <2>1, OtherUpipes
  <2>3. "deleted" \in Gone /\ t # "delimiter_received"
    BY <1>6 DEF Gone
  <2> QED
    BY <1>7, <2>2, <2>3, WriterGoes
<1>10. /\ r1 \in Seq(Cmds)
       /\ Direction(f, t, "deleted", r1, up1, outpipe[f], NULL,
                    msgs_read[e], msgs_written[f], peers_msgs_read[f])
  <2>1. /\ Append(r, TermAck) \in Seq(Cmds)
        /\ Direction(f, t, s, Append(r, TermAck), upipe, outpipe[f], i,
                     msgs_read[e], msgs_written[f], peers_msgs_read[f])
    BY <1>3, AckOnItsWay
  <2>2. /\ r1 \in Seq(Cmds)
        /\ Direction(f, t, s, r1, upipe, outpipe[f], i,
                     msgs_read[e], msgs_written[f], peers_msgs_read[f])
    BY <1>3, <2>1
  <2> HIDE DEF r1
  <2>3. ~ Has(r1, "hiccup")
    <3>1. CASE t = "deleted"
      <4>1. r1 = <<>> /\ ToSet(<<>>) = {}
        BY <1>6, <3>1 DEF TermEnd, ToSet
      <4> QED
        BY <4>1 DEF Has
    <3>2. CASE t # "deleted"
      BY <1>6, <3>2 DEF TermEnd, Has, Gone
    <3> QED
      BY <3>1, <3>2
  <2> QED
    BY <1>6, <2>2, <2>3, ReaderGoes
<1>11. state'[e] = "deleted" /\ state'[f] = t /\ state' \in [Ends -> States]
  BY <1>1, <1>3 DEF States, t
<1>12. cmds'[e] = Tail(q) /\ cmds'[f] = r1 /\ cmds' \in [Ends -> Seq(Cmds)]
  <2>1. CASE s = "term_req_sent1"
    <3>1. cmds' = [[cmds EXCEPT ![e] = Tail(q)] EXCEPT ![f] = r1]
      BY <1>2, <1>3, <2>1 DEF r
    <3> HIDE DEF r1
    <3> QED
      BY <1>3, <1>7, <1>10, <3>1
  <2>2. CASE s # "term_req_sent1"
    <3>1. cmds' = [cmds EXCEPT ![e] = Tail(q)]
      BY <1>2, <2>2
    <3> QED
      BY <1>3, <1>7, <2>2, <3>1 DEF r
  <2> QED
    BY <2>1, <2>2
<1> HIDE DEF r1
<1>13. outpipe'[e] = NULL /\ outpipe'[f] = outpipe[f] /\ outpipe' \in [Ends -> {NULL} \cup Upipes]
  BY <1>1, <1>3, <1>4
<1>14. inpipe'[e] = NULL /\ inpipe'[f] = inpipe[f] /\ inpipe' \in [Ends -> {NULL} \cup Upipes]
  BY <1>1, <1>3, <1>4
<1>15. PipeTypes'
  BY <1>1, <1>8, <1>11, <1>12, <1>13, <1>14 DEF PipeInv, PipeTypes
<1>16. Unborns(upipe', inpipe'["session"])
  <2>1. inpipe'["session"] \in {NULL, inpipe["session"]}
    BY <1>1, <1>4, TwoEnds
  <2> QED
    BY <1>1, <1>8, <2>1, PipeNumbers DEF Unborns
<1>17. /\ TermEnd(state'[e], state'[f], cmds'[e]) /\ TermEnd(state'[f], state'[e], cmds'[f])
       /\ Direction(e, state'[e], state'[f], cmds'[e], upipe', outpipe'[e], inpipe'[f],
                    msgs_read'[f], msgs_written'[e], peers_msgs_read'[e])
       /\ Direction(f, state'[f], state'[e], cmds'[f], upipe', outpipe'[f], inpipe'[e],
                    msgs_read'[e], msgs_written'[f], peers_msgs_read'[f])
  BY <1>1, <1>6, <1>9, <1>10, <1>11, <1>12, <1>13, <1>14
<1> QED
  BY <1>15, <1>16, <1>17, Kept DEF f

\* Every step keeps the invariant.
LEMMA InvNext ==
  ASSUME PipeInv, [Next]_vars
  PROVE  PipeInv'
<1>1. CASE UNCHANGED vars
  BY <1>1, OthersKeep DEF vars, flow
<1>2. ASSUME NEW e \in Ends, Reads(e) PROVE PipeInv'
  BY <1>2, readEmptyKeeps, readKeeps, readDelimiterKeeps DEF Reads
<1>3. ASSUME NEW e \in Ends, checkWriteFull(e) PROVE PipeInv'
  BY <1>3, OthersKeep DEF checkWriteFull, flow
<1>4. ASSUME NEW e \in Ends, rollback(e) \/ flush(e) PROVE PipeInv'
  BY <1>4, rollbackKeeps, flushKeeps
<1>5. ASSUME NEW e \in Ends, Command(e) PROVE PipeInv'
  BY <1>5, process_activate_readKeeps, process_activate_writeKeeps, process_hiccupKeeps,
     process_pipe_termKeeps, process_pipe_term_ackKeeps DEF Command
<1>6. ASSUME NEW e \in Ends, NEW part \in {"more", "last"}, write(e, part) PROVE PipeInv'
  BY <1>6, writeKeeps
<1>7. ASSUME NEW e \in Ends, NEW d \in BOOLEAN, terminate(e, d) PROVE PipeInv'
  BY <1>7, terminateKeeps
<1>8. ASSUME hiccup PROVE PipeInv'
  BY <1>8, hiccupKeeps
<1> QED
  BY <1>1, <1>2, <1>3, <1>4, <1>5, <1>6, <1>7, <1>8 DEF Next

\* Whatever the two threads do in whatever order, with any watermarks and any
\* number of messages, terminations and hiccups: the handlers' assertions hold,
\* nothing freed is reached, the watermarks hold, and the delimiter comes after
\* all messages (pipe.cpp).
THEOREM PipeAlwaysSafe ==
  Spec => []PipeSafe
<1>1. Init => PipeInv
  BY InvInit
<1>2. PipeInv /\ [Next]_vars => PipeInv'
  BY InvNext
<1>3. PipeInv => PipeSafe
  BY InvSafe
<1> QED
  BY <1>1, <1>2, <1>3, PTL DEF Spec
=============================================================================
