--------------------------- MODULE PatternsProofs ---------------------------
(***************************************************************************)
(* Proofs about the two pipe arrays of a socket, lb_t (Lb) and fq_t (Fq),  *)
(* for every finite set of pipes, and about req_t (Req), which is built on *)
(* the two.  The lemmas about PipeArray say where swap and erase leave the *)
(* pipes; the proofs of Lb and Fq are built on them.                       *)
(***************************************************************************)
EXTENDS MCPatterns, SequenceTheorems, FiniteSetTheorems, TLAPS

\* No pipe is twice in the array, and p is in it.
Injective(a) == \A i, j \in 1 .. Len(a) : a[i] = a[j] => i = j
Holds(a, p)  == \E i \in 1 .. Len(a) : a[i] = p

\* index finds a pipe that is there.
LEMMA IndexFinds ==
  ASSUME NEW S, NEW a \in Seq(S), NEW p, Holds(a, p)
  PROVE  /\ index(a, p) \in 0 .. Len(a) - 1 /\ a[index(a, p) + 1] = p
         /\ index(a, p) + 1 \in 1 .. Len(a)
<1> DEFINE k == CHOOSE i \in 1 .. Len(a) : a[i] = p
<1>1. Len(a) \in Nat
  BY LenProperties
<1>2. k \in 1 .. Len(a) /\ a[k] = p
  BY DEF Holds
<1>3. index(a, p) = k - 1
  BY DEF index
<1> HIDE DEF k
<1>4. (k - 1) + 1 = k /\ k - 1 \in 0 .. Len(a) - 1
  BY <1>1, <1>2
<1> QED
  BY <1>2, <1>3, <1>4

\* swap exchanges two items.
LEMMA SwapItems ==
  ASSUME NEW S, NEW a \in Seq(S), NEW i \in 0 .. Len(a) - 1, NEW j \in 0 .. Len(a) - 1
  PROVE  /\ swap(a, i, j) \in Seq(S) /\ Len(swap(a, i, j)) = Len(a)
         /\ \A k \in 1 .. Len(a) :
              swap(a, i, j)[k] = IF k = j + 1 THEN a[i + 1] ELSE IF k = i + 1 THEN a[j + 1] ELSE a[k]
<1> DEFINE b == [a EXCEPT ![i + 1] = a[j + 1]]
<1>1. Len(a) \in Nat /\ i + 1 \in 1 .. Len(a) /\ j + 1 \in 1 .. Len(a)
  BY LenProperties
<1>2. a[i + 1] \in S /\ a[j + 1] \in S
  BY <1>1, ElementOfSeq
<1>3. /\ b \in Seq(S) /\ Len(b) = Len(a)
      /\ \A k \in 1 .. Len(a) : b[k] = IF k = i + 1 THEN a[j + 1] ELSE a[k]
  BY <1>1, <1>2, ExceptSeq
<1> HIDE DEF b
<1>4. /\ [b EXCEPT ![j + 1] = a[i + 1]] \in Seq(S) /\ Len([b EXCEPT ![j + 1] = a[i + 1]]) = Len(b)
      /\ \A k \in 1 .. Len(b) : [b EXCEPT ![j + 1] = a[i + 1]][k] = IF k = j + 1 THEN a[i + 1] ELSE b[k]
  BY <1>1, <1>2, <1>3, ExceptSeq
<1>5. swap(a, i, j) = [b EXCEPT ![j + 1] = a[i + 1]]
  BY DEF swap, b
<1> QED
  BY <1>3, <1>4, <1>5

\* Swapping keeps the pipes and keeps each of them once.
LEMMA SwapKeeps ==
  ASSUME NEW S, NEW a \in Seq(S), NEW i \in 0 .. Len(a) - 1, NEW j \in 0 .. Len(a) - 1
  PROVE  /\ Injective(a) => Injective(swap(a, i, j))
         /\ \A p : Holds(swap(a, i, j), p) <=> Holds(a, p)
<1> DEFINE b == swap(a, i, j)
<1>1. Len(a) \in Nat /\ i + 1 \in 1 .. Len(a) /\ j + 1 \in 1 .. Len(a)
  BY LenProperties
<1>2. /\ Len(b) = Len(a)
      /\ \A k \in 1 .. Len(a) : b[k] = IF k = j + 1 THEN a[i + 1] ELSE IF k = i + 1 THEN a[j + 1] ELSE a[k]
  BY SwapItems
<1> HIDE DEF b
<1>3. Injective(a) => Injective(b)
  BY <1>1, <1>2 DEF Injective
<1>4. ASSUME NEW p, Holds(a, p) PROVE Holds(b, p)
  <2>1. PICK k \in 1 .. Len(a) : a[k] = p
    BY <1>4 DEF Holds
  <2>2. b[k] = p \/ b[i + 1] = p \/ b[j + 1] = p
    BY <1>1, <1>2, <2>1
  <2> QED
    BY <1>1, <1>2, <2>1, <2>2 DEF Holds
<1>5. ASSUME NEW p, Holds(b, p) PROVE Holds(a, p)
  BY <1>1, <1>2, <1>5 DEF Holds
<1> QED
  BY <1>3, <1>4, <1>5 DEF b

\* erase puts the last item in the place of the erased one.
LEMMA EraseItems ==
  ASSUME NEW S, NEW a \in Seq(S), NEW p, NEW m \in 1 .. Len(a), a[m] = p, Injective(a)
  PROVE  /\ erase(a, p) \in Seq(S) /\ Len(erase(a, p)) = Len(a) - 1
         /\ \A k \in 1 .. Len(a) - 1 : erase(a, p)[k] = IF k = m THEN a[Len(a)] ELSE a[k]
<1> DEFINE n == Len(a)
           b == [a EXCEPT ![m] = a[n]]
<1>1. n \in Nat /\ n \in 1 .. n /\ Holds(a, p)
  BY LenProperties DEF Holds
<1>2. a[n] \in S
  BY <1>1, ElementOfSeq
<1>3. index(a, p) + 1 = m
  BY <1>1, IndexFinds DEF Injective
<1>4. /\ b \in Seq(S) /\ Len(b) = n
      /\ \A k \in 1 .. n : b[k] = IF k = m THEN a[n] ELSE a[k]
  BY <1>2, ExceptSeq
<1>5. erase(a, p) = SubSeq(b, 1, n - 1)
  BY <1>3 DEF erase
<1> HIDE DEF b, n
<1>6. n - 1 \in Int /\ 1 \in Int /\ \A k \in 1 .. n - 1 : b[k] \in S
  BY <1>1, <1>4, ElementOfSeq
<1>7. SubSeq(b, 1, n - 1) \in Seq(S)
  BY <1>6, SubSeqProperties
<1>8. Len(SubSeq(b, 1, n - 1)) = n - 1
  BY <1>1, <1>6, SubSeqProperties
<1>9. \A k \in 1 .. n - 1 : SubSeq(b, 1, n - 1)[k] = b[k]
  BY <1>1, <1>4
<1> QED
  BY <1>1, <1>4, <1>5, <1>7, <1>8, <1>9 DEF n

\* Erasing drops that pipe and keeps each of the others once.
LEMMA EraseKeeps ==
  ASSUME NEW S, NEW a \in Seq(S), NEW p, Holds(a, p), Injective(a)
  PROVE  /\ Injective(erase(a, p))
         /\ \A q : Holds(erase(a, p), q) <=> Holds(a, q) /\ q # p
<1> DEFINE b == erase(a, p)
<1>0. PICK m \in 1 .. Len(a) : a[m] = p
  BY DEF Holds
<1>1. Len(a) \in Nat /\ Len(a) \in 1 .. Len(a)
  BY LenProperties
<1>2. Len(b) = Len(a) - 1 /\ \A k \in 1 .. Len(a) - 1 : b[k] = IF k = m THEN a[Len(a)] ELSE a[k]
  BY <1>0, EraseItems, SMTT(30)
<1> HIDE DEF b
<1>3. Injective(b)
  BY <1>1, <1>2 DEF Injective
<1>4. ASSUME NEW q, Holds(b, q) PROVE Holds(a, q) /\ q # p
  BY <1>0, <1>1, <1>2, <1>4 DEF Holds, Injective
<1>5. ASSUME NEW q, Holds(a, q), q # p PROVE Holds(b, q)
  <2>1. PICK k \in 1 .. Len(a) : a[k] = q
    BY <1>5 DEF Holds
  <2>2. CASE k = Len(a)
    <3>1. m \in 1 .. Len(a) - 1 /\ b[m] = q
      BY <1>0, <1>1, <1>2, <1>5, <2>1, <2>2
    <3> QED
      BY <1>2, <3>1 DEF Holds
  <2>3. CASE k # Len(a)
    <3>1. k \in 1 .. Len(a) - 1 /\ b[k] = q
      BY <1>0, <1>1, <1>2, <1>5, <2>1, <2>3
    <3> QED
      BY <1>2, <3>1 DEF Holds
  <2> QED
    BY <2>2, <2>3
<1> QED
  BY <1>3, <1>4, <1>5 DEF b

\* A finite set with an element has a positive size.
LEMMA NotEmpty ==
  ASSUME NEW S, IsFiniteSet(S), NEW x \in S
  PROVE  Cardinality(S) \in Nat /\ Cardinality(S) > 0
<1>1. Cardinality(S) \in Nat /\ (Cardinality(S) = 0 <=> S = {})
  BY FS_CardinalityType, FS_EmptySet
<1> QED
  BY <1>1

\* An array of distinct pipes is no longer than there are pipes.
LEMMA ArrayFits ==
  ASSUME NEW S, IsFiniteSet(S), NEW a \in Seq(S), Injective(a)
  PROVE  Len(a) <= Cardinality(S)
<1>1. Len(a) \in Nat /\ a \in [1 .. Len(a) -> S] /\ Cardinality(S) \in Nat
  BY LenProperties, FS_CardinalityType
<1>2. IsFiniteSet(1 .. Len(a)) /\ Cardinality(1 .. Len(a)) = IF 1 > Len(a) THEN 0 ELSE Len(a) - 1 + 1
  <2>1. 1 \in Int /\ Len(a) \in Int
    BY <1>1
  <2> QED
    BY <2>1, FS_Interval, Zenon
<1>3. Cardinality(1 .. Len(a)) = Len(a)
  BY <1>1, <1>2
<1>4. SUFFICES ASSUME Cardinality(S) < Len(a) PROVE FALSE
  BY <1>1
<1>5. \E i, j \in 1 .. Len(a) : i # j /\ a[i] = a[j]
  BY <1>1, <1>2, <1>3, <1>4, FS_PigeonHole
<1> QED
  BY <1>5 DEF Injective

\* "Once in the array", counted as the invariants count it.
LEMMA OnceCounted ==
  ASSUME NEW a, Injective(a), NEW p
  PROVE  Holds(a, p) <=> Cardinality({i \in 1 .. Len(a) : a[i] = p}) = 1
<1> DEFINE P == {i \in 1 .. Len(a) : a[i] = p}
<1>1. ASSUME Holds(a, p) PROVE Cardinality(P) = 1
  <2>1. PICK k \in 1 .. Len(a) : a[k] = p
    BY <1>1 DEF Holds
  <2>2. P = {k}
    BY <2>1 DEF Injective
  <2> QED
    BY <2>2, FS_Singleton
<1>2. ASSUME ~ Holds(a, p) PROVE Cardinality(P) = 0
  <2>1. P = {}
    BY <1>2 DEF Holds
  <2> QED
    BY <2>1, FS_EmptySet
<1> QED
  BY <1>1, <1>2

-----------------------------------------------------------------------------
(* What attach, activated and pipe_terminated, which lb_t and fq_t share,  *)
(* do to the array.                                                        *)

\* From a to b, pipe p has become the last of the active ones.
Joined(a, b, act, p) ==
  /\ Injective(b) /\ Len(b) \in {Len(a), Len(a) + 1} /\ act + 1 <= Len(b)
  /\ \A q : Holds(b, q) <=> Holds(a, q) \/ q = p
  /\ \A k \in 1 .. Len(b) : IF k <= act THEN b[k] = a[k]
                            ELSE IF k = act + 1 THEN b[k] = p
                            ELSE \E j \in act + 1 .. Len(a) : b[k] = a[j] /\ a[j] # p

\* From a to b, the pipe with index m has gone.
Left(a, b, act, m) ==
  /\ Injective(b) /\ Len(b) = Len(a) - 1
  /\ \A q : Holds(b, q) <=> Holds(a, q) /\ q # a[m + 1]
  /\ \A k \in 1 .. Len(b) :
       IF m < act THEN IF k < act THEN b[k] = IF k = m + 1 THEN a[act] ELSE a[k]
                                  ELSE \E j \in act + 1 .. Len(a) : b[k] = a[j]
                  ELSE IF k <= act THEN b[k] = a[k]
                                   ELSE \E j \in act + 1 .. Len(a) : b[k] = a[j]

\* attach: the pipe is appended and swapped to the end of the active ones.
LEMMA AttachJoins ==
  ASSUME NEW S, NEW a \in Seq(S), Injective(a), NEW p \in S, ~ Holds(a, p), NEW act \in 0 .. Len(a),
         NEW b, b = swap(Append(a, p), Len(a), act) \/ b = swap(Append(a, p), act, Len(a))
  PROVE  b \in Seq(S) /\ Joined(a, b, act, p)
<1> DEFINE n == Len(a)
           x == Append(a, p)
<1>1. n \in Nat /\ act \in Nat /\ act <= n
  BY LenProperties
<1>2. x \in Seq(S) /\ Len(x) = n + 1 /\ (\A k \in 1 .. n : x[k] = a[k]) /\ x[n + 1] = p
  BY AppendProperties
<1> HIDE DEF x, n
<1>3. Injective(x) /\ \A q : Holds(x, q) <=> Holds(a, q) \/ q = p
  <2>1. Injective(x)
    BY <1>1, <1>2 DEF Injective, Holds, n
  <2>2. ASSUME NEW q, Holds(a, q) \/ q = p PROVE Holds(x, q)
    <3>1. n + 1 \in 1 .. n + 1 /\ \A k \in 1 .. n : k \in 1 .. n + 1
      BY <1>1
    <3> QED
      BY <1>2, <2>2, <3>1 DEF Holds, n
  <2>3. ASSUME NEW q, Holds(x, q) PROVE Holds(a, q) \/ q = p
    <3>1. \A k \in 1 .. n + 1 : k \in 1 .. n \/ k = n + 1
      BY <1>1
    <3> QED
      BY <1>2, <2>3, <3>1 DEF Holds, n
  <2> QED
    BY <2>1, <2>2, <2>3
<1>4. n \in 0 .. Len(x) - 1 /\ act \in 0 .. Len(x) - 1
  BY <1>1, <1>2
<1>b. b = swap(x, n, act) \/ b = swap(x, act, n)
  BY DEF x, n
<1>5. /\ b \in Seq(S) /\ Len(b) = n + 1
      /\ \A k \in 1 .. n + 1 : b[k] = IF k = act + 1 THEN x[n + 1] ELSE IF k = n + 1 THEN x[act + 1] ELSE x[k]
  <2>1. CASE b = swap(x, n, act)
    BY <1>2, <1>4, <2>1, SwapItems
  <2>2. CASE b = swap(x, act, n)
    <3>1. /\ b \in Seq(S) /\ Len(b) = n + 1
          /\ \A k \in 1 .. n + 1 : b[k] = IF k = n + 1 THEN x[act + 1] ELSE IF k = act + 1 THEN x[n + 1] ELSE x[k]
      BY <1>2, <1>4, <2>2, SwapItems
    <3> QED
      BY <1>1, <3>1
  <2> QED
    BY <1>b, <2>1, <2>2
<1>6. Injective(b) /\ \A q : Holds(b, q) <=> Holds(a, q) \/ q = p
  BY <1>2, <1>3, <1>4, <1>b, SwapKeeps
<1>7. ASSUME NEW k \in 1 .. Len(b)
      PROVE  IF k <= act THEN b[k] = a[k] ELSE IF k = act + 1 THEN b[k] = p
             ELSE \E j \in act + 1 .. Len(a) : b[k] = a[j] /\ a[j] # p
  <2>1. CASE k <= act
    BY <1>1, <1>2, <1>5, <2>1
  <2>2. CASE k = act + 1
    BY <1>1, <1>2, <1>5, <2>2
  <2>3. CASE k > act + 1
    <3>1. PICK j \in act + 1 .. n : b[k] = a[j]
      <4>1. CASE k = n + 1
        BY <1>1, <1>2, <1>5, <2>3, <4>1
      <4>2. CASE k # n + 1
        BY <1>1, <1>2, <1>5, <2>3, <4>2
      <4> QED
        BY <4>1, <4>2
    <3>2. a[j] # p
      BY <1>1 DEF Holds, n
    <3> QED
      BY <1>1, <2>3, <3>1, <3>2 DEF n
  <2> QED
    BY <1>1, <1>5, <2>1, <2>2, <2>3
<1>8. act + 1 <= Len(b) /\ Len(b) \in {Len(a), Len(a) + 1}
  BY <1>1, <1>5 DEF n
<1> QED
  BY <1>5, <1>6, <1>7, <1>8 DEF Joined

\* activated: a passive pipe is swapped to the end of the active ones.
LEMMA ActivateJoins ==
  ASSUME NEW S, NEW a \in Seq(S), Injective(a), NEW p \in S, Holds(a, p), NEW act \in 0 .. Len(a),
         \A k \in 1 .. Len(a) : a[k] = p => k > act, NEW b, b = swap(a, index(a, p), act)
  PROVE  b \in Seq(S) /\ Joined(a, b, act, p)
<1> DEFINE n == Len(a)
           m == index(a, p)
<1>1. n \in Nat /\ act \in Nat /\ act <= n
  BY LenProperties
<1>2. m \in 0 .. n - 1 /\ m + 1 \in 1 .. n /\ a[m + 1] = p
  BY IndexFinds
<1> HIDE DEF m
<1>3. m + 1 > act /\ act \in 0 .. n - 1
  BY <1>1, <1>2
<1>4. /\ b \in Seq(S) /\ Len(b) = n
      /\ \A k \in 1 .. n : b[k] = IF k = act + 1 THEN a[m + 1] ELSE IF k = m + 1 THEN a[act + 1] ELSE a[k]
  BY <1>2, <1>3, SwapItems DEF m
<1>5. Injective(b) /\ \A q : Holds(b, q) <=> Holds(a, q) \/ q = p
  BY <1>2, <1>3, SwapKeeps DEF m
<1> HIDE DEF n
<1>6. ASSUME NEW k \in 1 .. Len(b)
      PROVE  IF k <= act THEN b[k] = a[k] ELSE IF k = act + 1 THEN b[k] = p
             ELSE \E j \in act + 1 .. Len(a) : b[k] = a[j] /\ a[j] # p
  <2>1. CASE k <= act
    BY <1>1, <1>2, <1>3, <1>4, <2>1, SMTT(30)
  <2>2. CASE k = act + 1
    BY <1>1, <1>2, <1>4, <2>2
  <2>3. CASE k > act + 1
    <3>1. PICK j \in act + 1 .. n : b[k] = a[j] /\ j # m + 1
      <4>1. CASE k = m + 1
        BY <1>1, <1>2, <1>4, <2>3, <4>1
      <4>2. CASE k # m + 1
        BY <1>1, <1>2, <1>4, <2>3, <4>2
      <4> QED
        BY <4>1, <4>2
    <3>2. a[j] # p
      BY <1>1, <1>2, <3>1 DEF Injective, n
    <3> QED
      BY <1>1, <2>3, <3>1, <3>2 DEF n
  <2> QED
    BY <1>1, <1>4, <2>1, <2>2, <2>3
<1>7. act + 1 <= Len(b) /\ Len(b) \in {Len(a), Len(a) + 1}
  BY <1>1, <1>3, <1>4 DEF n
<1> QED
  BY <1>4, <1>5, <1>6, <1>7 DEF Joined

\* pipe_terminated: an active pipe is swapped behind the active ones first.
LEMMA TerminateLeaves ==
  ASSUME NEW S, NEW a \in Seq(S), Injective(a), NEW p, Holds(a, p), NEW act \in 0 .. Len(a),
         NEW m, m = index(a, p),
         NEW b, b = IF m < act THEN erase(swap(a, m, act - 1), p) ELSE erase(a, p)
  PROVE  /\ m \in 0 .. Len(a) - 1 /\ m + 1 \in 1 .. Len(a) /\ a[m + 1] = p
         /\ b \in Seq(S) /\ Left(a, b, act, m)
<1> DEFINE n == Len(a)
<1>1. n \in Nat /\ act \in Nat /\ act <= n
  BY LenProperties
<1>2. m \in 0 .. n - 1 /\ m \in Nat /\ m + 1 \in 1 .. n /\ a[m + 1] = p /\ n \in 1 .. n
  BY <1>1, IndexFinds
<1>3. CASE ~ (m < act)
  <2>0. b = erase(a, p) /\ m >= act
    BY <1>1, <1>2, <1>3
  <2>1. /\ b \in Seq(S) /\ Len(b) = n - 1
        /\ \A k \in 1 .. n - 1 : b[k] = IF k = m + 1 THEN a[n] ELSE a[k]
    <3>1. PICK x \in 1 .. Len(a) : x = m + 1 /\ a[x] = p
      BY <1>2
    <3>2. /\ erase(a, p) \in Seq(S) /\ Len(erase(a, p)) = Len(a) - 1
          /\ \A k \in 1 .. Len(a) - 1 : erase(a, p)[k] = IF k = x THEN a[Len(a)] ELSE a[k]
      BY <3>1, EraseItems
    <3> QED
      BY <2>0, <3>1, <3>2
  <2>2. Injective(b) /\ \A q : Holds(b, q) <=> Holds(a, q) /\ q # p
    BY <2>0, EraseKeeps
  <2> HIDE DEF n
  <2>3. ASSUME NEW k \in 1 .. n - 1
        PROVE  IF k <= act THEN b[k] = a[k] ELSE \E j \in act + 1 .. n : b[k] = a[j]
    <3>1. CASE k <= act
      BY <1>1, <1>2, <2>0, <2>1, <3>1
    <3>2. CASE k > act
      <4>1. n \in act + 1 .. n /\ k \in act + 1 .. n
        BY <1>1, <1>2, <2>0, <3>2
      <4>2. b[k] = a[n] \/ b[k] = a[k]
        BY <2>1
      <4> QED
        BY <1>1, <3>2, <4>1, <4>2
    <3> QED
      BY <1>1, <3>1, <3>2
  <2> QED
    BY <1>2, <1>3, <2>1, <2>2, <2>3 DEF Left, n
<1>4. CASE m < act
  <2> DEFINE s == swap(a, m, act - 1)
  <2>0. b = erase(s, p)
    BY <1>4
  <2>1. act - 1 \in 0 .. n - 1 /\ (act - 1) + 1 = act /\ act \in 1 .. n
    BY <1>1, <1>2, <1>4
  <2>2. /\ s \in Seq(S) /\ Len(s) = n
        /\ \A k \in 1 .. n : s[k] = IF k = (act - 1) + 1 THEN a[m + 1] ELSE IF k = m + 1 THEN a[(act - 1) + 1] ELSE a[k]
    BY <1>2, <2>1, SwapItems
  <2>3. Injective(s) /\ \A q : Holds(s, q) <=> Holds(a, q)
    BY <1>2, <2>1, SwapKeeps
  <2> HIDE DEF s, n
  <2>4. \A k \in 1 .. n : s[k] = IF k = act THEN p ELSE IF k = m + 1 THEN a[act] ELSE a[k]
    BY <1>2, <2>1, <2>2
  <2>5. s[act] = p /\ act \in 1 .. Len(s)
    BY <2>1, <2>2, <2>4
  <2>6. /\ b \in Seq(S) /\ Len(b) = Len(s) - 1
        /\ \A k \in 1 .. Len(s) - 1 : b[k] = IF k = act THEN s[Len(s)] ELSE s[k]
    <3>1. /\ erase(s, p) \in Seq(S) /\ Len(erase(s, p)) = Len(s) - 1
          /\ \A k \in 1 .. Len(s) - 1 : erase(s, p)[k] = IF k = act THEN s[Len(s)] ELSE s[k]
      <4>1. PICK y \in Seq(S) : y = s /\ Injective(y)
        BY <2>2, <2>3
      <4>2. PICK x \in 1 .. Len(y) : x = act /\ y[x] = p
        BY <2>5, <4>1
      <4>3. /\ erase(y, p) \in Seq(S) /\ Len(erase(y, p)) = Len(y) - 1
            /\ \A k \in 1 .. Len(y) - 1 : erase(y, p)[k] = IF k = x THEN y[Len(y)] ELSE y[k]
        BY <4>1, <4>2, EraseItems
      <4> QED
        BY <4>1, <4>2, <4>3
    <3> QED
      BY <2>0, <3>1
  <2>7. Holds(s, p)
    BY <2>5 DEF Holds
  <2>8. Injective(b) /\ \A q : Holds(b, q) <=> Holds(a, q) /\ q # p
    BY <2>0, <2>2, <2>3, <2>7, EraseKeeps
  <2>9. ASSUME NEW k \in 1 .. n - 1
        PROVE  IF k < act THEN b[k] = IF k = m + 1 THEN a[act] ELSE a[k]
                          ELSE \E j \in act + 1 .. n : b[k] = a[j]
    <3>1. k \in 1 .. n /\ k # n
      BY <1>1
    <3>2. CASE k < act
      BY <1>1, <2>2, <2>4, <2>6, <3>1, <3>2
    <3>3. CASE k = act
      <4>1. b[k] = s[n] /\ n \in act + 1 .. n /\ n # act /\ n # m + 1
        BY <1>1, <1>2, <1>4, <2>2, <2>6, <3>3
      <4>2. s[n] = a[n]
        BY <1>2, <2>4, <4>1
      <4> QED
        BY <1>1, <3>3, <4>1, <4>2
    <3>4. CASE k > act
      <4>1. b[k] = s[k] /\ k \in act + 1 .. n /\ k # act /\ k # m + 1
        BY <1>1, <1>2, <1>4, <2>2, <2>6, <3>1, <3>4
      <4>2. s[k] = a[k]
        BY <2>4, <3>1, <4>1
      <4> QED
        BY <1>1, <3>4, <4>1, <4>2
    <3> QED
      BY <1>1, <3>2, <3>3, <3>4
  <2> QED
    BY <1>2, <1>4, <2>2, <2>6, <2>8, <2>9 DEF Left, n
<1> QED
  BY <1>2, <1>3, <1>4

-----------------------------------------------------------------------------
(* lb_t.                                                                   *)

Room  == {"open", "full", "closing"}
Parts == Nat \X BOOLEAN

LbTypeOK ==
  /\ pipes \in Seq(Pipes) /\ active \in 0 .. Len(pipes)
  /\ current \in Nat /\ (current < active \/ current = 0)
  /\ more \in BOOLEAN /\ dropping \in BOOLEAN /\ last \in BOOLEAN /\ asserted \in BOOLEAN
  /\ state \in [Pipes -> Room \cup {"new", "gone"}]
  /\ buffer \in [Pipes -> Seq(Parts)] /\ flushed \in Seq(Parts)
  /\ call \in {"none", "send", "has_out"} /\ msg \in Nat /\ part \in Nat \ {0}
  /\ bypassed \in [Pipes -> Nat]

\* Each attached pipe is once in the array, those with room in its first part.
LbArray ==
  /\ Injective(pipes)
  /\ \A p \in Pipes : state[p] \in Room <=> Holds(pipes, p)
  /\ \A i \in 1 .. Len(pipes) : /\ state[pipes[i]] = "open" => i <= active
                                /\ state[pipes[i]] = "full" => i > active

\* b holds the parts of an unfinished message before part n.
Started(b, n) == Len(b) = n - 1 /\ \A i \in 1 .. n - 1 : b[i] = <<i, FALSE>>

\* A message that was begun is being dropped, or is in the pipe tried next,
\* which is open; no other pipe holds any part.
LbMessage ==
  /\ ~ asserted /\ WholeMessages
  /\ dropping => more /\ call # "send"
  /\ call = "has_out" => ~ more
  /\ IF more THEN part > 1 ELSE part = 1
  /\ more /\ ~ dropping => /\ active > 0 /\ state[pipes[current + 1]] = "open"
                           /\ Started(buffer[pipes[current + 1]], part)
  /\ \A p \in Pipes : buffer[p] = <<>> \/ (more /\ ~ dropping /\ p = pipes[current + 1])

\* The messages that passed an open pipe are no more than the steps of current
\* since it was there.
LbTurns ==
  /\ \A p \in Pipes : bypassed[p] < Cardinality(Pipes) /\ (state[p] \in {"new", "full"} => bypassed[p] = 0)
  /\ \A i \in 1 .. Len(pipes) : state[pipes[i]] = "open" =>
       bypassed[pipes[i]] <= IF i <= current THEN current - i ELSE current + Len(pipes) - i

\* The invariant that the proof about lb_t uses.
LbInv == LbTypeOK /\ LbArray /\ LbMessage /\ LbTurns

\* What the steps below use of the types.
LEMMA LbFacts ==
  ASSUME LbInv
  PROVE  /\ Len(pipes) \in Nat /\ active \in Nat /\ active <= Len(pipes) /\ pipes \in Seq(Pipes)
         /\ current \in Nat /\ (current < active \/ current = 0) 
         /\ (active > 0 => current < active /\ current + 1 \in 1 .. Len(pipes))
         /\ state \in [Pipes -> Room \cup {"new", "gone"}] /\ bypassed \in [Pipes -> Nat]
         /\ \A k \in 1 .. Len(pipes) : pipes[k] \in Pipes
<1>1. pipes \in Seq(Pipes) /\ active \in 0 .. Len(pipes) /\ current \in Nat /\ (current < active \/ current = 0)
  BY DEF LbInv, LbTypeOK
<1>2. state \in [Pipes -> Room \cup {"new", "gone"}] /\ bypassed \in [Pipes -> Nat]
  BY DEF LbInv, LbTypeOK
<1>3. Len(pipes) \in Nat /\ \A k \in 1 .. Len(pipes) : pipes[k] \in Pipes
  BY <1>1, LenProperties, ElementOfSeq
<1>4. active > 0 => current < active /\ current + 1 \in 1 .. Len(pipes)
  BY <1>1, <1>3
<1> QED
  BY <1>1, <1>2, <1>3, <1>4

\* What the invariant implies: the checked property.
LEMMA LbInvRight == LbInv => LbRight
<1> SUFFICES ASSUME LbInv PROVE LbRight
  OBVIOUS
<1>0. LbTypeOK /\ LbArray /\ LbMessage /\ LbTurns
  BY DEF LbInv
<1>1. WholeMessages /\ NotBypassed
  BY <1>0 DEF LbMessage, LbTurns, NotBypassed
<1>2. ASSUME NEW i \in 0 .. Len(pipes) - 1
      PROVE  /\ state[Item(pipes, i)] = "open" => i < active
             /\ state[Item(pipes, i)] = "full" => i >= active
  <2>1. i + 1 \in 1 .. Len(pipes) /\ i \in Nat /\ active \in Nat
    BY <1>0, LenProperties DEF LbTypeOK
  <2> QED
    BY <1>0, <2>1 DEF LbArray, Item
<1>3. \A p \in Pipes : state[p] \in Room <=> Cardinality({i \in 1 .. Len(pipes) : pipes[i] = p}) = 1
  BY <1>0, OnceCounted DEF LbArray
<1>4. active > 0 => current < active
  BY <1>0 DEF LbTypeOK
<1>5. ActiveExact
  BY <1>0, <1>2, <1>3, <1>4 DEF ActiveExact, LbTypeOK, LbMessage, Room
<1> QED
  BY <1>1, <1>5 DEF LbRight

\* The constructor.
LEMMA InitLbInv == Init => LbInv
<1> SUFFICES ASSUME Init PROVE LbInv
  OBVIOUS
<1>1. <<>> \in Seq(Pipes) /\ <<>> \in Seq(Parts) /\ Len(<<>>) = 0
  OBVIOUS
<1>2. LbTypeOK
  <2>1. state \in [Pipes -> Room \cup {"new", "gone"}] /\ bypassed \in [Pipes -> Nat]
    BY DEF Init
  <2>2. buffer \in [Pipes -> Seq(Parts)]
    BY <1>1 DEF Init
  <2>3. active \in 0 .. Len(pipes) /\ current \in Nat /\ msg \in Nat /\ part \in Nat \ {0}
    BY <1>1 DEF Init
  <2> QED
    BY <1>1, <2>1, <2>2, <2>3 DEF Init, LbTypeOK
<1>3. LbArray
  BY <1>1 DEF Init, LbArray, Injective, Holds, Room
<1>4. LbMessage
  BY <1>1 DEF Init, LbMessage, WholeMessages
<1>5. \A p \in Pipes : 0 < Cardinality(Pipes)
  BY LbAssumption, NotEmpty
<1>6. LbTurns
  BY <1>1, <1>5 DEF Init, LbTurns
<1> QED
  BY <1>2, <1>3, <1>4, <1>6 DEF LbInv

\* The round-robin pointer.
LEMMA ModStep ==
  ASSUME NEW a \in Nat, NEW k \in Nat, k < a
  PROVE  (k + 1) % a = IF k + 1 = a THEN 0 ELSE k + 1
  OBVIOUS

\* A pipe gets room: it becomes the last of the active ones.
LEMMA LbGetsRoom ==
  ASSUME LbInv, NEW p \in Pipes, state[p] \in {"new", "full"},
         pipes' \in Seq(Pipes), Joined(pipes, pipes', active, p),
         active' = active + 1, state' = [state EXCEPT ![p] = "open"],
         UNCHANGED <<current, more, dropping, buffer, flushed, app, bypassed, asserted>>
  PROVE  LbInv'
<1>a. /\ Injective(pipes') /\ Len(pipes') \in {Len(pipes), Len(pipes) + 1}
      /\ active + 1 <= Len(pipes') /\ \A q \in Pipes : Holds(pipes', q) <=> Holds(pipes, q) \/ q = p
  BY DEF Joined
<1>b. \A k \in 1 .. Len(pipes') : IF k <= active THEN pipes'[k] = pipes[k]
                                  ELSE IF k = active + 1 THEN pipes'[k] = p
                                  ELSE \E j \in active + 1 .. Len(pipes) : pipes'[k] = pipes[j] /\ pipes[j] # p
  BY DEF Joined
<1> USE <1>a, <1>b
<1>0. LbTypeOK /\ LbArray /\ LbMessage /\ LbTurns
  BY DEF LbInv
<1>1. /\ Len(pipes) \in Nat /\ Len(pipes') \in Nat /\ active \in Nat /\ current \in Nat /\ active <= Len(pipes)
      /\ (active > 0 => current < active)
      /\ state \in [Pipes -> Room \cup {"new", "gone"}]
      /\ \A k \in 1 .. Len(pipes) : pipes[k] \in Pipes
      /\ \A k \in 1 .. Len(pipes') : pipes'[k] \in Pipes
  BY LbFacts, LenProperties, ElementOfSeq
<1>2. UNCHANGED <<more, dropping, last, asserted, buffer, flushed, call, msg, part, bypassed, current>>
  BY DEF app
<1>3. \A q \in Pipes : state'[q] = IF q = p THEN "open" ELSE state[q]
  BY <1>1
<1>4. LbTypeOK'
  <2>1. state' \in [Pipes -> Room \cup {"new", "gone"}]
    BY <1>1 DEF Room
  <2>2. active' \in 0 .. Len(pipes') /\ (current' < active' \/ current' = 0)
    BY <1>0, <1>1, <1>2 DEF LbTypeOK
  <2> QED
    BY <1>0, <1>2, <2>1, <2>2 DEF LbTypeOK
<1>5. LbArray'
  <2>1. \A q \in Pipes : state'[q] \in Room <=> Holds(pipes', q)
    BY <1>0, <1>3 DEF LbArray, Room
  <2>2. ASSUME NEW k \in 1 .. Len(pipes')
        PROVE  /\ state'[pipes'[k]] = "open" => k <= active'
               /\ state'[pipes'[k]] = "full" => k > active'
    <3>1. CASE k <= active
      BY <1>0, <1>1, <1>3, <3>1 DEF LbArray
    <3>2. CASE k = active + 1
      BY <1>1, <1>3, <3>2
    <3>3. CASE k > active + 1
      <4>1. PICK j \in active + 1 .. Len(pipes) : pipes'[k] = pipes[j] /\ pipes[j] # p
        BY <1>1, <3>3
      <4>2. state[pipes[j]] # "open"
        BY <1>0, <1>1, <4>1 DEF LbArray
      <4> QED
        BY <1>1, <1>3, <3>3, <4>1, <4>2
    <3> QED
      BY <1>1, <3>1, <3>2, <3>3
  <2> QED
    BY <2>1, <2>2 DEF LbArray
<1>6. LbMessage'
  <2>1. active > 0 => current + 1 \in 1 .. Len(pipes') /\ current + 1 <= active
    BY <1>1
  <2>2. active > 0 => pipes'[current + 1] = pipes[current + 1] /\ pipes[current + 1] \in Pipes
    BY <1>1, <2>1
  <2>3. WholeMessages'
    BY <1>0, <1>2 DEF LbMessage, WholeMessages
  <2>4. more /\ ~ dropping => /\ active' > 0 /\ state'[pipes'[current + 1]] = "open"
                              /\ Started(buffer[pipes'[current + 1]], part)
    BY <1>0, <1>1, <1>3, <2>2 DEF LbMessage
  <2>5. \A q \in Pipes : buffer[q] = <<>> \/ (more /\ ~ dropping /\ q = pipes'[current + 1])
    BY <1>0, <2>2 DEF LbMessage
  <2>6. /\ ~ asserted' /\ (dropping' => more' /\ call' # "send") /\ (call' = "has_out" => ~ more')
        /\ IF more' THEN part' > 1 ELSE part' = 1
    BY <1>0, <1>2 DEF LbMessage
  <2>7. more' /\ ~ dropping' => /\ active' > 0 /\ state'[pipes'[current' + 1]] = "open"
                                /\ Started(buffer'[pipes'[current' + 1]], part')
    BY <1>2, <2>4
  <2>8. \A q \in Pipes : buffer'[q] = <<>> \/ (more' /\ ~ dropping' /\ q = pipes'[current' + 1])
    BY <1>2, <2>5
  <2> QED
    BY <2>3, <2>6, <2>7, <2>8 DEF LbMessage, Started
<1>7. LbTurns'
  <2>1. \A q \in Pipes : bypassed[q] < Cardinality(Pipes) /\ (state'[q] \in {"new", "full"} => bypassed[q] = 0)
    BY <1>0, <1>3 DEF LbTurns
  <2>2. ASSUME NEW k \in 1 .. Len(pipes'), state'[pipes'[k]] = "open"
        PROVE  bypassed[pipes'[k]] <= IF k <= current THEN current - k ELSE current + Len(pipes') - k
    <3>0. bypassed \in [Pipes -> Nat]
      BY <1>0 DEF LbTypeOK
    <3>1. CASE k <= active
      <4>1. k \in 1 .. Len(pipes) /\ pipes'[k] = pipes[k] /\ pipes[k] \in Pipes
        BY <1>1, <3>1
      <4>2. state[pipes[k]] = "open" \/ bypassed[pipes[k]] = 0
        BY <1>0, <1>3, <2>2, <4>1 DEF LbTurns
      <4>3. bypassed[pipes[k]] = 0 \/ bypassed[pipes[k]] <= IF k <= current THEN current - k ELSE current + Len(pipes) - k
        BY <1>0, <4>1, <4>2 DEF LbTurns
      <4>4. bypassed[pipes[k]] \in Nat
        BY <3>0, <4>1
      <4> QED
        BY <1>1, <4>1, <4>3, <4>4
    <3>2. CASE k = active + 1
      <4>1. pipes'[k] = p /\ bypassed[p] = 0 /\ k > current
        BY <1>0, <1>1, <3>2 DEF LbTurns, LbTypeOK
      <4> QED
        BY <1>1, <4>1
    <3>3. CASE k > active + 1
      BY <1>1, <1>5, <2>2, <3>3 DEF LbArray
    <3> QED
      BY <1>1, <3>1, <3>2, <3>3
  <2> QED
    BY <1>2, <2>1, <2>2 DEF LbTurns
<1> QED
  BY <1>4, <1>5, <1>6, <1>7 DEF LbInv

\* attach and activated.
LEMMA LbAttach ==
  ASSUME LbInv, NEW p \in Pipes, attach(p) \/ activated(p)
  PROVE  LbInv'
<1>0. LbArray /\ pipes \in Seq(Pipes) /\ active \in 0 .. Len(pipes) /\ Injective(pipes)
  BY LbFacts DEF LbInv, LbArray
<1>1. /\ active' = active + 1 /\ state' = [state EXCEPT ![p] = "open"] /\ state[p] \in {"new", "full"}
      /\ UNCHANGED <<current, more, dropping, buffer, flushed, app, bypassed, asserted>>
  BY DEF attach, activated
<1>2. CASE attach(p)
  <2>1. ~ Holds(pipes, p) /\ pipes' = swap(Append(pipes, p), Len(pipes), active)
    BY <1>0, <1>2 DEF LbArray, Room, attach
  <2>2. pipes' \in Seq(Pipes) /\ Joined(pipes, pipes', active, p)
    BY <1>0, <2>1, AttachJoins
  <2> QED
    BY <1>1, <2>2, LbGetsRoom
<1>3. CASE activated(p)
  <2>1. /\ Holds(pipes, p) /\ pipes' = swap(pipes, index(pipes, p), active)
        /\ \A k \in 1 .. Len(pipes) : pipes[k] = p => k > active
    BY <1>0, <1>3 DEF LbArray, Room, activated
  <2>2. pipes' \in Seq(Pipes) /\ Joined(pipes, pipes', active, p)
    BY <1>0, <2>1, ActivateJoins
  <2> QED
    BY <1>1, <2>2, LbGetsRoom
<1> QED
  BY <1>2, <1>3

\* closing: nothing moves; no part of a message is in the pipe.
LEMMA LbClosing ==
  ASSUME LbInv, ~ ClosingMidMessage, NEW p \in Pipes, closing(p)
  PROVE  LbInv'
<1>0. LbTypeOK /\ LbArray /\ LbMessage /\ LbTurns /\ ~ more
  BY DEF LbInv, closing
<1>1. /\ state[p] \in {"open", "full"} /\ state' = [state EXCEPT ![p] = "closing"]
      /\ UNCHANGED <<pipes, active, current, more, dropping, buffer, flushed, call, msg, part, last, bypassed, asserted>>
  BY DEF closing, lb, app
<1>2. /\ state \in [Pipes -> Room \cup {"new", "gone"}] /\ \A k \in 1 .. Len(pipes) : pipes[k] \in Pipes
  BY LbFacts
<1>3. \A q \in Pipes : state'[q] = IF q = p THEN "closing" ELSE state[q]
  BY <1>1, <1>2
<1>4. LbTypeOK'
  <2>1. state' \in [Pipes -> Room \cup {"new", "gone"}]
    BY <1>1, <1>2 DEF Room
  <2> QED
    BY <1>0, <1>1, <2>1 DEF LbTypeOK
<1>5. LbArray'
  <2>1. \A q \in Pipes : state'[q] \in Room <=> Holds(pipes, q)
    BY <1>0, <1>1, <1>3 DEF LbArray, Room
  <2>2. \A i \in 1 .. Len(pipes) : /\ state'[pipes[i]] = "open" => i <= active
                                   /\ state'[pipes[i]] = "full" => i > active
    BY <1>0, <1>2, <1>3 DEF LbArray
  <2> QED
    BY <1>0, <1>1, <2>1, <2>2 DEF LbArray
<1>6. LbMessage'
  BY <1>0, <1>1 DEF LbMessage, WholeMessages
<1>7. LbTurns'
  BY <1>0, <1>1, <1>2, <1>3 DEF LbTurns
<1> QED
  BY <1>4, <1>5, <1>6, <1>7 DEF LbInv

\* pipe_terminated: the array closes the gap; a message begun on the pipe is
\* dropped, and one begun on another pipe stays where current points.
LEMMA LbTerminated ==
  ASSUME LbInv, ~ ThirdGoes, NEW p \in Pipes, pipe_terminated(p)
  PROVE  LbInv'
<1> DEFINE n == Len(pipes)
           m == index(pipes, p)
<1>0. LbTypeOK /\ LbArray /\ LbMessage /\ LbTurns /\ state[p] \in Room
  BY DEF LbInv, pipe_terminated, Room
<1>1. /\ pipes \in Seq(Pipes) /\ n \in Nat /\ active \in Nat /\ active <= n /\ Holds(pipes, p) /\ Injective(pipes)
      /\ current \in Nat /\ (current < active \/ current = 0)
      /\ state \in [Pipes -> Room \cup {"new", "gone"}] /\ \A k \in 1 .. n : pipes[k] \in Pipes
      /\ buffer \in [Pipes -> Seq(Parts)]
  BY <1>0, LbFacts DEF LbArray, LbTypeOK
<1>2. m \in 0 .. n - 1 /\ m + 1 \in 1 .. n /\ pipes[m + 1] = p
  BY <1>1, IndexFinds
<1>3. /\ dropping' = (dropping \/ (m = current /\ more))
      /\ state' = [state EXCEPT ![p] = "gone"] /\ buffer' = [buffer EXCEPT ![p] = <<>>]
      /\ bypassed' = [q \in Pipes |-> 0] /\ call = "none"
      /\ UNCHANGED <<more, flushed, call, msg, part, last, asserted>>
  BY DEF pipe_terminated, app
<1>4. /\ active' = IF m < active THEN active - 1 ELSE active
      /\ current' = IF m < active /\ current = active - 1 THEN 0 ELSE current
      /\ pipes' = IF m < active THEN erase(swap(pipes, m, active - 1), p) ELSE erase(pipes, p)
  <2>1. CASE m < active
    BY <2>1 DEF pipe_terminated
  <2>2. CASE ~ (m < active)
    BY <2>2 DEF pipe_terminated
  <2> QED
    BY <2>1, <2>2
<1>5. more => active <= 2 \/ m = current \/ m >= active
  BY DEF pipe_terminated, MayGo
<1>m. m \in Nat
  BY <1>2
<1>a. active \in 0 .. n
  BY <1>1
\* Where the pipes are now.
<1>b. pipes' \in Seq(Pipes) /\ Left(pipes, pipes', active, m)
  BY <1>1, <1>4, <1>a, TerminateLeaves
<1> HIDE DEF m
<1>6. /\ Injective(pipes') /\ Len(pipes') = n - 1
      /\ \A q \in Pipes : Holds(pipes', q) <=> Holds(pipes, q) /\ q # p
      /\ m < active => \A k \in 1 .. n - 1 :
            IF k < active THEN pipes'[k] = IF k = m + 1 THEN pipes[active] ELSE pipes[k]
                          ELSE \E j \in active + 1 .. n : pipes'[k] = pipes[j]
      /\ ~ (m < active) => \A k \in 1 .. n - 1 :
            IF k <= active THEN pipes'[k] = pipes[k] ELSE \E j \in active + 1 .. n : pipes'[k] = pipes[j]
  BY <1>2, <1>b DEF Left
<1> HIDE DEF n
<1>7. \A q \in Pipes : state'[q] = IF q = p THEN "gone" ELSE state[q]
  BY <1>1, <1>3
<1>8. /\ active' \in Nat /\ active' <= n - 1 /\ current' \in Nat /\ (current' < active' \/ current' = 0)
      /\ n - 1 \in Nat /\ \A k \in 1 .. n - 1 : pipes'[k] \in Pipes
  <2>1. \A k \in 1 .. n - 1 : pipes'[k] \in Pipes
    BY <1>6, <1>b, ElementOfSeq
  <2> QED
    BY <1>1, <1>2, <1>4, <2>1
<1>9. LbTypeOK'
  <2>1. state' \in [Pipes -> Room \cup {"new", "gone"}]
    BY <1>1, <1>3
  <2>2. <<>> \in Seq(Parts)
    OBVIOUS
  <2>3. buffer' \in [Pipes -> Seq(Parts)] /\ bypassed' \in [Pipes -> Nat] /\ dropping' \in BOOLEAN
    BY <1>1, <1>3, <2>2
  <2>4. active' \in 0 .. Len(pipes')
    BY <1>6, <1>8
  <2> QED
    BY <1>0, <1>3, <1>6, <1>8, <1>b, <2>1, <2>3, <2>4 DEF LbTypeOK
<1>10. LbArray'
  <2>1. \A q \in Pipes : state'[q] \in Room <=> Holds(pipes', q)
    BY <1>0, <1>6, <1>7 DEF LbArray, Room
  <2>2. ASSUME NEW k \in 1 .. n - 1
        PROVE  /\ state'[pipes'[k]] = "open" => k <= active'
               /\ state'[pipes'[k]] = "full" => k > active'
    <3>0. state'[pipes'[k]] = "gone" \/ state'[pipes'[k]] = state[pipes'[k]]
      BY <1>7, <1>8
    <3>1. PICK j \in 1 .. n : pipes'[k] = pipes[j] /\ (k <= active' <=> j <= active)
      <4>1. CASE ~ (m < active)
        <5>1. CASE k <= active
          BY <1>1, <1>4, <1>6, <4>1, <5>1
        <5>2. CASE k > active
          <6>1. PICK j \in active + 1 .. n : pipes'[k] = pipes[j]
            BY <1>1, <1>6, <4>1, <5>2
          <6> QED
            BY <1>1, <1>4, <4>1, <5>2, <6>1
        <5> QED
          BY <1>1, <5>1, <5>2
      <4>2. CASE m < active
        <5>1. CASE k < active
          <6>1. k \in 1 .. n /\ active \in 1 .. n /\ (pipes'[k] = pipes[active] \/ pipes'[k] = pipes[k])
            BY <1>1, <1>6, <4>2, <5>1
          <6>2. k <= active' /\ k <= active /\ active <= active
            BY <1>1, <1>4, <4>2, <5>1, <6>1
          <6> QED
            BY <6>1, <6>2, Zenon
        <5>2. CASE k >= active
          <6>1. PICK j \in active + 1 .. n : pipes'[k] = pipes[j]
            BY <1>1, <1>6, <4>2, <5>2
          <6>2. j \in 1 .. n /\ ~ (j <= active) /\ ~ (k <= active')
            BY <1>1, <1>4, <4>2, <5>2, <6>1
          <6> QED
            BY <6>1, <6>2
        <5> QED
          BY <1>1, <5>1, <5>2
      <4> QED
        BY <4>1, <4>2
    <3>2. (state[pipes[j]] = "open" => j <= active) /\ (state[pipes[j]] = "full" => j > active)
      BY <1>0 DEF LbArray, n
    <3> QED
      BY <1>1, <1>8, <3>0, <3>1, <3>2
  <2> QED
    BY <1>6, <2>1, <2>2 DEF LbArray
<1>11. LbMessage'
  <2>1. WholeMessages' /\ ~ asserted' /\ (dropping' => more' /\ call' # "send") /\ (call' = "has_out" => ~ more')
    BY <1>0, <1>3 DEF LbMessage, WholeMessages
  <2>2. IF more' THEN part' > 1 ELSE part' = 1
    BY <1>0, <1>3 DEF LbMessage
  <2>3. ASSUME more', ~ dropping'
        PROVE  /\ active > 0 /\ active' > 0 /\ pipes'[current' + 1] = pipes[current + 1]
               /\ pipes[current + 1] # p /\ pipes[current + 1] \in Pipes
               /\ state[pipes[current + 1]] = "open" /\ Started(buffer[pipes[current + 1]], part)
    <3>1. more /\ ~ dropping /\ m # current
      BY <1>3, <2>3
    <3>2. active > 0 /\ current + 1 \in 1 .. n /\ current < active
          /\ state[pipes[current + 1]] = "open" /\ Started(buffer[pipes[current + 1]], part)
      BY <1>0, <1>1, <3>1 DEF LbMessage
    <3>3. pipes[current + 1] # p /\ pipes[current + 1] \in Pipes
      BY <1>1, <1>2, <1>m, <3>1, <3>2 DEF Injective, n
    <3>4. active' > 0 /\ pipes'[current' + 1] = pipes[current + 1]
      <4>1. CASE ~ (m < active)
        <5>1. current' = current /\ active' = active /\ current + 1 <= active /\ current + 1 \in 1 .. n - 1
          BY <1>1, <1>2, <1>4, <3>2, <4>1
        <5> QED
          BY <1>1, <1>6, <3>2, <4>1, <5>1
      <4>2. CASE m < active
        <5>1. active = 2 /\ ((m = 0 /\ current = 1) \/ (m = 1 /\ current = 0))
          BY <1>1, <1>5, <1>m, <3>1, <3>2, <4>2
        <5>2. current' = 0 /\ active' = 1 /\ n >= 2 /\ 1 \in 1 .. n - 1 /\ 1 < active
          BY <1>1, <1>4, <4>2, <5>1
        <5>3. pipes'[1] = IF 1 = m + 1 THEN pipes[2] ELSE pipes[1]
          BY <1>6, <4>2, <5>1, <5>2
        <5> QED
          BY <5>1, <5>2, <5>3
      <4> QED
        BY <4>1, <4>2
    <3> QED
      BY <3>2, <3>3, <3>4
  <2>4. more' /\ ~ dropping' => /\ active' > 0 /\ state'[pipes'[current' + 1]] = "open"
                                /\ Started(buffer'[pipes'[current' + 1]], part')
    <3> SUFFICES ASSUME more', ~ dropping'
                 PROVE  /\ active' > 0 /\ state'[pipes'[current' + 1]] = "open"
                        /\ Started(buffer'[pipes'[current' + 1]], part')
      OBVIOUS
    <3>1. PICK q \in Pipes : /\ q = pipes[current + 1] /\ q # p /\ active' > 0 /\ pipes'[current' + 1] = q
                             /\ state[q] = "open" /\ Started(buffer[q], part)
      BY <2>3
    <3>2. buffer'[q] = buffer[q] /\ part' = part
      BY <1>1, <1>3, <3>1
    <3> QED
      BY <1>7, <3>1, <3>2
  <2>5. ASSUME NEW q \in Pipes PROVE buffer'[q] = <<>> \/ (more' /\ ~ dropping' /\ q = pipes'[current' + 1])
    <3>1. CASE q = p
      BY <1>1, <1>3, <3>1
    <3>2. CASE q # p /\ buffer[q] = <<>>
      BY <1>1, <1>3, <3>2
    <3>3. CASE q # p /\ buffer[q] # <<>>
      <4>1. more /\ ~ dropping /\ q = pipes[current + 1]
        BY <1>0, <3>3 DEF LbMessage
      <4>2. m # current
        BY <1>2, <3>3, <4>1
      <4>3. more' /\ ~ dropping'
        BY <1>3, <4>1, <4>2
      <4> QED
        BY <2>3, <4>1, <4>3
    <3> QED
      BY <3>1, <3>2, <3>3
  <2> QED
    BY <2>1, <2>2, <2>4, <2>5 DEF LbMessage
<1>12. LbTurns'
  <2>1. \A q \in Pipes : bypassed'[q] = 0 /\ 0 < Cardinality(Pipes)
    BY <1>3, LbAssumption, NotEmpty
  <2>2. ASSUME NEW k \in 1 .. n - 1
        PROVE  bypassed'[pipes'[k]] <= IF k <= current' THEN current' - k ELSE current' + (n - 1) - k
    BY <1>1, <1>8, <2>1
  <2> QED
    BY <1>6, <2>1, <2>2 DEF LbTurns
<1> QED
  BY <1>9, <1>10, <1>11, <1>12 DEF LbInv

\* A failing iteration of sendpipe () or has_out (): it never happens in
\* mid-message, and the pipe is moved behind the active ones.
LEMMA LbDeactivate ==
  ASSUME LbInv, deactivate
  PROVE  LbInv'
<1> DEFINE n == Len(pipes)
           p == pipes[current + 1]
<1>0. LbTypeOK /\ LbArray /\ LbMessage /\ LbTurns
  BY DEF LbInv
<1>1. /\ call \in {"send", "has_out"} /\ active > 0 /\ Refuses(p)
      /\ state' = [state EXCEPT ![p] = Refused(p)] /\ active' = active - 1
      /\ IF current < active - 1 THEN pipes' = swap(pipes, current, active - 1) /\ current' = current
                                 ELSE current' = 0 /\ pipes' = pipes
      /\ bypassed' = [bypassed EXCEPT ![p] = 0]
      /\ asserted' = (asserted \/ (call = "send" /\ more))
      /\ UNCHANGED <<more, dropping, buffer, flushed, call, msg, part, last>>
  BY DEF deactivate, Item, app
<1>2. /\ pipes \in Seq(Pipes) /\ n \in Nat /\ active \in Nat /\ active <= n /\ Injective(pipes)
      /\ current \in Nat /\ current < active /\ current + 1 \in 1 .. n /\ p \in Pipes
      /\ state \in [Pipes -> Room \cup {"new", "gone"}] /\ bypassed \in [Pipes -> Nat]
      /\ \A k \in 1 .. n : pipes[k] \in Pipes
  BY <1>0, <1>1, LbFacts DEF LbArray
<1>3. ~ more
  <2> SUFFICES ASSUME more PROVE FALSE
    OBVIOUS
  <2>1. ~ dropping /\ part > 1 /\ part \in Nat /\ state[p] = "open" /\ Started(buffer[p], part)
    BY <1>0, <1>1 DEF LbMessage, LbTypeOK
  <2>2. buffer[p] # <<>>
    <3>1. Len(buffer[p]) = part - 1
      BY <2>1 DEF Started
    <3>2. Len(buffer[p]) # 0
      BY <2>1, <3>1
    <3> QED
      BY <3>2
  <2> QED
    BY <1>1, <2>1, <2>2 DEF Refuses
<1>4. state[p] \in {"open", "closing"} /\ Refused(p) \in {"full", "closing"}
  BY <1>1 DEF Refuses, Refused
<1>5. \A q \in Pipes : /\ state'[q] = IF q = p THEN Refused(p) ELSE state[q]
                       /\ bypassed'[q] = IF q = p THEN 0 ELSE bypassed[q]
  BY <1>1, <1>2
<1> HIDE DEF p, n
\* Where the pipes are now.
<1>6. /\ pipes' \in Seq(Pipes) /\ Len(pipes') = n /\ Injective(pipes')
      /\ \A q : Holds(pipes', q) <=> Holds(pipes, q)
      /\ \A k \in 1 .. n : pipes'[k] = IF k = active THEN p ELSE IF k = current + 1 THEN pipes[active] ELSE pipes[k]
  <2>0. active \in 1 .. n /\ active - 1 \in 0 .. n - 1 /\ current \in 0 .. n - 1 /\ (active - 1) + 1 = active
    BY <1>1, <1>2
  <2>1. CASE current < active - 1
    <3>1. pipes' = swap(pipes, current, active - 1)
      BY <1>1, <2>1
    <3>2. /\ pipes' \in Seq(Pipes) /\ Len(pipes') = n
          /\ \A k \in 1 .. n : pipes'[k] = IF k = (active - 1) + 1 THEN pipes[current + 1]
                                           ELSE IF k = current + 1 THEN pipes[(active - 1) + 1] ELSE pipes[k]
      <4> DEFINE j == active - 1
      <4>1. pipes \in Seq(Pipes) /\ Len(pipes) = n /\ current \in 0 .. Len(pipes) - 1 /\ j \in 0 .. Len(pipes) - 1
        BY <1>2, <2>0 DEF n
      <4>2. pipes' = swap(pipes, current, j)
        BY <3>1
      <4> HIDE DEF j
      <4>3. /\ swap(pipes, current, j) \in Seq(Pipes) /\ Len(swap(pipes, current, j)) = Len(pipes)
            /\ \A k \in 1 .. Len(pipes) :
                 swap(pipes, current, j)[k] = IF k = j + 1 THEN pipes[current + 1]
                                              ELSE IF k = current + 1 THEN pipes[j + 1] ELSE pipes[k]
        BY <4>1, SwapItems
      <4>4. /\ pipes' \in Seq(Pipes) /\ Len(pipes') = n
            /\ \A k \in 1 .. n : pipes'[k] = IF k = j + 1 THEN pipes[current + 1]
                                             ELSE IF k = current + 1 THEN pipes[j + 1] ELSE pipes[k]
        BY <4>1, <4>2, <4>3
      <4> QED
        BY <4>4 DEF j
    <3>3. Injective(pipes') /\ \A q : Holds(pipes', q) <=> Holds(pipes, q)
      BY <1>2, <2>0, <3>1, SwapKeeps DEF n
    <3> QED
      BY <2>0, <3>2, <3>3 DEF p
  <2>2. CASE ~ (current < active - 1)
    <3>1. pipes' = pipes /\ current + 1 = active
      BY <1>1, <1>2, <2>2
    <3>2. Len(pipes') = n /\ Injective(pipes') /\ \A q : Holds(pipes', q) <=> Holds(pipes, q)
      BY <1>2, <3>1 DEF n
    <3>3. p = pipes[active]
      BY <3>1 DEF p
    <3> QED
      BY <1>2, <3>1, <3>2, <3>3
  <2> QED
    BY <2>1, <2>2
<1>7. /\ active' \in Nat /\ active' = active - 1 /\ current' \in Nat /\ (current' < active' \/ current' = 0)
      /\ (current' = current \/ (current' = 0 /\ current + 1 = active))
  BY <1>1, <1>2
<1>8. LbTypeOK'
  <2>1. state' \in [Pipes -> Room \cup {"new", "gone"}] /\ bypassed' \in [Pipes -> Nat]
    BY <1>1, <1>2, <1>4 DEF Room
  <2>2. active' \in 0 .. Len(pipes')
    BY <1>2, <1>6, <1>7
  <2>3. asserted' \in BOOLEAN
    BY <1>1
  <2> QED
    BY <1>0, <1>1, <1>6, <1>7, <2>1, <2>2, <2>3 DEF LbTypeOK
<1>9. LbArray'
  <2>1. \A q \in Pipes : state'[q] \in Room <=> Holds(pipes', q)
    BY <1>0, <1>4, <1>5, <1>6 DEF LbArray, Room
  <2>2. ASSUME NEW k \in 1 .. n
        PROVE  /\ state'[pipes'[k]] = "open" => k <= active'
               /\ state'[pipes'[k]] = "full" => k > active'
    <3>1. CASE k = active
      BY <1>1, <1>2, <1>4, <1>5, <1>6, <1>7, <3>1
    <3>2. CASE k = current + 1 /\ k # active
      <4>1. active \in 1 .. n /\ pipes'[k] = pipes[active] /\ pipes[active] \in Pipes /\ k < active
        BY <1>1, <1>2, <1>6, <3>2
      <4>2. pipes[active] # p
        BY <1>2, <3>2, <4>1 DEF Injective, p, n
      <4>3. state'[pipes[active]] = state[pipes[active]] /\ state[pipes[active]] # "full"
        BY <1>0, <1>2, <1>5, <4>1, <4>2 DEF LbArray, n
      <4> QED
        BY <1>2, <1>7, <4>1, <4>3
    <3>3. CASE k # current + 1 /\ k # active
      <4>1. pipes'[k] = pipes[k] /\ pipes[k] \in Pipes
        BY <1>2, <1>6, <3>3
      <4>2. pipes[k] # p
        BY <1>2, <3>3 DEF Injective, p, n
      <4>3. state'[pipes[k]] = state[pipes[k]]
        BY <1>5, <4>1, <4>2
      <4>4. (state[pipes[k]] = "open" => k <= active) /\ (state[pipes[k]] = "full" => k > active)
        BY <1>0 DEF LbArray, n
      <4> QED
        BY <1>2, <1>7, <3>3, <4>1, <4>3, <4>4
    <3> QED
      BY <3>1, <3>2, <3>3
  <2> QED
    BY <1>6, <2>1, <2>2 DEF LbArray
<1>10. LbMessage'
  <2>1. WholeMessages' /\ ~ asserted' /\ ~ more' /\ ~ dropping' /\ part' = 1 /\ \A q \in Pipes : buffer'[q] = <<>>
    BY <1>0, <1>1, <1>3 DEF LbMessage, WholeMessages
  <2> QED
    BY <2>1 DEF LbMessage
<1>11. LbTurns'
  <2>1. \A q \in Pipes : bypassed'[q] < Cardinality(Pipes) /\ (state'[q] \in {"new", "full"} => bypassed'[q] = 0)
    BY <1>0, <1>5, LbAssumption, NotEmpty DEF LbTurns
  <2>2. ASSUME NEW k \in 1 .. n, state'[pipes'[k]] = "open"
        PROVE  bypassed'[pipes'[k]] <= IF k <= current' THEN current' - k ELSE current' + n - k
    <3>1. k < active /\ active \in 1 .. n
      <4>1. k <= active'
        BY <1>6, <1>9, <2>2 DEF LbArray
      <4> QED
        BY <1>1, <1>2, <1>7, <4>1
    <3>2. PICK j \in 1 .. n : /\ pipes'[k] = pipes[j] /\ pipes[j] \in Pipes /\ pipes[j] # p
                              /\ j = IF k = current + 1 THEN active ELSE k
      <4>1. CASE k = current + 1
        <5>1. pipes'[k] = pipes[active] /\ pipes[active] \in Pipes
          BY <1>2, <1>6, <3>1, <4>1
        <5>2. pipes[active] # p
          BY <1>2, <3>1, <4>1 DEF Injective, p, n
        <5> QED
          BY <3>1, <4>1, <5>1, <5>2
      <4>2. CASE k # current + 1
        <5>1. pipes'[k] = pipes[k] /\ pipes[k] \in Pipes
          BY <1>2, <1>6, <3>1, <4>2
        <5>2. pipes[k] # p
          BY <1>2, <4>2 DEF Injective, p, n
        <5> QED
          BY <4>2, <5>1, <5>2
      <4> QED
        BY <4>1, <4>2
    <3>3. state[pipes[j]] = "open" /\ bypassed'[pipes'[k]] = bypassed[pipes[j]] /\ bypassed[pipes[j]] \in Nat
      BY <1>2, <1>5, <2>2, <3>2
    <3>4. bypassed[pipes[j]] <= IF j <= current THEN current - j ELSE current + n - j
      BY <1>0, <3>3 DEF LbTurns, n
    <3> QED
      BY <1>2, <1>7, <3>1, <3>2, <3>3, <3>4
  <2> QED
    BY <1>6, <2>1, <2>2 DEF LbTurns
<1> QED
  BY <1>8, <1>9, <1>10, <1>11 DEF LbInv

\* The iteration that writes a part: the message goes on in the same pipe, and
\* after its last part current moves on by one.
LEMMA LbWritten ==
  ASSUME LbInv, written
  PROVE  LbInv'
<1> DEFINE n == Len(pipes)
           p == pipes[current + 1]
           b == Append(buffer[p], <<part, last>>)
<1>0. LbTypeOK /\ LbArray /\ LbMessage /\ LbTurns
  BY DEF LbInv
<1>1. /\ call = "send" /\ active > 0 /\ state[p] = "open" /\ more' = ~ last
      /\ buffer' = [buffer EXCEPT ![p] = IF last THEN <<>> ELSE b]
      /\ flushed' = IF last THEN b ELSE flushed
      /\ current' = IF last THEN (current + 1) % active ELSE current
      /\ bypassed' = IF last THEN [q \in Pipes |-> IF state[q] = "open" /\ q # p THEN bypassed[q] + 1 ELSE 0]
                     ELSE bypassed
      /\ call' = "none" /\ last' = FALSE
      /\ IF last THEN msg' = msg + 1 /\ part' = 1 ELSE msg' = msg /\ part' = part + 1
      /\ UNCHANGED <<pipes, active, dropping, state, asserted>>
  BY DEF written, Item, nextPart
<1>2. /\ pipes \in Seq(Pipes) /\ n \in Nat /\ active \in Nat /\ active <= n /\ Injective(pipes)
      /\ current \in Nat /\ current < active /\ current + 1 \in 1 .. n /\ p \in Pipes
      /\ state \in [Pipes -> Room \cup {"new", "gone"}] /\ bypassed \in [Pipes -> Nat]
      /\ \A k \in 1 .. n : pipes[k] \in Pipes
  BY <1>0, <1>1, LbFacts DEF LbArray
<1>3. /\ last \in BOOLEAN /\ part \in Nat \ {0} /\ msg \in Nat /\ buffer \in [Pipes -> Seq(Parts)] /\ ~ dropping
      /\ buffer[p] \in Seq(Parts) /\ more \in BOOLEAN
  BY <1>0, <1>1, <1>2 DEF LbTypeOK, LbMessage
<1>4. Started(buffer[p], part)
  <2>1. CASE more
    BY <1>0, <1>3, <2>1 DEF LbMessage
  <2>2. CASE ~ more
    <3>1. part = 1 /\ buffer[p] = <<>>
      BY <1>0, <1>2, <2>2 DEF LbMessage
    <3> QED
      BY <3>1 DEF Started
  <2> QED
    BY <2>1, <2>2
<1>5. /\ b \in Seq(Parts) /\ Len(b) = part /\ (\A i \in 1 .. part - 1 : b[i] = <<i, FALSE>>) /\ b[part] = <<part, last>>
  <2>1. <<part, last>> \in Parts
    BY <1>3 DEF Parts
  <2>2. /\ b \in Seq(Parts) /\ Len(b) = Len(buffer[p]) + 1 /\ (\A i \in 1 .. Len(buffer[p]) : b[i] = buffer[p][i])
        /\ b[Len(buffer[p]) + 1] = <<part, last>>
    <3>1. PICK e \in Parts : e = <<part, last>>
      BY <2>1
    <3>2. PICK x \in Seq(Parts) : x = buffer[p]
      BY <1>3
    <3>3. /\ Append(x, e) \in Seq(Parts) /\ Len(Append(x, e)) = Len(x) + 1
          /\ (\A i \in 1 .. Len(x) : Append(x, e)[i] = x[i]) /\ Append(x, e)[Len(x) + 1] = e
      BY AppendProperties
    <3> QED
      BY <3>1, <3>2, <3>3
  <2> HIDE DEF b
  <2>3. Len(buffer[p]) = part - 1 /\ (\A i \in 1 .. part - 1 : buffer[p][i] = <<i, FALSE>>) /\ (part - 1) + 1 = part
    <3>1. Len(buffer[p]) = part - 1 /\ (\A i \in 1 .. part - 1 : buffer[p][i] = <<i, FALSE>>)
      BY <1>4, Zenon DEF Started
    <3>2. (part - 1) + 1 = part
      BY <1>3
    <3> QED
      BY <3>1, <3>2
  <2> HIDE DEF p
  <2> QED
    BY <2>2, <2>3
<1>6. last => current' = IF current + 1 = active THEN 0 ELSE current + 1
  BY <1>1, <1>2, ModStep
<1>7. /\ \A q \in Pipes \ {p} : buffer'[q] = <<>>
      /\ last => buffer'[p] = <<>>
      /\ ~ last => buffer'[p] = b
  BY <1>0, <1>1, <1>2, <1>3 DEF LbMessage
<1>8. LbTypeOK'
  <2>1. <<>> \in Seq(Parts)
    OBVIOUS
  <2>2. buffer' \in [Pipes -> Seq(Parts)] /\ flushed' \in Seq(Parts)
    BY <1>0, <1>1, <1>3, <1>5, <2>1 DEF LbTypeOK
  <2>3. current' \in Nat /\ (current' < active' \/ current' = 0)
    BY <1>1, <1>2, <1>6
  <2>4. bypassed' \in [Pipes -> Nat]
    BY <1>1, <1>2, SMTT(30)
  <2>5. msg' \in Nat /\ part' \in Nat \ {0}
    <3>1. CASE last
      BY <1>1, <1>3, <3>1
    <3>2. CASE ~ last
      BY <1>1, <1>3, <3>2
    <3> QED
      BY <3>1, <3>2
  <2>6. more' \in BOOLEAN
    BY <1>1
  <2> QED
    BY <1>0, <1>1, <2>2, <2>3, <2>4, <2>5, <2>6 DEF LbTypeOK
<1>9. LbArray'
  BY <1>0, <1>1 DEF LbArray
<1>10. LbMessage'
  <2>1. CASE last
    <3>1. WholeMessages'
      <4>1. flushed' = b
        BY <1>1, <2>1
      <4> HIDE DEF b
      <4>2. ASSUME NEW i \in 1 .. part PROVE b[i] = <<i, i = part>>
        <5>1. CASE i = part
          <6>1. last = TRUE /\ (i = part) = TRUE
            BY <1>3, <2>1, <5>1
          <6> QED
            BY <1>5, <5>1, <6>1
        <5>2. CASE i # part
          <6>1. i \in 1 .. part - 1 /\ (i = part) = FALSE
            BY <1>3, <5>2
          <6> QED
            BY <1>5, <6>1
        <5> QED
          BY <5>1, <5>2
      <4> QED
        BY <1>5, <4>1, <4>2 DEF WholeMessages
    <3> QED
      BY <1>0, <1>1, <1>3, <1>7, <2>1, <3>1 DEF LbMessage
  <2>2. CASE ~ last
    <3>1. WholeMessages'
      BY <1>0, <1>1, <2>2 DEF LbMessage, WholeMessages
    <3>2. Started(buffer'[p], part') /\ part' > 1
      <4>1. part' = part + 1 /\ buffer'[p] = b
        BY <1>1, <1>7, <2>2
      <4> HIDE DEF b
      <4>2. ASSUME NEW i \in 1 .. part PROVE b[i] = <<i, FALSE>>
        <5>1. CASE i = part
          <6>1. last = FALSE
            BY <1>3, <2>2
          <6> QED
            BY <1>5, <5>1, <6>1
        <5>2. CASE i # part
          <6>1. i \in 1 .. part - 1
            BY <1>3, <5>2
          <6> QED
            BY <1>5, <6>1
        <5> QED
          BY <5>1, <5>2
      <4>3. (part + 1) - 1 = part /\ part + 1 > 1
        BY <1>3
      <4> QED
        BY <1>5, <4>1, <4>2, <4>3 DEF Started
    <3>3. pipes'[current' + 1] = p /\ state'[p] = "open" /\ active' > 0 /\ more' /\ ~ dropping' /\ ~ asserted'
      BY <1>0, <1>1, <1>3, <2>2 DEF LbMessage
    <3> HIDE DEF p
    <3> QED
      BY <1>1, <1>7, <3>1, <3>2, <3>3 DEF LbMessage
  <2> QED
    BY <1>3, <2>1, <2>2
<1>11. LbTurns'
  <2>1. CASE ~ last
    BY <1>0, <1>1, <2>1 DEF LbTurns
  <2>2. CASE last
    <3>1. \A q \in Pipes : bypassed'[q] = IF state[q] = "open" /\ q # p THEN bypassed[q] + 1 ELSE 0
      BY <1>1, <2>2
    <3>2. ASSUME NEW k \in 1 .. n, state[pipes[k]] = "open"
          PROVE  bypassed'[pipes[k]] <= IF k <= current' THEN current' - k ELSE current' + n - k
      <4>1. k <= active
        BY <1>0, <3>2 DEF LbArray, n
      <4>2. CASE k = current + 1
        BY <1>2, <1>6, <2>2, <3>1, <4>2
      <4>3. CASE k # current + 1
        <5>1. pipes[k] # p /\ pipes[k] \in Pipes
          BY <1>2, <4>3 DEF Injective
        <5>2. bypassed'[pipes[k]] = bypassed[pipes[k]] + 1 /\ bypassed[pipes[k]] \in Nat
          BY <1>2, <3>1, <3>2, <5>1
        <5>3. bypassed[pipes[k]] <= IF k <= current THEN current - k ELSE current + n - k
          BY <1>0, <3>2 DEF LbTurns
        <5> QED
          BY <1>2, <1>6, <2>2, <4>1, <4>3, <5>2, <5>3, SMTT(30)
      <4> QED
        BY <4>2, <4>3
    <3>3. n <= Cardinality(Pipes) /\ Cardinality(Pipes) \in Nat /\ \A q \in Pipes : Cardinality(Pipes) > 0
      BY <1>2, LbAssumption, ArrayFits, NotEmpty
    <3>4. ASSUME NEW q \in Pipes PROVE bypassed'[q] < Cardinality(Pipes)
      <4>1. CASE state[q] = "open" /\ q # p
        <5>1. PICK k \in 1 .. n : pipes[k] = q
          BY <1>0, <4>1 DEF LbArray, Room, Holds
        <5>2. bypassed'[q] <= IF k <= current' THEN current' - k ELSE current' + n - k
          BY <3>2, <4>1, <5>1
        <5>3. k # current + 1
          BY <4>1, <5>1
        <5>4. bypassed'[q] = bypassed[q] + 1 /\ bypassed[q] \in Nat
              /\ bypassed[q] <= IF k <= current THEN current - k ELSE current + n - k
          BY <1>0, <1>2, <3>1, <4>1, <5>1 DEF LbTurns
        <5>5. bypassed'[q] < n
          <6>1. n \in Int /\ current \in Int /\ k \in 1 .. n /\ 0 <= current /\ current < n
            BY <1>2, <5>1
          <6> HIDE DEF n
          <6>2. CASE k <= current
            BY <5>3, <5>4, <6>1, <6>2
          <6>3. CASE ~ k <= current
            BY <5>3, <5>4, <6>1, <6>3
          <6> QED
            BY <6>2, <6>3
        <5> QED
          BY <1>2, <3>3, <5>4, <5>5
      <4>2. CASE ~ (state[q] = "open" /\ q # p)
        BY <3>1, <3>3, <4>2
      <4> QED
        BY <4>1, <4>2
    <3>5. \A q \in Pipes : state'[q] \in {"new", "full"} => bypassed'[q] = 0
      BY <1>1, <3>1
    <3> QED
      BY <1>1, <3>2, <3>4, <3>5 DEF LbTurns
  <2> QED
    BY <1>3, <2>1, <2>2
<1> QED
  BY <1>8, <1>9, <1>10, <1>11 DEF LbInv

\* Every step of lb_t preserves the invariant.
LEMMA NextLbInv ==
  ASSUME ~ ClosingMidMessage, ~ ThirdGoes, LbInv, [Next]_vars
  PROVE  LbInv'
<1>0. LbTypeOK /\ LbArray /\ LbMessage /\ LbTurns
  BY DEF LbInv
<1>1. ASSUME NEW p \in Pipes, attach(p) \/ activated(p) \/ closing(p) \/ pipe_terminated(p) PROVE LbInv'
  BY <1>1, LbAttach, LbClosing, LbTerminated
<1>2. ASSUME NEW isLast \in BOOLEAN, send(isLast) PROVE LbInv'
  <2>1. CASE dropping
    <3>1. /\ more' = ~ isLast /\ dropping' = ~ isLast /\ last' = FALSE /\ call = "none"
          /\ IF isLast THEN msg' = msg + 1 /\ part' = 1 ELSE msg' = msg /\ part' = part + 1
          /\ UNCHANGED <<pipes, active, current, state, buffer, flushed, bypassed, asserted, call>>
      BY <1>2, <2>1 DEF send, nextPart
    <3>2. msg \in Nat /\ part \in Nat \ {0} /\ more /\ \A q \in Pipes : buffer[q] = <<>>
      BY <1>0, <2>1 DEF LbTypeOK, LbMessage
    <3>a. (more' \in BOOLEAN) /\ (dropping' \in BOOLEAN) /\ (last' \in BOOLEAN)
      BY <3>1
    <3>b. msg' \in Nat /\ part' \in Nat \ {0} /\ (IF more' THEN part' > 1 ELSE part' = 1)
      <4>1. CASE isLast
        <5>1. ~ more' /\ msg' = msg + 1 /\ part' = 1
          BY <3>1, <4>1
        <5> QED
          BY <3>2, <5>1
      <4>2. CASE ~ isLast
        <5>1. more' /\ msg' = msg /\ part' = part + 1
          BY <3>1, <4>2
        <5>2. part + 1 \in Nat \ {0} /\ part + 1 > 1
          BY <3>2
        <5> QED
          BY <3>2, <5>1, <5>2
      <4> QED
        BY <4>1, <4>2
    <3>3. /\ msg' \in Nat /\ part' \in Nat \ {0} /\ (more' \in BOOLEAN) /\ (dropping' \in BOOLEAN) /\ (last' \in BOOLEAN)
          /\ (IF more' THEN part' > 1 ELSE part' = 1)
      BY <3>a, <3>b
    <3>4. LbTypeOK'
      BY <1>0, <3>1, <3>3 DEF LbTypeOK
    <3>5. LbArray' /\ LbTurns'
      BY <1>0, <3>1 DEF LbArray, LbTurns
    <3>6. LbMessage'
      BY <1>0, <3>1, <3>2, <3>3 DEF LbMessage, WholeMessages
    <3> QED
      BY <3>4, <3>5, <3>6 DEF LbInv
  <2>2. CASE ~ dropping
    <3>1. /\ call' = "send" /\ last' = isLast
          /\ UNCHANGED <<pipes, active, current, more, dropping, state, buffer, flushed, msg, part, bypassed, asserted>>
      BY <1>2, <2>2 DEF send
    <3>2. LbTypeOK' /\ LbArray' /\ LbTurns'
      BY <1>0, <3>1 DEF LbTypeOK, LbArray, LbTurns
    <3>3. LbMessage'
      BY <1>0, <2>2, <3>1 DEF LbMessage, WholeMessages
    <3> QED
      BY <3>2, <3>3 DEF LbInv
  <2> QED
    BY <2>1, <2>2
<1>3. ASSUME call' \in {"none", "has_out"}, last' \in BOOLEAN, call' = "has_out" => ~ more,
             UNCHANGED <<lb, state, buffer, flushed, msg, part, bypassed, asserted>>
      PROVE  LbInv'
  <2>1. UNCHANGED <<pipes, active, current, more, dropping>>
    BY <1>3 DEF lb
  <2>2. LbTypeOK' /\ LbArray' /\ LbTurns'
    BY <1>0, <1>3, <2>1 DEF LbTypeOK, LbArray, LbTurns
  <2>3. LbMessage'
    BY <1>0, <1>3, <2>1 DEF LbMessage, WholeMessages
  <2> QED
    BY <2>2, <2>3 DEF LbInv
<1>4. CASE eagain
  BY <1>3, <1>4 DEF eagain
<1>5. CASE has_out
  <2>1. last \in BOOLEAN
    BY <1>0 DEF LbTypeOK
  <2> QED
    BY <1>3, <1>5, <2>1 DEF has_out
<1>6. CASE UNCHANGED vars
  <2>1. UNCHANGED <<pipes, active, current, more, dropping, state, buffer, flushed, call, msg, part, last, bypassed, asserted>>
    BY <1>6 DEF vars, lb, app
  <2>2. LbTypeOK' /\ LbArray' /\ LbTurns'
    BY <1>0, <2>1 DEF LbTypeOK, LbArray, LbTurns
  <2>3. LbMessage'
    BY <1>0, <2>1 DEF LbMessage, WholeMessages
  <2> QED
    BY <2>2, <2>3 DEF LbInv
<1> QED
  BY <1>1, <1>2, <1>4, <1>5, <1>6, LbDeactivate, LbWritten DEF Next

\* lb_t for every finite set of pipes and any number of messages: only whole
\* messages are flushed, the pipes with room are the active ones, zmq_assert
\* (!more) never fails, and each pipe gets its turn.  The two cases that the
\* hypotheses exclude are the ones in which the code goes wrong.
THEOREM LbAlwaysRight == ~ ClosingMidMessage /\ ~ ThirdGoes => (Spec => []LbRight)
<1> SUFFICES ASSUME ~ ClosingMidMessage, ~ ThirdGoes PROVE Spec => []LbRight
  OBVIOUS
<1>1. LbInv /\ [Next]_vars => LbInv'
  BY NextLbInv
<1> QED
  BY <1>1, InitLbInv, LbInvRight, PTL DEF Spec

-----------------------------------------------------------------------------
(* fq_t.                                                                   *)

Attached == {"open", "asleep", "done"}
Got      == (Pipes \cup {"none"}) \X Nat \X BOOLEAN

FqTypeOK ==
  /\ fq_pipes \in Seq(Pipes) /\ fq_active \in 0 .. Len(fq_pipes)
  /\ fq_current \in Nat /\ (fq_current < fq_active \/ fq_current = 0)
  /\ fq_more \in BOOLEAN /\ fq_asserted \in BOOLEAN
  /\ fq_state \in [Pipes -> Attached \cup {"new", "gone"}]
  /\ inbox \in [Pipes -> Seq(Parts)] /\ delimited \in [Pipes -> BOOLEAN]
  /\ received \in Got \X Got /\ arrived \in Nat
  /\ fq_call \in {"none", "recv", "has_in"} /\ fq_bypassed \in [Pipes -> Nat]

\* Each attached pipe is once in the array, those awake in its first part.
FqArray ==
  /\ Injective(fq_pipes)
  /\ \A p \in Pipes : fq_state[p] \in Attached <=> Holds(fq_pipes, p)
  /\ \A i \in 1 .. Len(fq_pipes) : /\ fq_state[fq_pipes[i]] = "open" => i <= fq_active
                                   /\ fq_state[fq_pipes[i]] = "asleep" => i > fq_active

\* The parts in b follow each other and end with a last one; the first has
\* number n.
Framed(b, n) ==
  /\ \A i \in 1 .. Len(b) - 1 : b[i + 1][1] = IF b[i][2] THEN 1 ELSE b[i][1] + 1
  /\ b # <<>> => b[1][1] = n /\ b[Len(b)][2]

\* The rest of a message that was begun is in the pipe tried next, which is
\* open; every other pipe holds whole messages.
FqMessage ==
  /\ ~ fq_asserted /\ F!WholeReceived
  /\ fq_call = "has_in" => ~ fq_more
  /\ fq_more = ~ received[2][3]
  /\ fq_more => /\ fq_active > 0 /\ fq_state[fq_pipes[fq_current + 1]] = "open"
                /\ inbox[fq_pipes[fq_current + 1]] # <<>>
                /\ received[2][1] = fq_pipes[fq_current + 1]
  /\ \A p \in Pipes : Framed(inbox[p], IF fq_more /\ p = fq_pipes[fq_current + 1]
                                       THEN received[2][2] + 1 ELSE 1)

\* The messages that passed an open pipe are no more than the steps of current
\* since it was there.
FqTurns ==
  /\ \A p \in Pipes : /\ fq_bypassed[p] < Cardinality(Pipes)
                      /\ fq_state[p] \in {"new", "asleep"} => fq_bypassed[p] = 0
                      /\ fq_state[p] = "open" /\ inbox[p] = <<>> => fq_bypassed[p] = 0
  /\ \A i \in 1 .. Len(fq_pipes) : fq_state[fq_pipes[i]] = "open" =>
       fq_bypassed[fq_pipes[i]] <= IF i <= fq_current THEN fq_current - i
                                   ELSE fq_current + Len(fq_pipes) - i

\* The invariant that the proof about fq_t uses.
FqInv == FqTypeOK /\ FqArray /\ FqMessage /\ FqTurns

\* Fq has its own copy of the operators of PipeArray.
LEMMA SameArray ==
  ASSUME NEW a, NEW i, NEW j, NEW p
  PROVE  /\ F!swap(a, i, j) = swap(a, i, j) /\ F!index(a, p) = index(a, p)
         /\ F!erase(a, p) = erase(a, p) /\ F!Item(a, i) = a[i + 1]
  BY DEF F!swap, swap, F!index, index, F!erase, erase, F!Item

\* And one of Cardinality.
LEMMA SameCardinality ==
  ASSUME NEW S
  PROVE  F!Cardinality(S) = Cardinality(S)
  BY DEF F!Cardinality, Cardinality

\* What the steps below use of the types.
LEMMA FqFacts ==
  ASSUME FqInv
  PROVE  /\ Len(fq_pipes) \in Nat /\ fq_active \in Nat /\ fq_active <= Len(fq_pipes) /\ fq_pipes \in Seq(Pipes)
         /\ fq_current \in Nat /\ (fq_current < fq_active \/ fq_current = 0) /\ Injective(fq_pipes)
         /\ (fq_active > 0 => fq_current < fq_active /\ fq_current + 1 \in 1 .. Len(fq_pipes))
         /\ fq_state \in [Pipes -> Attached \cup {"new", "gone"}] /\ fq_bypassed \in [Pipes -> Nat]
         /\ \A k \in 1 .. Len(fq_pipes) : fq_pipes[k] \in Pipes
<1>1. /\ fq_pipes \in Seq(Pipes) /\ fq_active \in 0 .. Len(fq_pipes) /\ fq_current \in Nat
      /\ (fq_current < fq_active \/ fq_current = 0) /\ Injective(fq_pipes)
  BY DEF FqInv, FqTypeOK, FqArray
<1>2. fq_state \in [Pipes -> Attached \cup {"new", "gone"}] /\ fq_bypassed \in [Pipes -> Nat]
  BY DEF FqInv, FqTypeOK
<1>3. Len(fq_pipes) \in Nat /\ \A k \in 1 .. Len(fq_pipes) : fq_pipes[k] \in Pipes
  BY <1>1, LenProperties, ElementOfSeq
<1>4. fq_active > 0 => fq_current < fq_active /\ fq_current + 1 \in 1 .. Len(fq_pipes)
  BY <1>1, <1>3
<1> QED
  BY <1>1, <1>2, <1>3, <1>4

\* What the invariant implies: the checked property.
LEMMA FqInvRight == FqInv => FqRight
<1> SUFFICES ASSUME FqInv PROVE FqRight
  OBVIOUS
<1>0. FqTypeOK /\ FqArray /\ FqMessage /\ FqTurns
  BY DEF FqInv
<1>1. F!WholeReceived /\ F!NotStarved
  BY <1>0, SameCardinality DEF FqMessage, FqTurns, F!NotStarved
<1>2. ASSUME NEW i \in 0 .. Len(fq_pipes) - 1
      PROVE  /\ fq_state[F!Item(fq_pipes, i)] = "open" => i < fq_active
             /\ fq_state[F!Item(fq_pipes, i)] = "asleep" => i >= fq_active
  <2>1. i + 1 \in 1 .. Len(fq_pipes) /\ i \in Nat /\ fq_active \in Nat
    BY FqFacts
  <2> QED
    BY <1>0, <2>1 DEF FqArray, F!Item
<1>3. \A p \in Pipes : fq_state[p] \in Attached <=> Cardinality({i \in 1 .. Len(fq_pipes) : fq_pipes[i] = p}) = 1
  BY <1>0, OnceCounted DEF FqArray
<1>4. (fq_active > 0 => fq_current < fq_active) /\ fq_active \in 0 .. Len(fq_pipes) /\ ~ fq_asserted
  BY <1>0 DEF FqTypeOK, FqMessage
<1>5. F!AwakeExact
  BY <1>2, <1>3, <1>4, SameCardinality DEF F!AwakeExact, Attached
<1> QED
  BY <1>1, <1>5 DEF FqRight

\* The constructor.
LEMMA InitFqInv == F!Init => FqInv
<1> SUFFICES ASSUME F!Init PROVE FqInv
  OBVIOUS
<1>0. /\ fq_pipes = <<>> /\ fq_active = 0 /\ fq_current = 0 /\ fq_more = FALSE
      /\ fq_state = [p \in Pipes |-> "new"] /\ inbox = [p \in Pipes |-> <<>>]
      /\ delimited = [p \in Pipes |-> FALSE] /\ received = <<<<"none", 0, TRUE>>, <<"none", 0, TRUE>>>>
      /\ fq_call = "none" /\ arrived = 0 /\ fq_bypassed = [p \in Pipes |-> 0] /\ fq_asserted = FALSE
  BY DEF F!Init, F!Nothing
<1>1. <<>> \in Seq(Pipes) /\ <<>> \in Seq(Parts) /\ Len(<<>>) = 0
  OBVIOUS
<1>2. FqTypeOK
  <2>1. fq_state \in [Pipes -> Attached \cup {"new", "gone"}] /\ fq_bypassed \in [Pipes -> Nat]
    BY <1>0
  <2>2. inbox \in [Pipes -> Seq(Parts)] /\ delimited \in [Pipes -> BOOLEAN]
    BY <1>0, <1>1
  <2>3. fq_active \in 0 .. Len(fq_pipes) /\ fq_current \in Nat /\ arrived \in Nat
    BY <1>0, <1>1
  <2>4. received \in Got \X Got
    BY <1>0 DEF Got
  <2> QED
    BY <1>0, <1>1, <2>1, <2>2, <2>3, <2>4 DEF FqTypeOK
<1>3. FqArray
  BY <1>0, <1>1 DEF FqArray, Injective, Holds, Attached
<1>4. FqMessage
  <2>1. F!WholeReceived
    BY <1>0 DEF F!WholeReceived
  <2>2. \A n : Framed(<<>>, n)
    BY <1>1 DEF Framed
  <2>3. fq_more = ~ received[2][3]
    BY <1>0
  <2> QED
    BY <1>0, <2>1, <2>2, <2>3 DEF FqMessage
<1>5. \A p \in Pipes : 0 < Cardinality(Pipes)
  BY LbAssumption, NotEmpty
<1>6. FqTurns
  BY <1>0, <1>1, <1>5 DEF FqTurns
<1> QED
  BY <1>2, <1>3, <1>4, <1>6 DEF FqInv

\* A whole message behind whole messages, or behind the rest of one.
LEMMA FramedConcat ==
  ASSUME NEW b \in Seq(Parts), NEW k, Framed(b, k), b = <<>> => k = 1, NEW n \in Nat \ {0},
         NEW m, m = [i \in 1 .. n |-> <<i, i = n>>]
  PROVE  b \o m \in Seq(Parts) /\ b \o m # <<>> /\ Framed(b \o m, k)
<1> DEFINE c == b \o m
           h == Len(b)
<1>0. h \in Nat /\ (b # <<>> <=> h # 0)
  BY LenProperties, EmptySeq
<1>1. ASSUME NEW i \in 1 .. n PROVE m[i] = <<i, i = n>> /\ m[i] \in Parts /\ m[i][1] = i /\ m[i][2] = (i = n)
  <2>1. m[i] = <<i, i = n>> /\ i \in Nat
    OBVIOUS
  <2>2. PICK e \in BOOLEAN : e = (i = n)
    OBVIOUS
  <2>3. m[i] = <<i, e>>
    BY <2>1, <2>2
  <2> QED
    BY <2>1, <2>2, <2>3 DEF Parts
<1>2. m \in Seq(Parts) /\ Len(m) = n
  <2>1. m \in [1 .. n -> Parts]
    BY <1>1
  <2>2. m \in Seq(Parts)
    BY <2>1, SeqDef
  <2>3. Len(m) \in Nat /\ DOMAIN m = 1 .. Len(m) /\ DOMAIN m = 1 .. n
    BY <2>1, <2>2, LenProperties
  <2>4. Len(m) = n
    BY <2>3
  <2> QED
    BY <2>2, <2>4
<1>3. /\ c \in Seq(Parts) /\ Len(c) = h + n
      /\ \A i \in 1 .. h + n : c[i] = IF i <= h THEN b[i] ELSE m[i - h]
  BY <1>2, ConcatProperties
<1> HIDE DEF c, h
<1>4. ASSUME NEW i \in h + 1 .. h + n PROVE c[i] = m[i - h] /\ i - h \in 1 .. n
  <2>1. ~ (i <= h) /\ i \in 1 .. h + n /\ i - h \in 1 .. n
    BY <1>0
  <2> QED
    BY <1>3, <2>1
<1>5. ASSUME NEW i \in 1 .. h + n - 1 PROVE c[i + 1][1] = IF c[i][2] THEN 1 ELSE c[i][1] + 1
  <2>1. CASE i < h
    <3>1. c[i] = b[i] /\ c[i + 1] = b[i + 1] /\ i \in 1 .. h - 1
      BY <1>0, <1>3, <2>1
    <3> QED
      BY <3>1 DEF Framed, h
  <2>2. CASE i = h
    <3>1. c[i] = b[h] /\ c[i + 1] = m[1] /\ b # <<>>
      BY <1>0, <1>3, <1>4, <2>2
    <3>2. b[h][2] /\ m[1][1] = 1
      BY <1>1, <3>1 DEF Framed, h
    <3> QED
      BY <3>1, <3>2
  <2>3. CASE i > h
    <3>1. PICK j \in 1 .. n : j = i - h /\ j + 1 \in 1 .. n /\ (i + 1) - h = j + 1 /\ i \in h + 1 .. h + n /\ i + 1 \in h + 1 .. h + n
      BY <1>0, <2>3
    <3>2. c[i] = m[j] /\ c[i + 1] = m[j + 1]
      BY <1>4, <3>1
    <3>3. m[j][1] = j /\ m[j + 1][1] = j + 1 /\ m[j][2] = (j = n) /\ j # n
      BY <1>1, <3>1
    <3> QED
      BY <3>2, <3>3
  <2> QED
    BY <1>0, <2>1, <2>2, <2>3
<1>6. c[1][1] = k
  <2>1. CASE b = <<>>
    <3>1. h = 0 /\ 1 \in h + 1 .. h + n /\ 1 - h = 1 /\ 1 \in 1 .. n
      BY <1>0, <2>1
    <3>2. c[1] = m[1]
      BY <1>4, <3>1
    <3> QED
      BY <1>1, <2>1, <3>1, <3>2
  <2>2. CASE b # <<>>
    <3>1. c[1] = b[1]
      BY <1>0, <1>3, <2>2
    <3> QED
      BY <2>2, <3>1 DEF Framed
  <2> QED
    BY <2>1, <2>2
<1>7. c[h + n][2] /\ h + n # 0
  <2>1. h + n \in h + 1 .. h + n /\ (h + n) - h = n /\ n \in 1 .. n /\ h + n # 0
    BY <1>0
  <2>2. c[h + n] = m[n]
    BY <1>4, <2>1
  <2>3. m[n][2] = TRUE
    BY <1>1, <2>1
  <2> QED
    BY <2>1, <2>2, <2>3
<1>8. c # <<>>
  BY <1>3, <1>7, EmptySeq
<1>9. Framed(c, k)
  <2>1. ASSUME NEW i \in 1 .. Len(c) - 1 PROVE c[i + 1][1] = IF c[i][2] THEN 1 ELSE c[i][1] + 1
    <3>1. Len(c) = h + n
      BY <1>3, Zenon
    <3>2. i \in 1 .. h + n - 1
      BY <1>0, <3>1
    <3> QED
      BY <1>5, <3>2, Zenon
  <2>2. c[1][1] = k /\ c[Len(c)][2]
    BY <1>3, <1>6, <1>7
  <2> QED
    BY <2>1, <2>2, Zenon DEF Framed
<1> QED
  BY <1>3, <1>8, <1>9 DEF c

\* Taking the first part leaves the rest of its message first.
LEMMA FramedTail ==
  ASSUME NEW b \in Seq(Parts), b # <<>>, NEW k \in Nat, Framed(b, k)
  PROVE  /\ Head(b) \in Parts /\ Head(b)[1] = k /\ Head(b)[2] \in BOOLEAN /\ Tail(b) \in Seq(Parts)
         /\ Framed(Tail(b), IF Head(b)[2] THEN 1 ELSE k + 1)
         /\ ~ Head(b)[2] => Tail(b) # <<>>
<1> DEFINE s == Tail(b)
           x == Head(b)
           n == Len(b)
<1>0. n \in Nat \ {0} /\ x = b[1] /\ x \in Parts
  BY EmptySeq, HeadTailProperties
<1>1. s \in Seq(Parts) /\ Len(s) = n - 1 /\ \A i \in 1 .. Len(s) : s[i] = b[i + 1]
  BY HeadTailProperties
<1>2. x[1] = k /\ x[2] \in BOOLEAN /\ b[n][2]
  BY <1>0 DEF Framed, Parts
<1> HIDE DEF s, x, n
<1>3. (s # <<>> <=> n - 1 # 0) /\ (~ x[2] => s # <<>>)
  <2>1. s # <<>> <=> n - 1 # 0
    BY <1>0, <1>1, EmptySeq
  <2>2. ~ x[2] => n # 1
    BY <1>0, <1>2
  <2> QED
    BY <1>0, <2>1, <2>2
<1>4. \A i \in 1 .. Len(s) - 1 : s[i + 1][1] = IF s[i][2] THEN 1 ELSE s[i][1] + 1
  <2> SUFFICES ASSUME NEW i \in 1 .. Len(s) - 1 PROVE s[i + 1][1] = IF s[i][2] THEN 1 ELSE s[i][1] + 1
    OBVIOUS
  <2>1. s[i] = b[i + 1] /\ s[i + 1] = b[(i + 1) + 1] /\ i + 1 \in 1 .. n - 1
    BY <1>0, <1>1
  <2> QED
    BY <2>1 DEF Framed, n
<1>5. s # <<>> => s[1][1] = (IF x[2] THEN 1 ELSE k + 1) /\ s[Len(s)][2]
  <2> SUFFICES ASSUME s # <<>> PROVE s[1][1] = (IF x[2] THEN 1 ELSE k + 1) /\ s[Len(s)][2]
    OBVIOUS
  <2>1. n > 1 /\ s[1] = b[1 + 1] /\ s[n - 1] = b[n] /\ 1 \in 1 .. n - 1
    BY <1>0, <1>1, <1>3
  <2>2. b[1 + 1][1] = IF b[1][2] THEN 1 ELSE b[1][1] + 1
    BY <2>1 DEF Framed, n
  <2> QED
    BY <1>0, <1>1, <1>2, <2>1, <2>2
<1> QED
  BY <1>0, <1>1, <1>2, <1>3, <1>4, <1>5 DEF Framed, s, x
\* The other end of a pipe: whole messages are added behind what is there, and
\* a message that was begun goes on in the same place.
LEMMA FqArrive ==
  ASSUME FqInv, NEW p \in Pipes,
         \/ \E n \in 1 .. MaxParts : F!arrive(p, n)
         \/ F!delimit(p)
  PROVE  FqInv'
<1>0. FqTypeOK /\ FqArray /\ FqMessage /\ FqTurns
  BY DEF FqInv
<1>1. /\ UNCHANGED <<fq_pipes, fq_active, fq_current, fq_more, fq_state, received, fq_call, fq_bypassed, fq_asserted>>
      /\ fq_state[p] \in {"open", "asleep"}
  BY DEF F!arrive, F!delimit, F!fq
<1>2. inbox \in [Pipes -> Seq(Parts)] /\ delimited \in [Pipes -> BOOLEAN] /\ arrived \in Nat
  BY <1>0 DEF FqTypeOK
<1>3. FqArray'
  BY <1>0, <1>1 DEF FqArray
<1>4. CASE F!delimit(p)
  <2>1. delimited' = [delimited EXCEPT ![p] = TRUE] /\ inbox' = inbox /\ arrived' = arrived
    BY <1>4 DEF F!delimit
  <2>2. delimited' \in [Pipes -> BOOLEAN]
    BY <1>2, <2>1
  <2>3. FqTypeOK'
    BY <1>0, <1>1, <2>1, <2>2 DEF FqTypeOK
  <2>4. FqMessage' /\ FqTurns'
    BY <1>0, <1>1, <2>1 DEF FqMessage, FqTurns, F!WholeReceived
  <2> QED
    BY <1>3, <2>3, <2>4 DEF FqInv
<1>5. ASSUME NEW n \in 1 .. MaxParts, F!arrive(p, n) PROVE FqInv'
  <2>0. n \in Nat \ {0}
    BY LbAssumption
  <2> DEFINE m == [i \in 1 .. n |-> <<i, i = n>>]
             k(q) == IF fq_more /\ q = fq_pipes[fq_current + 1] THEN received[2][2] + 1 ELSE 1
  <2>1. inbox' = [inbox EXCEPT ![p] = inbox[p] \o m] /\ arrived' = arrived + n /\ delimited' = delimited
    BY <1>5, <1>2 DEF F!arrive
  <2>2. inbox[p] \in Seq(Parts) /\ Framed(inbox[p], k(p)) /\ (inbox[p] = <<>> => k(p) = 1)
    BY <1>0, <1>2 DEF FqMessage
  <2>3. inbox[p] \o m \in Seq(Parts) /\ inbox[p] \o m # <<>> /\ Framed(inbox[p] \o m, k(p))
    <3>1. PICK b \in Seq(Parts) : b = inbox[p]
      BY <2>2
    <3>2. PICK y : y = k(p)
      OBVIOUS
    <3>3. Framed(b, y) /\ (b = <<>> => y = 1)
      BY <2>2, <3>1, <3>2
    <3> HIDE DEF k
    <3>4. b \o m \in Seq(Parts) /\ b \o m # <<>> /\ Framed(b \o m, y)
      BY <2>0, <3>3, FramedConcat
    <3> QED
      BY <3>1, <3>2, <3>4
  <2> HIDE DEF m
  <2>4. \A q \in Pipes : inbox'[q] = IF q = p THEN inbox[p] \o m ELSE inbox[q]
    BY <1>2, <2>1
  <2>5. inbox' \in [Pipes -> Seq(Parts)] /\ arrived' \in Nat
    BY <1>2, <2>0, <2>1, <2>3
  <2>6. FqTypeOK'
    BY <1>0, <1>1, <2>1, <2>5 DEF FqTypeOK
  <2>7. \A q \in Pipes : inbox[q] # <<>> => inbox'[q] # <<>>
    BY <2>3, <2>4
  <2>8. \A q \in Pipes : Framed(inbox'[q], k(q))
    <3>1. \A q \in Pipes : Framed(inbox[q], k(q))
      BY <1>0 DEF FqMessage
    <3> HIDE DEF k
    <3> QED
      BY <2>3, <2>4, <3>1
  <2>9. FqMessage'
    <3>1. fq_more => fq_pipes[fq_current + 1] \in Pipes
      BY <1>0, FqFacts DEF FqMessage
    <3> QED
      BY <1>0, <1>1, <2>7, <2>8, <3>1 DEF FqMessage, F!WholeReceived
  <2>10. FqTurns'
    BY <1>0, <1>1, <2>7 DEF FqTurns
  <2> QED
    BY <1>3, <2>6, <2>9, <2>10 DEF FqInv
<1> QED
  BY <1>4, <1>5

\* Steps that only begin or end a call.
LEMMA FqIdle ==
  ASSUME FqInv, fq_call' \in {"none", "recv", "has_in"}, fq_call' = "has_in" => ~ fq_more,
         UNCHANGED <<fq_pipes, fq_active, fq_current, fq_more, fq_state, inbox, delimited, received, arrived,
                     fq_bypassed, fq_asserted>>
  PROVE  FqInv'
<1>0. FqTypeOK /\ FqArray /\ FqMessage /\ FqTurns
  BY DEF FqInv
<1>1. FqTypeOK' /\ FqArray' /\ FqTurns'
  BY <1>0 DEF FqTypeOK, FqArray, FqTurns
<1>2. FqMessage'
  BY <1>0 DEF FqMessage, F!WholeReceived
<1> QED
  BY <1>1, <1>2 DEF FqInv

\* term_endpoint: nothing moves, and no message is unfinished.
LEMMA FqTermEndpoint ==
  ASSUME FqInv, ~ CloseMidMessage, NEW p \in Pipes, F!term_endpoint(p)
  PROVE  FqInv'
<1>0. FqTypeOK /\ FqArray /\ FqMessage /\ FqTurns /\ ~ fq_more
  BY DEF FqInv, F!term_endpoint
<1>1. /\ fq_state[p] \in {"open", "asleep"} /\ fq_state' = [fq_state EXCEPT ![p] = "done"]
      /\ UNCHANGED <<fq_pipes, fq_active, fq_current, fq_more, inbox, delimited, received, fq_call, arrived,
                     fq_bypassed, fq_asserted>>
  BY DEF F!term_endpoint, F!fq
<1>2. fq_state \in [Pipes -> Attached \cup {"new", "gone"}] /\ \A k \in 1 .. Len(fq_pipes) : fq_pipes[k] \in Pipes
  BY FqFacts
<1>3. \A q \in Pipes : fq_state'[q] = IF q = p THEN "done" ELSE fq_state[q]
  BY <1>1, <1>2
<1>4. FqTypeOK'
  <2>1. fq_state' \in [Pipes -> Attached \cup {"new", "gone"}]
    BY <1>1, <1>2 DEF Attached
  <2> QED
    BY <1>0, <1>1, <2>1 DEF FqTypeOK
<1>5. FqArray'
  <2>1. \A q \in Pipes : fq_state'[q] \in Attached <=> Holds(fq_pipes, q)
    BY <1>0, <1>1, <1>3 DEF FqArray, Attached
  <2>2. \A i \in 1 .. Len(fq_pipes) : /\ fq_state'[fq_pipes[i]] = "open" => i <= fq_active
                                      /\ fq_state'[fq_pipes[i]] = "asleep" => i > fq_active
    BY <1>0, <1>2, <1>3 DEF FqArray
  <2> QED
    BY <1>0, <1>1, <2>1, <2>2 DEF FqArray
<1>6. FqMessage'
  BY <1>0, <1>1 DEF FqMessage, F!WholeReceived
<1>7. FqTurns'
  BY <1>0, <1>1, <1>2, <1>3 DEF FqTurns
<1> QED
  BY <1>4, <1>5, <1>6, <1>7 DEF FqInv
\* A pipe is awake: it becomes the last of the active ones.
LEMMA FqAwakes ==
  ASSUME FqInv, NEW p \in Pipes, fq_state[p] \in {"new", "asleep"},
         fq_pipes' \in Seq(Pipes), Joined(fq_pipes, fq_pipes', fq_active, p),
         fq_active' = fq_active + 1, fq_state' = [fq_state EXCEPT ![p] = "open"],
         UNCHANGED <<fq_current, fq_more, inbox, delimited, received, fq_call, arrived, fq_bypassed, fq_asserted>>
  PROVE  FqInv'
<1>a. /\ Injective(fq_pipes') /\ Len(fq_pipes') \in {Len(fq_pipes), Len(fq_pipes) + 1}
      /\ fq_active + 1 <= Len(fq_pipes') /\ \A q \in Pipes : Holds(fq_pipes', q) <=> Holds(fq_pipes, q) \/ q = p
  BY DEF Joined
<1>b. \A k \in 1 .. Len(fq_pipes') :
        IF k <= fq_active THEN fq_pipes'[k] = fq_pipes[k]
        ELSE IF k = fq_active + 1 THEN fq_pipes'[k] = p
        ELSE \E j \in fq_active + 1 .. Len(fq_pipes) : fq_pipes'[k] = fq_pipes[j] /\ fq_pipes[j] # p
  BY DEF Joined
<1> USE <1>a, <1>b
<1>0. FqTypeOK /\ FqArray /\ FqMessage /\ FqTurns
  BY DEF FqInv
<1>1. /\ Len(fq_pipes) \in Nat /\ Len(fq_pipes') \in Nat /\ fq_active \in Nat /\ fq_current \in Nat
      /\ fq_active <= Len(fq_pipes) /\ (fq_active > 0 => fq_current < fq_active)
      /\ fq_state \in [Pipes -> Attached \cup {"new", "gone"}] /\ fq_bypassed \in [Pipes -> Nat]
      /\ \A k \in 1 .. Len(fq_pipes) : fq_pipes[k] \in Pipes
      /\ \A k \in 1 .. Len(fq_pipes') : fq_pipes'[k] \in Pipes
  BY FqFacts, LenProperties, ElementOfSeq
<1>2. \A q \in Pipes : fq_state'[q] = IF q = p THEN "open" ELSE fq_state[q]
  BY <1>1
<1>3. FqTypeOK'
  <2>1. fq_state' \in [Pipes -> Attached \cup {"new", "gone"}]
    BY <1>1 DEF Attached
  <2>2. fq_active' \in 0 .. Len(fq_pipes') /\ (fq_current' < fq_active' \/ fq_current' = 0)
    BY <1>0, <1>1 DEF FqTypeOK
  <2> QED
    BY <1>0, <2>1, <2>2 DEF FqTypeOK
<1>4. FqArray'
  <2>1. \A q \in Pipes : fq_state'[q] \in Attached <=> Holds(fq_pipes', q)
    BY <1>0, <1>2 DEF FqArray, Attached
  <2>2. ASSUME NEW k \in 1 .. Len(fq_pipes')
        PROVE  /\ fq_state'[fq_pipes'[k]] = "open" => k <= fq_active'
               /\ fq_state'[fq_pipes'[k]] = "asleep" => k > fq_active'
    <3>1. CASE k <= fq_active
      <4>1. k \in 1 .. Len(fq_pipes) /\ fq_pipes'[k] = fq_pipes[k]
        BY <1>1, <3>1
      <4>2. /\ fq_pipes[k] \in Pipes
            /\ fq_state[fq_pipes[k]] = "asleep" => k > fq_active
        BY <1>0, <1>1, <4>1 DEF FqArray
      <4>3. fq_state[fq_pipes[k]] # "asleep"
        BY <1>1, <3>1, <4>2
      <4>4. fq_state'[fq_pipes'[k]] # "asleep"
        BY <1>2, <4>1, <4>2, <4>3
      <4> QED
        BY <1>1, <3>1, <4>4
    <3>2. CASE k = fq_active + 1
      BY <1>1, <1>2, <3>2
    <3>3. CASE k > fq_active + 1
      <4>1. PICK j \in fq_active + 1 .. Len(fq_pipes) : fq_pipes'[k] = fq_pipes[j] /\ fq_pipes[j] # p
        BY <1>1, <3>3
      <4>2. fq_state[fq_pipes[j]] # "open"
        BY <1>0, <1>1, <4>1 DEF FqArray
      <4> QED
        BY <1>1, <1>2, <3>3, <4>1, <4>2
    <3> QED
      BY <1>1, <3>1, <3>2, <3>3
  <2> QED
    BY <2>1, <2>2 DEF FqArray
<1>5. FqMessage'
  <2>1. fq_active > 0 => fq_current + 1 \in 1 .. Len(fq_pipes') /\ fq_current + 1 <= fq_active
    BY <1>1
  <2>2. fq_active > 0 => /\ fq_pipes'[fq_current + 1] = fq_pipes[fq_current + 1]
                         /\ fq_pipes[fq_current + 1] \in Pipes
    BY <1>1, <2>1
  <2>3. fq_more => /\ fq_active > 0 /\ fq_active' > 0
                   /\ fq_pipes'[fq_current' + 1] = fq_pipes[fq_current + 1]
                   /\ fq_state'[fq_pipes[fq_current + 1]] = "open"
    BY <1>0, <1>1, <1>2, <2>2 DEF FqMessage
  <2>4. \A q \in Pipes : Framed(inbox'[q], IF fq_more' /\ q = fq_pipes'[fq_current' + 1]
                                           THEN received'[2][2] + 1 ELSE 1)
    BY <1>0, <2>3 DEF FqMessage
  <2> QED
    BY <1>0, <2>3, <2>4 DEF FqMessage, F!WholeReceived
<1>6. FqTurns'
  <2>1. \A q \in Pipes : /\ fq_bypassed[q] < Cardinality(Pipes)
                         /\ fq_state'[q] \in {"new", "asleep"} => fq_bypassed[q] = 0
                         /\ fq_state'[q] = "open" /\ inbox[q] = <<>> => fq_bypassed[q] = 0
    BY <1>0, <1>2 DEF FqTurns
  <2>2. ASSUME NEW k \in 1 .. Len(fq_pipes'), fq_state'[fq_pipes'[k]] = "open"
        PROVE  fq_bypassed[fq_pipes'[k]] <= IF k <= fq_current THEN fq_current - k
                                            ELSE fq_current + Len(fq_pipes') - k
    <3>1. CASE k <= fq_active
      <4>1. k \in 1 .. Len(fq_pipes) /\ fq_pipes'[k] = fq_pipes[k] /\ fq_pipes[k] \in Pipes
        BY <1>1, <3>1
      <4>2. fq_state[fq_pipes[k]] = "open" \/ fq_bypassed[fq_pipes[k]] = 0
        BY <1>0, <1>2, <2>2, <4>1 DEF FqTurns
      <4>3. \/ fq_bypassed[fq_pipes[k]] = 0
            \/ fq_bypassed[fq_pipes[k]] <= IF k <= fq_current THEN fq_current - k
                                           ELSE fq_current + Len(fq_pipes) - k
        BY <1>0, <4>1, <4>2 DEF FqTurns
      <4>4. fq_bypassed[fq_pipes[k]] \in Nat
        BY <1>1, <4>1
      <4> QED
        BY <1>1, <4>1, <4>3, <4>4, SMTT(30)
    <3>2. CASE k = fq_active + 1
      <4>1. fq_pipes'[k] = p /\ fq_bypassed[p] = 0 /\ k > fq_current
        BY <1>0, <1>1, <3>2 DEF FqTurns, FqTypeOK
      <4> QED
        BY <1>1, <4>1
    <3>3. CASE k > fq_active + 1
      BY <1>1, <1>4, <2>2, <3>3 DEF FqArray
    <3> QED
      BY <1>1, <3>1, <3>2, <3>3
  <2> QED
    BY <2>1, <2>2 DEF FqTurns
<1> QED
  BY <1>3, <1>4, <1>5, <1>6 DEF FqInv

\* attach and activated.
LEMMA FqAttach ==
  ASSUME FqInv, NEW p \in Pipes, F!attach(p) \/ F!activated(p)
  PROVE  FqInv'
<1>0. FqArray /\ fq_pipes \in Seq(Pipes) /\ fq_active \in 0 .. Len(fq_pipes) /\ Injective(fq_pipes)
  BY FqFacts DEF FqInv, FqArray
<1>1. /\ fq_active' = fq_active + 1 /\ fq_state' = [fq_state EXCEPT ![p] = "open"] /\ fq_state[p] \in {"new", "asleep"}
      /\ UNCHANGED <<fq_current, fq_more, inbox, delimited, received, fq_call, arrived, fq_bypassed, fq_asserted>>
  BY DEF F!attach, F!activated
<1>2. CASE F!attach(p)
  <2>1. ~ Holds(fq_pipes, p) /\ fq_pipes' = swap(Append(fq_pipes, p), fq_active, Len(fq_pipes))
    BY <1>0, <1>2, SameArray DEF FqArray, Attached, F!attach
  <2>2. fq_pipes' \in Seq(Pipes) /\ Joined(fq_pipes, fq_pipes', fq_active, p)
    BY <1>0, <2>1, AttachJoins
  <2> QED
    BY <1>1, <2>2, FqAwakes
<1>3. CASE F!activated(p)
  <2>1. /\ Holds(fq_pipes, p) /\ fq_pipes' = swap(fq_pipes, index(fq_pipes, p), fq_active)
        /\ \A k \in 1 .. Len(fq_pipes) : fq_pipes[k] = p => k > fq_active
    BY <1>0, <1>3, SameArray DEF FqArray, Attached, F!activated
  <2>2. fq_pipes' \in Seq(Pipes) /\ Joined(fq_pipes, fq_pipes', fq_active, p)
    BY <1>0, <2>1, ActivateJoins
  <2> QED
    BY <1>1, <2>2, FqAwakes
<1> QED
  BY <1>2, <1>3
\* pipe_terminated: the array closes the gap, and a message that was begun stays
\* where current points, for the pipe that goes is not the one it comes from.
LEMMA FqTerminated ==
  ASSUME FqInv, ~ ThirdGoes, NEW p \in Pipes, F!pipe_terminated(p)
  PROVE  FqInv'
<1> DEFINE n == Len(fq_pipes)
           m == index(fq_pipes, p)
<1>0. FqTypeOK /\ FqArray /\ FqMessage /\ FqTurns /\ fq_state[p] = "done"
  BY DEF FqInv, F!pipe_terminated
<1>1. /\ fq_pipes \in Seq(Pipes) /\ n \in Nat /\ fq_active \in Nat /\ fq_active <= n /\ Holds(fq_pipes, p)
      /\ Injective(fq_pipes) /\ fq_current \in Nat /\ (fq_current < fq_active \/ fq_current = 0)
      /\ fq_state \in [Pipes -> Attached \cup {"new", "gone"}] /\ \A k \in 1 .. n : fq_pipes[k] \in Pipes
      /\ inbox \in [Pipes -> Seq(Parts)]
  BY <1>0, FqFacts DEF FqArray, FqTypeOK, Attached
<1>2. m \in 0 .. n - 1 /\ m + 1 \in 1 .. n /\ fq_pipes[m + 1] = p
  BY <1>1, IndexFinds
<1>3. /\ fq_state' = [fq_state EXCEPT ![p] = "gone"] /\ inbox' = [inbox EXCEPT ![p] = <<>>]
      /\ fq_bypassed' = [q \in Pipes |-> 0]
      /\ UNCHANGED <<fq_more, delimited, received, fq_call, arrived, fq_asserted>>
  BY DEF F!pipe_terminated
<1>4. /\ fq_active' = IF m < fq_active THEN fq_active - 1 ELSE fq_active
      /\ fq_current' = IF m < fq_active /\ fq_current = fq_active - 1 THEN 0 ELSE fq_current
      /\ fq_pipes' = IF m < fq_active THEN erase(swap(fq_pipes, m, fq_active - 1), p) ELSE erase(fq_pipes, p)
  <2>1. CASE m < fq_active
    <3>1. /\ fq_active' = fq_active - 1
          /\ fq_pipes' = F!erase(F!swap(fq_pipes, m, fq_active - 1), p)
          /\ fq_current' = IF fq_current = fq_active - 1 THEN 0 ELSE fq_current
      BY <2>1, SameArray DEF F!pipe_terminated
    <3>2. fq_pipes' = erase(swap(fq_pipes, m, fq_active - 1), p)
      BY <3>1, SameArray
    <3> HIDE DEF m
    <3> QED
      BY <2>1, <3>1, <3>2
  <2>2. CASE ~ (m < fq_active)
    BY <2>2, SameArray DEF F!pipe_terminated
  <2> QED
    BY <2>1, <2>2
<1>5. fq_more => fq_active <= 2 \/ m = fq_current \/ m >= fq_active
  BY SameArray DEF F!pipe_terminated, F!MayGo
<1>m. m \in Nat
  BY <1>2
<1>a. fq_active \in 0 .. n
  BY <1>1
\* Where the pipes are now.
<1>b. fq_pipes' \in Seq(Pipes) /\ Left(fq_pipes, fq_pipes', fq_active, m)
  BY <1>1, <1>4, <1>a, TerminateLeaves
<1> HIDE DEF m
<1>6. /\ Injective(fq_pipes') /\ Len(fq_pipes') = n - 1
      /\ \A q \in Pipes : Holds(fq_pipes', q) <=> Holds(fq_pipes, q) /\ q # p
      /\ m < fq_active => \A k \in 1 .. n - 1 :
            IF k < fq_active THEN fq_pipes'[k] = IF k = m + 1 THEN fq_pipes[fq_active] ELSE fq_pipes[k]
                             ELSE \E j \in fq_active + 1 .. n : fq_pipes'[k] = fq_pipes[j]
      /\ ~ (m < fq_active) => \A k \in 1 .. n - 1 :
            IF k <= fq_active THEN fq_pipes'[k] = fq_pipes[k]
                              ELSE \E j \in fq_active + 1 .. n : fq_pipes'[k] = fq_pipes[j]
  BY <1>2, <1>b DEF Left
<1> HIDE DEF n
<1>7. \A q \in Pipes : fq_state'[q] = IF q = p THEN "gone" ELSE fq_state[q]
  BY <1>1, <1>3
<1>8. /\ fq_active' \in Nat /\ fq_active' <= n - 1 /\ fq_current' \in Nat
      /\ (fq_current' < fq_active' \/ fq_current' = 0)
      /\ n - 1 \in Nat /\ \A k \in 1 .. n - 1 : fq_pipes'[k] \in Pipes
  <2>1. \A k \in 1 .. n - 1 : fq_pipes'[k] \in Pipes
    BY <1>6, <1>b, ElementOfSeq
  <2> QED
    BY <1>1, <1>2, <1>4, <2>1
<1>9. FqTypeOK'
  <2>1. fq_state' \in [Pipes -> Attached \cup {"new", "gone"}]
    BY <1>1, <1>3
  <2>2. <<>> \in Seq(Parts)
    OBVIOUS
  <2>3. inbox' \in [Pipes -> Seq(Parts)] /\ fq_bypassed' \in [Pipes -> Nat]
    BY <1>1, <1>3, <2>2
  <2>4. fq_active' \in 0 .. Len(fq_pipes')
    BY <1>6, <1>8
  <2> QED
    BY <1>0, <1>3, <1>6, <1>8, <1>b, <2>1, <2>3, <2>4 DEF FqTypeOK
<1>10. FqArray'
  <2>1. \A q \in Pipes : fq_state'[q] \in Attached <=> Holds(fq_pipes', q)
    BY <1>0, <1>6, <1>7 DEF FqArray, Attached
  <2>2. ASSUME NEW k \in 1 .. n - 1
        PROVE  /\ fq_state'[fq_pipes'[k]] = "open" => k <= fq_active'
               /\ fq_state'[fq_pipes'[k]] = "asleep" => k > fq_active'
    <3>0. fq_state'[fq_pipes'[k]] = "gone" \/ fq_state'[fq_pipes'[k]] = fq_state[fq_pipes'[k]]
      BY <1>7, <1>8
    <3>1. PICK j \in 1 .. n : fq_pipes'[k] = fq_pipes[j] /\ (k <= fq_active' <=> j <= fq_active)
      <4>1. CASE ~ (m < fq_active)
        <5>1. CASE k <= fq_active
          BY <1>1, <1>4, <1>6, <4>1, <5>1
        <5>2. CASE k > fq_active
          <6>1. PICK j \in fq_active + 1 .. n : fq_pipes'[k] = fq_pipes[j]
            BY <1>1, <1>6, <4>1, <5>2
          <6>2. j \in 1 .. n /\ ~ (j <= fq_active) /\ ~ (k <= fq_active')
            BY <1>1, <1>4, <4>1, <5>2, <6>1
          <6> QED
            BY <6>1, <6>2
        <5>3. k <= fq_active \/ k > fq_active
          BY <1>1
        <5> QED
          BY <5>1, <5>2, <5>3, Zenon
      <4>2. CASE m < fq_active
        <5>1. CASE k < fq_active
          <6>1. /\ k \in 1 .. n /\ fq_active \in 1 .. n
                /\ (fq_pipes'[k] = fq_pipes[fq_active] \/ fq_pipes'[k] = fq_pipes[k])
            BY <1>1, <1>6, <4>2, <5>1
          <6>2. k <= fq_active' /\ k <= fq_active /\ fq_active <= fq_active
            BY <1>1, <1>4, <4>2, <5>1, <6>1
          <6> QED
            BY <6>1, <6>2, Zenon
        <5>2. CASE k >= fq_active
          <6>1. PICK j \in fq_active + 1 .. n : fq_pipes'[k] = fq_pipes[j]
            BY <1>1, <1>6, <4>2, <5>2
          <6>2. j \in 1 .. n /\ ~ (j <= fq_active) /\ ~ (k <= fq_active')
            BY <1>1, <1>4, <4>2, <5>2, <6>1
          <6> QED
            BY <6>1, <6>2
        <5> QED
          BY <1>1, <5>1, <5>2
      <4> QED
        BY <4>1, <4>2
    <3>2. (fq_state[fq_pipes[j]] = "open" => j <= fq_active) /\ (fq_state[fq_pipes[j]] = "asleep" => j > fq_active)
      BY <1>0 DEF FqArray, n
    <3> QED
      BY <1>1, <1>8, <3>0, <3>1, <3>2
  <2> QED
    BY <1>6, <2>1, <2>2 DEF FqArray
<1>11. FqMessage'
  <2>1. ASSUME fq_more
        PROVE  /\ fq_active' > 0 /\ fq_pipes'[fq_current' + 1] = fq_pipes[fq_current + 1]
               /\ fq_pipes[fq_current + 1] # p /\ fq_pipes[fq_current + 1] \in Pipes
    <3>1. /\ fq_active > 0 /\ fq_current + 1 \in 1 .. n /\ fq_current < fq_active
          /\ fq_state[fq_pipes[fq_current + 1]] = "open"
      BY <1>0, <1>1, <2>1 DEF FqMessage
    <3>2. fq_pipes[fq_current + 1] # p /\ fq_pipes[fq_current + 1] \in Pipes
      BY <1>0, <1>1, <3>1
    <3>3. m # fq_current
      BY <1>2, <3>2
    <3>4. CASE ~ (m < fq_active)
      <4>1. /\ fq_current' = fq_current /\ fq_active' = fq_active /\ fq_current + 1 <= fq_active
            /\ fq_current + 1 \in 1 .. n - 1
        BY <1>1, <1>2, <1>4, <3>1, <3>4
      <4> QED
        BY <1>1, <1>6, <3>1, <3>2, <3>4, <4>1
    <3>5. CASE m < fq_active
      <4>1. fq_active = 2 /\ ((m = 0 /\ fq_current = 1) \/ (m = 1 /\ fq_current = 0))
        BY <1>1, <1>5, <1>m, <2>1, <3>1, <3>3, <3>5
      <4>2. fq_current' = 0 /\ fq_active' = 1 /\ n >= 2 /\ 1 \in 1 .. n - 1 /\ 1 < fq_active
        BY <1>1, <1>4, <3>5, <4>1
      <4>3. fq_pipes'[1] = IF 1 = m + 1 THEN fq_pipes[2] ELSE fq_pipes[1]
        BY <1>6, <3>5, <4>1, <4>2
      <4> QED
        BY <3>2, <4>1, <4>2, <4>3
    <3> QED
      BY <3>4, <3>5
  <2>2. \A q \in Pipes : inbox'[q] = IF q = p THEN <<>> ELSE inbox[q]
    BY <1>1, <1>3
  <2>3. fq_more => /\ fq_active' > 0 /\ fq_state'[fq_pipes'[fq_current' + 1]] = "open"
                   /\ inbox'[fq_pipes'[fq_current' + 1]] # <<>>
                   /\ received[2][1] = fq_pipes'[fq_current' + 1]
    BY <1>0, <1>7, <2>1, <2>2 DEF FqMessage
  <2>4. ASSUME NEW q \in Pipes
        PROVE  Framed(inbox'[q], IF fq_more' /\ q = fq_pipes'[fq_current' + 1] THEN received'[2][2] + 1 ELSE 1)
    <3>1. CASE q = p
      <4>1. inbox'[q] = <<>> /\ Len(<<>>) = 0
        BY <2>2, <3>1
      <4>2. \A k : Framed(<<>>, k)
        BY <4>1 DEF Framed
      <4> QED
        BY <4>1, <4>2
    <3>2. CASE q # p
      BY <1>0, <1>3, <2>1, <2>2, <3>2 DEF FqMessage
    <3> QED
      BY <3>1, <3>2
  <2> QED
    BY <1>0, <1>3, <2>3, <2>4 DEF FqMessage, F!WholeReceived
<1>12. FqTurns'
  <2>1. \A q \in Pipes : fq_bypassed'[q] = 0 /\ 0 < Cardinality(Pipes)
    BY <1>3, LbAssumption, NotEmpty
  <2>2. ASSUME NEW k \in 1 .. n - 1
        PROVE  fq_bypassed'[fq_pipes'[k]] <= IF k <= fq_current' THEN fq_current' - k
                                             ELSE fq_current' + (n - 1) - k
    BY <1>1, <1>8, <2>1
  <2> QED
    BY <1>6, <2>1, <2>2 DEF FqTurns
<1> QED
  BY <1>9, <1>10, <1>11, <1>12 DEF FqInv
\* An iteration of recvpipe () or has_in () that fetches nothing: it never
\* happens in mid-message, and the pipe is moved behind the active ones.
LEMMA FqDeactivate ==
  ASSUME FqInv, F!deactivate
  PROVE  FqInv'
<1> DEFINE n == Len(fq_pipes)
           p == fq_pipes[fq_current + 1]
           new == IF fq_state[p] = "open" /\ ~ delimited[p] THEN "asleep" ELSE "done"
<1>0. FqTypeOK /\ FqArray /\ FqMessage /\ FqTurns
  BY DEF FqInv
<1>1. /\ fq_active > 0 /\ ~ (fq_state[p] = "open" /\ inbox[p] # <<>>)
      /\ fq_state' = [fq_state EXCEPT ![p] = IF @ = "open" /\ ~ delimited[p] THEN "asleep" ELSE "done"]
      /\ fq_active' = fq_active - 1 /\ fq_pipes' = swap(fq_pipes, fq_current, fq_active - 1)
      /\ fq_current' = IF fq_current = fq_active - 1 THEN 0 ELSE fq_current
      /\ fq_asserted' = (fq_asserted \/ (fq_call = "recv" /\ fq_more))
      /\ UNCHANGED <<fq_more, inbox, delimited, received, fq_call, arrived, fq_bypassed>>
  BY SameArray DEF F!deactivate, F!Readable
<1>2. /\ fq_pipes \in Seq(Pipes) /\ n \in Nat /\ fq_active \in Nat /\ fq_active <= n /\ Injective(fq_pipes)
      /\ fq_current \in Nat /\ fq_current < fq_active /\ fq_current + 1 \in 1 .. n /\ p \in Pipes
      /\ fq_state \in [Pipes -> Attached \cup {"new", "gone"}] /\ fq_bypassed \in [Pipes -> Nat]
      /\ \A k \in 1 .. n : fq_pipes[k] \in Pipes
  BY <1>0, <1>1, FqFacts
<1>3. ~ fq_more
  BY <1>0, <1>1 DEF FqMessage
<1>4. fq_state[p] \in Attached /\ new \in {"asleep", "done"} /\ (new = "asleep" => fq_bypassed[p] = 0)
  <2>1. Holds(fq_pipes, p)
    BY <1>2 DEF Holds
  <2>2. fq_state[p] \in Attached
    BY <1>0, <1>2, <2>1 DEF FqArray
  <2>3. new = "asleep" => fq_bypassed[p] = 0
    BY <1>0, <1>1, <1>2 DEF FqTurns
  <2> QED
    BY <2>2, <2>3
<1>5. \A q \in Pipes : fq_state'[q] = IF q = p THEN new ELSE fq_state[q]
  BY <1>1, <1>2
<1>6. fq_state' \in [Pipes -> Attached \cup {"new", "gone"}]
  BY <1>1, <1>2, <1>4 DEF Attached
<1> HIDE DEF p, n, new
\* Where the pipes are now.
<1>7. /\ fq_pipes' \in Seq(Pipes) /\ Len(fq_pipes') = n /\ Injective(fq_pipes')
      /\ \A q : Holds(fq_pipes', q) <=> Holds(fq_pipes, q)
      /\ \A k \in 1 .. n : fq_pipes'[k] = IF k = fq_active THEN p
                                          ELSE IF k = fq_current + 1 THEN fq_pipes[fq_active] ELSE fq_pipes[k]
  <2>0. /\ fq_active \in 1 .. n /\ fq_active - 1 \in 0 .. n - 1 /\ fq_current \in 0 .. n - 1
        /\ (fq_active - 1) + 1 = fq_active
    BY <1>1, <1>2
  <2>1. /\ fq_pipes' \in Seq(Pipes) /\ Len(fq_pipes') = n
        /\ \A k \in 1 .. n : fq_pipes'[k] = IF k = (fq_active - 1) + 1 THEN fq_pipes[fq_current + 1]
                                            ELSE IF k = fq_current + 1 THEN fq_pipes[(fq_active - 1) + 1]
                                            ELSE fq_pipes[k]
    <3>1. PICK i \in 0 .. Len(fq_pipes) - 1, j \in 0 .. Len(fq_pipes) - 1 : i = fq_current /\ j = fq_active - 1
      BY <2>0 DEF n
    <3>2. fq_pipes' = swap(fq_pipes, i, j)
      BY <1>1, <3>1
    <3>3. /\ fq_pipes' \in Seq(Pipes) /\ Len(fq_pipes') = Len(fq_pipes)
          /\ \A k \in 1 .. Len(fq_pipes) : fq_pipes'[k] = IF k = j + 1 THEN fq_pipes[i + 1]
                                                        ELSE IF k = i + 1 THEN fq_pipes[j + 1] ELSE fq_pipes[k]
      <4>0. fq_pipes \in Seq(Pipes)
        BY <1>2
      <4>1. /\ swap(fq_pipes, i, j) \in Seq(Pipes) /\ Len(swap(fq_pipes, i, j)) = Len(fq_pipes)
            /\ \A k \in 1 .. Len(fq_pipes) :
                 swap(fq_pipes, i, j)[k] = IF k = j + 1 THEN fq_pipes[i + 1]
                                           ELSE IF k = i + 1 THEN fq_pipes[j + 1] ELSE fq_pipes[k]
        BY <4>0, SwapItems
      <4> QED
        BY <3>2, <4>1, Zenon
    <3> QED
      BY <3>1, <3>3 DEF n
  <2>2. Injective(fq_pipes') /\ \A q : Holds(fq_pipes', q) <=> Holds(fq_pipes, q)
    BY <1>1, <1>2, <2>0, SwapKeeps DEF n
  <2> QED
    BY <2>0, <2>1, <2>2 DEF p
<1>8. /\ fq_active' \in Nat /\ fq_active' = fq_active - 1 /\ fq_current' \in Nat
      /\ (fq_current' < fq_active' \/ fq_current' = 0)
      /\ (fq_current' = fq_current \/ (fq_current' = 0 /\ fq_current + 1 = fq_active))
  BY <1>1, <1>2
<1>9. FqTypeOK'
  <2>1. fq_active' \in 0 .. Len(fq_pipes')
    BY <1>2, <1>7, <1>8
  <2>2. fq_asserted' \in BOOLEAN
    BY <1>1
  <2> QED
    BY <1>0, <1>1, <1>6, <1>7, <1>8, <2>1, <2>2 DEF FqTypeOK
<1>10. FqArray'
  <2>1. \A q \in Pipes : fq_state'[q] \in Attached <=> Holds(fq_pipes', q)
    BY <1>0, <1>4, <1>5, <1>7 DEF FqArray, Attached
  <2>2. ASSUME NEW k \in 1 .. n
        PROVE  /\ fq_state'[fq_pipes'[k]] = "open" => k <= fq_active'
               /\ fq_state'[fq_pipes'[k]] = "asleep" => k > fq_active'
    <3>1. CASE k = fq_active
      <4>1. fq_state'[fq_pipes'[k]] = new /\ k > fq_active'
        BY <1>1, <1>2, <1>5, <1>7, <1>8, <3>1
      <4> QED
        BY <1>4, <4>1
    <3>2. CASE k = fq_current + 1 /\ k # fq_active
      <4>1. /\ fq_active \in 1 .. n /\ fq_pipes'[k] = fq_pipes[fq_active] /\ fq_pipes[fq_active] \in Pipes
            /\ k < fq_active
        BY <1>1, <1>2, <1>7, <3>2
      <4>2. fq_pipes[fq_active] # p
        BY <1>2, <3>2, <4>1 DEF Injective, p, n
      <4>3. fq_state'[fq_pipes[fq_active]] = fq_state[fq_pipes[fq_active]] /\ fq_state[fq_pipes[fq_active]] # "asleep"
        BY <1>0, <1>2, <1>5, <4>1, <4>2 DEF FqArray, n
      <4> QED
        BY <1>2, <1>8, <4>1, <4>3
    <3>3. CASE k # fq_current + 1 /\ k # fq_active
      <4>1. fq_pipes'[k] = fq_pipes[k] /\ fq_pipes[k] \in Pipes
        BY <1>2, <1>7, <3>3
      <4>2. fq_pipes[k] # p
        BY <1>2, <3>3 DEF Injective, p, n
      <4>3. fq_state'[fq_pipes[k]] = fq_state[fq_pipes[k]]
        BY <1>5, <4>1, <4>2
      <4>4. (fq_state[fq_pipes[k]] = "open" => k <= fq_active) /\ (fq_state[fq_pipes[k]] = "asleep" => k > fq_active)
        BY <1>0 DEF FqArray, n
      <4> QED
        BY <1>2, <1>8, <3>3, <4>1, <4>3, <4>4
    <3> QED
      BY <3>1, <3>2, <3>3
  <2> QED
    BY <1>7, <2>1, <2>2 DEF FqArray
<1>11. FqMessage'
  <2>1. ~ fq_asserted' /\ ~ fq_more' /\ \A q \in Pipes : Framed(inbox'[q], 1)
    BY <1>0, <1>1, <1>3 DEF FqMessage
  <2> QED
    BY <1>0, <1>1, <2>1 DEF FqMessage, F!WholeReceived
<1>12. FqTurns'
  <2>1. \A q \in Pipes : /\ fq_bypassed'[q] < Cardinality(Pipes)
                         /\ fq_state'[q] \in {"new", "asleep"} => fq_bypassed'[q] = 0
                         /\ fq_state'[q] = "open" /\ inbox'[q] = <<>> => fq_bypassed'[q] = 0
    BY <1>0, <1>1, <1>4, <1>5 DEF FqTurns
  <2>2. ASSUME NEW k \in 1 .. n, fq_state'[fq_pipes'[k]] = "open"
        PROVE  fq_bypassed'[fq_pipes'[k]] <= IF k <= fq_current' THEN fq_current' - k ELSE fq_current' + n - k
    <3>1. k < fq_active /\ fq_active \in 1 .. n
      <4>1. k <= fq_active'
        BY <1>7, <1>10, <2>2 DEF FqArray
      <4> QED
        BY <1>1, <1>2, <1>8, <4>1
    <3>2. PICK j \in 1 .. n : /\ fq_pipes'[k] = fq_pipes[j] /\ fq_pipes[j] \in Pipes /\ fq_pipes[j] # p
                              /\ j = IF k = fq_current + 1 THEN fq_active ELSE k
      <4>1. CASE k = fq_current + 1
        <5>1. fq_pipes'[k] = fq_pipes[fq_active] /\ fq_pipes[fq_active] \in Pipes
          BY <1>2, <1>7, <3>1, <4>1
        <5>2. fq_pipes[fq_active] # p
          BY <1>2, <3>1, <4>1 DEF Injective, p, n
        <5> QED
          BY <3>1, <4>1, <5>1, <5>2
      <4>2. CASE k # fq_current + 1
        <5>1. fq_pipes'[k] = fq_pipes[k] /\ fq_pipes[k] \in Pipes
          BY <1>2, <1>7, <3>1, <4>2
        <5>2. fq_pipes[k] # p
          BY <1>2, <4>2 DEF Injective, p, n
        <5> QED
          BY <4>2, <5>1, <5>2
      <4> QED
        BY <4>1, <4>2
    <3>3. /\ fq_state[fq_pipes[j]] = "open" /\ fq_bypassed'[fq_pipes'[k]] = fq_bypassed[fq_pipes[j]]
          /\ fq_bypassed[fq_pipes[j]] \in Nat
      BY <1>1, <1>2, <1>5, <2>2, <3>2
    <3>4. fq_bypassed[fq_pipes[j]] <= IF j <= fq_current THEN fq_current - j ELSE fq_current + n - j
      BY <1>0, <3>3 DEF FqTurns, n
    <3> QED
      BY <1>2, <1>8, <3>1, <3>2, <3>3, <3>4
  <2> QED
    BY <1>7, <2>1, <2>2 DEF FqTurns
<1> QED
  BY <1>9, <1>10, <1>11, <1>12 DEF FqInv
\* The iteration that fetches a part: the message goes on in the same pipe, and
\* after its last part current moves on by one.
LEMMA FqFetched ==
  ASSUME FqInv, F!fetched
  PROVE  FqInv'
<1> DEFINE n == Len(fq_pipes)
           p == fq_pipes[fq_current + 1]
           x == Head(inbox[p])
           t == Tail(inbox[p])
           k == IF fq_more THEN received[2][2] + 1 ELSE 1
<1>0. FqTypeOK /\ FqArray /\ FqMessage /\ FqTurns
  BY DEF FqInv
<1>1. /\ fq_active > 0 /\ fq_state[p] = "open" /\ inbox[p] # <<>>
      /\ inbox' = [inbox EXCEPT ![p] = Tail(@)] /\ received' = <<received[2], <<p, x[1], x[2]>>>>
      /\ fq_more' = ~ x[2] /\ fq_current' = IF x[2] THEN (fq_current + 1) % fq_active ELSE fq_current
      /\ fq_bypassed' = IF x[2] THEN [q \in Pipes |-> IF (fq_state[q] = "open" /\ inbox[q] # <<>>) /\ q # p
                                                      THEN fq_bypassed[q] + 1 ELSE 0]
                        ELSE fq_bypassed
      /\ fq_call' = "none"
      /\ UNCHANGED <<fq_pipes, fq_active, fq_state, delimited, arrived, fq_asserted>>
  BY SameArray DEF F!fetched, F!Readable
<1>2. /\ fq_pipes \in Seq(Pipes) /\ n \in Nat /\ fq_active \in Nat /\ fq_active <= n /\ Injective(fq_pipes)
      /\ fq_current \in Nat /\ fq_current < fq_active /\ fq_current + 1 \in 1 .. n /\ p \in Pipes
      /\ fq_state \in [Pipes -> Attached \cup {"new", "gone"}] /\ fq_bypassed \in [Pipes -> Nat]
      /\ \A i \in 1 .. n : fq_pipes[i] \in Pipes
  BY <1>0, <1>1, FqFacts
<1>3. /\ inbox \in [Pipes -> Seq(Parts)] /\ inbox[p] \in Seq(Parts) /\ received \in Got \X Got
      /\ received[2] \in Got /\ received[2][2] \in Nat /\ fq_more \in BOOLEAN
  BY <1>0, <1>2 DEF FqTypeOK, Got
<1>4. k \in Nat /\ Framed(inbox[p], k)
  <2>1. k \in Nat
    BY <1>3
  <2>2. Framed(inbox[p], IF fq_more /\ p = fq_pipes[fq_current + 1] THEN received[2][2] + 1 ELSE 1)
    BY <1>0, <1>2 DEF FqMessage
  <2> QED
    BY <2>1, <2>2
<1>5. /\ x \in Parts /\ x[1] = k /\ x[2] \in BOOLEAN /\ t \in Seq(Parts)
      /\ Framed(t, IF x[2] THEN 1 ELSE k + 1) /\ (~ x[2] => t # <<>>)
  <2>1. PICK b \in Seq(Parts) : b = inbox[p]
    BY <1>3
  <2>2. PICK y \in Nat : y = k
    BY <1>4
  <2>3. b # <<>> /\ Framed(b, y)
    BY <1>1, <1>4, <2>1, <2>2
  <2> HIDE DEF k
  <2>4. /\ Head(b) \in Parts /\ Head(b)[1] = y /\ Head(b)[2] \in BOOLEAN /\ Tail(b) \in Seq(Parts)
        /\ Framed(Tail(b), IF Head(b)[2] THEN 1 ELSE y + 1) /\ (~ Head(b)[2] => Tail(b) # <<>>)
    BY <2>3, FramedTail
  <2> QED
    BY <2>1, <2>2, <2>4
<1>6. x[2] => fq_current' = IF fq_current + 1 = fq_active THEN 0 ELSE fq_current + 1
  BY <1>1, <1>2, ModStep
<1>7. \A q \in Pipes : inbox'[q] = IF q = p THEN t ELSE inbox[q]
  BY <1>1, <1>2, <1>3
<1>8. FqTypeOK'
  <2>1. inbox' \in [Pipes -> Seq(Parts)]
    BY <1>1, <1>3, <1>5
  <2>2. fq_current' \in Nat /\ (fq_current' < fq_active' \/ fq_current' = 0)
    BY <1>1, <1>2, <1>6
  <2>3. fq_bypassed' \in [Pipes -> Nat]
    BY <1>1, <1>2
  <2>4. received' \in Got \X Got
    <3>1. <<p, x[1], x[2]>> \in Got
      BY <1>2, <1>4, <1>5 DEF Got
    <3> HIDE DEF p, x
    <3> QED
      BY <1>1, <1>3, <3>1
  <2>5. fq_more' \in BOOLEAN
    BY <1>1
  <2> QED
    BY <1>0, <1>1, <2>1, <2>2, <2>3, <2>4, <2>5 DEF FqTypeOK
<1>9. FqArray'
  BY <1>0, <1>1 DEF FqArray
<1>10. FqMessage'
  <2>0. received'[1] = received[2] /\ received'[2] = <<p, x[1], x[2]>>
    BY <1>1
  <2> HIDE DEF x, t
  <2>a. received'[2][1] = p /\ received'[2][2] = x[1] /\ received'[2][3] = x[2]
    BY <2>0
  <2>1. F!WholeReceived'
    <3>1. CASE fq_more
      <4>1. ~ received[2][3] /\ received[2][1] = p /\ x[1] = received[2][2] + 1
        BY <1>0, <1>5, <3>1 DEF FqMessage
      <4> QED
        BY <2>0, <2>a, <4>1 DEF F!WholeReceived
    <3>2. CASE ~ fq_more
      <4>1. received[2][3] /\ x[1] = 1
        BY <1>0, <1>3, <1>5, <3>2 DEF FqMessage
      <4> QED
        BY <2>0, <2>a, <4>1 DEF F!WholeReceived
    <3> QED
      BY <3>1, <3>2
  <2>2. fq_more' = ~ received'[2][3] /\ ~ fq_asserted' /\ fq_call' # "has_in"
    BY <1>0, <1>1, <2>a DEF FqMessage
  <2>3. \A q \in Pipes : q # p => Framed(inbox'[q], 1)
    BY <1>0, <1>7 DEF FqMessage
  <2>4. CASE x[2]
    <3>1. ~ fq_more' /\ Framed(inbox'[p], 1)
      <4>1. ~ fq_more'
        BY <1>1, <2>4
      <4>2. inbox'[p] = t
        BY <1>2, <1>7
      <4>3. Framed(t, 1)
        BY <1>5, <2>4
      <4> QED
        BY <4>1, <4>2, <4>3
    <3> HIDE DEF p
    <3>2. \A q \in Pipes : Framed(inbox'[q], 1)
      BY <2>3, <3>1
    <3> QED
      BY <2>1, <2>2, <3>1, <3>2 DEF FqMessage
  <2>5. CASE ~ x[2]
    <3>1. /\ fq_more' /\ fq_pipes'[fq_current' + 1] = p /\ fq_active' > 0 /\ fq_state'[p] = "open"
          /\ inbox'[p] = t /\ t # <<>> /\ Framed(inbox'[p], received'[2][2] + 1)
      BY <1>1, <1>2, <1>5, <1>7, <2>5, <2>a
    <3> HIDE DEF p
    <3> QED
      BY <2>1, <2>2, <2>3, <2>a, <3>1 DEF FqMessage
  <2> QED
    BY <2>4, <2>5
<1>11. FqTurns'
  <2>1. CASE ~ x[2]
    <3>1. fq_bypassed' = fq_bypassed /\ fq_current' = fq_current /\ t # <<>>
      BY <1>1, <1>5, <2>1
    <3>2. \A q \in Pipes : fq_state'[q] = "open" /\ inbox'[q] = <<>> => fq_bypassed'[q] = 0
      BY <1>0, <1>1, <1>7, <3>1 DEF FqTurns
    <3> QED
      BY <1>0, <1>1, <3>1, <3>2 DEF FqTurns
  <2>2. CASE x[2]
    <3>1. \A q \in Pipes : fq_bypassed'[q] = IF (fq_state[q] = "open" /\ inbox[q] # <<>>) /\ q # p
                                             THEN fq_bypassed[q] + 1 ELSE 0
      BY <1>1, <2>2
    <3>2. ASSUME NEW i \in 1 .. n, fq_state[fq_pipes[i]] = "open"
          PROVE  fq_bypassed'[fq_pipes[i]] <= IF i <= fq_current' THEN fq_current' - i ELSE fq_current' + n - i
      <4>1. i <= fq_active
        BY <1>0, <3>2 DEF FqArray, n
      <4>2. CASE i = fq_current + 1 \/ inbox[fq_pipes[i]] = <<>>
        <5>1. fq_bypassed'[fq_pipes[i]] = 0
          BY <1>2, <3>1, <4>2
        <5> QED
          BY <1>2, <1>6, <2>2, <5>1
      <4>3. CASE i # fq_current + 1 /\ inbox[fq_pipes[i]] # <<>>
        <5>1. fq_pipes[i] # p /\ fq_pipes[i] \in Pipes
          BY <1>2, <4>3 DEF Injective
        <5>2. fq_bypassed'[fq_pipes[i]] = fq_bypassed[fq_pipes[i]] + 1 /\ fq_bypassed[fq_pipes[i]] \in Nat
          BY <1>2, <3>1, <3>2, <4>3, <5>1
        <5>3. fq_bypassed[fq_pipes[i]] <= IF i <= fq_current THEN fq_current - i ELSE fq_current + n - i
          BY <1>0, <3>2 DEF FqTurns
        <5> QED
          BY <1>2, <1>6, <2>2, <4>1, <4>3, <5>2, <5>3, SMTT(30)
      <4> QED
        BY <4>2, <4>3
    <3>3. n <= Cardinality(Pipes) /\ Cardinality(Pipes) \in Nat /\ \A q \in Pipes : Cardinality(Pipes) > 0
      BY <1>2, LbAssumption, ArrayFits, NotEmpty
    <3>4. ASSUME NEW q \in Pipes PROVE fq_bypassed'[q] < Cardinality(Pipes)
      <4>1. CASE (fq_state[q] = "open" /\ inbox[q] # <<>>) /\ q # p
        <5>1. PICK i \in 1 .. n : fq_pipes[i] = q
          BY <1>0, <4>1 DEF FqArray, Attached, Holds
        <5>2. i # fq_current + 1
          BY <4>1, <5>1
        <5>3. /\ fq_bypassed'[q] = fq_bypassed[q] + 1 /\ fq_bypassed[q] \in Nat
              /\ fq_bypassed[q] <= IF i <= fq_current THEN fq_current - i ELSE fq_current + n - i
          BY <1>0, <1>2, <3>1, <4>1, <5>1 DEF FqTurns
        <5>4. fq_bypassed'[q] < n
          <6>1. n \in Int /\ fq_current \in Int /\ i \in 1 .. n /\ 0 <= fq_current /\ fq_current < n
            BY <1>2, <5>1
          <6> HIDE DEF n
          <6>2. CASE i <= fq_current
            BY <5>2, <5>3, <6>1, <6>2
          <6>3. CASE ~ i <= fq_current
            BY <5>2, <5>3, <6>1, <6>3
          <6> QED
            BY <6>2, <6>3
        <5> QED
          BY <1>2, <3>3, <5>3, <5>4
      <4>2. CASE ~ ((fq_state[q] = "open" /\ inbox[q] # <<>>) /\ q # p)
        BY <3>1, <3>3, <4>2
      <4> QED
        BY <4>1, <4>2
    <3>5. \A q \in Pipes : /\ fq_state'[q] \in {"new", "asleep"} => fq_bypassed'[q] = 0
                           /\ fq_state'[q] = "open" /\ inbox'[q] = <<>> => fq_bypassed'[q] = 0
      BY <1>1, <1>7, <3>1
    <3> QED
      BY <1>1, <3>2, <3>4, <3>5 DEF FqTurns
  <2> QED
    BY <2>1, <2>2
<1> QED
  BY <1>8, <1>9, <1>10, <1>11 DEF FqInv

\* Every step of fq_t preserves the invariant.
LEMMA NextFqInv ==
  ASSUME ~ CloseMidMessage, ~ ThirdGoes, FqInv, [F!Next]_fq_vars
  PROVE  FqInv'
<1>1. CASE F!recv \/ F!eagain
  BY <1>1, FqIdle DEF F!recv, F!eagain, F!fq
<1>2. CASE F!has_in
  BY <1>2, FqIdle DEF F!has_in, F!fq
<1>3. CASE UNCHANGED fq_vars
  <2>1. fq_call \in {"none", "recv", "has_in"} /\ (fq_call = "has_in" => ~ fq_more)
    BY DEF FqInv, FqTypeOK, FqMessage
  <2> QED
    BY <1>3, <2>1, FqIdle DEF fq_vars
<1>4. ASSUME NEW p \in Pipes,
             \/ \E i \in 1 .. MaxParts : F!arrive(p, i)
             \/ F!delimit(p) \/ F!attach(p) \/ F!activated(p) \/ F!term_endpoint(p)
             \/ F!pipe_terminated(p)
      PROVE  FqInv'
  BY <1>4, FqArrive, FqAttach, FqTermEndpoint, FqTerminated
<1> QED
  BY <1>1, <1>2, <1>3, <1>4, FqDeactivate, FqFetched DEF F!Next

\* fq_t for every finite set of pipes and any number of messages: an application
\* receives whole messages only, the pipes that are awake are the active ones,
\* zmq_assert (!more) never fails, and each pipe gets its turn.  The two cases
\* that the hypotheses exclude are the ones in which the code goes wrong.
THEOREM FqAlwaysRight == ~ CloseMidMessage /\ ~ ThirdGoes => (F!Spec => []FqRight)
<1> SUFFICES ASSUME ~ CloseMidMessage, ~ ThirdGoes PROVE F!Spec => []FqRight
  OBVIOUS
<1>1. FqInv /\ [F!Next]_(F!vars) => FqInv'
  <2>1. UNCHANGED F!vars <=> UNCHANGED fq_vars
    BY DEF F!vars, F!fq, fq_vars
  <2> QED
    BY <2>1, NextFqInv
<1> QED
  BY <1>1, InitFqInv, FqInvRight, PTL DEF F!Spec
-----------------------------------------------------------------------------
(* Req.                                                                    *)

Somewhere == Pipes \cup {Q!None}
Requests == [n : Nat, id : Nat, answered : 0 .. 2]
Replies  == [n : Nat, id : Nat, bottom : BOOLEAN, parts : 1 .. 2]
ReqRecords ==
  [receiving_reply : BOOLEAN, message_begins : BOOLEAN, reply_pipe : Somewhere,
   request_id : Nat, lb : Somewhere, dropping : BOOLEAN, fq : Somewhere, left : Int, ok : BOOLEAN]

ReqTypeOK ==
  /\ req \in ReqRecords /\ q_n \in Nat
  /\ q_pipe \in [Pipes -> {"new", "active", "terminating", "gone"}]
  /\ requests \in [Pipes -> SUBSET Requests] /\ q_in \in [Pipes -> Seq(Replies)]

\* What is begun to be read is the rest of the reply, from a pipe that is there;
\* what is begun to be sent goes to the pipe the reply is waited for from.
Reading == req.receiving_reply /\ ~ req.message_begins
Writing == ~ req.receiving_reply /\ ~ req.message_begins
HalfWay ==
  /\ Reading <=> req.fq # Q!None
  /\ req.fq # Q!None => q_pipe[req.fq] = "active"
  /\ req.lb # Q!None => Writing /\ req.lb = req.reply_pipe /\ q_pipe[req.lb] = "active"

\* The id tells a request from those before it.
Numbered ==
  \A p \in Pipes :
    /\ \A x \in requests[p] : x.id <= req.request_id /\ (x.id = req.request_id => x.n = q_n)
    /\ \A i \in 1 .. Len(q_in[p]) :
         q_in[p][i].id <= req.request_id /\ (q_in[p][i].id = req.request_id => q_in[p][i].n = q_n)

\* Without ids, the pipe and the order of calls do, where the peer answers each
\* request once: a request that has not been answered is the last one, and what can
\* be read where its reply may come from is of it.
Busy == req.receiving_reply \/ ~ req.message_begins
InOrder(p) ==
  /\ \A x \in requests[p] : x.answered = 0 =>
       /\ req.receiving_reply /\ req.message_begins
       /\ req.reply_pipe = p /\ x.n = q_n /\ q_in[p] = <<>>
  /\ Busy /\ req.reply_pipe = p => \A i \in 1 .. Len(q_in[p]) : q_in[p][i].n = q_n
  /\ Busy /\ req.reply_pipe # p => q_in[p] = <<>>
  /\ Writing => q_in[p] = <<>>

LockStep ==
  /\ \A p \in Pipes : \A x \in requests[p] : x.id = req.request_id
  /\ \A p \in Pipes : q_pipe[p] = "active" /\ ~ Q!Twice(requests[p]) => InOrder(p)

\* Nothing goes through a pipe before it is attached.
Fresh == \A p \in Pipes : q_pipe[p] = "new" => requests[p] = {} /\ q_in[p] = <<>>

\* While its reply is waited for, the last request is at reply_pipe only.
Asked ==
  \A p \in Pipes : \A x \in requests[p] :
    x.n <= q_n /\ (x.n = q_n => ~ Writing /\ (req.receiving_reply => p = req.reply_pipe))

\* What was received was received for the last request.
GotRight ==
  q_got # Q!None =>
    /\ q_got.for = q_n /\ ~ Writing
    /\ q_got.n # q_got.for => ~ q_set.correlate /\ Q!Twice(q_got.asked)
    /\ \A p \in Pipes : (\E x \in requests[p] : x.n = q_got.for) => p = q_got.from

ReqInv ==
  /\ ReqTypeOK /\ HalfWay /\ req.ok /\ Fresh /\ Asked /\ GotRight
  /\ q_set.correlate => Numbered
  /\ ~ q_set.correlate => LockStep

\* Nothing has been sent yet.
LEMMA InitReq == Q!Init => ReqInv
<1> SUFFICES ASSUME Q!Init PROVE ReqInv
  OBVIOUS
<1>1. /\ req = [receiving_reply |-> FALSE, message_begins |-> TRUE, reply_pipe |-> Q!None,
                request_id |-> 0, lb |-> Q!None, dropping |-> FALSE, fq |-> Q!None, left |-> 0,
                ok |-> TRUE]
      /\ q_pipe = [p \in Pipes |-> "new"] /\ requests = [p \in Pipes |-> {}]
      /\ q_in = [p \in Pipes |-> <<>>] /\ q_n = 0 /\ q_got = Q!None
  BY DEF Q!Init
<1>2. req \in ReqRecords
  BY <1>1 DEF ReqRecords, Somewhere
<1>3. <<>> \in Seq(Replies) /\ {} \in SUBSET Requests /\ Len(<<>>) = 0
  OBVIOUS
<1>4. ReqTypeOK
  BY <1>1, <1>2, <1>3 DEF ReqTypeOK
<1>5. HalfWay
  BY <1>1 DEF HalfWay, Reading, Writing
<1>6. Numbered
  BY <1>1, <1>3 DEF Numbered
<1>7. LockStep /\ Fresh /\ Asked
  BY <1>1, <1>3 DEF LockStep, Fresh, Asked
<1>8. GotRight
  BY <1>1 DEF GotRight
<1> QED
  BY <1>1, <1>4, <1>5, <1>6, <1>7, <1>8 DEF ReqInv

\* The rest of a sequence has no other items.
LEMMA RestItems ==
  ASSUME NEW S, NEW a \in Seq(S), NEW k \in 0 .. Len(a)
  PROVE  LET b == SubSeq(a, k + 1, Len(a))
         IN  /\ b \in Seq(S) /\ \A i \in 1 .. Len(b) : \E j \in 1 .. Len(a) : b[i] = a[j]
             /\ a = <<>> => b = <<>>
<1> DEFINE b == SubSeq(a, k + 1, Len(a))
<1>1. Len(a) \in Nat
  BY LenProperties
<1>2. /\ b \in Seq(S) /\ Len(b) = Len(a) - k
      /\ \A i \in 1 .. Len(b) : b[i] = a[k + i]
  <2>1. k + 1 \in Int /\ Len(a) \in Int /\ k \in Int /\ k <= Len(a)
    BY <1>1
  <2>2. \A i \in k + 1 .. Len(a) : a[i] \in S
    BY <1>1, <2>1, ElementOfSeq
  <2>3. /\ b \in Seq(S)
        /\ Len(b) = IF k + 1 <= Len(a) THEN Len(a) - (k + 1) + 1 ELSE 0
        /\ \A i \in 1 .. Len(a) - (k + 1) + 1 : b[i] = a[k + 1 + i - 1]
    BY <2>1, <2>2, SubSeqProperties
  <2> HIDE DEF b
  <2>4. \A l \in Int : /\ k + 1 <= l => l - (k + 1) + 1 = l - k
                       /\ k <= l /\ ~ k + 1 <= l => 0 = l - k
                       /\ l - (k + 1) + 1 = l - k /\ k + 1 + l - 1 = k + l
    BY <2>1
  <2>5. Len(b) = Len(a) - k
    BY <2>1, <2>3, <2>4
  <2>6. ASSUME NEW i \in 1 .. Len(b) PROVE b[i] = a[k + i]
    <3>1. i \in Int /\ i \in 1 .. Len(a) - (k + 1) + 1
      BY <2>1, <2>4, <2>5
    <3> QED
      BY <2>3, <2>4, <3>1
  <2> QED
    BY <2>3, <2>5, <2>6
<1>3. \A i \in 1 .. Len(b) : k + i \in 1 .. Len(a)
  BY <1>1, <1>2
<1>4. a = <<>> => b = <<>>
  BY <1>1, <1>2
<1> QED
  BY <1>2, <1>3, <1>4

\* Everything is in order at a pipe that nothing has gone through.
LEMMA EmptyInOrder ==
  ASSUME NEW p \in Pipes, requests[p] = {}, q_in[p] = <<>>
  PROVE  InOrder(p)
<1>1. Len(<<>>) = 0
  OBVIOUS
<1> QED
  BY <1>1 DEF InOrder

\* A pipe is attached: it is new, so that nothing has gone through it.
LEMMA AttachReq ==
  ASSUME ReqInv, NEW p \in Pipes, Q!xattach_pipe(p)
  PROVE  ReqInv'
<1>1. /\ q_pipe[p] = "new" /\ q_pipe' = [q_pipe EXCEPT ![p] = "active"]
      /\ UNCHANGED <<q_set, req, requests, q_in, q_n, replies, q_got>>
  BY DEF Q!xattach_pipe
<1>2. ReqTypeOK'
  BY <1>1 DEF ReqInv, ReqTypeOK
<1>3. \A q \in Pipes : q_pipe'[q] = IF q = p THEN "active" ELSE q_pipe[q]
  BY <1>1 DEF ReqInv, ReqTypeOK
<1>4. HalfWay'
  <2>1. (req.fq # Q!None => req.fq \in Pipes) /\ (req.lb # Q!None => req.lb \in Pipes)
    BY DEF ReqInv, ReqTypeOK, ReqRecords, Somewhere
  <2> QED
    BY <1>1, <1>3, <2>1 DEF ReqInv, HalfWay, Reading, Writing
<1>5. q_set.correlate => Numbered'
  BY <1>1 DEF ReqInv, Numbered
<1>6. ASSUME ~ q_set.correlate PROVE LockStep'
  <2>1. LockStep /\ Fresh
    BY <1>6 DEF ReqInv
  <2>2. ASSUME NEW q \in Pipes PROVE InOrder(q)' = InOrder(q) /\ Q!Twice(requests'[q]) = Q!Twice(requests[q])
    BY <1>1 DEF InOrder, Busy, Writing, Q!Twice
  <2>3. InOrder(p)
    BY <1>1, <2>1, EmptyInOrder DEF Fresh
  <2>4. ASSUME NEW q \in Pipes, q_pipe'[q] = "active", ~ Q!Twice(requests'[q]) PROVE InOrder(q)'
    BY <1>3, <2>1, <2>2, <2>3, <2>4 DEF LockStep
  <2>5. \A q \in Pipes : \A x \in requests'[q] : x.id = req'.request_id
    BY <1>1, <2>1 DEF LockStep
  <2> QED
    BY <2>4, <2>5 DEF LockStep
<1>7. Fresh' /\ Asked'
  BY <1>1, <1>3 DEF ReqInv, Fresh, Asked, Writing
<1>8. GotRight'
  BY <1>1 DEF ReqInv, GotRight, Writing
<1> QED
  BY <1>1, <1>2, <1>4, <1>5, <1>6, <1>7, <1>8 DEF ReqInv

\* A pipe is lost: what is at the others is not touched.
LEMMA TerminatedReq ==
  ASSUME ReqInv, NEW p \in Pipes, Q!xpipe_terminated(p)
  PROVE  ReqInv'
<1> DEFINE R == [req EXCEPT !.reply_pipe = IF @ = p THEN Q!None ELSE @,
                            !.dropping = @ \/ req.lb = p, !.lb = IF @ = p THEN Q!None ELSE @]
<1>1. /\ q_pipe[p] \in {"active", "terminating"} /\ req.fq # p
      /\ q_pipe' = [q_pipe EXCEPT ![p] = "gone"] /\ req' = R
      /\ q_in' = [q_in EXCEPT ![p] = <<>>] /\ requests' = [requests EXCEPT ![p] = {}]
      /\ UNCHANGED <<q_set, q_n, replies, q_got>>
  BY DEF Q!xpipe_terminated
<1>2. /\ req \in ReqRecords /\ req.reply_pipe \in Somewhere /\ req.lb \in Somewhere
      /\ (req.dropping \/ req.lb = p) \in BOOLEAN
  BY DEF ReqInv, ReqTypeOK, ReqRecords
<1>3. R \in ReqRecords
  BY <1>2 DEF ReqRecords, Somewhere
<1>4. /\ req'.receiving_reply = req.receiving_reply /\ req'.message_begins = req.message_begins
      /\ req'.reply_pipe = (IF req.reply_pipe = p THEN Q!None ELSE req.reply_pipe)
      /\ req'.lb = (IF req.lb = p THEN Q!None ELSE req.lb)
      /\ req'.request_id = req.request_id /\ req'.fq = req.fq /\ req'.ok = req.ok
  BY <1>1, <1>2 DEF ReqRecords
<1>5. \A q \in Pipes : /\ q_pipe'[q] = IF q = p THEN "gone" ELSE q_pipe[q]
                       /\ q_in'[q] = IF q = p THEN <<>> ELSE q_in[q]
                       /\ requests'[q] = IF q = p THEN {} ELSE requests[q]
  BY <1>1 DEF ReqInv, ReqTypeOK
<1>6. ReqTypeOK'
  <2>1. <<>> \in Seq(Replies) /\ {} \in SUBSET Requests
    OBVIOUS
  <2> QED
    BY <1>1, <1>3, <2>1 DEF ReqInv, ReqTypeOK
<1> HIDE DEF R
<1>7. HalfWay'
  <2>1. (req.fq # Q!None => req.fq \in Pipes) /\ (req.lb # Q!None => req.lb \in Pipes)
    BY DEF ReqInv, ReqTypeOK, ReqRecords, Somewhere
  <2> QED
    BY <1>1, <1>4, <1>5, <2>1 DEF ReqInv, HalfWay, Reading, Writing
<1>8. ASSUME q_set.correlate PROVE Numbered'
  <2>1. Len(<<>>) = 0
    OBVIOUS
  <2> QED
    BY <1>1, <1>4, <1>5, <1>8, <2>1 DEF ReqInv, Numbered
<1>9. ASSUME ~ q_set.correlate PROVE LockStep'
  <2>1. LockStep
    BY <1>9 DEF ReqInv
  <2>2. \A q \in Pipes : \A x \in requests'[q] : x.id = req'.request_id
    BY <1>4, <1>5, <2>1 DEF LockStep
  <2>3. Busy' = Busy /\ Writing' = Writing
    BY <1>4 DEF Busy, Writing
  <2>4. ASSUME NEW q \in Pipes, q_pipe'[q] = "active", ~ Q!Twice(requests'[q]) PROVE InOrder(q)'
    <3>1. q # p /\ q_pipe[q] = "active" /\ q_in'[q] = q_in[q] /\ requests'[q] = requests[q]
      BY <1>5, <2>4
    <3>2. ~ Q!Twice(requests[q])
      BY <2>4, <3>1 DEF Q!Twice
    <3>3. InOrder(q)
      BY <2>1, <3>1, <3>2 DEF LockStep
    <3>4. (req'.reply_pipe = q <=> req.reply_pipe = q)
      BY <1>4, <3>1, ReqAssumption
    <3> QED
      BY <1>1, <1>4, <2>3, <3>1, <3>3, <3>4 DEF InOrder
  <2> QED
    BY <2>2, <2>4 DEF LockStep
<1>10. Writing' = Writing
  BY <1>4 DEF Writing
<1>11. Fresh'
  BY <1>5 DEF ReqInv, Fresh
<1>12. Asked'
  <2>1. Asked
    BY DEF ReqInv
  <2>2. ASSUME NEW q \in Pipes, NEW x \in requests'[q]
        PROVE  x.n <= q_n /\ (x.n = q_n => ~ Writing /\ (req.receiving_reply => q = req'.reply_pipe))
    <3>1. q # p /\ x \in requests[q]
      BY <1>5, <2>2
    <3> QED
      BY <1>4, <2>1, <3>1 DEF Asked
  <2> QED
    BY <1>1, <1>4, <1>10, <2>2 DEF Asked
<1>13. GotRight'
  <2>1. GotRight
    BY DEF ReqInv
  <2>2. \A q \in Pipes : \A x \in requests'[q] : x \in requests[q]
    BY <1>5
  <2> QED
    BY <1>1, <1>10, <2>1, <2>2 DEF GotRight
<1> QED
  BY <1>1, <1>4, <1>6, <1>7, <1>8, <1>9, <1>11, <1>12, <1>13 DEF ReqInv

\* A peer answers: if it has not done so before, then what it was asked last.
LEMMA RepliesReq ==
  ASSUME ReqInv, NEW p \in Pipes, Q!peer_replies(p)
  PROVE  ReqInv'
<1>1. PICK r \in requests[p], k \in 1 .. 2, bottom \in BOOLEAN :
        /\ q_in' = [q_in EXCEPT ![p] = Append(@, [n |-> r.n, id |-> r.id, bottom |-> bottom,
                                                  parts |-> k])]
        /\ requests' = [requests EXCEPT ![p] = (@ \ {r}) \cup {[r EXCEPT !.answered = IF @ = 0 THEN 1 ELSE 2]}]
  BY DEF Q!peer_replies
<1> DEFINE reply == [n |-> r.n, id |-> r.id, bottom |-> bottom, parts |-> k]
           a == [r EXCEPT !.answered = IF @ = 0 THEN 1 ELSE 2]
<1>2. UNCHANGED <<q_set, req, q_pipe, q_n, q_got>>
  BY DEF Q!peer_replies
<1>3. /\ r \in Requests /\ q_in[p] \in Seq(Replies) /\ requests[p] \in SUBSET Requests
      /\ q_in \in [Pipes -> Seq(Replies)] /\ requests \in [Pipes -> SUBSET Requests]
  BY DEF ReqInv, ReqTypeOK
<1>4. reply \in Replies /\ reply.n = r.n /\ reply.id = r.id
  BY <1>3 DEF Requests, Replies
<1>5. a \in Requests /\ a.n = r.n /\ a.id = r.id /\ a.answered = (IF r.answered = 0 THEN 1 ELSE 2)
  BY <1>3 DEF Requests
<1> HIDE DEF reply, a
<1>6. /\ q_in' = [q_in EXCEPT ![p] = Append(q_in[p], reply)]
      /\ requests' = [requests EXCEPT ![p] = (requests[p] \ {r}) \cup {a}]
  BY <1>1 DEF reply, a
<1>7. /\ Append(q_in[p], reply) \in Seq(Replies)
      /\ Len(Append(q_in[p], reply)) = Len(q_in[p]) + 1
      /\ \A i \in 1 .. Len(q_in[p]) + 1 :
           Append(q_in[p], reply)[i] = IF i \in 1 .. Len(q_in[p]) THEN q_in[p][i] ELSE reply
  <2>1. Len(q_in[p]) \in Nat
    BY <1>3, LenProperties
  <2> QED
    BY <1>3, <1>4, <2>1, AppendProperties
<1>8. /\ q_in' \in [Pipes -> Seq(Replies)] /\ requests' \in [Pipes -> SUBSET Requests]
      /\ q_in'[p] = Append(q_in[p], reply) /\ requests'[p] = (requests[p] \ {r}) \cup {a}
      /\ \A q \in Pipes : q # p => q_in'[q] = q_in[q] /\ requests'[q] = requests[q]
  BY <1>3, <1>5, <1>6, <1>7
<1>9. \A i \in 1 .. Len(q_in'[p]) : q_in'[p][i] = reply \/
        (i \in 1 .. Len(q_in[p]) /\ q_in'[p][i] = q_in[p][i])
  BY <1>7, <1>8
<1>10. ReqTypeOK'
  BY <1>2, <1>8 DEF ReqInv, ReqTypeOK
<1>11. HalfWay'
  BY <1>2 DEF ReqInv, HalfWay, Reading, Writing
<1>12. ASSUME q_set.correlate PROVE Numbered'
  <2>1. Numbered
    BY <1>12 DEF ReqInv
  <2>2. r.id <= req.request_id /\ (r.id = req.request_id => r.n = q_n)
    BY <2>1 DEF Numbered
  <2>3. ASSUME NEW q \in Pipes
        PROVE  /\ \A x \in requests'[q] : x.id <= req.request_id /\ (x.id = req.request_id => x.n = q_n)
               /\ \A i \in 1 .. Len(q_in'[q]) :
                    q_in'[q][i].id <= req.request_id /\ (q_in'[q][i].id = req.request_id => q_in'[q][i].n = q_n)
    <3>1. CASE q = p
      <4>1. ASSUME NEW x \in requests'[p]
            PROVE  x.id <= req.request_id /\ (x.id = req.request_id => x.n = q_n)
        BY <1>5, <1>8, <2>1, <2>2 DEF Numbered
      <4>2. ASSUME NEW i \in 1 .. Len(q_in'[p])
            PROVE  q_in'[p][i].id <= req.request_id /\ (q_in'[p][i].id = req.request_id => q_in'[p][i].n = q_n)
        BY <1>4, <1>9, <2>1, <2>2 DEF Numbered
      <4> QED
        BY <3>1, <4>1, <4>2
    <3>2. CASE q # p
      BY <1>8, <2>1, <3>2 DEF Numbered
    <3> QED
      BY <3>1, <3>2
  <2> QED
    BY <1>2, <2>3 DEF Numbered
<1>13. ASSUME ~ q_set.correlate PROVE LockStep'
  <2>1. LockStep
    BY <1>13 DEF ReqInv
  <2>2. \A q \in Pipes : \A x \in requests'[q] : x.id = req.request_id
    BY <1>5, <1>8, <2>1 DEF LockStep
  <2>3. Busy' = Busy /\ Writing' = Writing
    BY <1>2 DEF Busy, Writing
  <2>4. ASSUME NEW q \in Pipes, q # p, q_pipe[q] = "active", ~ Q!Twice(requests'[q]) PROVE InOrder(q)'
    <3>1. q_in'[q] = q_in[q] /\ requests'[q] = requests[q]
      BY <1>8, <2>4
    <3>2. InOrder(q)
      BY <2>1, <2>4, <3>1 DEF LockStep, Q!Twice
    <3> QED
      BY <1>2, <2>3, <3>1, <3>2 DEF InOrder
  <2>5. ASSUME q_pipe[p] = "active", ~ Q!Twice(requests'[p]) PROVE InOrder(p)'
    <3>1. r.answered = 0
      <4>1. a \in requests'[p]
        BY <1>8
      <4> QED
        BY <1>3, <1>5, <2>5, <4>1 DEF Q!Twice, Requests
    <3>2. ~ Q!Twice(requests[p])
      <4>1. ASSUME NEW x \in requests[p], x.answered > 1 PROVE FALSE
        BY <1>8, <2>5, <3>1, <4>1 DEF Q!Twice
      <4> QED
        BY <4>1 DEF Q!Twice
    <3>3. InOrder(p)
      BY <2>1, <2>5, <3>2 DEF LockStep
    <3>4. req.receiving_reply /\ req.message_begins /\ req.reply_pipe = p /\ r.n = q_n
      BY <3>1, <3>3 DEF InOrder
    <3>5. ASSUME NEW x \in requests'[p], x.answered = 0 PROVE FALSE
      <4>1. x \in requests[p] /\ x # r
        BY <1>5, <1>8, <3>1, <3>5
      <4>2. x.n = q_n
        BY <3>3, <3>5, <4>1 DEF InOrder
      <4>3. x.id = r.id
        BY <2>1, <4>1 DEF LockStep
      <4>4. x \in Requests /\ r \in Requests
        BY <1>3, <4>1
      <4> QED
        BY <3>1, <3>4, <3>5, <4>1, <4>2, <4>3, <4>4 DEF Requests
    <3>6. \A i \in 1 .. Len(q_in'[p]) : q_in'[p][i].n = q_n
      <4>1. \A i \in 1 .. Len(q_in[p]) : q_in[p][i].n = q_n
        BY <3>3, <3>4 DEF InOrder, Busy
      <4> QED
        BY <1>4, <1>9, <3>4, <4>1
    <3>7. ~ Writing
      BY <3>4 DEF Writing
    <3> QED
      BY <1>2, <2>3, <3>4, <3>5, <3>6, <3>7 DEF InOrder
  <2>6. ASSUME NEW q \in Pipes, q_pipe'[q] = "active", ~ Q!Twice(requests'[q]) PROVE InOrder(q)'
    BY <1>2, <2>4, <2>5, <2>6
  <2> QED
    BY <1>2, <2>2, <2>6 DEF LockStep
<1>14. Writing' = Writing
  BY <1>2 DEF Writing
<1>15. \A q \in Pipes : \A x \in requests'[q] : \E y \in requests[q] : x.n = y.n
  BY <1>3, <1>5, <1>8
<1>16. Fresh'
  <2>1. q_pipe[p] # "new"
    BY DEF ReqInv, Fresh
  <2> QED
    BY <1>2, <1>8, <2>1 DEF ReqInv, Fresh
<1>17. Asked'
  <2>1. Asked
    BY DEF ReqInv
  <2> QED
    BY <1>2, <1>14, <1>15, <2>1 DEF Asked
<1>18. GotRight'
  <2>1. GotRight
    BY DEF ReqInv
  <2> QED
    BY <1>2, <1>14, <1>15, <2>1 DEF GotRight
<1> QED
  BY <1>2, <1>10, <1>11, <1>12, <1>13, <1>16, <1>17, <1>18 DEF ReqInv

\* The rest of a reply is read.
LEMMA RecvNextReq ==
  ASSUME ReqInv, Q!xrecv_next
  PROVE  ReqInv'
<1> DEFINE goes == req.left > 1
<1>1. /\ Reading /\ UNCHANGED <<q_set, q_pipe, requests, q_in, q_n, replies, q_got>>
      /\ req' = [[req EXCEPT !.ok = @ /\ req.fq \in Q!Active]
                   EXCEPT !.receiving_reply = goes, !.message_begins = ~ goes,
                          !.fq = IF goes THEN @ ELSE Q!None, !.left = @ - 1]
  BY DEF Q!xrecv_next, Q!zmq_assert, Reading
<1>2. req \in ReqRecords /\ req.left \in Int /\ goes \in BOOLEAN /\ req.fq \in Somewhere
  BY DEF ReqInv, ReqTypeOK, ReqRecords
<1> HIDE DEF goes
<1>3. /\ req.fq # Q!None /\ req.fq \in Q!Active /\ req.ok
      /\ req.lb = Q!None
  BY <1>1, <1>2 DEF ReqInv, HalfWay, Reading, Writing, Q!Active, Somewhere
<1>4. /\ req'.receiving_reply = goes /\ req'.message_begins = ~ goes
      /\ req'.fq = (IF goes THEN req.fq ELSE Q!None) /\ req'.ok = TRUE
      /\ req'.reply_pipe = req.reply_pipe /\ req'.request_id = req.request_id /\ req'.lb = req.lb
  BY <1>1, <1>2, <1>3 DEF ReqRecords
<1>5. req' \in ReqRecords
  <2>1. (IF goes THEN req.fq ELSE Q!None) \in Somewhere /\ req.left - 1 \in Int
        /\ (req.ok /\ req.fq \in Q!Active) \in BOOLEAN
    BY <1>2 DEF Somewhere
  <2> QED
    BY <1>1, <1>2, <2>1 DEF ReqRecords
<1>6. ReqTypeOK'
  BY <1>1, <1>5 DEF ReqInv, ReqTypeOK
<1>7. HalfWay'
  BY <1>1, <1>3, <1>4 DEF ReqInv, HalfWay, Reading, Writing
<1>8. q_set.correlate => Numbered'
  BY <1>1, <1>4 DEF ReqInv, Numbered
<1>9. ~ Writing /\ ~ Writing' /\ Busy
  BY <1>1, <1>2, <1>4 DEF Writing, Reading, Busy
<1>10. ASSUME ~ q_set.correlate PROVE LockStep'
  <2>1. LockStep
    BY <1>10 DEF ReqInv
  <2>2. ASSUME NEW q \in Pipes, q_pipe'[q] = "active", ~ Q!Twice(requests'[q]) PROVE InOrder(q)'
    <3>1. InOrder(q)
      BY <1>1, <2>1, <2>2 DEF LockStep, Q!Twice
    <3> QED
      BY <1>1, <1>4, <1>9, <3>1 DEF InOrder, Reading
  <2> QED
    BY <1>1, <1>4, <2>1, <2>2 DEF LockStep
<1>11. Fresh' /\ Asked'
  BY <1>1, <1>4, <1>9 DEF ReqInv, Fresh, Asked, Reading
<1>12. GotRight'
  BY <1>1, <1>9 DEF ReqInv, GotRight
<1> QED
  BY <1>1, <1>4, <1>6, <1>7, <1>8, <1>10, <1>11, <1>12 DEF ReqInv

\* Where the reading of the pipes has got to when an acceptable reply, or nothing,
\* is left.
Unread(k) == [q \in Pipes |-> IF q \in Q!Active THEN SubSeq(q_in[q], k[q] + 1, Len(q_in[q]))
                              ELSE q_in[q]]

TakesFirst(k, p) ==
  /\ Unread(k)[p] # <<>> /\ Q!Accepts(p, Head(Unread(k)[p]))
  /\ q_in' = [Unread(k) EXCEPT ![p] = Tail(@)]
  /\ q_got' = [n |-> Head(Unread(k)[p]).n, for |-> q_n, from |-> p, asked |-> requests[p]]
  /\ req' = [req EXCEPT !.receiving_reply = Head(Unread(k)[p]).parts > 1,
                        !.message_begins = ~ (Head(Unread(k)[p]).parts > 1),
                        !.fq = IF Head(Unread(k)[p]).parts > 1 THEN p ELSE Q!None,
                        !.left = Head(Unread(k)[p]).parts - 1]

\* What has not been read was there before.
LEMMA UnreadItems ==
  ASSUME ReqInv, NEW k, \A q \in Q!Active : k[q] \in Nat /\ k[q] <= Len(q_in[q]), NEW q \in Pipes
  PROVE  /\ Unread(k)[q] \in Seq(Replies)
         /\ \A i \in 1 .. Len(Unread(k)[q]) : \E j \in 1 .. Len(q_in[q]) : Unread(k)[q][i] = q_in[q][j]
         /\ q_in[q] = <<>> => Unread(k)[q] = <<>>
<1>1. q_in[q] \in Seq(Replies) /\ Len(q_in[q]) \in Nat
  BY LenProperties DEF ReqInv, ReqTypeOK
<1>2. CASE q \in Q!Active
  <2>1. k[q] \in 0 .. Len(q_in[q])
    BY <1>1, <1>2
  <2>2. Unread(k)[q] = SubSeq(q_in[q], k[q] + 1, Len(q_in[q]))
    BY <1>2 DEF Unread
  <2> DEFINE a == q_in[q]
             b == SubSeq(a, k[q] + 1, Len(a))
  <2>3. a \in Seq(Replies) /\ k[q] \in 0 .. Len(a)
    BY <1>1, <2>1
  <2>4. Unread(k)[q] = b
    BY <2>2
  <2> HIDE DEF a
  <2>5. b \in Seq(Replies) /\ (a = <<>> => b = <<>>)
    BY <2>3, RestItems
  <2>6. \A i \in 1 .. Len(b) : \E j \in 1 .. Len(a) : b[i] = a[j]
    BY <2>3, RestItems
  <2> HIDE DEF b
  <2> QED
    BY <2>4, <2>5, <2>6 DEF a
<1>3. CASE q \notin Q!Active
  BY <1>1, <1>3 DEF Unread
<1> QED
  BY <1>2, <1>3

\* Items that were there before are of what they were of.
LEMMA FewerItems ==
  ASSUME ReqInv, ReqTypeOK', HalfWay', req'.ok, UNCHANGED <<q_set, q_pipe, requests, q_n>>,
         GotRight', req'.request_id = req.request_id, req'.reply_pipe = req.reply_pipe,
         req'.receiving_reply => req.receiving_reply,
         Busy' => Busy, Writing' => Writing,
         \A q \in Pipes : /\ \A i \in 1 .. Len(q_in'[q]) : \E j \in 1 .. Len(q_in[q]) : q_in'[q][i] = q_in[q][j]
                          /\ q_in[q] = <<>> => q_in'[q] = <<>>,
         ~ q_set.correlate => \A q \in Pipes : q_pipe[q] = "active" /\ ~ Q!Twice(requests[q]) =>
           \A x \in requests[q] : x.answered = 0 => req'.receiving_reply /\ req'.message_begins
  PROVE  ReqInv'
<1>1. ASSUME q_set.correlate PROVE Numbered'
  <2>1. Numbered
    BY <1>1 DEF ReqInv
  <2>2. ASSUME NEW q \in Pipes, NEW i \in 1 .. Len(q_in'[q])
        PROVE  q_in'[q][i].id <= req.request_id /\ (q_in'[q][i].id = req.request_id => q_in'[q][i].n = q_n)
    <3>1. PICK j \in 1 .. Len(q_in[q]) : q_in'[q][i] = q_in[q][j]
      OBVIOUS
    <3> QED
      BY <2>1, <3>1 DEF Numbered
  <2> QED
    BY <2>1, <2>2 DEF Numbered
<1>2. ASSUME ~ q_set.correlate PROVE LockStep'
  <2>1. LockStep
    BY <1>2 DEF ReqInv
  <2>2. ASSUME NEW q \in Pipes, q_pipe'[q] = "active", ~ Q!Twice(requests'[q]) PROVE InOrder(q)'
    <3>1. q_pipe[q] = "active" /\ ~ Q!Twice(requests[q])
      BY <2>2 DEF Q!Twice
    <3>2. InOrder(q)
      BY <2>1, <3>1 DEF LockStep
    <3>3. ASSUME Busy', req.reply_pipe = q, NEW i \in 1 .. Len(q_in'[q])
          PROVE  q_in'[q][i].n = q_n
      <4>1. PICK j \in 1 .. Len(q_in[q]) : q_in'[q][i] = q_in[q][j]
        OBVIOUS
      <4> QED
        BY <3>2, <3>3, <4>1 DEF InOrder
    <3>4. \A x \in requests[q] : x.answered = 0 => req'.receiving_reply /\ req'.message_begins
      BY <1>2, <3>1
    <3> QED
      BY <3>2, <3>3, <3>4 DEF InOrder
  <2>3. \A q \in Pipes : \A x \in requests[q] : x.id = req.request_id
    BY <2>1 DEF LockStep
  <2> QED
    BY <2>2, <2>3 DEF LockStep
<1>3. Fresh' /\ Asked'
  BY DEF ReqInv, Fresh, Asked
<1> QED
  BY <1>1, <1>2, <1>3 DEF ReqInv

\* The first part of a reply: it is of the last request.
LEMMA RecvFirstReq ==
  ASSUME ReqInv, Q!xrecv_first
  PROVE  ReqInv'
<1>1. /\ req.receiving_reply /\ req.message_begins
      /\ UNCHANGED <<q_set, q_pipe, requests, q_n, replies>>
  BY DEF Q!xrecv_first
<1>2. PICK k \in [Q!Active -> 0 .. MaxReplies] :
        /\ \A q \in Q!Active : k[q] <= Len(q_in[q])
        /\ \/ \E p \in Q!Active : TakesFirst(k, p)
           \/ q_in' = Unread(k) /\ UNCHANGED <<req, q_got>>
  BY Zenon DEF Q!xrecv_first, Unread, TakesFirst
<1>3. \A q \in Q!Active : k[q] \in Nat /\ k[q] <= Len(q_in[q])
  <2>1. k \in [Q!Active -> 0 .. MaxReplies] /\ \A q \in Q!Active : k[q] <= Len(q_in[q])
    BY <1>2, Zenon
  <2> QED
    BY <2>1, ReqAssumption
<1>4. \A q \in Pipes :
         /\ Unread(k)[q] \in Seq(Replies)
         /\ \A i \in 1 .. Len(Unread(k)[q]) : \E j \in 1 .. Len(q_in[q]) : Unread(k)[q][i] = q_in[q][j]
         /\ q_in[q] = <<>> => Unread(k)[q] = <<>>
  BY <1>3, UnreadItems
<1>5. req \in ReqRecords /\ req.ok /\ Busy /\ ~ Writing /\ ~ Reading /\ req.fq = Q!None /\ req.lb = Q!None
  BY <1>1 DEF ReqInv, ReqTypeOK, HalfWay, Busy, Writing, Reading
<1>6. CASE q_in' = Unread(k) /\ UNCHANGED <<req, q_got>>
  <2>1. q_in' \in [Pipes -> Seq(Replies)]
    BY <1>4, <1>6 DEF Unread
  <2>2. ReqTypeOK'
    BY <1>1, <1>6, <2>1 DEF ReqInv, ReqTypeOK
  <2>3. HalfWay' /\ Busy' = Busy /\ Writing' = Writing
    BY <1>1, <1>6 DEF ReqInv, HalfWay, Reading, Writing, Busy
  <2>4. GotRight'
    BY <1>1, <1>6, <2>3 DEF ReqInv, GotRight
  <2> QED
    BY <1>1, <1>4, <1>5, <1>6, <2>2, <2>3, <2>4, FewerItems
<1>7. ASSUME NEW p \in Q!Active, TakesFirst(k, p)
      PROVE  ReqInv'
  <2> DEFINE u == Unread(k)[p]
             reply == Head(u)
             goes == reply.parts > 1
  <2>1. p \in Pipes /\ q_pipe[p] = "active" /\ u \in Seq(Replies) /\ u # <<>>
    BY <1>4, <1>7 DEF Q!Active, TakesFirst
  <2>2. /\ reply \in Replies /\ reply = u[1] /\ 1 \in 1 .. Len(u) /\ Tail(u) \in Seq(Replies)
        /\ \A i \in 1 .. Len(Tail(u)) : i + 1 \in 1 .. Len(u) /\ Tail(u)[i] = u[i + 1]
    <3>1. Len(u) \in Nat /\ Len(u) > 0
      BY <2>1, LenProperties, EmptySeq
    <3>2. reply = u[1] /\ reply \in Replies /\ Tail(u) \in Seq(Replies) /\ Len(Tail(u)) = Len(u) - 1
          /\ \A i \in 1 .. Len(u) - 1 : Tail(u)[i] = u[i + 1]
      BY <2>1, <3>1, HeadTailProperties
    <3> QED
      BY <3>1, <3>2
  <2>3. PICK j \in 1 .. Len(q_in[p]) : reply = q_in[p][j]
    BY <1>4, <2>1, <2>2
  <2>4. q_in[p] # <<>>
    BY <2>3
  <2>5. /\ reply.parts \in Int /\ reply.parts - 1 \in Int /\ goes \in BOOLEAN
        /\ p \in Somewhere /\ Q!None \in Somewhere
    BY <2>1, <2>2 DEF Replies, Somewhere
  <2>6. Q!Accepts(p, reply)
    BY <1>7 DEF TakesFirst
  <2>7. /\ q_in' = [Unread(k) EXCEPT ![p] = Tail(u)] /\ q_got' = [n |-> reply.n, for |-> q_n, from |-> p, asked |-> requests[p]]
        /\ req' = [req EXCEPT !.receiving_reply = goes, !.message_begins = ~ goes,
                              !.fq = IF goes THEN p ELSE Q!None, !.left = reply.parts - 1]
    BY <1>7 DEF TakesFirst
  <2> HIDE DEF goes
  <2>8. /\ req' \in ReqRecords /\ req'.receiving_reply = goes /\ req'.message_begins = ~ goes
        /\ req'.fq = (IF goes THEN p ELSE Q!None)
        /\ req'.request_id = req.request_id /\ req'.reply_pipe = req.reply_pipe
        /\ req'.lb = req.lb /\ req'.ok = req.ok
    BY <1>5, <2>5, <2>7 DEF ReqRecords
  <2>9. /\ q_in' \in [Pipes -> Seq(Replies)] /\ q_in'[p] = Tail(u)
        /\ \A q \in Pipes : q # p => q_in'[q] = Unread(k)[q]
    BY <1>4, <2>1, <2>2, <2>7 DEF Unread
  <2>10. reply.n = q_n \/ (~ q_set.correlate /\ Q!Twice(requests[p]))
    <3>1. CASE q_set.correlate
      <4>1. reply.id = req.request_id
        BY <2>6, <3>1 DEF Q!Accepts
      <4> QED
        BY <2>1, <2>3, <3>1, <4>1 DEF ReqInv, Numbered
    <3>2. CASE ~ q_set.correlate /\ ~ Q!Twice(requests[p])
      <4>1. InOrder(p)
        BY <2>1, <3>2 DEF ReqInv, LockStep
      <4> QED
        BY <1>5, <2>3, <2>4, <4>1 DEF InOrder
    <3> QED
      BY <3>1, <3>2
  <2>11. ReqTypeOK'
    BY <1>1, <2>8, <2>9 DEF ReqInv, ReqTypeOK
  <2>12. HalfWay'
    BY <1>1, <1>5, <2>1, <2>8, ReqAssumption DEF HalfWay, Reading, Writing
  <2>13. ASSUME NEW q \in Pipes
         PROVE  /\ \A i \in 1 .. Len(q_in'[q]) : \E jj \in 1 .. Len(q_in[q]) : q_in'[q][i] = q_in[q][jj]
                /\ q_in[q] = <<>> => q_in'[q] = <<>>
    <3>1. CASE q # p
      <4>1. q_in'[q] = Unread(k)[q]
        BY <2>9, <3>1
      <4> QED
        BY <1>4, <4>1
    <3>2. CASE q = p
      <4>1. ASSUME NEW i \in 1 .. Len(Tail(u))
            PROVE  \E jj \in 1 .. Len(q_in[p]) : Tail(u)[i] = q_in[p][jj]
        <5>1. i + 1 \in 1 .. Len(u) /\ Tail(u)[i] = u[i + 1]
          BY <2>2
        <5> QED
          BY <1>4, <2>1, <5>1
      <4>2. q_in'[p] = Tail(u) /\ q_in[p] # <<>>
        BY <2>4, <2>9
      <4> HIDE DEF u
      <4> QED
        BY <3>2, <4>1, <4>2
    <3> QED
      BY <3>1, <3>2
  <2>14. ASSUME ~ q_set.correlate, NEW q \in Pipes, q_pipe[q] = "active", ~ Q!Twice(requests[q]),
                NEW x \in requests[q], x.answered = 0
         PROVE  FALSE
    <3>1. req.reply_pipe \in {Q!None, p}
      BY <2>6 DEF Q!Accepts, Q!recv_reply_pipe
    <3>2. req.reply_pipe = q /\ q_in[q] = <<>>
      BY <2>14 DEF ReqInv, LockStep, InOrder
    <3> QED
      BY <2>4, <3>1, <3>2, ReqAssumption
  <2>15. (Busy' => Busy) /\ ~ Writing' /\ req.receiving_reply
    BY <1>1, <1>5, <2>8 DEF Writing
  <2>16. \A q \in Pipes : \A x \in requests[q] : x.n = q_n => q = p
    <3>1. req.reply_pipe \in {Q!None, p}
      BY <2>6 DEF Q!Accepts, Q!recv_reply_pipe
    <3> QED
      BY <1>1, <3>1, ReqAssumption DEF ReqInv, Asked
  <2>17. GotRight'
    <3>1. /\ q_got'.n = reply.n /\ q_got'.for = q_n /\ q_got'.from = p
          /\ q_got'.asked = requests[p]
      BY <2>7
    <3> QED
      BY <1>1, <2>10, <2>15, <2>16, <3>1 DEF GotRight
  <2> QED
    BY <1>1, <1>5, <2>8, <2>11, <2>12, <2>13, <2>14, <2>15, <2>17, FewerItems
<1> QED
  BY <1>2, <1>6, <1>7

\* A further part of a request: after the last one, the reply is waited for.
LEMMA SendRestReq ==
  ASSUME ReqInv, NEW goes \in BOOLEAN, Writing, Q!xsend(goes)
  PROVE  ReqInv'
<1> DEFINE sends == ~ goes /\ req.lb # Q!None
           a == [n |-> q_n, id |-> req.request_id, answered |-> 0]
<1>1. /\ q_pipe' = [p \in Pipes |-> q_pipe[p]]
      /\ req' = [req EXCEPT !.receiving_reply = ~ goes, !.message_begins = ~ goes,
                            !.lb = IF goes THEN @ ELSE Q!None, !.dropping = @ /\ goes]
      /\ requests' = IF goes \/ req.lb = Q!None THEN requests
                     ELSE [requests EXCEPT ![req.lb] = @ \cup {a}]
      /\ UNCHANGED <<q_in, q_n, q_got, q_set, replies>>
  BY DEF Q!xsend, Writing
<1>2. /\ req \in ReqRecords /\ req.lb \in Somewhere /\ req.request_id \in Nat /\ q_n \in Nat
      /\ requests \in [Pipes -> SUBSET Requests] /\ q_in \in [Pipes -> Seq(Replies)]
      /\ q_pipe \in [Pipes -> {"new", "active", "terminating", "gone"}] /\ req.ok
      /\ req.fq = Q!None
  BY DEF ReqInv, ReqTypeOK, ReqRecords, HalfWay, Reading, Writing
<1>3. q_pipe' = q_pipe
  BY <1>1, <1>2
<1>4. /\ req'.receiving_reply = ~ goes /\ req'.message_begins = ~ goes
      /\ req'.lb = (IF goes THEN req.lb ELSE Q!None) /\ req'.fq = req.fq /\ req'.ok = req.ok
      /\ req'.reply_pipe = req.reply_pipe /\ req'.request_id = req.request_id
  BY <1>1, <1>2 DEF ReqRecords
<1>5. req' \in ReqRecords
  <2>1. (IF goes THEN req.lb ELSE Q!None) \in Somewhere /\ (req.dropping /\ goes) \in BOOLEAN
    BY <1>2 DEF Somewhere
  <2> QED
    BY <1>1, <1>2, <2>1 DEF ReqRecords
<1>6. a \in Requests /\ a.n = q_n /\ a.id = req.request_id /\ a.answered = 0
  BY <1>2 DEF Requests
<1> HIDE DEF a
<1>7. sends => req.lb \in Pipes /\ req.lb = req.reply_pipe
  BY <1>2 DEF ReqInv, HalfWay, Somewhere
<1>8. /\ requests' \in [Pipes -> SUBSET Requests]
      /\ \A q \in Pipes : requests'[q] = IF sends /\ q = req.lb THEN requests[q] \cup {a} ELSE requests[q]
  BY <1>1, <1>2, <1>6, <1>7
<1>9. ReqTypeOK'
  BY <1>1, <1>3, <1>5, <1>8 DEF ReqInv, ReqTypeOK
<1>10. HalfWay'
  BY <1>2, <1>3, <1>4 DEF ReqInv, HalfWay, Reading, Writing
<1>11. ASSUME q_set.correlate PROVE Numbered'
  <2>1. Numbered
    BY <1>11 DEF ReqInv
  <2>2. ASSUME NEW q \in Pipes, NEW y \in requests'[q]
        PROVE  y.id <= req.request_id /\ (y.id = req.request_id => y.n = q_n)
    <3>1. y \in requests[q] \/ y = a
      BY <1>8
    <3>2. CASE y \in requests[q]
      BY <2>1, <3>2 DEF Numbered
    <3>3. CASE y = a
      BY <1>2, <1>6, <3>3
    <3> QED
      BY <3>1, <3>2, <3>3
  <2> QED
    BY <1>1, <1>4, <2>1, <2>2 DEF Numbered
<1>12. ASSUME ~ q_set.correlate PROVE LockStep'
  <2>1. LockStep
    BY <1>12 DEF ReqInv
  <2>2. \A q \in Pipes : \A y \in requests'[q] : y.id = req.request_id
    BY <1>6, <1>8, <2>1 DEF LockStep
  <2>3. Busy /\ Busy' /\ Writing' = goes
    BY <1>4 DEF Busy, Writing
  <2>4. ASSUME NEW q \in Pipes, q_pipe'[q] = "active", ~ Q!Twice(requests'[q]) PROVE InOrder(q)'
    <3>1. ~ Q!Twice(requests[q])
      BY <1>8, <2>4 DEF Q!Twice
    <3>2. InOrder(q)
      BY <1>3, <2>1, <2>4, <3>1 DEF LockStep
    <3>3. q_in[q] = <<>> /\ \A y \in requests[q] : y.answered # 0
      BY <3>2 DEF InOrder, Writing
    <3>4. ASSUME NEW y \in requests'[q], y.answered = 0
          PROVE  /\ req'.receiving_reply /\ req'.message_begins
                 /\ req'.reply_pipe = q /\ y.n = q_n
      <4>1. sends /\ q = req.lb /\ y = a
        BY <1>8, <3>3, <3>4
      <4> QED
        BY <1>4, <1>6, <1>7, <4>1
    <3>5. q_in'[q] = <<>> /\ Len(q_in'[q]) = 0 /\ q_n' = q_n
      BY <1>1, <3>3
    <3> QED
      BY <3>4, <3>5 DEF InOrder
  <2> QED
    BY <1>4, <2>2, <2>4 DEF LockStep
<1>13. Fresh'
  <2>1. sends => q_pipe[req.lb] # "new"
    BY DEF ReqInv, HalfWay
  <2> QED
    BY <1>1, <1>3, <1>8, <2>1 DEF ReqInv, Fresh
<1>14. Asked'
  <2>1. \A q \in Pipes : \A y \in requests[q] : y.n <= q_n /\ y.n # q_n
    BY DEF ReqInv, Asked
  <2>2. ASSUME NEW q \in Pipes, NEW y \in requests'[q]
        PROVE  y.n <= q_n /\ (y.n = q_n => ~ Writing' /\ q = req'.reply_pipe)
    <3>1. CASE y \in requests[q]
      BY <2>1, <3>1
    <3>2. CASE y \notin requests[q]
      <4>1. sends /\ q = req.lb /\ y = a
        BY <1>8, <2>2, <3>2
      <4>2. ~ Writing' /\ q = req'.reply_pipe
        BY <1>4, <1>7, <4>1 DEF Writing
      <4>3. y.n = q_n
        BY <1>6, <4>1
      <4> QED
        BY <1>2, <4>2, <4>3
    <3> QED
      BY <3>1, <3>2
  <2> QED
    BY <1>1, <2>2 DEF Asked
<1>15. GotRight'
  BY <1>1 DEF ReqInv, GotRight
<1> QED
  BY <1>1, <1>4, <1>9, <1>10, <1>11, <1>12, <1>13, <1>14, <1>15 DEF ReqInv

\* What is left of the request under way, and the pipe that is given up with it.
Given == IF req.receiving_reply THEN Q!Abort(req) ELSE req
Lost == IF req.receiving_reply THEN {req.reply_pipe} \cap Pipes ELSE {}
NextId == IF q_set.correlate THEN req.request_id + 1 ELSE req.request_id

FirstPart(p, goes) ==
  /\ q_n' = q_n + 1 /\ q_got' = Q!None
  /\ q_in' = [q \in Pipes |-> IF q \in Q!Active \ Lost THEN <<>> ELSE q_in[q]]
  /\ req' = [Q!Begins(Given, p) EXCEPT !.receiving_reply = ~ goes, !.message_begins = ~ goes,
                                       !.lb = IF goes THEN p ELSE Q!None]
  /\ requests' = IF goes THEN requests
                 ELSE [requests EXCEPT ![p] = @ \cup
                   {[n |-> q_n', id |-> Q!Begins(Given, p).request_id, answered |-> 0]}]

NoPart ==
  /\ req' = [Given EXCEPT !.reply_pipe = Q!None, !.request_id = NextId]
  /\ UNCHANGED <<q_in, requests, q_n, q_got>>

\* Nothing half done is before the request that is begun.
Ready ==
  /\ Given \in ReqRecords /\ ~ Given.receiving_reply /\ Given.message_begins
  /\ Given.fq = Q!None /\ Given.lb = Q!None /\ Given.ok
  /\ Given.request_id = req.request_id
  /\ q_pipe' \in [Pipes -> {"new", "active", "terminating", "gone"}]
  /\ \A q \in Pipes : q_pipe'[q] = IF q \in Lost THEN "terminating" ELSE q_pipe[q]
  /\ ~ Writing /\ UNCHANGED q_set

\* A request is begun, or cannot be, with nothing half done before it.
LEMMA SendBegins ==
  ASSUME ReqInv, "mid reply" \notin ReqRaces, NEW goes \in BOOLEAN, ~ Writing, Q!xsend(goes)
  PROVE  Ready /\ (NoPart \/ \E p \in Q!Active \ Lost : FirstPart(p, goes))
<1>1. /\ req \in ReqRecords /\ q_pipe \in [Pipes -> {"new", "active", "terminating", "gone"}]
      /\ req.ok /\ (Reading <=> req.fq # Q!None) /\ req.lb = Q!None
  BY DEF ReqInv, ReqTypeOK, HalfWay
<1>2. req.receiving_reply => req.fq = Q!None
  BY DEF Q!xsend
<1>3. /\ Given \in ReqRecords /\ ~ Given.receiving_reply /\ Given.message_begins
      /\ Given.fq = Q!None /\ Given.lb = Q!None /\ Given.ok
      /\ Given.request_id = req.request_id
  <2>1. CASE req.receiving_reply
    BY <1>1, <1>2, <2>1 DEF Given, Q!Abort, ReqRecords
  <2>2. CASE ~ req.receiving_reply
    BY <1>1, <2>2 DEF Given, ReqRecords, Reading, Writing
  <2> QED
    BY <2>1, <2>2
<1>4. /\ q_pipe' = [p \in Pipes |-> IF p \in Lost THEN "terminating" ELSE q_pipe[p]]
      /\ UNCHANGED <<q_set, replies>>
      /\ \/ /\ req' = [Given EXCEPT !.reply_pipe = Q!None,
                                    !.request_id = IF q_set.correlate THEN @ + 1 ELSE @]
            /\ UNCHANGED <<q_in, requests, q_n, q_got>>
         \/ \E p \in Q!Active \ Lost :
              /\ q_n' = q_n + 1 /\ q_got' = Q!None
              /\ q_in' = [q \in Pipes |-> IF q \in Q!Active \ Lost THEN Q!eaten(Given, q) ELSE q_in[q]]
              /\ req' = [Q!Begins(Given, p) EXCEPT !.receiving_reply = ~ goes,
                           !.message_begins = ~ goes, !.lb = IF goes THEN p ELSE Q!None]
              /\ requests' = IF goes THEN requests
                   ELSE [requests EXCEPT ![p] = @ \cup
                     {[n |-> q_n', id |-> Q!Begins(Given, p).request_id, answered |-> 0]}]
  BY <1>3 DEF Q!xsend, Given, Lost
<1>5. /\ q_pipe' \in [Pipes -> {"new", "active", "terminating", "gone"}]
      /\ \A q \in Pipes : q_pipe'[q] = IF q \in Lost THEN "terminating" ELSE q_pipe[q]
  BY <1>1, <1>4
<1>6. Ready
  BY <1>3, <1>4, <1>5 DEF Ready
<1>7. Given.request_id \in Nat /\ DOMAIN Given = DOMAIN req
  BY <1>1, <1>3 DEF ReqRecords
<1>8. CASE /\ req' = [Given EXCEPT !.reply_pipe = Q!None,
                                  !.request_id = IF q_set.correlate THEN @ + 1 ELSE @]
           /\ UNCHANGED <<q_in, requests, q_n, q_got>>
  BY <1>3, <1>6, <1>8 DEF NextId, NoPart, ReqRecords
<1>9. CASE \E p \in Q!Active \ Lost :
             /\ q_n' = q_n + 1 /\ q_got' = Q!None
             /\ q_in' = [q \in Pipes |-> IF q \in Q!Active \ Lost THEN Q!eaten(Given, q) ELSE q_in[q]]
             /\ req' = [Q!Begins(Given, p) EXCEPT !.receiving_reply = ~ goes,
                          !.message_begins = ~ goes, !.lb = IF goes THEN p ELSE Q!None]
             /\ requests' = IF goes THEN requests
                  ELSE [requests EXCEPT ![p] = @ \cup
                    {[n |-> q_n', id |-> Q!Begins(Given, p).request_id, answered |-> 0]}]
  <2>1. \A q \in Pipes : (IF q \in Q!Active \ Lost THEN Q!eaten(Given, q) ELSE q_in[q])
                         = IF q \in Q!Active \ Lost THEN <<>> ELSE q_in[q]
    BY <1>3 DEF Q!eaten
  <2>2. [q \in Pipes |-> IF q \in Q!Active \ Lost THEN Q!eaten(Given, q) ELSE q_in[q]]
        = [q \in Pipes |-> IF q \in Q!Active \ Lost THEN <<>> ELSE q_in[q]]
    BY <2>1
  <2> QED
    BY <1>6, <1>9, <2>2, Zenon DEF FirstPart
<1> QED
  BY <1>4, <1>6, <1>8, <1>9

\* No request stays open at a pipe that is not given up.
LEMMA NothingOpen ==
  ASSUME ReqInv, ~ q_set.correlate, NEW q \in Pipes, q \notin Lost,
         q_pipe[q] = "active", ~ Q!Twice(requests[q])
  PROVE  \A y \in requests[q] : y.answered # 0
<1>1. InOrder(q)
  BY DEF ReqInv, LockStep
<1>2. ASSUME NEW y \in requests[q], y.answered = 0 PROVE FALSE
  <2>1. req.receiving_reply /\ req.reply_pipe = q
    BY <1>1, <1>2 DEF InOrder
  <2> QED
    BY <2>1 DEF Lost
<1> QED
  BY <1>2

\* There is nobody to send it to.
LEMMA SendNobodyReq ==
  ASSUME ReqInv, Ready, NoPart
  PROVE  ReqInv'
<1> USE DEF Ready, NoPart
<1>1. req \in ReqRecords /\ req.request_id \in Nat
  BY DEF ReqInv, ReqTypeOK, ReqRecords
<1>2. NextId \in Nat /\ NextId >= req.request_id /\ Q!None \in Somewhere
      /\ (q_set.correlate => NextId > req.request_id) /\ (~ q_set.correlate => NextId = req.request_id)
  BY <1>1 DEF NextId, Somewhere
<1>3. /\ req' \in ReqRecords /\ ~ req'.receiving_reply /\ req'.message_begins /\ req'.fq = Q!None
      /\ req'.lb = Q!None /\ req'.ok /\ req'.request_id = NextId
  BY <1>2 DEF ReqRecords
<1>4. ReqTypeOK'
  BY <1>3 DEF ReqInv, ReqTypeOK
<1>5. HalfWay'
  BY <1>3 DEF HalfWay, Reading, Writing
<1>6. ASSUME q_set.correlate PROVE Numbered'
  <2>1. /\ \A p \in Pipes : \A y \in requests[p] : y.id <= req.request_id
        /\ \A p \in Pipes : \A i \in 1 .. Len(q_in[p]) : q_in[p][i].id <= req.request_id
    BY <1>6 DEF ReqInv, Numbered
  <2>2. /\ \A p \in Pipes : \A y \in requests[p] : y.id \in Nat
        /\ \A p \in Pipes : \A i \in 1 .. Len(q_in[p]) : q_in[p][i].id \in Nat
    <3>1. requests \in [Pipes -> SUBSET Requests] /\ q_in \in [Pipes -> Seq(Replies)]
      BY DEF ReqInv, ReqTypeOK
    <3>2. \A p \in Pipes : \A i \in 1 .. Len(q_in[p]) : q_in[p][i] \in Replies
      BY <3>1, ElementOfSeq
    <3> QED
      BY <3>1, <3>2 DEF Requests, Replies
  <2>3. \A z \in Nat : z <= req.request_id => z <= NextId /\ z # NextId
    BY <1>1, <1>2, <1>6
  <2> QED
    BY <1>3, <2>1, <2>2, <2>3 DEF Numbered
<1>7. ASSUME ~ q_set.correlate PROVE LockStep'
  <2>1. \A p \in Pipes : \A y \in requests[p] : y.id = req'.request_id
    BY <1>2, <1>3, <1>7 DEF ReqInv, LockStep
  <2>2. ~ Busy' /\ ~ Writing'
    BY <1>3 DEF Busy, Writing
  <2>3. ASSUME NEW q \in Pipes, q_pipe'[q] = "active", ~ Q!Twice(requests'[q]) PROVE InOrder(q)'
    <3>1. q \notin Lost /\ q_pipe[q] = "active" /\ ~ Q!Twice(requests[q])
      BY <2>3
    <3>2. \A y \in requests'[q] : y.answered # 0
      BY <1>7, <3>1, NothingOpen
    <3> QED
      BY <2>2, <3>2 DEF InOrder
  <2> QED
    BY <2>1, <2>3 DEF LockStep
<1>8. Fresh'
  BY DEF ReqInv, Fresh
<1>9. ~ Writing' /\ ~ req'.receiving_reply
  BY <1>3 DEF Writing
<1>10. Asked'
  BY <1>9 DEF ReqInv, Asked
<1>11. GotRight'
  BY <1>9 DEF ReqInv, GotRight
<1> QED
  BY <1>3, <1>4, <1>5, <1>6, <1>7, <1>8, <1>10, <1>11 DEF ReqInv

Begun(g, p, id) ==
  [g EXCEPT !.ok = TRUE, !.reply_pipe = p, !.lb = p, !.message_begins = FALSE,
            !.fq = Q!None, !.left = 0, !.request_id = id]

\* The socket once it has begun a request.
LEMMA BegunRecord ==
  ASSUME NEW g \in ReqRecords, NEW p \in Somewhere, NEW id \in Nat
  PROVE  /\ Begun(g, p, id) \in ReqRecords /\ Begun(g, p, id).request_id = id
         /\ Begun(g, p, id).fq = Q!None /\ Begun(g, p, id).ok = TRUE
         /\ Begun(g, p, id).reply_pipe = p
<1>1. Q!None \in Somewhere /\ 0 \in Int
  BY DEF Somewhere
<1> DEFINE c == [g EXCEPT !.ok = TRUE, !.reply_pipe = p, !.lb = p, !.message_begins = FALSE]
           b == Begun(g, p, id)
<1>2. c \in ReqRecords /\ c.ok = TRUE /\ c.reply_pipe = p
  BY DEF ReqRecords
<1>3. b = [c EXCEPT !.fq = Q!None, !.left = 0, !.request_id = id]
  BY DEF ReqRecords, Begun
<1> HIDE DEF c
<1>4. b \in ReqRecords /\ b.request_id = id /\ b.fq = Q!None /\ b.ok = TRUE /\ b.reply_pipe = p
  <2> HIDE DEF b
  <2> QED
    BY <1>1, <1>2, <1>3 DEF ReqRecords
<1> QED
  BY <1>4

\* The first part goes out by some pipe, and every reply that is there is dropped.
LEMMA SendFirstReq ==
  ASSUME ReqInv, Ready, NEW goes \in BOOLEAN, NEW p \in Q!Active \ Lost, FirstPart(p, goes)
  PROVE  ReqInv'
<1> DEFINE b == Q!Begins(Given, p)
           y0 == [n |-> q_n + 1, id |-> NextId, answered |-> 0]
<1>1. /\ req \in ReqRecords /\ req.request_id \in Nat /\ q_n \in Nat
      /\ requests \in [Pipes -> SUBSET Requests] /\ q_in \in [Pipes -> Seq(Replies)]
  BY DEF ReqInv, ReqTypeOK, ReqRecords
<1>2. NextId \in Nat /\ NextId >= req.request_id /\ Q!None \in Somewhere /\ p \in Somewhere
      /\ (q_set.correlate => NextId > req.request_id) /\ (~ q_set.correlate => NextId = req.request_id)
      /\ q_n + 1 \in Nat /\ p \in Pipes /\ q_pipe[p] = "active" /\ p # Q!None /\ p \notin Lost
  BY <1>1, ReqAssumption DEF NextId, Somewhere, Q!Active
<1>3. b = Begun(Given, p, NextId)
  <2>1. b = [[Given EXCEPT !.ok = TRUE]
               EXCEPT !.reply_pipe = p, !.lb = p, !.message_begins = FALSE, !.fq = Q!None,
                      !.left = 0, !.request_id = IF q_set.correlate THEN @ + 1 ELSE @]
    <3>1. (Given.ok /\ (Given.fq # Q!None => Given.fq \in Q!Active /\ Given.fq # req.reply_pipe)) = TRUE
      BY DEF Ready
    <3> QED
      BY <3>1 DEF Q!Begins, Q!zmq_assert
  <2> QED
    BY <2>1 DEF Ready, ReqRecords, NextId, Begun
<1>4. b \in ReqRecords /\ b.request_id = NextId /\ b.fq = Q!None /\ b.ok = TRUE /\ b.reply_pipe = p
  <2>1. Given \in ReqRecords /\ p \in Somewhere /\ NextId \in Nat
    BY <1>2 DEF Ready
  <2>2. /\ Begun(Given, p, NextId) \in ReqRecords /\ Begun(Given, p, NextId).request_id = NextId
        /\ Begun(Given, p, NextId).fq = Q!None /\ Begun(Given, p, NextId).ok = TRUE
        /\ Begun(Given, p, NextId).reply_pipe = p
    BY <2>1, BegunRecord
  <2> HIDE DEF b
  <2> QED
    BY <1>3, <2>2
<1> USE DEF Ready, FirstPart
<1>5. /\ req' \in ReqRecords /\ req'.receiving_reply = ~ goes /\ req'.message_begins = ~ goes
      /\ req'.lb = (IF goes THEN p ELSE Q!None) /\ req'.fq = Q!None /\ req'.ok
      /\ req'.request_id = NextId /\ req'.reply_pipe = p
  <2>1. (IF goes THEN p ELSE Q!None) \in Somewhere
    BY <1>2
  <2>2. req' = [b EXCEPT !.receiving_reply = ~ goes, !.message_begins = ~ goes,
                         !.lb = IF goes THEN p ELSE Q!None]
    OBVIOUS
  <2> HIDE DEF b
  <2> QED
    BY <1>4, <2>1, <2>2 DEF ReqRecords
<1>6. requests' = IF goes THEN requests ELSE [requests EXCEPT ![p] = @ \cup {y0}]
  BY <1>4
<1> HIDE DEF b
<1>7. y0 \in Requests /\ y0.n = q_n + 1 /\ y0.id = NextId /\ y0.answered = 0
  BY <1>2 DEF Requests
<1> HIDE DEF y0
<1>8. /\ requests' \in [Pipes -> SUBSET Requests] /\ q_in' \in [Pipes -> Seq(Replies)]
      /\ \A q \in Pipes : q_in'[q] = IF q \in Q!Active \ Lost THEN <<>> ELSE q_in[q]
      /\ \A q \in Pipes : \A y \in requests'[q] : y \in requests[q] \/ (~ goes /\ q = p /\ y = y0)
      /\ \A q \in Pipes : q # p => requests'[q] = requests[q]
  <2>1. CASE goes
    <3>1. requests' = requests
      BY <1>6, <2>1
    <3>2. \A q \in Pipes : (IF q \in Q!Active \ Lost THEN <<>> ELSE q_in[q]) \in Seq(Replies)
      BY <1>1
    <3> QED
      BY <1>1, <3>1, <3>2
  <2>2. CASE ~ goes
    <3>1. requests' = [requests EXCEPT ![p] = requests[p] \cup {y0}]
      BY <1>6, <2>2
    <3>2. requests[p] \cup {y0} \in SUBSET Requests
      BY <1>1, <1>2, <1>7
    <3>3. /\ requests' \in [Pipes -> SUBSET Requests] /\ requests'[p] = requests[p] \cup {y0}
          /\ \A q \in Pipes : q # p => requests'[q] = requests[q]
      BY <1>1, <1>2, <3>1, <3>2
    <3>4. \A q \in Pipes : (IF q \in Q!Active \ Lost THEN <<>> ELSE q_in[q]) \in Seq(Replies)
      BY <1>1
    <3> QED
      BY <1>2, <2>2, <3>3, <3>4
  <2> QED
    BY <2>1, <2>2
<1>9. ReqTypeOK'
  BY <1>2, <1>5, <1>8 DEF ReqTypeOK
<1>10. HalfWay'
  BY <1>2, <1>5 DEF HalfWay, Reading, Writing
<1>11. ASSUME q_set.correlate PROVE Numbered'
  <2>1. /\ \A q \in Pipes : \A y \in requests[q] : y.id <= req.request_id
        /\ \A q \in Pipes : \A i \in 1 .. Len(q_in[q]) : q_in[q][i].id <= req.request_id
    BY <1>11 DEF ReqInv, Numbered
  <2>2. /\ \A q \in Pipes : \A y \in requests[q] : y.id \in Nat
        /\ \A q \in Pipes : \A i \in 1 .. Len(q_in[q]) : q_in[q][i].id \in Nat
    <3>1. \A q \in Pipes : \A i \in 1 .. Len(q_in[q]) : q_in[q][i] \in Replies
      BY <1>1, ElementOfSeq
    <3> QED
      BY <1>1, <3>1 DEF Requests, Replies
  <2>3. \A z \in Nat : z <= req.request_id => z <= NextId /\ z # NextId
    BY <1>1, <1>2, <1>11
  <2>4. ASSUME NEW q \in Pipes, NEW y \in requests'[q]
        PROVE  y.id <= NextId /\ (y.id = NextId => y.n = q_n + 1)
    <3>1. CASE y = y0
      BY <1>2, <1>7, <3>1
    <3>2. CASE y # y0
      BY <1>8, <2>1, <2>2, <2>3, <2>4, <3>2
    <3> QED
      BY <3>1, <3>2
  <2>5. ASSUME NEW q \in Pipes, NEW i \in 1 .. Len(q_in'[q])
        PROVE  q_in'[q][i].id <= NextId /\ (q_in'[q][i].id = NextId => q_in'[q][i].n = q_n + 1)
    <3>1. q_in'[q] = q_in[q] \/ q_in'[q] = <<>>
      BY <1>8
    <3>2. q_in'[q] = q_in[q]
      BY <2>5, <3>1
    <3> QED
      BY <2>1, <2>2, <2>3, <2>5, <3>2
  <2> QED
    BY <1>5, <2>4, <2>5 DEF Numbered
<1>12. \A q \in Pipes : requests[q] \subseteq requests'[q]
  BY <1>1, <1>2, <1>6
<1>13. ASSUME ~ q_set.correlate PROVE LockStep'
  <2>1. \A q \in Pipes : \A y \in requests'[q] : y.id = req'.request_id
    BY <1>2, <1>5, <1>7, <1>8, <1>13 DEF ReqInv, LockStep
  <2>2. ASSUME NEW q \in Pipes, q_pipe'[q] = "active", ~ Q!Twice(requests'[q]) PROVE InOrder(q)'
    <3>1. q \notin Lost /\ q_pipe[q] = "active"
      BY <2>2
    <3>2. ~ Q!Twice(requests[q])
      BY <1>12, <2>2 DEF Q!Twice
    <3>3. \A y \in requests[q] : y.answered # 0
      BY <1>13, <3>1, <3>2, NothingOpen
    <3>4. q_in'[q] = <<>> /\ Len(<<>>) = 0
      BY <1>8, <3>1 DEF Q!Active
    <3>5. ASSUME NEW y \in requests'[q], y.answered = 0
          PROVE  /\ req'.receiving_reply /\ req'.message_begins
                 /\ req'.reply_pipe = q /\ y.n = q_n'
      <4>1. ~ goes /\ q = p /\ y = y0
        BY <1>8, <3>3, <3>5
      <4> QED
        BY <1>5, <1>7, <4>1
    <3> QED
      BY <3>4, <3>5 DEF InOrder
  <2> QED
    BY <2>1, <2>2 DEF LockStep
<1>14. Fresh'
  <2>1. ASSUME NEW q \in Pipes, q_pipe'[q] = "new" PROVE requests'[q] = {} /\ q_in'[q] = <<>>
    <3>1. q_pipe[q] = "new" /\ q # p
      BY <1>2, <2>1
    <3>2. requests[q] = {} /\ q_in[q] = <<>>
      BY <3>1 DEF ReqInv, Fresh
    <3> QED
      BY <1>8, <3>1, <3>2
  <2> QED
    BY <2>1 DEF Fresh
<1>15. Asked'
  <2>1. ASSUME NEW q \in Pipes, NEW y \in requests'[q]
        PROVE  y.n <= q_n + 1 /\ (y.n = q_n + 1 => ~ Writing' /\ q = req'.reply_pipe)
    <3>1. CASE y \in requests[q]
      <4>1. y.n \in Nat /\ y.n <= q_n
        BY <1>1, <3>1 DEF ReqInv, Asked, Requests
      <4> QED
        BY <1>1, <4>1
    <3>2. CASE y \notin requests[q]
      <4>1. ~ goes /\ q = p /\ y = y0
        BY <1>8, <2>1, <3>2
      <4>2. ~ Writing' /\ q = req'.reply_pipe
        BY <1>5, <4>1 DEF Writing
      <4>3. y.n = q_n + 1
        BY <1>7, <4>1
      <4> QED
        BY <1>2, <4>2, <4>3
    <3> QED
      BY <3>1, <3>2
  <2> QED
    BY <2>1 DEF Asked
<1>16. GotRight'
  BY DEF GotRight
<1> QED
  BY <1>5, <1>9, <1>10, <1>11, <1>13, <1>14, <1>15, <1>16 DEF ReqInv

\* Every step of req_t and its peers preserves the invariant.
LEMMA NextReq ==
  ASSUME "mid reply" \notin ReqRaces, ReqInv, [Q!Next]_q_vars
  PROVE  ReqInv'
<1>1. ASSUME NEW goes \in BOOLEAN, Q!xsend(goes) PROVE ReqInv'
  <2>1. CASE Writing
    BY <1>1, <2>1, SendRestReq
  <2>2. CASE ~ Writing
    <3>1. Ready /\ (NoPart \/ \E p \in Q!Active \ Lost : FirstPart(p, goes))
      BY <1>1, <2>2, SendBegins
    <3>2. CASE NoPart
      BY <3>1, <3>2, SendNobodyReq
    <3>3. ASSUME NEW p \in Q!Active \ Lost, FirstPart(p, goes) PROVE ReqInv'
      BY <3>1, <3>3, SendFirstReq, Zenon
    <3> QED
      BY <3>1, <3>2, <3>3
  <2> QED
    BY <2>1, <2>2
<1>2. CASE UNCHANGED q_vars
  <2>1. /\ q_set' = q_set /\ req' = req /\ q_pipe' = q_pipe /\ requests' = requests
        /\ q_in' = q_in /\ q_n' = q_n /\ q_got' = q_got
    BY <1>2 DEF q_vars
  <2>2. ReqTypeOK' = ReqTypeOK /\ HalfWay' = HalfWay
    BY <2>1 DEF ReqTypeOK, HalfWay, Reading, Writing
  <2>3. Numbered' = Numbered
    BY <2>1 DEF Numbered
  <2>4. Busy' = Busy /\ Writing' = Writing
    BY <2>1 DEF Busy, Writing
  <2>5. LockStep => LockStep'
    BY <2>1, <2>4 DEF LockStep, InOrder
  <2>6. Fresh' = Fresh /\ Asked' = Asked /\ GotRight' = GotRight
    BY <2>1, <2>4 DEF Fresh, Asked, GotRight
  <2> QED
    BY <2>1, <2>2, <2>3, <2>5, <2>6 DEF ReqInv
<1>3. ASSUME NEW p \in Pipes, Q!xattach_pipe(p) \/ Q!xpipe_terminated(p) \/ Q!peer_replies(p)
      PROVE  ReqInv'
  BY <1>3, AttachReq, TerminatedReq, RepliesReq
<1> QED
  BY <1>1, <1>2, <1>3, RecvFirstReq, RecvNextReq DEF Q!Next

\* A REQ socket for any pipes, strict or relaxed, with or without request ids: a
\* reply it hands out comes from the pipe its last request went to, or that pipe is
\* gone, and it answers that request, unless there are no ids and the peer it comes
\* from has answered a request more than once; and the assertion that the rest of a
\* reply is there never fails.  This holds however late, often or badly the peers
\* answer, and whichever pipes come and go.  The case that the hypothesis excludes,
\* a relaxed socket that is told to send in the middle of a reply, is one in which
\* the assertion fails.
THEOREM ReqAlwaysRight == "mid reply" \notin ReqRaces => (Q!Spec => []RightReply)
<1> SUFFICES ASSUME "mid reply" \notin ReqRaces PROVE Q!Spec => []RightReply
  OBVIOUS
<1>1. ReqInv /\ [Q!Next]_(Q!vars) => ReqInv'
  <2>1. UNCHANGED Q!vars <=> UNCHANGED q_vars
    BY DEF Q!vars, q_vars
  <2> QED
    BY <2>1, NextReq
<1>2. ReqInv => RightReply
  <2>1. ASSUME ReqInv PROVE RightReply
    BY <2>1, Zenon DEF ReqInv, GotRight, RightReply, Q!RightReply, Q!RestIsThere
  <2> QED
    BY <2>1
<1> QED
  BY <1>1, <1>2, InitReq, PTL DEF Q!Spec
============================================================================
