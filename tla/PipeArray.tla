------------------------------ MODULE PipeArray -----------------------------
(***************************************************************************)
(* array_t (array.hpp) of pipes, as lb_t, fq_t and dist_t use it: the      *)
(* first `active' items are the pipes worth trying, and pipes move by      *)
(* swapping.  Items are numbered from 0, as in the code.                   *)
(***************************************************************************)
EXTENDS Integers, Sequences

Item(a, i)  == a[i + 1]
index(a, p) == (CHOOSE i \in 1 .. Len(a) : a[i] = p) - 1

swap(a, i, j) == [a EXCEPT ![i + 1] = a[j + 1], ![j + 1] = a[i + 1]]

\* The last item takes the place of the erased one.
erase(a, p) == LET n == Len(a)
               IN SubSeq([a EXCEPT ![index(a, p) + 1] = a[n]], 1, n - 1)
=============================================================================
