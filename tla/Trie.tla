-------------------------------- MODULE Trie --------------------------------
(***************************************************************************)
(* The tries of subscriptions: trie_t, which counts how often a prefix is  *)
(* subscribed to (xsub_t), and mtrie_t, which keeps the pipes that did     *)
(* (xpub_t).  A node has a table next of its children for the bytes min to *)
(* min + count - 1, with Null where there is none; the tables are extended *)
(* and compacted in place.  ok is FALSE once an assertion has failed.      *)
(***************************************************************************)
EXTENDS Integers, Sequences, FiniteSets, FiniteSetsExt, SequencesExt

Null == <<>>
Leaf(val) == [val |-> val, min |-> 0, count |-> 0, live_nodes |-> 0, next |-> <<>>, ok |-> TRUE]

NewTrie  == Leaf(0)    \* val is refcnt
NewMtrie == Leaf({})   \* val is pipes, {} for none

Nulls(n)    == [i \in 1 .. n |-> Null]
At(n, c)    == c - n.min + 1
Covers(n, c) == n.count > 0 /\ n.min <= c /\ c < n.min + n.count
Child(n, c) == IF Covers(n, c) THEN n.next[At(n, c)] ELSE Null
Live(n)     == {i \in 1 .. n.count : n.next[i] # Null}

zmq_assert(n, holds) == [n EXCEPT !.ok = @ /\ holds]

-----------------------------------------------------------------------------
(* add.                                                                    *)

\* The table reaches to c, upwards or downwards.
extend(n, c) ==
  CASE n.count = 0 -> [n EXCEPT !.min = c, !.count = 1, !.next = <<Null>>]
    [] Covers(n, c) -> n
    [] n.count > 0 /\ n.min + n.count <= c ->
         [n EXCEPT !.count = c - n.min + 1, !.next = @ \o Nulls(c - n.min + 1 - n.count)]
    [] n.count > 0 /\ c < n.min ->
         [n EXCEPT !.min = c, !.count = n.min + n.count - c, !.next = Nulls(n.min - c) \o @]

\* A child for c, made if there is none.
grow(n, c, new) ==
  LET x == extend(n, c) IN
  IF x.next[At(x, c)] # Null THEN x
  ELSE LET y == [x EXCEPT !.next[At(x, c)] = new, !.live_nodes = @ + 1]
       IN zmq_assert(y, IF y.count = 1 THEN y.live_nodes = 1 ELSE y.live_nodes > 1)

\* The result: is it the first subscription of its kind?
RECURSIVE trie_add(_, _)
trie_add(n, prefix) ==
  IF prefix = <<>> THEN [n |-> [n EXCEPT !.val = @ + 1], ret |-> n.val = 0]
  ELSE LET x == grow(n, Head(prefix), NewTrie)
           r == trie_add(Child(x, Head(prefix)), Tail(prefix))
       IN [n |-> [x EXCEPT !.next[At(x, Head(prefix))] = r.n], ret |-> r.ret]

RECURSIVE mtrie_add(_, _, _)
mtrie_add(n, prefix, pipe) ==
  IF prefix = <<>> THEN [n |-> [n EXCEPT !.val = @ \cup {pipe}], ret |-> n.val = {}]
  ELSE LET x == grow(n, Head(prefix), NewMtrie)
           r == mtrie_add(Child(x, Head(prefix)), Tail(prefix), pipe)
       IN [n |-> [x EXCEPT !.next[At(x, Head(prefix))] = r.n], ret |-> r.ret]

-----------------------------------------------------------------------------
(* rm, and the compaction of the tables.                                   *)

trie_is_redundant(n)  == n.val = 0 /\ n.live_nodes = 0
mtrie_is_redundant(n) == n.val = {} /\ n.live_nodes = 0

\* The items first to last of the table.
Slice(n, first, last) ==
  [n EXCEPT !.min = @ + first - 1, !.count = last - first + 1, !.next = SubSeq(@, first, last)]

\* The only child is gone.
Emptied(n) == zmq_assert([n EXCEPT !.next = <<>>, !.count = 0, !.live_nodes = 0], n.live_nodes = 1)

Cleared(n, c) == zmq_assert([n EXCEPT !.next[At(n, c)] = Null, !.live_nodes = @ - 1], n.live_nodes > 1)

\* Plausible bug: the table is cut by one item only.
compact_ends_short(n, c) ==
  CASE c = n.min -> zmq_assert(Slice(n, 2, n.count), Live(n) # {})
    [] c = n.min + n.count - 1 -> zmq_assert(Slice(n, 1, n.count - 1), Live(n) # {})
    [] OTHER -> n

\* "We can compact the table from the left" or "from the right".
compact_ends(n, c) ==
  CASE c = n.min -> zmq_assert(Slice(n, Min(Live(n)), n.count), Live(n) # {})
    [] c = n.min + n.count - 1 -> zmq_assert(Slice(n, 1, Max(Live(n))), Live(n) # {})
    [] OTHER -> n

\* trie_t keeps the item at the other end of the table.
trie_prune(n, c) ==
  LET x == Cleared(n, c)
      kept == CASE c = n.min -> n.count [] c = n.min + n.count - 1 -> 1 [] OTHER -> 0
  IN CASE n.count = 1 -> Emptied(n)
       [] n.count > 1 /\ x.live_nodes = 1 ->
            IF kept = 0 THEN zmq_assert(x, FALSE)
            ELSE zmq_assert(Slice(x, kept, kept), x.next[kept] # Null)
       [] OTHER -> compact_ends(x, c)

\* mtrie_t looks for the item that is left.
mtrie_prune(n, c) ==
  LET x == Cleared(n, c) IN
  CASE n.count = 1 -> Emptied(n)
    [] n.count > 1 /\ x.live_nodes = 1 ->
         zmq_assert(Slice(x, Min(Live(x)), Min(Live(x))), Live(x) # {})
    [] OTHER -> compact_ends(x, c)

\* The result: was it the last subscription of its kind?
RECURSIVE trie_rm(_, _)
trie_rm(n, prefix) ==
  CASE prefix = <<>> ->
         IF n.val = 0 THEN [n |-> n, ret |-> FALSE]
         ELSE [n |-> [n EXCEPT !.val = @ - 1], ret |-> n.val = 1]
    [] prefix # <<>> /\ Child(n, Head(prefix)) = Null -> [n |-> n, ret |-> FALSE]
    [] OTHER ->
         LET r == trie_rm(Child(n, Head(prefix)), Tail(prefix))
             x == zmq_assert(n, r.n.ok)
         IN [n |-> IF trie_is_redundant(r.n) THEN trie_prune(x, Head(prefix))
                   ELSE [x EXCEPT !.next[At(x, Head(prefix))] = r.n],
             ret |-> r.ret]

\* A node without pipes is as good as one that lost its last.
RECURSIVE mtrie_rm(_, _, _)
mtrie_rm(n, prefix, pipe) ==
  CASE prefix = <<>> ->
         [n |-> [zmq_assert(n, n.val # {} => pipe \in n.val) EXCEPT !.val = @ \ {pipe}],
          ret |-> n.val \ {pipe} = {}]
    [] prefix # <<>> /\ Child(n, Head(prefix)) = Null -> [n |-> n, ret |-> FALSE]
    [] OTHER ->
         LET r == mtrie_rm(Child(n, Head(prefix)), Tail(prefix), pipe)
             x == zmq_assert(n, r.n.ok)
         IN [n |-> IF mtrie_is_redundant(r.n) THEN mtrie_prune(x, Head(prefix))
                   ELSE [x EXCEPT !.next[At(x, Head(prefix))] = r.n],
             ret |-> r.ret]

\* The table after children were removed anywhere.
mtrie_compact(n) ==
  LET live == Live(n)
      new_min == Min({n.count} \cup live)
      new_max == Max({1} \cup live)
  IN CASE n.live_nodes = 0 -> [n EXCEPT !.next = <<>>, !.count = 0]
       [] n.live_nodes = 1 ->
            zmq_assert(Slice(n, new_min, new_min), new_min = new_max /\ n.next[new_min] # Null)
       [] n.live_nodes > 1 /\ (new_min > 1 \/ new_max < n.count) ->
            zmq_assert(Slice(n, new_min, new_max), new_max > new_min)
       [] OTHER -> n

\* rm of everything a pipe has subscribed to; last lists the prefixes nobody
\* has a subscription for any more, in the order of the calls of func_.
RECURSIVE mtrie_rm_pipe(_, _, _)
mtrie_rm_pipe(n, pipe, prefix) ==
  LET own == [n |-> [n EXCEPT !.val = @ \ {pipe}],
              last |-> IF n.val = {pipe} THEN <<prefix>> ELSE <<>>]
      Visit(acc, i) ==
        IF acc.n.next[i] = Null THEN acc
        ELSE LET r == mtrie_rm_pipe(acc.n.next[i], pipe, Append(prefix, n.min + i - 1))
             IN [n |-> IF mtrie_is_redundant(r.n)
                       THEN zmq_assert([acc.n EXCEPT !.next[i] = Null, !.live_nodes = @ - 1],
                                       acc.n.live_nodes > 0)
                       ELSE [acc.n EXCEPT !.next[i] = r.n],
                 last |-> acc.last \o r.last]
      all == FoldLeftDomain(LAMBDA acc, i : Visit(acc, i), own, n.next)
  IN CASE n.count = 0 -> own
       [] n.count = 1 -> IF all.n.live_nodes = 0
                         THEN [all EXCEPT !.n.next = <<>>, !.n.count = 0] ELSE all
       [] OTHER -> [all EXCEPT !.n = mtrie_compact(@)]

-----------------------------------------------------------------------------
(* Queries.                                                                *)

\* check: does a subscription match the data?
RECURSIVE check(_, _)
check(n, data) ==
  \/ n.val > 0
  \/ data # <<>> /\ Child(n, Head(data)) # Null /\ check(Child(n, Head(data)), Tail(data))

\* apply: every prefix subscribed to, in the order of the calls of func_.
RECURSIVE apply_helper(_, _)
apply_helper(n, prefix) ==
  FoldLeftDomain(LAMBDA acc, i : IF n.next[i] = Null THEN acc
                                 ELSE acc \o apply_helper(n.next[i], Append(prefix, n.min + i - 1)),
                 IF n.val > 0 THEN <<prefix>> ELSE <<>>, n.next)

apply(n) == apply_helper(n, <<>>)

\* match: the pipes of every node on the way, one list for each.
RECURSIVE match(_, _)
match(n, data) ==
  (IF n.val = {} THEN <<>> ELSE <<n.val>>)
    \o IF data = <<>> \/ Child(n, Head(data)) = Null THEN <<>>
       ELSE match(Child(n, Head(data)), Tail(data))

\* Every assertion of the trie has held, in any of its nodes.
RECURSIVE AllOk(_)
AllOk(n) == n.ok /\ \A i \in Live(n) : AllOk(n.next[i])
=============================================================================
