---------------------------- MODULE Subscriptions ---------------------------
(***************************************************************************)
(* A trie_t and an mtrie_t under any sequence of calls, next to what they  *)
(* stand for: how often each prefix is subscribed to, and by which pipes.  *)
(***************************************************************************)
EXTENDS Trie

CONSTANTS
  Keys,        \* prefixes, and messages
  Pipes,
  MaxTrie,     \* bound: subscriptions in the trie at a time
  MaxMtrie     \* bound: subscriptions in the mtrie at a time

VARIABLES trie, mtrie, count, who, right

vars == <<trie, mtrie, count, who, right>>

\* One of the two is exercised: they share nothing.
Init ==
  /\ trie = NewTrie /\ mtrie = NewMtrie
  /\ count = [p \in Keys |-> 0] /\ who = [p \in Keys |-> {}] /\ right = TRUE

Total == FoldSet(LAMBDA p, n : n + count[p], 0, Keys)
Entries == FoldSet(LAMBDA p, n : n + Cardinality(who[p]), 0, Keys)

add(p) ==
  /\ Total < MaxTrie /\ Entries = 0
  /\ LET r == trie_add(trie, p) IN trie' = r.n /\ right' = (right /\ r.ret = (count[p] = 0))
  /\ count' = [count EXCEPT ![p] = @ + 1] /\ UNCHANGED <<mtrie, who>>

rm(p) ==
  /\ Entries = 0
  /\ LET r == trie_rm(trie, p) IN trie' = r.n /\ right' = (right /\ r.ret = (count[p] = 1))
  /\ count' = [count EXCEPT ![p] = IF @ = 0 THEN 0 ELSE @ - 1] /\ UNCHANGED <<mtrie, who>>

add_pipe(p, pipe) ==
  /\ Entries < MaxMtrie /\ Total = 0
  /\ LET r == mtrie_add(mtrie, p, pipe) IN mtrie' = r.n /\ right' = (right /\ r.ret = (who[p] = {}))
  /\ who' = [who EXCEPT ![p] = @ \cup {pipe}] /\ UNCHANGED <<trie, count>>

\* Called for what the pipe has subscribed to.
rm_pipe(p, pipe) ==
  /\ pipe \in who[p]
  /\ LET r == mtrie_rm(mtrie, p, pipe) IN mtrie' = r.n /\ right' = (right /\ r.ret = (who[p] = {pipe}))
  /\ who' = [who EXCEPT ![p] = @ \ {pipe}] /\ UNCHANGED <<trie, count>>

rm_all(pipe) ==
  /\ Entries > 0
  /\ LET r == mtrie_rm_pipe(mtrie, pipe, <<>>)
     IN /\ mtrie' = r.n
        /\ right' = (right /\ Cardinality(ToSet(r.last)) = Len(r.last)
                           /\ ToSet(r.last) = {p \in Keys : who[p] = {pipe}})
  /\ who' = [p \in Keys |-> who[p] \ {pipe}] /\ UNCHANGED <<trie, count>>

Next == \/ \E p \in Keys : add(p) \/ rm(p)
        \/ \E p \in Keys, pipe \in Pipes : add_pipe(p, pipe) \/ rm_pipe(p, pipe)
        \/ \E pipe \in Pipes : rm_all(pipe)

Spec == Init /\ [][Next]_vars

-----------------------------------------------------------------------------
(* Properties.                                                             *)

\* Tables are tight: no child that is of no use, none missing at the ends, and
\* live_nodes is right.
RECURSIVE Tight(_, _)
Tight(n, none) ==
  /\ Len(n.next) = n.count /\ n.live_nodes = Cardinality(Live(n))
  /\ n.count > 0 => {1, n.count} \subseteq Live(n)
  /\ \A i \in Live(n) : /\ n.next[i].val = none => n.next[i].live_nodes > 0
                        /\ Tight(n.next[i], none)

\* After any calls the answers are those of the reference: check and match
\* find the subscriptions a message starts with, apply visits each prefix
\* once, add and rm tell the first and the last subscription of their kind;
\* and the assertions about the tables hold, which stay as small as they can.
TriesExact ==
  /\ right /\ AllOk(trie) /\ AllOk(mtrie)
  /\ Tight(trie, 0) /\ Tight(mtrie, {})
  /\ LET called == apply(trie)
     IN /\ ToSet(called) = {p \in Keys : count[p] > 0}
        /\ Cardinality(ToSet(called)) = Len(called)
  /\ \A data \in Keys :
       /\ check(trie, data) = \E p \in Keys : IsPrefix(p, data) /\ count[p] > 0
       /\ UNION ToSet(match(mtrie, data)) = UNION {who[p] : p \in {q \in Keys : IsPrefix(q, data)}}
=============================================================================
