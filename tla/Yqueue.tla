------------------------------- MODULE Yqueue -------------------------------
(***************************************************************************)
(* yqueue_t (yqueue.hpp): the element memory below ypipe_t.  Chunks of N   *)
(* elements form a linked list from begin_chunk to end_chunk; pushing and  *)
(* un-pushing belong to the writer thread, popping to the reader thread,   *)
(* and the only thing both touch atomically is spare_chunk.                *)
(*                                                                         *)
(* Each element holds its number in the stream of pushes.  The caller,     *)
(* ypipe_t, keeps one terminator element behind what it publishes, pops    *)
(* only published elements and un-pushes only unpublished ones.            *)
(***************************************************************************)
EXTENDS Integers, FiniteSets

CONSTANTS
  Chunks,   \* the addresses malloc can return
  N,        \* elements per chunk
  MaxPush   \* bound: elements in the stream

NULL == "NULL"

VARIABLES
  heap,                  \* the chunks that are allocated
  values, prev, next,    \* the fields of struct chunk_t, by chunk
  begin_chunk, begin_pos,
  back_chunk, back_pos,
  end_chunk, end_pos,
  spare_chunk,
  wplace, sc,               \* writer: "link" inside push (), its local sc
  rplace, o,                \* reader: "spare" inside pop (), its local o
  pushed, popped,        \* elements pushed and not un-pushed; popped
  published              \* caller: elements the reader may pop

writer == <<back_chunk, back_pos, end_chunk, end_pos, wplace, sc, pushed, published>>
reader == <<begin_chunk, begin_pos, rplace, o, popped>>
vars   == <<heap, values, prev, next, spare_chunk, writer, reader>>

Init ==
  /\ begin_chunk \in Chunks /\ end_chunk = begin_chunk
  /\ heap = {begin_chunk}
  /\ values = [c \in Chunks |-> [p \in 0 .. N - 1 |-> -1]]
  /\ prev = [c \in Chunks |-> NULL] /\ next = [c \in Chunks |-> NULL]
  /\ begin_pos = 0 /\ end_pos = 0
  /\ back_chunk = NULL /\ back_pos = 0
  /\ spare_chunk = NULL
  /\ wplace = "idle" /\ sc = NULL /\ rplace = "idle" /\ o = NULL
  /\ pushed = 0 /\ popped = 0 /\ published = 0

-----------------------------------------------------------------------------
(* Writer thread.                                                          *)

\* push () up to the xchg on spare_chunk; the caller then fills the element.
push ==
  /\ wplace = "idle" /\ pushed < MaxPush
  /\ back_chunk' = end_chunk /\ back_pos' = end_pos
  /\ values' = [values EXCEPT ![end_chunk][end_pos] = pushed]
  /\ pushed' = pushed + 1
  /\ end_pos' = end_pos + 1
  /\ IF end_pos + 1 # N
     THEN UNCHANGED <<wplace, sc, spare_chunk>>
     ELSE wplace' = "link" /\ sc' = spare_chunk /\ spare_chunk' = NULL
  /\ UNCHANGED <<heap, prev, next, end_chunk, published, reader>>

\* The rest of push (): link the spare chunk, or a new one, behind end_chunk.
linkChunk ==
  /\ wplace = "link"
  /\ \E c \in IF sc # NULL THEN {sc} ELSE Chunks \ heap :
       /\ heap' = heap \cup {c}
       /\ next' = [next EXCEPT ![end_chunk] = c]
       /\ prev' = [prev EXCEPT ![c] = end_chunk]
       /\ end_chunk' = c
  /\ end_pos' = 0
  /\ wplace' = "idle" /\ sc' = NULL
  /\ UNCHANGED <<values, spare_chunk, back_chunk, back_pos, pushed, published, reader>>

unpush ==
  /\ wplace = "idle" /\ pushed > published + 1
  /\ back_pos' = IF back_pos > 0 THEN back_pos - 1 ELSE N - 1
  /\ back_chunk' = IF back_pos > 0 THEN back_chunk ELSE prev[back_chunk]
  /\ IF end_pos > 0
     THEN end_pos' = end_pos - 1 /\ UNCHANGED <<end_chunk, heap, next>>
     ELSE /\ end_pos' = N - 1
          /\ end_chunk' = prev[end_chunk]
          /\ heap' = heap \ {next[end_chunk']}
          /\ next' = [next EXCEPT ![end_chunk'] = NULL]
  /\ pushed' = pushed - 1
  /\ UNCHANGED <<values, prev, spare_chunk, wplace, sc, published, reader>>

\* The caller publishes everything before its terminator element.
publish ==
  /\ wplace = "idle" /\ published < pushed - 1
  /\ published' \in published + 1 .. pushed - 1
  /\ UNCHANGED <<heap, values, prev, next, spare_chunk, back_chunk, back_pos,
                 end_chunk, end_pos, wplace, sc, pushed, reader>>

-----------------------------------------------------------------------------
(* Reader thread.                                                          *)

\* pop () up to the xchg on spare_chunk.
pop ==
  /\ rplace = "idle" /\ popped < published
  /\ popped' = popped + 1
  /\ IF begin_pos + 1 # N
     THEN begin_pos' = begin_pos + 1 /\ UNCHANGED <<begin_chunk, prev, rplace, o>>
     ELSE /\ begin_pos' = 0
          /\ begin_chunk' = next[begin_chunk]
          /\ prev' = [prev EXCEPT ![begin_chunk'] = NULL]
          /\ rplace' = "spare" /\ o' = begin_chunk
  /\ UNCHANGED <<heap, values, next, spare_chunk, writer>>

\* Plausible bug: the spare that is replaced is not freed.
swapSpareLeak ==
  /\ rplace = "spare"
  /\ spare_chunk' = o
  /\ rplace' = "idle" /\ o' = NULL
  /\ UNCHANGED <<heap, values, prev, next, writer, begin_chunk, begin_pos, popped>>

\* The rest of pop (): the old chunk becomes the spare, the old spare is freed.
swapSpare ==
  /\ rplace = "spare"
  /\ spare_chunk' = o
  /\ heap' = heap \ {spare_chunk}
  /\ rplace' = "idle" /\ o' = NULL
  /\ UNCHANGED <<values, prev, next, writer, begin_chunk, begin_pos, popped>>

-----------------------------------------------------------------------------
Next == push \/ linkChunk \/ unpush \/ publish \/ pop \/ swapSpare

Spec == Init /\ [][Next]_vars

-----------------------------------------------------------------------------
(* Properties.                                                             *)

\* The chunks between begin_chunk and end_chunk, followed along next as the
\* destructor follows them; at most one step per chunk that exists.
Chain ==
  LET after[k \in 0 .. Cardinality(Chunks)] ==
        IF k = 0 THEN {begin_chunk}
        ELSE after[k - 1] \cup {next[c] : c \in after[k - 1] \ {end_chunk, NULL}}
  IN after[Cardinality(Chunks)]

\* No chunk is used after free () and none is leaked: the allocated chunks are
\* exactly the live chain, the spare chunk and the one each thread has in hand,
\* and these do not overlap.
NoLeakNoUseAfterFree ==
  /\ heap = (Chain \cup {spare_chunk, sc, o}) \ {NULL}
  /\ end_chunk \in Chain /\ NULL \notin Chain
  /\ \A c \in {spare_chunk, sc, o} \ {NULL} : c \notin Chain
  /\ spare_chunk # NULL => spare_chunk \notin {sc, o}
  /\ sc # NULL => sc # o

\* The two threads agree on every element although they never synchronise on
\* the list: the reader's front is the element number popped, the writer's
\* back the last one pushed, each intact in an allocated chunk.
RightElement ==
  /\ popped < published => values[begin_chunk][begin_pos] = popped
  /\ pushed > 0 => /\ back_chunk \in heap
                   /\ values[back_chunk][back_pos] = pushed - 1
=============================================================================
