----------------------------- MODULE MCPatterns ------------------------------
(***************************************************************************)
(* TLC model of the two pipe arrays of a socket, Lb and Fq, and of a       *)
(* socket over them, Req.  Which one is chosen in the initial state; the   *)
(* others then stay as they are, so the three are checked side by side and *)
(* not multiplied.                                                         *)
(***************************************************************************)
EXTENDS Lb, TLC

CONSTANTS
  MaxArrivals, CloseMidMessage,                             \* Fq
  ReqSettings, ReqRaces, MaxRequests, MaxReplies, MaxIds    \* Req

VARIABLES
  inbox, delimited, received, arrived,
  fq_pipes, fq_active, fq_current, fq_more, fq_state, fq_call, fq_bypassed, fq_asserted,
  q_set, req, q_pipe, requests, q_in, q_n, replies, q_got,
  model

F == INSTANCE Fq WITH pipes <- fq_pipes, active <- fq_active, current <- fq_current,
                      more <- fq_more, state <- fq_state, call <- fq_call,
                      bypassed <- fq_bypassed, asserted <- fq_asserted

Q == INSTANCE Req WITH Settings <- ReqSettings, Races <- ReqRaces, set <- q_set,
                       pipe <- q_pipe, in <- q_in, n <- q_n, got <- q_got

fq_vars == <<fq_pipes, fq_active, fq_current, fq_more, fq_state, inbox, delimited,
             received, fq_call, arrived, fq_bypassed, fq_asserted>>

q_vars  == <<q_set, req, q_pipe, requests, q_in, q_n, replies, q_got>>

\* The null value is no pipe.
ASSUME ReqAssumption == Q!None \notin Pipes /\ MaxReplies \in Nat

\* The setting of a model that is not chosen makes no difference.
MCInit ==
  /\ model \in {"lb", "fq", "req"} /\ Init /\ F!Init /\ Q!Init
  /\ model # "req" => q_set = CHOOSE s \in ReqSettings : TRUE

MCNext == \/ model = "lb"  /\ Next   /\ UNCHANGED <<model, fq_vars, q_vars>>
          \/ model = "fq"  /\ F!Next /\ UNCHANGED <<model, vars, q_vars>>
          \/ model = "req" /\ Q!Next /\ UNCHANGED <<model, vars, fq_vars>>

MCSpec == MCInit /\ [][MCNext]_<<model, vars, fq_vars, q_vars>>

Symmetry == Permutations(Pipes)

MCReqSettings == [strict : BOOLEAN, correlate : BOOLEAN]

\* What is received are whole messages, the pipes that are awake are the active
\* ones, and a pipe with a message gets its turn (Fq).
FqRight == F!WholeReceived /\ F!AwakeExact /\ F!NotStarved

\* What a REQ socket receives is a reply to the request it sent last, unless a peer
\* that answered twice is believed (Req).
RightReply == Q!RightReply
=============================================================================
