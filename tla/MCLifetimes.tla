---------------------------- MODULE MCLifetimes -----------------------------
(***************************************************************************)
(* TLC model of the lifetimes of objects: Own (a socket with a connecting  *)
(* session and its connecter, and a listener, over two I/O threads), and   *)
(* Ctx (two sockets of the application, one of which binds the inproc      *)
(* address that the other connects to, and the PAIR of terminate ()).      *)
(* Which one is chosen in the initial state; the other then stays as it    *)
(* is.  Ctx is checked twice: "ctx" lets a connect be pended at any time,  *)
(* for safety, and "ctx_live" only before the shutdown, for liveness and   *)
(* with a zmq_ctx_term () that a signal interrupts (with connects pending, *)
(* the second call would stop at the NULL of create_socket).               *)
(***************************************************************************)
EXTENDS Own

CONSTANTS
  socket, session, connecter, listener, thread, io1, io2,           \* Own
  App, Binders, CtxConnecters, Pairs, Addr, None, RecvIdentity,     \* Ctx
  MaxSockets, MaxInterrupts

VARIABLES
  model,
  starting, terminating, sockets, endpoints, pending, net, app, reaper, term, done

C == INSTANCE Ctx WITH Connecters <- CtxConnecters, LatePend <- TRUE, PendingAtStop <- TRUE,
                       MaxInterrupts <- 0
L == INSTANCE Ctx WITH Connecters <- CtxConnecters, LatePend <- FALSE, PendingAtStop <- FALSE

MCParent == (session :> socket) @@ (connecter :> session) @@ (listener :> socket)
MCThread == (socket :> thread) @@ (session :> io1) @@ (connecter :> io2) @@ (listener :> io1)

ownVars == <<obj, inbox, binding, binds>>
ctxVars == <<starting, terminating, sockets, endpoints, pending, net, app, reaper, term, done>>
mcVars  == <<model, ownVars, ctxVars>>

MCInit == model \in {"own", "ctx", "ctx_live"} /\ Init /\ C!Init

MCNext ==
  \/ model = "own"      /\ Next   /\ UNCHANGED <<model, ctxVars>>
  \/ model = "ctx"      /\ C!Next /\ UNCHANGED <<model, ownVars>>
  \/ model = "ctx_live" /\ L!Next /\ UNCHANGED <<model, ownVars>>

\* The fairness of Own and of Ctx, action by action.
Runs == model = "ctx_live" /\ net.failed = {}

MCFairness ==
  /\ \A t \in Threads : WF_ownVars(model = "own" /\ process_command(t))
  /\ WF_ownVars(model = "own" /\ send_bind)
  /\ \A o \in Lingering : WF_ownVars(model = "own" /\ proceed_with_term(o))
  /\ WF_ctxVars(Runs /\ L!TermNext) /\ WF_ctxVars(Runs /\ L!ReaperNext)
  /\ \A s \in App :
       /\ WF_ctxVars(Runs /\ app[s].at # "idle" /\ L!AppNext(s))
       /\ SF_ctxVars(Runs /\ L!AppClose(s))

MCSpec == MCInit /\ [][MCNext]_mcVars /\ MCFairness
-----------------------------------------------------------------------------
\* Who can be reached is there, no connect is stranded on a bound address, and
\* done means that all sockets are gone (Ctx).
CtxSafe == model \in {"ctx", "ctx_live"} => C!CtxSafe

\* A socket that terminates takes all its objects with it, and zmq_ctx_term ()
\* returns (Own, Ctx).
ShutdownEnds ==
  <>[](CASE model = "own" -> Shut [] model = "ctx_live" -> L!Returned [] OTHER -> TRUE)
=============================================================================
