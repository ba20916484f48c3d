---------------------------- MODULE MCTransport -----------------------------
(***************************************************************************)
(* TLC model of what runs in the I/O threads for one connection: Session,  *)
(* Engine, Greeting, Codec or Mechanism.  Which one is chosen in the       *)
(* initial state; the others then stay as they are, so the five are        *)
(* checked side by side and not multiplied.                                *)
(***************************************************************************)
EXTENDS Integers, Sequences

CONSTANTS
  Models,
  Options, SessionRaces, MaxPipes, MaxEngines, SessionMessages, MaxWaits,   \* Session
  Settings, Hwm, MaxPeer, MaxSend, MaxConns, EngineRaces,         \* Engine
  Peers, Mechanisms,                                              \* Greeting
  Escape, Buffer, MaxSizes, Queues,                               \* Codec
  Confs, MechanismRaces, MaxMessages, Nonces                      \* Mechanism

VARIABLES
  model,
  opt, session, pipes, conn, s_mail, socket, s_failed, engines, messages,
  set, eng, inpipe, outpipe, mail, net, got, taken, sent, conns, failed,
  peer, mech, g_zap, g_eng, g_wire,
  framing, maxmsgsize, queue, toSend, e, outbuf, wire, d, received, dead,
  conf, m, engine, zap, chan, pending, inbox, boxes

S == INSTANCE Session WITH Races <- SessionRaces, MaxMessages <- SessionMessages,
                           mail <- s_mail, failed <- s_failed
E == INSTANCE Engine WITH Races <- EngineRaces
G == INSTANCE Greeting WITH zap <- g_zap, eng <- g_eng, wire <- g_wire
C == INSTANCE Codec
M == INSTANCE Mechanism WITH Races <- MechanismRaces

sessionVars   == <<opt, session, pipes, conn, s_mail, socket, s_failed, engines, messages>>
engineVars    == <<set, eng, inpipe, outpipe, mail, net, got, taken, sent, conns, failed>>
greetingVars  == <<peer, mech, g_zap, g_eng, g_wire>>
codecVars     == <<framing, maxmsgsize, queue, toSend, e, outbuf, wire, d, received, dead>>
mechanismVars == <<conf, m, engine, zap, chan, pending, inbox, boxes>>

vars == <<model, sessionVars, engineVars, greetingVars, codecVars, mechanismVars>>

\* The setting of a model that is not chosen makes no difference.
Pick(name, values) == IF model = name THEN values ELSE {CHOOSE v \in values : TRUE}

MCInit ==
  /\ model \in Models
  /\ opt \in Pick("session", Options) /\ set \in Pick("engine", Settings)
  /\ peer \in Pick("greeting", Peers) /\ mech \in Pick("greeting", [G!Ends -> Mechanisms])
  /\ g_zap \in Pick("greeting", BOOLEAN)
  /\ framing \in Pick("codec", {"v1", "v2", "raw"}) /\ maxmsgsize \in Pick("codec", MaxSizes)
  /\ queue \in Pick("codec", Queues) /\ conf \in Pick("mechanism", Confs)
  /\ S!Init /\ E!Init /\ G!Init /\ C!Init /\ M!Init

MCNext ==
  \/ /\ model = "session" /\ S!Next
     /\ UNCHANGED <<model, engineVars, greetingVars, codecVars, mechanismVars>>
  \/ /\ model = "engine" /\ E!Next
     /\ UNCHANGED <<model, sessionVars, greetingVars, codecVars, mechanismVars>>
  \/ /\ model = "greeting" /\ G!Next
     /\ UNCHANGED <<model, sessionVars, engineVars, codecVars, mechanismVars>>
  \/ /\ model = "codec" /\ C!Next
     /\ UNCHANGED <<model, sessionVars, engineVars, greetingVars, mechanismVars>>
  \/ /\ model = "mechanism" /\ M!Next
     /\ UNCHANGED <<model, sessionVars, engineVars, greetingVars, codecVars>>

\* The fairness of the model chosen.
MCFairness ==
  /\ WF_sessionVars(model = "session" /\ S!Service)
  /\ WF_engineVars(model = "engine" /\ E!Service)
  /\ WF_mechanismVars(model = "mechanism" /\ M!Service)
  /\ \A p \in {"a", "b"} :
       /\ WF_greetingVars(model = "greeting" /\ G!in_event(p))
       /\ SF_greetingVars(model = "greeting" /\ G!out_event(p) /\ (g_eng[p].out # <<>> => g_wire' # g_wire))

MCSpec == MCInit /\ [][MCNext]_vars
MCFairSpec == MCSpec /\ MCFairness
-----------------------------------------------------------------------------
(* Settings.  Sessions that connect, those of a SUB, of a raw listener, of a *)
(* listener with ZAP and of a plain one, each with a linger time of for ever, *)
(* at once and some time; and one with the option immediate.  The interval    *)
(* of 2 doubles to 4 and then to the maximum of 5; one of -1 is never tried   *)
(* again.                                                                     *)

Opt(c, i, r, s, z, linger, ivl, ivl_max) ==
  [connect |-> c, immediate |-> i, raw |-> r, sub |-> s, zap |-> z,
   linger |-> linger, ivl |-> ivl, ivl_max |-> ivl_max]
Lingers == -1 .. 1
MCOptions ==
  {Opt(TRUE, FALSE, FALSE, FALSE, FALSE, linger, 2, 5) : linger \in Lingers}
  \cup {Opt(TRUE, FALSE, FALSE, TRUE, FALSE, linger, 1, 0) : linger \in Lingers}
  \cup {Opt(FALSE, FALSE, kind = "raw", FALSE, kind = "zap", linger, 1, 0) :
          linger \in Lingers, kind \in {"plain", "raw", "zap"}}
  \cup {Opt(TRUE, TRUE, FALSE, FALSE, FALSE, 1, 1, 0), Opt(TRUE, FALSE, FALSE, TRUE, FALSE, 1, -1, 0)}

Setting(v3, id, sub) == [v3 |-> v3, recv_identity |-> id, subscription_required |-> sub]
MCSettings == {Setting(TRUE, TRUE, FALSE), Setting(TRUE, FALSE, FALSE), Setting(FALSE, FALSE, TRUE)}

\* A byte counts to seven: bodies of zero, and about what one byte says in v1 and in v2.
Part(size, more, command) == [more |-> more, command |-> command, size |-> size]
MCQueues == {<<Part(i, TRUE, FALSE), Part(j, FALSE, TRUE)>> : i \in {0, 7, 8}, j \in {0, 6}}
MCMaxSizes == {-1, 0, 7}

Types(a, b) == [a |-> a, b |-> b]
MCConfs ==
  {c \in [mech : {"NULL", "PLAIN", "CURVE"},
          type : {Types("DEALER", "ROUTER"), Types("REQ", "DEALER"), Types("PUSH", "PULL")},
          zap : [{"a", "b"} -> {"none", "200", "400"}], key : {"S", "X"}, nonce : {0, 3}] :
     /\ c.mech # "CURVE" => c.key = "S" /\ c.nonce = 0
     /\ c.mech # "NULL" => c.zap["a"] = "none"}
-----------------------------------------------------------------------------
\* No assertion of session_base.cpp fails in any order of timers, connections
\* and commands but the races that Session names, and each wait of a connecter
\* is as long as the back-off says (Session).
SessionSafe == model = "session" => S!SessionSafe

\* Each message passes the engine once, in order, and its assertions hold (Engine).
EngineSafe == model = "engine" => E!EngineSafe

\* The greeting settles on the older protocol and loses no byte (Greeting), and
\* messages come out of the decoder as they went into the encoder (Codec).
WireRight ==
  /\ model = "greeting" => G!Negotiated
  /\ model = "codec" => C!Framed

\* Traffic starts only after authentication, no nonce is used twice (Mechanism).
MechanismSafe == model = "mechanism" => M!MechanismSafe

\* What a connection starts comes to its end: SessionEnds, EngineFlows, GreetingEnds
\* and HandshakeEnds, each of its own model, in one formula.
ConnectionsEnd ==
  <>[] CASE model = "session"   -> S!Ended
         [] model = "engine"    -> E!Flowed
         [] model = "greeting"  -> G!Negotiation
         [] model = "mechanism" -> M!Concluded
         [] model = "codec"     -> TRUE
=============================================================================
