------------------------------ MODULE Heartbeat -----------------------------
(***************************************************************************)
(* The heartbeat of ZmqClientBase: every message from the server notes the *)
(* tick count (UpdateLastPong, on the poll thread), and AutoConnect, on    *)
(* the timer thread, restarts the client when the last one is older than   *)
(* m_heartbeatInterval + m_heartbeatDelay.  A tick count is a DWORD that   *)
(* wraps; the differences and sums are computed modulo the same number.    *)
(***************************************************************************)
EXTENDS Integers

CONSTANTS
  TickMod,     \* 2^32: tick counts are below it
  PerSecond,   \* ticks in a second, 1000
  Settings,    \* the <<interval, delay>> pairs, in seconds, that may be set
  Period,      \* the timer calls AutoConnect at least once in so many ticks
  Race,        \* may a pong come between AutoConnect's two reads?
  Frozen       \* GetTick () outside Windows: always 0

U32 == 0 .. TickMod - 1

ASSUME HeartbeatAssumption ==
  /\ TickMod \in Nat \ {0} /\ PerSecond \in Nat \ {0} /\ Period \in Nat
  /\ Settings \subseteq Nat \X Nat
  /\ \A s \in Settings : s[1] * PerSecond + s[2] * PerSecond < TickMod
  /\ Race \in BOOLEAN /\ Frozen \in BOOLEAN

VARIABLES
  now,         \* GetTickCount ()
  m_lastpong,
  m_heartbeatInterval, m_heartbeatDelay,
  nowtick,     \* AutoConnect's local variable
  reading,     \* is AutoConnect between the two reads?
  age,         \* ticks since the last pong, not wrapped
  sinceRead,   \* ticks since AutoConnect last read the clock
  settled,     \* no setting changed since AutoConnect last read the clock
  spurious     \* did AutoConnect restart a client that was not overdue?

clock == <<now, m_lastpong, age>>
conf  == <<m_heartbeatInterval, m_heartbeatDelay>>
heartbeatVars  == <<clock, conf, nowtick, reading, sinceRead, settled, spurious>>

\* Unsigned addition and subtraction of two tick counts.
Plus(a, b)  == IF a + b < TickMod THEN a + b ELSE a + b - TickMod
Minus(a, b) == IF a >= b THEN a - b ELSE a - b + TickMod

Configured(s) ==
  /\ m_heartbeatInterval' = s[1] * PerSecond
  /\ m_heartbeatDelay' = s[2] * PerSecond

HeartbeatInit ==
  /\ now \in (IF Frozen THEN {0} ELSE U32) /\ m_lastpong = now /\ age = 0
  /\ \E s \in Settings : /\ m_heartbeatInterval = s[1] * PerSecond
                         /\ m_heartbeatDelay = s[2] * PerSecond
  /\ nowtick = 0 /\ reading = FALSE /\ sinceRead = 0
  /\ settled = FALSE /\ spurious = FALSE

\* Time passes, up to the next call of AutoConnect; the model leaves out
\* silences of a whole turn of the counter (49 days).
tick ==
  /\ sinceRead < Period /\ age < TickMod - 1
  /\ now' = IF Frozen THEN now ELSE Plus(now, 1)
  /\ age' = age + 1 /\ sinceRead' = sinceRead + 1
  /\ UNCHANGED <<m_lastpong, conf, nowtick, reading, settled, spurious>>

\* A message from the server, on the poll thread.
UpdateLastPong ==
  /\ Race \/ ~ reading
  /\ m_lastpong' = now /\ age' = 0
  /\ UNCHANGED <<now, conf, nowtick, reading, sinceRead, settled, spurious>>

\* Takes effect at once, on the application thread.
SetHeartbeatIntervalTime(s) ==
  /\ Configured(s)
  /\ settled' = FALSE
  /\ UNCHANGED <<clock, nowtick, reading, sinceRead, spurious>>

\* AutoConnect: nowtick = GetTick ().
readTick ==
  /\ ~ reading
  /\ nowtick' = now /\ reading' = TRUE /\ sinceRead' = 0 /\ settled' = TRUE
  /\ UNCHANGED <<clock, conf, spurious>>

Limit == Plus(m_heartbeatInterval, m_heartbeatDelay)

\* Plausible bug: strictly older than the limit.
OverdueLate ==
  m_heartbeatInterval > 0 /\ Minus(nowtick, m_lastpong) - Limit > 0

\* Plausible bug: the tolerance is not added.
OverdueNoDelay ==
  m_heartbeatInterval > 0 /\ Minus(nowtick, m_lastpong) - m_heartbeatInterval > -1

\* value > -1.
Overdue == m_heartbeatInterval > 0 /\ Minus(nowtick, m_lastpong) - Limit > -1

\* AutoConnect: compare, and restart, which counts as a pong (ZmqClientBase::Init).
decide ==
  /\ reading /\ reading' = FALSE
  /\ IF Overdue
     THEN /\ m_lastpong' = now /\ age' = 0
          /\ spurious' = (spurious \/ age < Limit)
     ELSE UNCHANGED <<m_lastpong, age, spurious>>
  /\ UNCHANGED <<now, conf, nowtick, sinceRead, settled>>

HeartbeatNext == tick \/ UpdateLastPong \/ readTick \/ decide
        \/ \E s \in Settings : SetHeartbeatIntervalTime(s)

HeartbeatSpec == HeartbeatInit /\ [][HeartbeatNext]_heartbeatVars

-----------------------------------------------------------------------------
(* Properties.                                                             *)

\* "How long without a reply counts as a timeout": AutoConnect never restarts
\* a client whose last reply is younger than interval + delay, wherever the
\* tick counter wraps.
NoSpuriousReset == ~ spurious

\* A silent server is noticed: a reply that was overdue when AutoConnect looked
\* has led to a restart, so the silence is never longer than interval + delay
\* and the time since.
SilenceNoticed ==
  settled /\ ~ reading /\ m_heartbeatInterval > 0 =>
    age < m_heartbeatInterval + m_heartbeatDelay + sinceRead
=============================================================================
