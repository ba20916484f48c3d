--------------------------- MODULE ServicesProofs ---------------------------
(***************************************************************************)
(* Proofs about the two services of the client library, which share no     *)
(* state: the timer for any set of application threads and any number of   *)
(* calls, the heartbeat arithmetic for every width of the tick counter and *)
(* every setting that fits into it.                                        *)
(***************************************************************************)
EXTENDS TimerWorker, Heartbeat, TLAPS

-----------------------------------------------------------------------------
(* The timer.  TimerAlive is inductive together with the types: a handler  *)
(* gives up only when it sees m_bRunning false, and the Start that makes   *)
(* it true again stays in progress until it has posted.                    *)
(* NoHandlerAfterDestroy needs that no Start is under way during the       *)
(* destruction (~ RestartInDestroy): then the group never restarts and has *)
(* the one thread that the destructor joins.                               *)

Inv == TypeOK /\ TimerAlive

\* Only the destructor stops the group, and nobody starts it again.
Joined ==
  /\ Destroying => \A t \in Callers : t # Owner => call[t] = "none"
  /\ ~ groupRunning => call[Owner] \in {"io_stop", "join", "destroyed"}
  /\ at[Second] = "none"
  /\ call[Owner] = "destroyed" => at[Worker] = "ended"

\* The constructors establish the invariant.
LEMMA InitInv == TimerInit => Inv
<1> SUFFICES ASSUME TimerInit PROVE Inv
  OBVIOUS
<1>1. m_bRunning \in BOOLEAN /\ interrupted \in BOOLEAN
  BY Zenon DEF TimerInit
<1>2. groupRunning \in BOOLEAN /\ ioStopped \in BOOLEAN
  BY Zenon DEF TimerInit
<1>3. call \in [Callers -> Places]
  BY DEF TimerInit, Places
<1>4. queue \in Nat /\ m_initNumbers \in Int /\ timerCalls \in Nat
  BY DEF TimerInit
<1>5. at \in [TimerThreads -> {"none", "new", "idle", "ended"} \cup Busy]
  BY DEF TimerInit
<1>6. ~ m_bRunning
  BY DEF TimerInit
<1> QED BY <1>1, <1>2, <1>3, <1>4, <1>5, <1>6 DEF Inv, TypeOK, TimerAlive

\* A step of a caller that leaves the queue, the handlers and m_bRunning alone,
\* and does not leave the part of Start that promises a handler, keeps a timer
\* alive.
LEMMA CallerKeeps ==
  ASSUME TypeOK, TimerAlive, NEW t \in Callers, NEW place \in Places,
         call' = [call EXCEPT ![t] = place],
         call[t] \in Starting => place \in Starting,
         \A th \in TimerThreads : at[th] \in Busy => at'[th] \in Busy,
         queue' = queue, m_bRunning' => m_bRunning
  PROVE  TimerAlive'
<1>1. CASE ~ m_bRunning'
  BY <1>1 DEF TimerAlive
<1>2. CASE m_bRunning /\ \E u \in Callers : call[u] \in Starting
  <2>1. PICK u \in Callers : call[u] \in Starting
    BY <1>2
  <2>2. call'[u] \in Starting
    BY <2>1 DEF TypeOK
  <2> QED BY <2>1, <2>2 DEF TimerAlive
<1>3. CASE m_bRunning /\ ~ \E u \in Callers : call[u] \in Starting
  BY <1>3 DEF TimerAlive
<1> QED BY <1>1, <1>2, <1>3

\* Start by any thread.
LEMMA StartKeeps ==
  ASSUME Inv, NEW t \in Callers, Start(t)
  PROVE  Inv'
<1> USE DEF Inv
<1>1. CASE start_check(t)
  <2>1. PICK place \in {"none", "start_set"} : call' = [call EXCEPT ![t] = place]
    BY <1>1 DEF start_check, Goes
  <2>2. place \in Places /\ call[t] \notin Starting
    BY <1>1 DEF start_check, MayCall, Places, Starting
  <2>3. /\ UNCHANGED <<m_bRunning, interrupted, groupRunning, ioStopped, m_initNumbers, queue, at>>
        /\ timerCalls' = timerCalls + 1
    BY <1>1 DEF start_check, group
  <2>4. TypeOK'
    BY <2>1, <2>2, <2>3 DEF TypeOK
  <2> QED BY <2>1, <2>2, <2>3, <2>4, CallerKeeps
<1>2. CASE start_set(t)
  <2>1. m_bRunning' \in BOOLEAN
    BY <1>2, Zenon DEF start_set
  <2>2. /\ UNCHANGED <<interrupted, groupRunning, ioStopped, m_initNumbers, queue, at, timerCalls>>
        /\ call' = [call EXCEPT ![t] = "start_reset"]
    BY <1>2 DEF start_set, Goes, group
  <2>3. call' \in [Callers -> Places] /\ call'[t] \in Starting
    BY <2>2 DEF TypeOK, Places, Starting
  <2> QED BY <2>1, <2>2, <2>3 DEF TypeOK, TimerAlive
<1>3. CASE start_reset(t)
  <2>1. interrupted' \in BOOLEAN
    BY <1>3, Zenon DEF start_reset
  <2>2. /\ UNCHANGED <<m_bRunning, groupRunning, ioStopped, m_initNumbers, queue, at, timerCalls>>
        /\ call' = [call EXCEPT ![t] = "start_group"]
    BY <1>3 DEF start_reset, Goes, group
  <2>3. "start_group" \in Starting /\ "start_group" \in Places
    BY DEF Starting, Places
  <2>4. TypeOK'
    BY <2>1, <2>2, <2>3 DEF TypeOK
  <2> QED BY <2>2, <2>3, <2>4, CallerKeeps
<1>4. CASE start_group(t) \/ start_wait(t)
  <2>1. /\ UNCHANGED <<m_bRunning, interrupted, groupRunning, ioStopped, m_initNumbers, queue, at, timerCalls>>
        /\ call' = [call EXCEPT ![t] = "start_post"]
    BY <1>4 DEF start_group, start_wait, Goes, group
  <2>2. "start_post" \in Starting /\ "start_post" \in Places
    BY DEF Starting, Places
  <2>3. TypeOK'
    BY <2>1, <2>2 DEF TypeOK
  <2> QED BY <2>1, <2>2, <2>3, CallerKeeps
<1>5. CASE start_threads(t)
  <2>1. groupRunning' \in BOOLEAN
    BY <1>5, Zenon DEF start_threads
  <2>2. /\ UNCHANGED <<m_bRunning, interrupted, ioStopped, m_initNumbers, queue, timerCalls>>
        /\ call' = [call EXCEPT ![t] = "start_wait"] /\ at' = [at EXCEPT ![Second] = "new"]
    BY <1>5 DEF start_threads, Goes, Run
  <2>3. "start_wait" \in Starting /\ "start_wait" \in Places
    BY DEF Starting, Places
  <2>4. TypeOK'
    BY <2>1, <2>2, <2>3 DEF TypeOK, TimerThreads
  <2>5. call'[t] \in Starting
    BY <2>2, <2>3 DEF TypeOK
  <2> QED BY <2>4, <2>5 DEF TimerAlive
<1>6. CASE start_post(t)
  <2>1. /\ UNCHANGED <<m_bRunning, interrupted, groupRunning, ioStopped, m_initNumbers, at, timerCalls>>
        /\ queue' = queue + 1 /\ call' = [call EXCEPT ![t] = "none"]
    BY <1>6 DEF start_post, Goes, group
  <2> QED BY <2>1 DEF TypeOK, TimerAlive, Places
<1> QED BY <1>1, <1>2, <1>3, <1>4, <1>5, <1>6 DEF Start, StartSteps

\* Stop by any thread, and the interrupt of the destructor.
LEMMA StopKeeps ==
  ASSUME Inv, NEW t \in Callers, TimerStop(t)
  PROVE  Inv'
<1> USE DEF Inv
<1>1. CASE stop_set(t)
  <2>1. m_bRunning' \in BOOLEAN
    BY <1>1, Zenon DEF stop_set
  <2>2. ~ m_bRunning'
    BY <1>1 DEF stop_set
  <2>3. /\ UNCHANGED <<interrupted, groupRunning, ioStopped, m_initNumbers, queue, at>>
        /\ timerCalls' = timerCalls + 1 /\ call' = [call EXCEPT ![t] = "stop_interrupt"]
    BY <1>1 DEF stop_set, Goes, group
  <2> QED BY <2>1, <2>2, <2>3 DEF TypeOK, TimerAlive, Places
<1>2. CASE stop_interrupt(t)
  <2>1. interrupted' \in BOOLEAN
    BY <1>2, Zenon DEF stop_interrupt
  <2>2. PICK place \in {"none", "group_stop"} : call' = [call EXCEPT ![t] = place]
    BY <1>2 DEF stop_interrupt, Goes
  <2>3. place \in Places /\ call[t] \notin Starting
    BY <1>2 DEF stop_interrupt, Starting, Places, Dying
  <2>4. UNCHANGED <<m_bRunning, groupRunning, ioStopped, m_initNumbers, queue, at, timerCalls>>
    BY <1>2 DEF stop_interrupt, group
  <2>5. TypeOK'
    BY <2>1, <2>2, <2>3, <2>4 DEF TypeOK
  <2> QED BY <2>2, <2>3, <2>4, <2>5, CallerKeeps
<1> QED BY <1>1, <1>2 DEF TimerStop

\* The destructor.
LEMMA DestructorKeeps ==
  ASSUME Inv, destroy \/ Destructor
  PROVE  Inv'
<1> USE DEF Inv
<1>1. Owner \in Callers
  BY TimerWorkerAssumption DEF Callers
<1>2. CASE destroy
  <2>1. m_bRunning' \in BOOLEAN
    BY <1>2, Zenon DEF destroy
  <2>2. ~ m_bRunning'
    BY <1>2 DEF destroy
  <2>3. /\ UNCHANGED <<interrupted, groupRunning, ioStopped, m_initNumbers, queue, at, timerCalls>>
        /\ call' = [call EXCEPT ![Owner] = "destroy_interrupt"]
    BY <1>2 DEF destroy, Goes, group
  <2> QED BY <1>1, <2>1, <2>2, <2>3 DEF TypeOK, TimerAlive, Places, Dying
<1>3. CASE Destructor
  <2>1. groupRunning' \in BOOLEAN /\ ioStopped' \in BOOLEAN
    <3>1. CASE group_stop
      BY <3>1, Zenon DEF group_stop, TypeOK
    <3>2. CASE io_stop
      BY <3>2, Zenon DEF io_stop, TypeOK
    <3>3. CASE join
      BY <3>3, Zenon DEF join, TypeOK
    <3> QED BY <1>3, <3>1, <3>2, <3>3 DEF Destructor
  <2>2. PICK place \in {"io_stop", "join", "destroyed"} : call' = [call EXCEPT ![Owner] = place]
    BY <1>3 DEF Destructor, group_stop, io_stop, join, Goes
  <2>3. place \in Places /\ call[Owner] \notin Starting
    BY <1>3 DEF Destructor, group_stop, io_stop, join, Places, Dying, Starting
  <2>4. UNCHANGED <<m_bRunning, interrupted, queue, at, timerCalls>> /\ m_initNumbers' \in Int
    BY <1>3 DEF Destructor, group_stop, io_stop, join, TypeOK
  <2>5. TypeOK'
    BY <1>1, <2>1, <2>2, <2>3, <2>4 DEF TypeOK
  <2> QED BY <1>1, <2>2, <2>3, <2>4, <2>5, CallerKeeps
<1> QED BY <1>2, <1>3

\* The group's threads.
LEMMA HandlerKeeps ==
  ASSUME Inv, NEW th \in TimerThreads, Handler(th)
  PROVE  Inv'
<1> USE DEF Inv, TypeOK, TimerAlive, group, Run, Busy
<1>1. CASE ThreadsRun_init(th)
  BY <1>1 DEF ThreadsRun_init
<1>2. CASE ThreadsRun(th)
  BY <1>2 DEF ThreadsRun
<1>3. CASE OnTimeout(th)
  BY <1>3 DEF OnTimeout
<1>4. CASE \E early \in BOOLEAN : Wait(th, early)
  BY <1>4 DEF Wait
<1>5. CASE workRoutine(th)
  BY <1>5 DEF workRoutine
<1>6. CASE Post(th)
  BY <1>6 DEF Post
<1> QED BY <1>1, <1>2, <1>3, <1>4, <1>5, <1>6 DEF Handler

\* The invariant holds for ever.
THEOREM TimerInvariant == TimerSpec => []Inv
<1>1. Inv /\ [TimerNext]_timerVars => Inv'
  <2> SUFFICES ASSUME Inv, [TimerNext]_timerVars PROVE Inv'
    OBVIOUS
  <2>1. CASE \E t \in Callers : Start(t) \/ TimerStop(t)
    BY <2>1, StartKeeps, StopKeeps
  <2>2. CASE destroy \/ Destructor
    BY <2>2, DestructorKeeps
  <2>3. CASE \E th \in TimerThreads : Handler(th)
    BY <2>3, HandlerKeeps
  <2>4. CASE UNCHANGED timerVars
    BY <2>4 DEF timerVars, group, Inv, TypeOK, TimerAlive
  <2> QED BY <2>1, <2>2, <2>3, <2>4 DEF TimerNext
<1> QED BY <1>1, InitInv, PTL DEF TimerSpec

\* A timer that says it runs has a handler posted, under way or about to be
\* posted, whatever Start and Stop calls raced with each other.
THEOREM TimerAliveAlways == TimerSpec => []TimerAlive
<1>1. Inv => TimerAlive
  BY DEF Inv
<1> QED BY <1>1, TimerInvariant, PTL

\* While nothing starts the timer during its destruction the group is stopped
\* by the destructor only and never gets its second thread.
LEMMA JoinedStep ==
  ASSUME ~ RestartInDestroy, TypeOK, Joined, [TimerNext]_timerVars
  PROVE  Joined'
<1> USE TimerWorkerAssumption DEF Joined, Destroying, group, Goes, Run
<1>1. Owner \in Callers /\ Owner \notin TimerThreads /\ Second \in TimerThreads /\ Worker \in TimerThreads
  BY DEF Callers, TimerThreads, Worker, Second
<1>2. Second # Worker /\ TimerThreads \subseteq Callers
  BY DEF Worker, Second, Callers
<1>3. ASSUME NEW t \in Callers, Start(t) \/ TimerStop(t) PROVE Joined'
  <2>1. ~ start_threads(t)
    BY DEF start_threads, Dying
  <2>2. at' = at /\ groupRunning' = groupRunning
    BY <1>3, <2>1 DEF Start, StartSteps, TimerStop, start_check, start_set, start_reset, start_group,
       start_wait, start_post, stop_set, stop_interrupt
  <2>3. PICK place : call' = [call EXCEPT ![t] = place]
    BY <1>3 DEF Start, StartSteps, TimerStop, start_check, start_set, start_reset, start_group,
       start_threads, start_wait, start_post, stop_set, stop_interrupt
  <2>4. CASE Destroying
    <3>1. t = Owner
      BY <1>3, <2>4 DEF Start, StartSteps, TimerStop, start_check, start_set, start_reset, start_group,
         start_threads, start_wait, start_post, stop_set, stop_interrupt, MayCall
    <3>2. call[t] = "destroy_interrupt" /\ call' = [call EXCEPT ![t] = "group_stop"]
      BY <1>1, <1>3, <2>4, <3>1 DEF Start, StartSteps, TimerStop, start_check, start_set, start_reset,
         start_group, start_threads, start_wait, start_post, stop_set, stop_interrupt, MayCall, Dying
    <3> QED BY <1>1, <2>2, <2>4, <3>1, <3>2 DEF TypeOK
  <2>5. CASE ~ Destroying
    <3>1. t = Owner => place \notin Dying
      BY <1>1, <1>3, <2>3, <2>5 DEF Start, StartSteps, TimerStop, start_check, start_set, start_reset,
         start_group, start_threads, start_wait, start_post, stop_set, stop_interrupt, Dying, TypeOK
    <3>2. call'[Owner] \notin Dying
      BY <1>1, <2>3, <2>5, <3>1 DEF TypeOK
    <3> QED BY <2>2, <2>5, <3>2 DEF Dying
  <2> QED BY <2>4, <2>5
<1>4. CASE destroy
  BY <1>1, <1>4 DEF destroy, Callers, TypeOK, Dying
<1>5. CASE Destructor
  BY <1>1, <1>5 DEF Destructor, group_stop, io_stop, join, TypeOK, Dying
<1>6. ASSUME NEW th \in TimerThreads, Handler(th) PROVE Joined'
  <2>1. call' = call /\ groupRunning' = groupRunning
    BY <1>6 DEF Handler, ThreadsRun_init, ThreadsRun, OnTimeout, Wait, workRoutine, Post
  <2>2. at[th] \notin {"none", "ended"} /\ \E p : at' = [at EXCEPT ![th] = p]
    BY <1>6 DEF Handler, ThreadsRun_init, ThreadsRun, OnTimeout, Wait, workRoutine, Post
  <2> QED BY <1>1, <1>2, <2>1, <2>2 DEF TypeOK
<1>7. CASE UNCHANGED timerVars
  BY <1>7 DEF timerVars
<1> QED BY <1>3, <1>4, <1>5, <1>6, <1>7 DEF TimerNext

\* The destructor leaves no handler behind, unless the work routine starts the
\* timer again in the meantime.
THEOREM NoHandlerAfterDestroyAlways ==
  ASSUME ~ RestartInDestroy
  PROVE  TimerSpec => []NoHandlerAfterDestroy
<1>1. TimerInit => Joined
  BY TimerWorkerAssumption DEF TimerInit, Joined, Destroying, Dying, Callers, TimerThreads, Worker, Second
<1>2. Inv => TypeOK
  BY DEF Inv
<1>3. TypeOK /\ Joined => NoHandlerAfterDestroy
  BY DEF Joined, NoHandlerAfterDestroy, TimerThreads
<1>4. TypeOK /\ Joined /\ [TimerNext]_timerVars => Joined'
  BY JoinedStep
<1> QED BY <1>1, <1>2, <1>3, <1>4, TimerInvariant, PTL DEF TimerSpec

-----------------------------------------------------------------------------
(* The heartbeat, when the clock runs and no pong comes between            *)
(* AutoConnect's two reads: the wrapped difference is the real age of the  *)
(* last pong, so no restart is spurious and none is missed.                *)

Numbers ==
  /\ now \in U32 /\ m_lastpong \in U32 /\ nowtick \in U32
  /\ age \in U32 /\ sinceRead \in Nat
  /\ m_heartbeatInterval \in Nat /\ m_heartbeatDelay \in Nat
  /\ m_heartbeatInterval + m_heartbeatDelay < TickMod

\* The wrapped differences are real ages, of now and of the tick AutoConnect
\* has read.
Ages ==
  /\ Minus(now, m_lastpong) = age
  /\ reading => Minus(nowtick, m_lastpong) = age - sinceRead

HInv == Numbers /\ Ages /\ NoSpuriousReset /\ SilenceNoticed

\* A setting gives two tick counts whose sum does not wrap.
LEMMA SettingFits ==
  ASSUME NEW s \in Settings
  PROVE  /\ s[1] * PerSecond \in Nat /\ s[2] * PerSecond \in Nat
         /\ s[1] * PerSecond + s[2] * PerSecond < TickMod
<1>1. s[1] \in Nat /\ s[2] \in Nat /\ PerSecond \in Nat
  BY HeartbeatAssumption
<1>2. \A a, b \in Nat : a * b \in Nat
  OBVIOUS
<1> QED BY <1>1, <1>2, HeartbeatAssumption

\* The sum of the two settings is computed without wrapping.
LEMMA LimitExact == Numbers => Limit = m_heartbeatInterval + m_heartbeatDelay
BY DEF Numbers, Limit, Plus

LEMMA InitHInv == ~ Frozen /\ HeartbeatInit => HInv
<1> SUFFICES ASSUME ~ Frozen, HeartbeatInit PROVE HInv
  OBVIOUS
<1>1. PICK s \in Settings : /\ m_heartbeatInterval = s[1] * PerSecond
                            /\ m_heartbeatDelay = s[2] * PerSecond
  BY DEF HeartbeatInit
<1>2. /\ m_heartbeatInterval \in Nat /\ m_heartbeatDelay \in Nat
      /\ m_heartbeatInterval + m_heartbeatDelay < TickMod
  BY <1>1, SettingFits
<1>3. now \in U32 /\ m_lastpong = now /\ age = 0 /\ nowtick = 0 /\ sinceRead = 0
  BY DEF HeartbeatInit
<1>4. ~ reading /\ ~ settled /\ ~ spurious
  BY DEF HeartbeatInit
<1> QED BY <1>2, <1>3, <1>4, HeartbeatAssumption
        DEF HInv, Numbers, Ages, Minus, U32, NoSpuriousReset, SilenceNoticed

\* One step per action.
LEMMA NextHInv == ~ Frozen /\ ~ Race /\ HInv /\ [HeartbeatNext]_heartbeatVars => HInv'
<1> SUFFICES ASSUME ~ Frozen, ~ Race, HInv, [HeartbeatNext]_heartbeatVars PROVE HInv'
  OBVIOUS
<1> USE HeartbeatAssumption DEF HInv
<1>1. CASE tick
  <2>1. /\ now' = Plus(now, 1) /\ age' = age + 1 /\ sinceRead' = sinceRead + 1
        /\ age < TickMod - 1 /\ m_lastpong' = m_lastpong /\ nowtick' = nowtick
        /\ m_heartbeatInterval' = m_heartbeatInterval
        /\ m_heartbeatDelay' = m_heartbeatDelay
    BY <1>1 DEF tick, conf
  <2>2. reading' = reading /\ settled' = settled /\ spurious' = spurious
    BY <1>1 DEF tick
  <2>3. Numbers'
    BY <2>1 DEF Numbers, Plus, U32
  <2>4. Ages'
    BY <2>1, <2>2 DEF Numbers, Ages, Plus, Minus, U32
  <2> QED BY <2>1, <2>2, <2>3, <2>4 DEF Numbers, NoSpuriousReset, SilenceNoticed, U32
<1>2. CASE UpdateLastPong
  <2>1. /\ m_lastpong' = now /\ age' = 0 /\ now' = now /\ nowtick' = nowtick
        /\ sinceRead' = sinceRead
        /\ m_heartbeatInterval' = m_heartbeatInterval
        /\ m_heartbeatDelay' = m_heartbeatDelay
    BY <1>2 DEF UpdateLastPong, conf
  <2>2. ~ reading' /\ settled' = settled /\ spurious' = spurious
    BY <1>2 DEF UpdateLastPong
  <2> QED BY <2>1, <2>2 DEF Numbers, Ages, Minus, NoSpuriousReset, SilenceNoticed, U32
<1>3. ASSUME NEW s \in Settings, SetHeartbeatIntervalTime(s) PROVE HInv'
  <2>1. /\ m_lastpong' = m_lastpong /\ age' = age /\ now' = now /\ nowtick' = nowtick
        /\ sinceRead' = sinceRead
        /\ m_heartbeatInterval' = s[1] * PerSecond
        /\ m_heartbeatDelay' = s[2] * PerSecond
    BY <1>3 DEF SetHeartbeatIntervalTime, Configured, clock
  <2>2. ~ settled' /\ reading' = reading /\ spurious' = spurious
    BY <1>3 DEF SetHeartbeatIntervalTime
  <2>3. Numbers'
    BY <2>1, SettingFits DEF Numbers
  <2> QED BY <2>1, <2>2, <2>3 DEF Ages, Minus, NoSpuriousReset, SilenceNoticed
<1>4. CASE readTick
  <2>1. /\ m_lastpong' = m_lastpong /\ age' = age /\ now' = now /\ nowtick' = now
        /\ sinceRead' = 0
        /\ m_heartbeatInterval' = m_heartbeatInterval
        /\ m_heartbeatDelay' = m_heartbeatDelay
    BY <1>4 DEF readTick, clock, conf
  <2>2. reading' /\ spurious' = spurious
    BY <1>4 DEF readTick
  <2> QED BY <2>1, <2>2 DEF Numbers, Ages, Minus, NoSpuriousReset, SilenceNoticed, U32
<1>5. CASE decide
  <2>1. /\ now' = now /\ nowtick' = nowtick /\ sinceRead' = sinceRead
        /\ m_heartbeatInterval' = m_heartbeatInterval
        /\ m_heartbeatDelay' = m_heartbeatDelay
    BY <1>5 DEF decide, conf
  <2>2. reading /\ ~ reading' /\ settled' = settled
    BY <1>5 DEF decide
  <2>3. /\ Limit = m_heartbeatInterval + m_heartbeatDelay
        /\ Minus(nowtick, m_lastpong) = age - sinceRead
    BY <2>2, LimitExact DEF Ages
  <2>4. CASE Overdue
    <3>1. age >= Limit /\ m_heartbeatInterval > 0
      BY <2>3, <2>4 DEF Overdue, Numbers, U32
    <3>2. m_lastpong' = now /\ age' = 0
      BY <1>5, <2>4 DEF decide
    <3>3. ~ (age < Limit)
      BY <2>3, <3>1 DEF Numbers, U32
    <3>4. ~ spurious'
      BY <1>5, <2>4, <3>3 DEF decide, NoSpuriousReset
    <3> QED BY <2>1, <2>2, <3>1, <3>2, <3>4
            DEF Numbers, Ages, Minus, NoSpuriousReset, SilenceNoticed, U32
  <2>5. CASE ~ Overdue
    <3>1. m_heartbeatInterval > 0 => age < m_heartbeatInterval + m_heartbeatDelay + sinceRead
      BY <2>3, <2>5 DEF Overdue, Numbers, U32
    <3>2. m_lastpong' = m_lastpong /\ age' = age /\ spurious' = spurious
      BY <1>5, <2>5 DEF decide
    <3> QED BY <2>1, <2>2, <3>1, <3>2
            DEF Numbers, Ages, Minus, NoSpuriousReset, SilenceNoticed
  <2> QED BY <2>4, <2>5
<1>6. CASE UNCHANGED heartbeatVars
  BY <1>6 DEF heartbeatVars, clock, conf, Numbers, Ages, Minus, NoSpuriousReset, SilenceNoticed
<1> QED BY <1>1, <1>2, <1>3, <1>4, <1>5, <1>6 DEF HeartbeatNext

\* With a clock that runs and no pong between the two reads, AutoConnect never
\* restarts a client whose last reply is younger than interval + delay,
\* wherever the counter wraps.
THEOREM HeartbeatNotSpurious ==
  ASSUME ~ Frozen, ~ Race
  PROVE  HeartbeatSpec => []NoSpuriousReset
<1>1. HInv => NoSpuriousReset
  BY DEF HInv
<1>2. HeartbeatInit => HInv
  BY InitHInv
<1>3. HInv /\ [HeartbeatNext]_heartbeatVars => HInv'
  BY NextHInv
<1> QED BY <1>1, <1>2, <1>3, PTL DEF HeartbeatSpec

\* Under the same assumptions a silence longer than interval + delay leads to a
\* restart at the next look.
THEOREM HeartbeatNoticesSilence ==
  ASSUME ~ Frozen, ~ Race
  PROVE  HeartbeatSpec => []SilenceNoticed
<1>1. HInv => SilenceNoticed
  BY DEF HInv
<1>2. HeartbeatInit => HInv
  BY InitHInv
<1>3. HInv /\ [HeartbeatNext]_heartbeatVars => HInv'
  BY NextHInv
<1> QED BY <1>1, <1>2, <1>3, PTL DEF HeartbeatSpec
=============================================================================
