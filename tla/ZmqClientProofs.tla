--------------------------- MODULE ZmqClientProofs ---------------------------
(***************************************************************************)
(* ClientSafe for any number of senders, calls, callbacks and poll         *)
(* threads, as long as Reset overlaps neither AutoConnect nor SendData.    *)
(***************************************************************************)
EXTENDS ZmqClient, FiniteSetTheorems, TLAPS

\* The threads that may start a poll thread: a callback on the poll thread
\* itself never does, for Init finds that thread still there.
Callers == {User, Timer}

InPoll  == {"unborn", "start", "setup", "run", "state", "loop", "body", "drain", "finish", "ended"}
InStop  == {"stop_run", "stop_state", "stop_front", "stop_check", "stop_join", "stop_identity"}
InInit  == {"init_check", "init_timer", "init_thread", "init_wait"}
Resets  == InStop \cup InInit
PollPc  == InPoll \cup {"stop_run", "stop_state", "stop_front", "stop_check", "stop_identity", "init_check"}
SetupPc == {"start", "setup", "run", "state"}

ClientTypeOK ==
  /\ m_transportState \in -1 .. 3 /\ m_autoConnectTimer \in BOOLEAN /\ joined \subseteq Polls
  /\ m_recvthread \in 0 .. MaxPolls
  /\ pc \in [Threads -> {"idle"} \cup InPoll \cup Resets]
  /\ reset \in [Threads -> {"none", "restart", "stop"}]
  /\ home \in [Threads -> {"idle", "body", "drain"}] /\ joining \in [Threads -> 0 .. MaxPolls]
  /\ spc \in [Senders -> {"idle", "front", "send"}] /\ front \in [Senders -> -1 .. MaxPolls]
  /\ m_inprocAddress \in 0 .. MaxPolls

\* The last poll thread that was started has ended, or there is none.
Ended == m_recvthread # 0 => pc[Poll(m_recvthread)] = "ended"

\* Poll threads are started one after the other, each after the one before has
\* ended.
OneByOne ==
  \A n \in Polls : /\ n > m_recvthread <=> pc[Poll(n)] = "unborn"
                   /\ n < m_recvthread => pc[Poll(n)] = "ended"
                   /\ n \in joined => pc[Poll(n)] = "ended"

\* Where a poll thread can be.  While it sets up its sockets, the thread that
\* started it waits for the state to change.
PollPlaces ==
  \A n \in Polls :
    /\ pc[Poll(n)] \in PollPc
    /\ pc[Poll(n)] \notin {"unborn", "start", "ended"} => m_recvPollThreadid = n
    /\ pc[Poll(n)] \in Resets => home[Poll(n)] \in {"body", "drain"}
    /\ pc[Poll(n)] \in SetupPc => m_transportState = UNDEFINE /\ \E t \in Callers : pc[t] = "init_wait"

\* Where the application and the timer can be, one of them at a time.
CallerPlaces ==
  /\ pc[User] = "idle" \/ pc[Timer] = "idle"
  /\ \A t \in Callers :
       /\ pc[t] \in {"idle"} \cup Resets /\ home[t] = "idle"
       /\ pc[t] \in InInit => reset[t] = "restart"
       /\ pc[t] = "stop_join" => joining[t] = m_recvthread /\ m_recvthread # 0
       /\ pc[t] \in {"stop_identity", "init_check", "init_timer", "init_thread"} => Ended
       /\ pc[t] = "init_thread" => m_transportState = UNDEFINE

\* After Reset () the timer is off and stays off.
Stopped ==
  /\ reset[User] = "stop" => /\ ~ m_autoConnectTimer /\ pc[Timer] = "idle"
                             /\ pc[User] = "idle" => Ended
  /\ Ended => m_transportState < TRANSPORTING

\* Nobody sends during a Reset, and a front socket leads to the back socket that
\* was bound last.
Fronts ==
  /\ (\E t \in Threads : pc[t] \in Resets) => \A s \in Senders : spc[s] = "idle"
  /\ \A s \in Senders : /\ front[s] \in {Null, 0, m_inprocAddress}
                        /\ spc[s] = "send" => front[s] = m_inprocAddress
  /\ \A t \in Callers : pc[t] \in {"stop_check", "stop_join", "stop_identity"} \cup InInit =>
                          \A s \in Senders : front[s] = 0

ClientInv == ClientTypeOK /\ OneByOne /\ PollPlaces /\ CallerPlaces /\ Stopped /\ Fronts
\* What the steps below use of the threads' names.
LEMMA ThreadFacts ==
  /\ User \in Threads /\ Timer \in Threads /\ \A n \in Polls : Poll(n) \in Threads
  /\ User # Timer /\ \A n \in Polls : Poll(n) # User /\ Poll(n) # Timer
  /\ \A m, n \in Polls : Poll(m) = Poll(n) => m = n
  /\ \A t \in Threads : t = User \/ t = Timer \/ \E n \in Polls : t = Poll(n)
BY DEF Threads, User, Timer, Poll

\* Reset is the calls of Stop and Init.
LEMMA InResetIs == \A t : InReset(t) <=> pc[t] \in Resets
BY DEF InReset, Resets, InStop, InInit

\* Poll threads are numbered in the order of their start.
LEMMA StartedCount ==
  ASSUME ClientInv
  PROVE  Started = 1 .. m_recvthread /\ Cardinality(Started) = m_recvthread
<1>1. m_recvthread \in 0 .. MaxPolls /\ OneByOne /\ MaxPolls \in Nat
  BY ZmqClientAssumption DEF ClientInv, ClientTypeOK
<1>2. Started = 1 .. m_recvthread
  BY <1>1 DEF Started, OneByOne, Polls
<1>3. Cardinality(1 .. m_recvthread) = m_recvthread
  BY <1>1, FS_Interval
<1> QED
  BY <1>2, <1>3

\* The checked property follows.
LEMMA ClientInvSafe == ClientInv => ClientSafe
<1> SUFFICES ASSUME ClientInv PROVE ClientSafe
  OBVIOUS
<1>0. ClientTypeOK /\ OneByOne /\ Stopped /\ Fronts /\ CallerPlaces
  BY DEF ClientInv
<1>1. m_recvthread \in 0 .. MaxPolls /\ MaxPolls \in Nat
  BY <1>0, ZmqClientAssumption DEF ClientTypeOK
<1>2. Running \subseteq {m_recvthread}
  BY <1>0, <1>1 DEF Running, OneByOne, Polls
<1>3. OnePollThread
  <2>1. IsFiniteSet({m_recvthread}) /\ Cardinality({m_recvthread}) = 1
    BY FS_Singleton
  <2>2. Cardinality(Running) <= Cardinality({m_recvthread})
    BY <1>2, <2>1, FS_Subset
  <2> QED
    BY <2>1, <2>2 DEF OnePollThread
<1>4. StoppedMeansStopped
  <2> SUFFICES ASSUME pc[User] = "idle", reset[User] = "stop" PROVE Running = {} /\ m_transportState < TRANSPORTING
    BY DEF StoppedMeansStopped
  <2>1. Ended /\ m_transportState < TRANSPORTING
    BY <1>0 DEF Stopped
  <2>2. ASSUME NEW n \in Running PROVE FALSE
    BY <1>2, <2>1 DEF Running, Ended, Polls
  <2> QED
    BY <2>1, <2>2
<1>5. FrontsCurrent
  BY <1>0 DEF Fronts, FrontsCurrent
<1> QED
  BY <1>3, <1>4, <1>5 DEF ClientSafe

LEMMA InitClient == Init => ClientInv
<1> SUFFICES ASSUME Init PROVE ClientInv
  OBVIOUS
<1>1. MaxPolls \in Nat /\ Polls = 1 .. MaxPolls
  BY ZmqClientAssumption DEF Polls
<1>2. /\ pc \in [Threads -> {"idle", "unborn"}] /\ pc[User] = "idle" /\ pc[Timer] = "idle"
      /\ \A n \in Polls : pc[Poll(n)] = "unborn"
  BY ThreadFacts DEF Init
<1>3. ClientTypeOK
  <2>1. reset \in [Threads -> {"none", "restart", "stop"}] /\ home \in [Threads -> {"idle", "body", "drain"}]
    BY DEF Init
  <2>2. joining \in [Threads -> 0 .. MaxPolls] /\ 0 \in 0 .. MaxPolls
    BY <1>1 DEF Init
  <2>3. spc \in [Senders -> {"idle", "front", "send"}] /\ front \in [Senders -> -1 .. MaxPolls]
    BY <2>2 DEF Init
  <2>4. pc \in [Threads -> {"idle"} \cup InPoll \cup Resets]
    BY <1>2 DEF InPoll
  <2>5. m_transportState \in -1 .. 3 /\ (m_autoConnectTimer \in BOOLEAN) /\ joined \subseteq Polls
    <3>1. m_transportState = 0 /\ m_autoConnectTimer = FALSE /\ joined = {}
      BY DEF Init, UNDEFINE
    <3>2. 0 \in -1 .. 3
      OBVIOUS
    <3> QED
      BY <3>1, <3>2
  <2>6. m_recvthread \in 0 .. MaxPolls /\ m_inprocAddress \in 0 .. MaxPolls
    BY <1>1 DEF Init
  <2> QED
    BY <2>1, <2>2, <2>3, <2>4, <2>5, <2>6 DEF ClientTypeOK
<1>4. OneByOne /\ PollPlaces
  <2>1. OneByOne
    BY <1>1, <1>2 DEF Init, OneByOne
  <2>2. PollPlaces
    BY <1>2 DEF PollPlaces, PollPc, InPoll, Resets, InStop, InInit, SetupPc
  <2> QED
    BY <2>1, <2>2
<1>5. CallerPlaces /\ Stopped
  BY <1>2, ThreadFacts DEF Init, CallerPlaces, Stopped, Ended, Callers, Resets, InStop, InInit, UNDEFINE, TRANSPORTING
<1>6. Fronts
  BY <1>2 DEF Init, Fronts, Callers, InInit
<1> QED
  BY <1>3, <1>4, <1>5, <1>6 DEF ClientInv
\* A step of a poll thread: in RecvPoll, in a callback or in the Reset that a
\* callback calls.
LEMMA PollStep ==
  ASSUME ClientInv, NEW n \in Polls, pc[Poll(n)] \notin {"unborn", "ended"},
         NEW l \in PollPc \ {"unborn", "start"}, pc' = [pc EXCEPT ![Poll(n)] = l],
         m_recvPollThreadid' = n, m_transportState' \in -1 .. 3,
         l \in SetupPc => pc[Poll(n)] \in SetupPc /\ m_transportState' = m_transportState,
         l = "ended" => m_transportState' < TRANSPORTING,
         l \in Resets => home'[Poll(n)] \in {"body", "drain"} /\ \A s \in Senders : spc[s] = "idle",
         home' \in [Threads -> {"idle", "body", "drain"}], reset' \in [Threads -> {"none", "restart", "stop"}],
         \A t \in Callers : home'[t] = home[t] /\ reset'[t] = reset[t],
         m_inprocAddress' \in 0 .. MaxPolls, m_inprocAddress' = m_inprocAddress \/ pc[Poll(n)] = "setup",
         front' = front \/ (l \in Resets /\ front' = [s \in Senders |-> 0]),
         UNCHANGED <<m_recvthread, m_autoConnectTimer, joined, joining, spc>>
  PROVE  ClientInv'
<1>0. ClientTypeOK /\ OneByOne /\ PollPlaces /\ CallerPlaces /\ Stopped /\ Fronts
  BY DEF ClientInv
<1>1. MaxPolls \in Nat /\ n \in Nat \ {0} /\ n <= MaxPolls /\ m_recvthread \in Nat
  BY <1>0, ZmqClientAssumption DEF Polls, ClientTypeOK
<1>2. m_recvthread = n /\ n \notin joined
  BY <1>0, <1>1 DEF OneByOne
<1>3. \A u \in Threads : pc'[u] = IF u = Poll(n) THEN l ELSE pc[u]
  BY <1>0, ThreadFacts DEF ClientTypeOK
<1>4. /\ pc'[Poll(n)] = l /\ pc'[User] = pc[User] /\ pc'[Timer] = pc[Timer]
      /\ \A k \in Polls : k # n => pc'[Poll(k)] = pc[Poll(k)] /\ pc[Poll(k)] \in {"unborn", "ended"}
  <2>1. \A k \in Polls : k # n => pc[Poll(k)] \in {"unborn", "ended"}
    BY <1>0, <1>1, <1>2 DEF OneByOne, Polls
  <2> QED
    BY <1>3, <2>1, ThreadFacts
<1>5. ~ Ended
  BY <1>1, <1>2 DEF Ended
<1>6. ClientTypeOK'
  <2>1. pc' \in [Threads -> {"idle"} \cup InPoll \cup Resets]
    BY <1>0 DEF ClientTypeOK, PollPc, Resets, InStop, InInit
  <2>2. front' \in [Senders -> -1 .. MaxPolls]
    BY <1>0, <1>1 DEF ClientTypeOK
  <2> QED
    BY <1>0, <2>1, <2>2 DEF ClientTypeOK
<1>7. OneByOne'
  <2>1. \A k \in Polls : k # n => /\ k > m_recvthread <=> pc'[Poll(k)] = "unborn"
                                  /\ k < m_recvthread => pc'[Poll(k)] = "ended"
                                  /\ k \in joined => pc'[Poll(k)] = "ended"
    BY <1>0, <1>4 DEF OneByOne
  <2> QED
    BY <1>1, <1>2, <1>4, <2>1 DEF OneByOne
<1>8. PollPlaces'
  <2>1. ASSUME NEW k \in Polls, k # n
        PROVE  pc'[Poll(k)] \in {"unborn", "ended"}
    BY <1>4, <2>1
  <2>2. l \in SetupPc => m_transportState' = UNDEFINE /\ \E t \in Callers : pc'[t] = "init_wait"
    BY <1>0, <1>4 DEF PollPlaces, Callers
  <2> QED
    BY <1>4, <2>1, <2>2 DEF PollPlaces, PollPc, InPoll, Resets, InStop, InInit, SetupPc
<1>9. CallerPlaces'
  BY <1>0, <1>4, <1>5 DEF CallerPlaces, Callers
<1>10. Stopped'
  BY <1>0, <1>1, <1>2, <1>4, <1>5 DEF Stopped, Ended, Callers
<1>11. Fronts'
  <2>1. (\E t \in Threads : pc'[t] \in Resets) => \A s \in Senders : spc[s] = "idle"
    BY <1>0, <1>3 DEF Fronts
  <2>2. \A t \in Callers : pc'[t] \in {"stop_check", "stop_join", "stop_identity"} \cup InInit =>
                             \A s \in Senders : front'[s] = 0
    BY <1>0, <1>4 DEF Fronts, Callers
  <2>3. \A s \in Senders : /\ front'[s] \in {Null, 0, m_inprocAddress'}
                           /\ spc[s] = "send" => front'[s] = m_inprocAddress'
    <3>1. CASE pc[Poll(n)] = "setup"
      <4>1. PICK t \in Callers : pc[t] = "init_wait"
        BY <1>0, <3>1 DEF PollPlaces, SetupPc
      <4>2. t \in Threads /\ pc[t] \in Resets /\ pc[t] \in InInit
        BY <4>1, ThreadFacts DEF Callers, Resets, InInit
      <4>3. \A s \in Senders : front[s] = 0 /\ spc[s] = "idle"
        BY <1>0, <4>1, <4>2 DEF Fronts
      <4> QED
        BY <4>3
    <3>2. CASE m_inprocAddress' = m_inprocAddress
      BY <1>0, <3>2 DEF Fronts
    <3> QED
      BY <3>1, <3>2
  <2> QED
    BY <2>1, <2>2, <2>3 DEF Fronts
<1> QED
  BY <1>6, <1>7, <1>8, <1>9, <1>10, <1>11 DEF ClientInv
\* A step of the application or the timer in Reset that starts no thread, while
\* the other one is not in Reset.
LEMMA CallerStep ==
  ASSUME ClientInv, NEW t \in Callers, \A u \in Callers : u # t => pc[u] = "idle",
         NEW l \in {"idle"} \cup Resets, pc' = [pc EXCEPT ![t] = l],
         l \in Resets => \A s \in Senders : spc[s] = "idle",
         pc[t] = "init_wait" => m_transportState # UNDEFINE, m_transportState' \in {m_transportState, UNDEFINE},
         joined' \subseteq Polls, \A n \in joined' : pc[Poll(n)] = "ended",
         joining' \in [Threads -> 0 .. MaxPolls], reset' \in [Threads -> {"none", "restart", "stop"}],
         \A u \in Callers : u # t => joining'[u] = joining[u] /\ reset'[u] = reset[u],
         l = "stop_join" => joining'[t] = m_recvthread /\ m_recvthread # 0,
         l \in {"stop_identity", "init_check", "init_timer", "init_thread"} => Ended,
         l \in InInit => reset'[t] = "restart", l = "init_thread" => m_transportState' = UNDEFINE,
         front' = front \/ (l \in Resets /\ front' = [s \in Senders |-> 0]),
         l \in {"stop_check", "stop_join", "stop_identity"} \cup InInit => \A s \in Senders : front'[s] = 0,
         m_autoConnectTimer' \in BOOLEAN,
         reset'[User] = "stop" => ~ m_autoConnectTimer' /\ t = User /\ (l = "idle" => Ended),
         UNCHANGED <<m_recvPollThreadid, m_recvthread, m_inprocAddress, home, spc>>
  PROVE  ClientInv'
<1>0. ClientTypeOK /\ OneByOne /\ PollPlaces /\ CallerPlaces /\ Stopped /\ Fronts
  BY DEF ClientInv
<1>1. t \in Threads /\ \A n \in Polls : Poll(n) # t
  BY ThreadFacts DEF Callers
<1>2. \A u \in Threads : pc'[u] = IF u = t THEN l ELSE pc[u]
  BY <1>0, <1>1 DEF ClientTypeOK
<1>3. \A n \in Polls : pc'[Poll(n)] = pc[Poll(n)]
  BY <1>1, <1>2, ThreadFacts
<1>4. \A u \in Callers : pc'[u] = IF u = t THEN l ELSE "idle"
  BY <1>2, ThreadFacts DEF Callers
<1>5. Ended' <=> Ended
  <2>1. m_recvthread # 0 => m_recvthread \in Polls
    BY <1>0, ZmqClientAssumption DEF ClientTypeOK, Polls
  <2> QED
    BY <1>3, <2>1 DEF Ended
<1>6. ClientTypeOK'
  <2>1. pc' \in [Threads -> {"idle"} \cup InPoll \cup Resets]
    BY <1>0 DEF ClientTypeOK
  <2>2. front' \in [Senders -> -1 .. MaxPolls]
    BY <1>0, ZmqClientAssumption DEF ClientTypeOK
  <2>3. m_transportState' \in -1 .. 3
    BY <1>0 DEF ClientTypeOK, UNDEFINE
  <2> QED
    BY <1>0, <2>1, <2>2, <2>3 DEF ClientTypeOK
<1>7. OneByOne'
  BY <1>0, <1>3 DEF OneByOne
<1>8. PollPlaces'
  <2>1. ASSUME NEW n \in Polls, pc[Poll(n)] \in SetupPc
        PROVE  m_transportState' = UNDEFINE /\ \E u \in Callers : pc'[u] = "init_wait"
    <3>1. m_transportState = UNDEFINE /\ m_transportState' = UNDEFINE
      BY <1>0, <2>1 DEF PollPlaces
    <3>2. PICK u \in Callers : pc[u] = "init_wait"
      BY <1>0, <2>1 DEF PollPlaces
    <3>3. u = t
      BY <3>2
    <3> QED
      BY <3>1, <3>2, <3>3
  <2> QED
    BY <1>0, <1>3, <2>1 DEF PollPlaces
<1>9. CallerPlaces'
  <2>1. pc'[User] = "idle" \/ pc'[Timer] = "idle"
    BY <1>4, ThreadFacts DEF Callers
  <2>2. \A u \in Callers :
          /\ pc'[u] \in {"idle"} \cup Resets /\ home'[u] = "idle"
          /\ pc'[u] \in InInit => reset'[u] = "restart"
          /\ pc'[u] = "stop_join" => joining'[u] = m_recvthread /\ m_recvthread # 0
          /\ pc'[u] \in {"stop_identity", "init_check", "init_timer", "init_thread"} => Ended
          /\ pc'[u] = "init_thread" => m_transportState' = UNDEFINE
    BY <1>0, <1>4 DEF CallerPlaces, InInit
  <2> QED
    BY <1>5, <2>1, <2>2 DEF CallerPlaces
<1>10. Stopped'
  <2>1. ASSUME reset'[User] = "stop"
        PROVE  ~ m_autoConnectTimer' /\ pc'[Timer] = "idle" /\ (pc'[User] = "idle" => Ended)
    BY <1>4, <2>1, ThreadFacts DEF Callers
  <2>2. Ended => m_transportState' < TRANSPORTING
    BY <1>0 DEF Stopped, UNDEFINE, TRANSPORTING
  <2> QED
    BY <1>5, <2>1, <2>2 DEF Stopped
<1>11. Fronts'
  <2>1. (\E u \in Threads : pc'[u] \in Resets) => \A s \in Senders : spc[s] = "idle"
    BY <1>0, <1>2 DEF Fronts
  <2>2. ASSUME NEW u \in Callers, pc'[u] \in {"stop_check", "stop_join", "stop_identity"} \cup InInit
        PROVE  \A s \in Senders : front'[s] = 0
    BY <1>4, <2>2 DEF InInit
  <2>3. \A s \in Senders : /\ front'[s] \in {Null, 0, m_inprocAddress}
                           /\ spc[s] = "send" => front'[s] = m_inprocAddress
    BY <1>0 DEF Fronts
  <2> QED
    BY <2>1, <2>2, <2>3 DEF Fronts
<1> QED
  BY <1>6, <1>7, <1>8, <1>9, <1>10, <1>11 DEF ClientInv
\* What holds while the application or the timer is in Reset.
LEMMA CallerAlone ==
  ASSUME ClientInv, NEW t \in Callers, pc[t] \in Resets
  PROVE  /\ t \in Threads /\ home[t] = "idle" /\ \A u \in Callers : u # t => pc[u] = "idle"
         /\ \A s \in Senders : spc[s] = "idle"
         /\ reset[User] = "stop" => ~ m_autoConnectTimer /\ t = User
         /\ MaxPolls \in Nat /\ m_transportState \in -1 .. 3 /\ m_autoConnectTimer \in BOOLEAN
         /\ joined \subseteq Polls /\ \A n \in joined : pc[Poll(n)] = "ended"
         /\ joining \in [Threads -> 0 .. MaxPolls] /\ reset \in [Threads -> {"none", "restart", "stop"}]
         /\ m_recvthread \in 0 .. MaxPolls
<1>0. ClientTypeOK /\ OneByOne /\ CallerPlaces /\ Stopped /\ Fronts
  BY DEF ClientInv
<1>1. t \in Threads /\ pc[t] # "idle"
  BY ThreadFacts DEF Callers, Resets, InStop, InInit
<1>2. home[t] = "idle" /\ \A u \in Callers : u # t => pc[u] = "idle"
  BY <1>0, <1>1 DEF CallerPlaces, Callers
<1>3. reset[User] = "stop" => ~ m_autoConnectTimer /\ t = User
  BY <1>0, <1>1 DEF Stopped, Callers
<1>4. joined \subseteq Polls /\ \A n \in joined : pc[Poll(n)] = "ended"
  BY <1>0 DEF ClientTypeOK, OneByOne
<1>5. \A s \in Senders : spc[s] = "idle"
  BY <1>0, <1>1 DEF Fronts
<1> QED
  BY <1>0, <1>1, <1>2, <1>3, <1>4, <1>5, ZmqClientAssumption DEF ClientTypeOK

\* Reset on the application or the timer thread, up to the start of a poll
\* thread, and the wait for it.
LEMMA CallerResets ==
  ASSUME ClientInv, NEW t \in Callers, Stop(t) \/ init_check(t) \/ init_timer(t) \/ init_wait(t)
  PROVE  ClientInv'
<1>0. ClientTypeOK /\ OneByOne /\ PollPlaces /\ CallerPlaces /\ Stopped /\ Fronts
  BY DEF ClientInv
<1>1. pc[t] \in Resets
  BY DEF Stop, stop_run, stop_state, DeleteFrontSockets, stop_check, stop_join, stop_identity,
         init_check, init_timer, init_wait, Resets, InStop, InInit
<1>2. /\ t \in Threads /\ home[t] = "idle" /\ \A u \in Callers : u # t => pc[u] = "idle"
      /\ \A s \in Senders : spc[s] = "idle"
      /\ reset[User] = "stop" => ~ m_autoConnectTimer /\ t = User
      /\ MaxPolls \in Nat /\ m_transportState \in -1 .. 3 /\ m_autoConnectTimer \in BOOLEAN
      /\ joined \subseteq Polls /\ \A n \in joined : pc[Poll(n)] = "ended"
      /\ joining \in [Threads -> 0 .. MaxPolls] /\ reset \in [Threads -> {"none", "restart", "stop"}]
      /\ m_recvthread \in 0 .. MaxPolls
  BY <1>1, CallerAlone
<1>3. CASE stop_run(t)
  <2>1. /\ pc' = [pc EXCEPT ![t] = "stop_state"] /\ pc[t] = "stop_run"
        /\ UNCHANGED <<m_transportState, m_recvPollThreadid, m_recvthread, m_inprocAddress, m_autoConnectTimer,
                       joined, reset, joining, home, spc, front>>
    BY <1>3 DEF stop_run, Go, send
  <2>2. "stop_state" \in Resets /\ "stop_state" \notin InInit
    BY DEF Resets, InStop, InInit
  <2> QED
    BY <1>2, <2>1, <2>2, CallerStep
<1>4. CASE stop_state(t)
  <2>1. /\ pc' = [pc EXCEPT ![t] = "stop_front"] /\ pc[t] = "stop_state" /\ m_transportState' = UNDEFINE
        /\ UNCHANGED <<m_recvPollThreadid, m_recvthread, m_inprocAddress, m_autoConnectTimer,
                       joined, reset, joining, home, spc, front>>
    BY <1>4 DEF stop_state, Go, send
  <2>2. "stop_front" \in Resets /\ "stop_front" \notin InInit
    BY DEF Resets, InStop, InInit
  <2> QED
    BY <1>2, <2>1, <2>2, CallerStep
<1>5. CASE DeleteFrontSockets(t)
  <2>1. /\ pc' = [pc EXCEPT ![t] = "stop_check"] /\ pc[t] = "stop_front" /\ front' = [s \in Senders |-> 0]
        /\ UNCHANGED <<m_transportState, m_recvPollThreadid, m_recvthread, m_inprocAddress, m_autoConnectTimer,
                       joined, reset, joining, home, spc>>
    BY <1>5 DEF DeleteFrontSockets, Go, client
  <2>2. "stop_check" \in Resets /\ "stop_check" \notin InInit
    BY DEF Resets, InStop, InInit
  <2>3. \A s \in Senders : front'[s] = 0
    BY <2>1
  <2> QED
    BY <1>2, <2>1, <2>2, <2>3, CallerStep
<1>6. CASE stop_check(t)
  <2>0. /\ pc[t] = "stop_check" /\ \A s \in Senders : front[s] = 0
        /\ UNCHANGED <<m_transportState, m_recvPollThreadid, m_recvthread, m_inprocAddress, m_autoConnectTimer,
                       joined, reset, home, spc, front>>
    BY <1>0, <1>6 DEF stop_check, client, send, Fronts
  <2>1. CASE m_recvthread # 0 /\ m_recvthread \notin joined /\ t # Poll(m_recvPollThreadid)
    <3>1. pc' = [pc EXCEPT ![t] = "stop_join"] /\ joining' = [joining EXCEPT ![t] = m_recvthread]
      BY <1>6, <2>1 DEF stop_check, Go
    <3>2. /\ joining' \in [Threads -> 0 .. MaxPolls] /\ joining'[t] = m_recvthread
          /\ \A u \in Callers : u # t => joining'[u] = joining[u]
      BY <1>2, <3>1, ThreadFacts DEF Callers
    <3>3. "stop_join" \in Resets /\ "stop_join" \notin InInit
      BY DEF Resets, InStop, InInit
    <3> QED
      BY <1>2, <2>0, <2>1, <3>1, <3>2, <3>3, CallerStep
  <2>2. CASE ~ (m_recvthread # 0 /\ m_recvthread \notin joined /\ t # Poll(m_recvPollThreadid))
    <3>1. pc' = [pc EXCEPT ![t] = "stop_identity"] /\ joining' = joining
      BY <1>6, <2>2 DEF stop_check, Go
    <3>2. Ended
      <4>1. t # Poll(m_recvPollThreadid)
        BY DEF Callers, User, Timer, Poll
      <4> QED
        BY <1>2, <2>2, <4>1 DEF Ended
    <3>3. "stop_identity" \in Resets /\ "stop_identity" \notin InInit
      BY DEF Resets, InStop, InInit
    <3> QED
      BY <1>2, <2>0, <3>1, <3>2, <3>3, CallerStep
  <2> QED
    BY <2>1, <2>2
<1>7. CASE stop_join(t)
  <2>1. /\ pc[t] = "stop_join" /\ pc[Poll(joining[t])] = "ended" /\ pc' = [pc EXCEPT ![t] = "stop_identity"]
        /\ joined' = joined \cup {joining[t]} /\ joining' = [joining EXCEPT ![t] = 0]
        /\ UNCHANGED <<m_transportState, m_recvPollThreadid, m_recvthread, m_inprocAddress, m_autoConnectTimer,
                       reset, home, spc, front>>
    BY <1>7 DEF stop_join, Go, send
  <2>2. joining[t] = m_recvthread /\ m_recvthread # 0 /\ \A s \in Senders : front[s] = 0
    BY <1>0, <2>1 DEF CallerPlaces, Fronts
  <2>3. Ended /\ joined' \subseteq Polls /\ \A n \in joined' : pc[Poll(n)] = "ended"
    BY <1>2, <2>1, <2>2 DEF Ended, Polls
  <2>4. joining' \in [Threads -> 0 .. MaxPolls] /\ \A u \in Callers : u # t => joining'[u] = joining[u]
    BY <1>2, <2>1, ThreadFacts DEF Callers
  <2>5. "stop_identity" \in Resets /\ "stop_identity" \notin InInit
    BY DEF Resets, InStop, InInit
  <2> QED
    BY <1>2, <2>1, <2>2, <2>3, <2>4, <2>5, CallerStep
<1>8. CASE stop_identity(t)
  <2>1. /\ pc[t] = "stop_identity" /\ pc' = [pc EXCEPT ![t] = IF reset[t] = "restart" THEN "init_check" ELSE "idle"]
        /\ UNCHANGED <<m_transportState, m_recvPollThreadid, m_recvthread, m_inprocAddress, m_autoConnectTimer,
                       joined, reset, joining, home, spc, front>>
    BY <1>2, <1>8 DEF stop_identity, Go, client, send
  <2>2. Ended /\ \A s \in Senders : front[s] = 0
    BY <1>0, <2>1 DEF CallerPlaces, Fronts
  <2>3. "init_check" \in Resets /\ "idle" \notin Resets /\ "idle" \notin InInit
    BY DEF Resets, InStop, InInit
  <2>4. PICK l \in {"idle"} \cup Resets : /\ l = IF reset[t] = "restart" THEN "init_check" ELSE "idle"
                                          /\ pc' = [pc EXCEPT ![t] = l]
    BY <2>1, <2>3
  <2>5. /\ l \in InInit => reset'[t] = "restart"
        /\ (\A s \in Senders : front'[s] = 0) /\ (reset'[User] = "stop" => ~ m_autoConnectTimer' /\ t = User)
    BY <1>2, <2>1, <2>2, <2>3, <2>4
  <2>6. l \in {"idle", "init_check"}
    BY <2>4
  <2>7. pc' = [pc EXCEPT ![t] = l]
    BY <2>4
  <2> QED
    BY <1>2, <2>1, <2>2, <2>5, <2>6, <2>7, CallerStep, ZenonT(40)
<1>9. CASE init_check(t)
  <2>1. /\ pc[t] = "init_check"
        /\ pc' = [pc EXCEPT ![t] = IF m_recvthread # 0 /\ m_recvthread \notin joined THEN "idle" ELSE "init_timer"]
        /\ UNCHANGED <<m_transportState, m_recvPollThreadid, m_recvthread, m_inprocAddress, m_autoConnectTimer,
                       joined, reset, joining, home, spc, front>>
    BY <1>2, <1>9 DEF init_check, Go, client, send
  <2>2. Ended /\ reset[t] = "restart" /\ \A s \in Senders : front[s] = 0
    BY <1>0, <2>1 DEF CallerPlaces, Fronts, InInit
  <2>3. "init_timer" \in Resets /\ "idle" \notin Resets /\ "idle" \notin InInit
    BY DEF Resets, InStop, InInit
  <2>4. reset[User] = "stop" => ~ m_autoConnectTimer /\ t = User /\ Ended
    BY <1>2, <2>2
  <2>5. CASE pc' = [pc EXCEPT ![t] = "idle"]
    <3>1. PICK l \in {"idle"} \cup Resets : l = "idle" /\ l \notin Resets /\ l \notin InInit /\ pc' = [pc EXCEPT ![t] = l]
      BY <2>3, <2>5
    <3>2. reset'[User] = "stop" => ~ m_autoConnectTimer' /\ t = User
      BY <2>1, <2>4
    <3> QED
      BY <1>2, <2>1, <2>2, <3>1, <3>2, CallerStep
  <2>6. CASE pc' = [pc EXCEPT ![t] = "init_timer"]
    <3>1. PICK l \in {"idle"} \cup Resets : l = "init_timer" /\ pc' = [pc EXCEPT ![t] = l]
      BY <2>3, <2>6
    <3>2. (\A s \in Senders : front'[s] = 0) /\ reset'[t] = "restart" /\ (reset'[User] = "stop" => ~ m_autoConnectTimer' /\ t = User)
      BY <2>1, <2>2, <2>4
    <3> QED
      BY <1>2, <2>1, <2>2, <3>1, <3>2, CallerStep, ZenonT(40)
  <2> QED
    BY <2>1, <2>5, <2>6
<1>10. CASE init_timer(t)
  <2>1. /\ pc[t] = "init_timer" /\ pc' = [pc EXCEPT ![t] = "init_thread"] /\ m_transportState' = UNDEFINE
        /\ UNCHANGED <<m_recvPollThreadid, m_recvthread, m_inprocAddress, joined, reset, joining, home, spc, front>>
    BY <1>10 DEF init_timer, Go, send
  <2>2. Ended /\ reset[t] = "restart" /\ \A s \in Senders : front[s] = 0
    BY <1>0, <2>1 DEF CallerPlaces, Fronts, InInit
  <2>3. "init_thread" \in Resets
    BY DEF Resets, InStop, InInit
  <2>4. reset[User] # "stop" /\ (m_autoConnectTimer' \in BOOLEAN)
    <3>1. m_autoConnectTimer' = (m_autoConnectTimer \/ m_bAutoConnect)
      BY <1>10 DEF init_timer
    <3> QED
      BY <1>2, <2>2, <3>1
  <2>5. PICK l \in {"idle"} \cup Resets : l = "init_thread" /\ pc' = [pc EXCEPT ![t] = l]
    BY <2>1, <2>3
  <2>6. (\A s \in Senders : front'[s] = 0) /\ reset'[t] = "restart" /\ reset'[User] # "stop"
    BY <2>1, <2>2, <2>4
  <2> QED
    BY <1>2, <2>1, <2>2, <2>4, <2>5, <2>6, CallerStep
<1>11. CASE init_wait(t)
  <2>1. /\ pc[t] = "init_wait" /\ pc' = [pc EXCEPT ![t] = "idle"] /\ m_transportState # UNDEFINE
        /\ UNCHANGED <<m_transportState, m_recvPollThreadid, m_recvthread, m_inprocAddress, m_autoConnectTimer,
                       joined, reset, joining, home, spc, front>>
    BY <1>2, <1>11 DEF init_wait, Go, client, send
  <2>2. reset[t] = "restart" /\ reset[User] # "stop"
    <3>1. reset[t] = "restart"
      BY <1>0, <2>1 DEF CallerPlaces, InInit
    <3> QED
      BY <1>2, <3>1
  <2>3. "idle" \notin Resets /\ "idle" \notin InInit
    BY DEF Resets, InStop, InInit
  <2> QED
    BY <1>2, <2>1, <2>2, <2>3, CallerStep
<1> QED
  BY <1>3, <1>4, <1>5, <1>6, <1>7, <1>8, <1>9, <1>10, <1>11 DEF Stop
\* The application calls Reset, or the timer AutoConnect, which calls it.
LEMMA ResetBegins ==
  ASSUME ClientInv, ~ Overlap, ~ SendOverlap,
         \/ \E kind \in {"restart", "stop"} : userReset(kind)
         \/ \E expired \in BOOLEAN : AutoConnect(expired)
  PROVE  ClientInv'
<1>0. ClientTypeOK /\ OneByOne /\ CallerPlaces /\ Stopped
  BY DEF ClientInv
<1>1. "stop_run" \in Resets /\ "stop_run" \notin InInit
  BY DEF Resets, InStop, InInit
<1>2. /\ (\A n \in joined : pc[Poll(n)] = "ended") /\ joined \subseteq Polls /\ (m_autoConnectTimer \in BOOLEAN)
      /\ joining \in [Threads -> 0 .. MaxPolls] /\ reset \in [Threads -> {"none", "restart", "stop"}]
  BY <1>0 DEF OneByOne, ClientTypeOK
<1>3. ASSUME NEW kind \in {"restart", "stop"}, userReset(kind) PROVE ClientInv'
  <2>1. /\ pc[User] = "idle" /\ MayStart(User) /\ pc' = [pc EXCEPT ![User] = "stop_run"]
        /\ reset' = [reset EXCEPT ![User] = kind]
        /\ UNCHANGED <<m_transportState, m_recvPollThreadid, m_recvthread, m_inprocAddress, joined, joining, home, spc, front>>
    BY <1>3 DEF userReset, Go, send
  <2>2. (m_autoConnectTimer' \in BOOLEAN) /\ (kind = "stop" => ~ m_autoConnectTimer')
    BY <1>2, <1>3 DEF userReset
  <2>3. (\A s \in Senders : spc[s] = "idle") /\ pc[Timer] = "idle"
    <3>1. (\A s \in Senders : spc[s] = "idle") /\ ~ InReset(Timer)
      BY <2>1, ThreadFacts DEF MayStart, MayReset
    <3> QED
      BY <1>0, <3>1, InResetIs DEF CallerPlaces, Callers
  <2>4. /\ reset' \in [Threads -> {"none", "restart", "stop"}] /\ reset'[User] = kind
        /\ \A u \in Callers : u # User => reset'[u] = reset[u]
    BY <1>2, <2>1, ThreadFacts DEF Callers
  <2>5. \A u \in Callers : u # User => pc[u] = "idle"
    BY <2>3 DEF Callers
  <2>6. User \in Callers
    BY DEF Callers
  <2> QED
    BY <1>1, <1>2, <2>1, <2>2, <2>3, <2>4, <2>5, <2>6, CallerStep
<1>4. ASSUME NEW expired \in BOOLEAN, AutoConnect(expired) PROVE ClientInv'
  <2>1. /\ pc[Timer] = "idle" /\ MayStart(Timer) /\ pc' = [pc EXCEPT ![Timer] = "stop_run"]
        /\ reset' = [reset EXCEPT ![Timer] = "restart"] /\ m_autoConnectTimer
        /\ UNCHANGED <<m_transportState, m_recvPollThreadid, m_recvthread, m_inprocAddress, m_autoConnectTimer,
                       joined, joining, home, spc, front>>
    BY <1>4 DEF AutoConnect, Go, client, send
  <2>2. (\A s \in Senders : spc[s] = "idle") /\ pc[User] = "idle"
    <3>1. (\A s \in Senders : spc[s] = "idle") /\ ~ InReset(User)
      BY <2>1, ThreadFacts DEF MayStart, MayReset
    <3> QED
      BY <1>0, <3>1, InResetIs DEF CallerPlaces, Callers
  <2>3. /\ reset' \in [Threads -> {"none", "restart", "stop"}]
        /\ \A u \in Callers : u # Timer => reset'[u] = reset[u]
    BY <1>2, <2>1, ThreadFacts DEF Callers
  <2>4. reset'[User] # "stop"
    BY <1>0, <1>2, <2>1, ThreadFacts DEF Stopped
  <2>5. \A u \in Callers : u # Timer => pc[u] = "idle"
    BY <2>2 DEF Callers
  <2>6. Timer \in Callers
    BY DEF Callers
  <2> QED
    BY <1>1, <1>2, <2>1, <2>2, <2>3, <2>4, <2>5, <2>6, CallerStep
<1> QED
  BY <1>3, <1>4

\* SetAutoConnect and the end of the timer: only the timer is touched.
LEMMA TimerSet ==
  ASSUME ClientInv, (\E b \in BOOLEAN : SetAutoConnect(b)) \/ AutoConnectOff
  PROVE  ClientInv'
<1>0. ClientTypeOK /\ OneByOne /\ PollPlaces /\ CallerPlaces /\ Stopped /\ Fronts
  BY DEF ClientInv
<1>1. /\ UNCHANGED <<m_transportState, m_recvPollThreadid, m_recvthread, m_inprocAddress, joined, pc, joining, home, spc, front>>
      /\ (m_autoConnectTimer' \in BOOLEAN)
      /\ \/ reset' = [reset EXCEPT ![User] = "none"] /\ pc[User] = "idle"
         \/ reset' = reset /\ ~ m_autoConnectTimer'
  BY DEF SetAutoConnect, AutoConnectOff, ctl, send
<1>2. /\ reset' \in [Threads -> {"none", "restart", "stop"}] /\ (reset'[User] = "stop" => reset' = reset /\ ~ m_autoConnectTimer')
      /\ \A t \in Callers : pc[t] \in InInit => reset'[t] = reset[t]
  BY <1>0, <1>1, ThreadFacts DEF ClientTypeOK, Callers, InInit
<1>3. ClientTypeOK' /\ OneByOne'
  BY <1>0, <1>1, <1>2 DEF ClientTypeOK, OneByOne
<1>4. PollPlaces' /\ Fronts'
  BY <1>0, <1>1 DEF PollPlaces, Fronts
<1>5. CallerPlaces' /\ Stopped'
  BY <1>0, <1>1, <1>2 DEF CallerPlaces, Stopped, Ended
<1> QED
  BY <1>3, <1>4, <1>5 DEF ClientInv

\* SendData: nobody is in Reset.
LEMMA Sends ==
  ASSUME ClientInv, ~ SendOverlap, NEW s \in Senders, SendData(s)
  PROVE  ClientInv'
<1>0. ClientTypeOK /\ OneByOne /\ PollPlaces /\ CallerPlaces /\ Stopped /\ Fronts
  BY DEF ClientInv
<1>1. /\ UNCHANGED <<m_transportState, m_recvPollThreadid, m_recvthread, m_inprocAddress, m_autoConnectTimer,
                     joined, pc, reset, joining, home>>
      /\ \/ /\ spc[s] = "idle" /\ spc' = [spc EXCEPT ![s] = "front"] /\ front' = front
            /\ ~ \E t \in Threads : InReset(t)
         \/ /\ spc[s] = "front" /\ spc' = [spc EXCEPT ![s] = "send"]
            /\ front' = [front EXCEPT ![s] = IF @ \in {0, Null} THEN m_inprocAddress ELSE @]
         \/ /\ spc[s] = "front" /\ spc' = [spc EXCEPT ![s] = IF FrontFails THEN "idle" ELSE @]
            /\ front' = [front EXCEPT ![s] = Null]
         \/ spc[s] = "send" /\ spc' = [spc EXCEPT ![s] = "idle"] /\ front' = front
  BY DEF SendData, send_check, NewFrontSockets, Send, client, ctl
<1>2. ~ \E t \in Threads : pc[t] \in Resets
  <2>1. CASE spc[s] = "idle"
    BY <1>1, <2>1, InResetIs
  <2>2. CASE spc[s] # "idle"
    BY <1>0, <2>2 DEF Fronts
  <2> QED
    BY <2>1, <2>2
<1>3. /\ spc' \in [Senders -> {"idle", "front", "send"}] /\ front' \in [Senders -> -1 .. MaxPolls]
      /\ \A x \in Senders : /\ front'[x] \in {Null, 0, m_inprocAddress}
                            /\ spc'[x] = "send" => front'[x] = m_inprocAddress
  <2>0. /\ spc \in [Senders -> {"idle", "front", "send"}] /\ front \in [Senders -> -1 .. MaxPolls]
        /\ m_inprocAddress \in 0 .. MaxPolls /\ Null \in -1 .. MaxPolls /\ MaxPolls \in Nat
    BY <1>0, ZmqClientAssumption DEF ClientTypeOK, Null
  <2>1. \E place \in {"idle", "front", "send"}, address \in {front[s], m_inprocAddress, Null} :
          /\ spc' = [spc EXCEPT ![s] = place] /\ front' = [front EXCEPT ![s] = address]
          /\ place = "send" => address = m_inprocAddress
    BY <1>0, <1>1, <2>0, Z3 DEF Fronts
  <2>2. PICK place \in {"idle", "front", "send"}, address \in {front[s], m_inprocAddress, Null} :
          /\ spc' = [spc EXCEPT ![s] = place] /\ front' = [front EXCEPT ![s] = address]
          /\ place = "send" => address = m_inprocAddress
    BY <2>1
  <2> QED
    BY <1>0, <2>0, <2>2 DEF Fronts
<1>4. \A t \in Callers : pc[t] \notin Resets
  BY <1>2, ThreadFacts DEF Callers
<1>5. ClientTypeOK' /\ OneByOne'
  BY <1>0, <1>1, <1>3 DEF ClientTypeOK, OneByOne
<1>6. PollPlaces' /\ CallerPlaces'
  BY <1>0, <1>1 DEF PollPlaces, CallerPlaces, Ended
<1>7. Stopped'
  BY <1>0, <1>1 DEF Stopped, Ended
<1>8. Fronts'
  BY <1>1, <1>2, <1>3, <1>4 DEF Fronts, Resets, InStop, InInit
<1> QED
  BY <1>5, <1>6, <1>7, <1>8 DEF ClientInv

\* Init starts a poll thread: the one before has ended.
LEMMA Starts ==
  ASSUME ClientInv, NEW t \in Callers, init_thread(t)
  PROVE  ClientInv'
<1> DEFINE n == m_recvthread + 1
<1>0. ClientTypeOK /\ OneByOne /\ PollPlaces /\ CallerPlaces /\ Stopped /\ Fronts
  BY DEF ClientInv
<1>1. /\ pc[t] = "init_thread" /\ n <= MaxPolls /\ m_recvthread' = n
      /\ pc' = [pc EXCEPT ![Poll(n)] = "start", ![t] = "init_wait"]
      /\ UNCHANGED <<m_transportState, m_recvPollThreadid, m_inprocAddress, m_autoConnectTimer,
                     joined, reset, joining, home, spc, front>>
  <2>1. Cardinality(Started) = m_recvthread /\ m_recvthread \in Nat /\ MaxPolls \in Nat
    BY <1>0, StartedCount, ZmqClientAssumption DEF ClientTypeOK
  <2> QED
    BY <2>1 DEF init_thread, send
<1>2. pc[t] \in Resets /\ pc[t] \in InInit
  BY <1>1 DEF Resets, InInit
<1>3. /\ t \in Threads /\ (\A u \in Callers : u # t => pc[u] = "idle") /\ \A s \in Senders : spc[s] = "idle"
  BY <1>2, CallerAlone
<1>4. /\ m_recvthread \in Nat /\ MaxPolls \in Nat /\ n \in Polls
      /\ \A k \in Polls : k \in Nat /\ k > 0 /\ (k < n => k = m_recvthread \/ k < m_recvthread)
  BY <1>0, <1>1, ZmqClientAssumption DEF ClientTypeOK, Polls
<1>5. Ended /\ m_transportState = UNDEFINE /\ reset[t] = "restart" /\ \A s \in Senders : front[s] = 0
  BY <1>0, <1>1, <1>2 DEF CallerPlaces, Fronts
<1>6. /\ pc' \in [Threads -> {"idle"} \cup InPoll \cup Resets]
      /\ \A u \in Threads : pc'[u] = IF u = t THEN "init_wait" ELSE IF u = Poll(n) THEN "start" ELSE pc[u]
  BY <1>0, <1>1, <1>3, <1>4, ThreadFacts DEF ClientTypeOK, InPoll, Resets, InInit
<1>7. \A k \in Polls : pc'[Poll(k)] = IF k = n THEN "start" ELSE pc[Poll(k)]
  BY <1>4, <1>6, ThreadFacts DEF Callers
<1>8. \A u \in Callers : pc'[u] = IF u = t THEN "init_wait" ELSE "idle"
  BY <1>3, <1>4, <1>6, ThreadFacts DEF Callers
<1> HIDE DEF n
<1>9. \A k \in Polls : k < n => pc[Poll(k)] = "ended"
  BY <1>0, <1>4, <1>5 DEF OneByOne, Ended
<1>10. \A k \in Polls : k > n => pc[Poll(k)] = "unborn"
  BY <1>0, <1>4 DEF OneByOne, n
<1>11. pc[Poll(n)] = "unborn" /\ n \notin joined
  <2>1. n > m_recvthread
    BY <1>4 DEF n
  <2> QED
    BY <1>0, <1>4, <2>1 DEF OneByOne
<1>12. ClientTypeOK'
  <2>1. m_recvthread' \in 0 .. MaxPolls
    BY <1>1, <1>4 DEF n
  <2> QED
    BY <1>0, <1>1, <1>6, <2>1 DEF ClientTypeOK
<1>13. OneByOne'
  <2>1. ASSUME NEW k \in Polls
        PROVE  /\ k > n <=> pc'[Poll(k)] = "unborn"
               /\ k < n => pc'[Poll(k)] = "ended"
               /\ k \in joined => pc'[Poll(k)] = "ended"
    <3>1. n \in Nat /\ k \in Nat
      BY <1>4 DEF Polls
    <3>2. CASE k = n
      BY <1>7, <1>11, <3>1, <3>2
    <3>3. CASE k # n
      <4>1. pc'[Poll(k)] = pc[Poll(k)] /\ (k \in joined => pc[Poll(k)] = "ended")
        BY <1>0, <1>7, <3>3 DEF OneByOne
      <4>2. k < n \/ k > n
        BY <3>1, <3>3
      <4> QED
        BY <1>9, <1>10, <3>1, <4>1, <4>2
    <3> QED
      BY <3>2, <3>3
  <2> QED
    BY <1>1, <2>1 DEF OneByOne
<1>14. PollPlaces'
  <2>1. \E u \in Callers : pc'[u] = "init_wait"
    BY <1>8
  <2>2. ASSUME NEW k \in Polls
        PROVE  (k # n => pc'[Poll(k)] \in {"unborn", "ended"}) /\ (k = n => pc'[Poll(k)] = "start")
    BY <1>4, <1>7, <1>9, <1>10 DEF Polls
  <2> QED
    BY <1>1, <1>5, <2>1, <2>2 DEF PollPlaces, PollPc, InPoll, Resets, InStop, InInit, SetupPc
<1>15. CallerPlaces'
  <2>1. pc'[User] = "idle" \/ pc'[Timer] = "idle"
    BY <1>8, ThreadFacts DEF Callers
  <2>2. \A u \in Callers : /\ home'[u] = "idle" /\ pc'[u] \in {"idle", "init_wait"}
                           /\ pc'[u] = "init_wait" => reset'[u] = "restart"
    BY <1>0, <1>1, <1>5, <1>8 DEF CallerPlaces
  <2> QED
    BY <2>1, <2>2 DEF CallerPlaces, Resets, InStop, InInit
<1>16. Stopped'
  <2>1. reset[User] # "stop"
    BY <1>2, <1>5, CallerAlone
  <2>2. m_transportState' < TRANSPORTING
    BY <1>1, <1>5 DEF UNDEFINE, TRANSPORTING
  <2> QED
    BY <1>1, <2>1, <2>2 DEF Stopped
<1>17. Fronts'
  BY <1>0, <1>1, <1>3, <1>5 DEF Fronts
<1> QED
  BY <1>12, <1>13, <1>14, <1>15, <1>16, <1>17 DEF ClientInv
\* What holds of a poll thread that runs.
LEMMA PollAlone ==
  ASSUME ClientInv, NEW n \in Polls, pc[Poll(n)] \notin {"unborn", "start", "ended"}
  PROVE  /\ m_recvPollThreadid = n /\ m_recvthread = n /\ n # 0 /\ n \notin joined /\ Poll(n) \in Threads
         /\ pc[Poll(n)] \in PollPc /\ (pc[Poll(n)] \in Resets => home[Poll(n)] \in {"body", "drain"})
         /\ m_transportState \in -1 .. 3 /\ m_inprocAddress \in 0 .. MaxPolls /\ n \in 0 .. MaxPolls
         /\ home \in [Threads -> {"idle", "body", "drain"}] /\ reset \in [Threads -> {"none", "restart", "stop"}]
         /\ (pc[Poll(n)] \in Resets => \A s \in Senders : spc[s] = "idle")
         /\ \A t \in Callers : t # Poll(n)
<1>0. ClientTypeOK /\ OneByOne /\ PollPlaces /\ Fronts
  BY DEF ClientInv
<1>1. n \in Nat /\ n # 0 /\ m_recvthread \in Nat /\ n \in 0 .. MaxPolls
  BY <1>0, ZmqClientAssumption DEF Polls, ClientTypeOK
<1>2. m_recvthread = n /\ n \notin joined
  BY <1>0, <1>1 DEF OneByOne
<1>3. m_recvPollThreadid = n /\ pc[Poll(n)] \in PollPc /\ (pc[Poll(n)] \in Resets => home[Poll(n)] \in {"body", "drain"})
  BY <1>0 DEF PollPlaces
<1>4. Poll(n) \in Threads /\ \A t \in Callers : t # Poll(n)
  BY ThreadFacts DEF Callers
<1>5. pc[Poll(n)] \in Resets => \A s \in Senders : spc[s] = "idle"
  BY <1>0, <1>4 DEF Fronts
<1> QED
  BY <1>0, <1>1, <1>2, <1>3, <1>4, <1>5 DEF ClientTypeOK

\* Reset on the poll thread, from a callback: it does not join itself, and Init
\* finds it there and returns.
LEMMA PollResets ==
  ASSUME ClientInv, NEW n \in Polls, Stop(Poll(n)) \/ InitCall(Poll(n))
  PROVE  ClientInv'
<1>1. pc[Poll(n)] \in Resets /\ pc[Poll(n)] \notin {"unborn", "start", "ended"}
  BY DEF Stop, stop_run, stop_state, DeleteFrontSockets, stop_check, stop_join, stop_identity,
         InitCall, init_check, init_timer, init_thread, init_wait, Resets, InStop, InInit
<1>2. /\ m_recvPollThreadid = n /\ m_recvthread = n /\ n # 0 /\ n \notin joined /\ Poll(n) \in Threads
      /\ pc[Poll(n)] \in PollPc /\ home[Poll(n)] \in {"body", "drain"}
      /\ m_transportState \in -1 .. 3 /\ m_inprocAddress \in 0 .. MaxPolls /\ n \in 0 .. MaxPolls
      /\ home \in [Threads -> {"idle", "body", "drain"}] /\ reset \in [Threads -> {"none", "restart", "stop"}]
      /\ (\A s \in Senders : spc[s] = "idle") /\ \A t \in Callers : t # Poll(n)
  BY <1>1, PollAlone
<1>3. pc[Poll(n)] \notin {"stop_join", "init_timer", "init_thread", "init_wait"}
  BY <1>2 DEF PollPc, InPoll
<1>4. /\ UNCHANGED <<m_recvPollThreadid, m_recvthread, m_inprocAddress, m_autoConnectTimer, joined,
                     reset, joining, home, spc>>
      /\ m_transportState' \in {m_transportState, UNDEFINE}
      /\ \/ pc' = [pc EXCEPT ![Poll(n)] = "stop_state"] /\ front' = front
         \/ pc' = [pc EXCEPT ![Poll(n)] = "stop_front"] /\ front' = front
         \/ pc' = [pc EXCEPT ![Poll(n)] = "stop_check"] /\ front' = [s \in Senders |-> 0]
         \/ pc' = [pc EXCEPT ![Poll(n)] = "stop_identity"] /\ front' = front
         \/ pc' = [pc EXCEPT ![Poll(n)] = "init_check"] /\ front' = front
         \/ pc' = [pc EXCEPT ![Poll(n)] = home[Poll(n)]] /\ front' = front
  <2>1. CASE stop_run(Poll(n)) \/ stop_state(Poll(n)) \/ DeleteFrontSockets(Poll(n)) \/ stop_identity(Poll(n))
    BY <2>1 DEF stop_run, stop_state, DeleteFrontSockets, stop_identity, Go, client, send
  <2>2. CASE stop_check(Poll(n))
    BY <1>2, <2>2 DEF stop_check, Go, client, send
  <2>3. CASE init_check(Poll(n))
    BY <1>2, <2>3 DEF init_check, Go, client, send
  <2> QED
    BY <1>3, <2>1, <2>2, <2>3 DEF Stop, InitCall, stop_join, init_timer, init_thread, init_wait
<1>5. PICK l \in PollPc \ {"unborn", "start"} :
        /\ pc' = [pc EXCEPT ![Poll(n)] = l] /\ l \notin SetupPc /\ l # "ended"
        /\ front' = front \/ (l \in Resets /\ front' = [s \in Senders |-> 0])
  BY <1>2, <1>4 DEF PollPc, InPoll, SetupPc, Resets, InStop
<1>6. m_transportState' \in -1 .. 3
  BY <1>2, <1>4 DEF UNDEFINE
<1> QED
  BY <1>1, <1>2, <1>4, <1>5, <1>6, PollStep
\* RecvPoll.
LEMMA PollRuns ==
  ASSUME ClientInv, NEW n \in Polls, RecvPoll(n)
  PROVE  ClientInv'
<1>0. ClientTypeOK /\ MaxPolls \in Nat /\ n \in 0 .. MaxPolls
  BY ZmqClientAssumption DEF ClientInv, Polls
<1>1. /\ m_transportState \in -1 .. 3 /\ m_inprocAddress \in 0 .. MaxPolls
      /\ home \in [Threads -> {"idle", "body", "drain"}] /\ reset \in [Threads -> {"none", "restart", "stop"}]
  BY <1>0 DEF ClientTypeOK
<1>2. /\ UNCHANGED <<m_recvthread, m_autoConnectTimer, joined, reset, joining, home, spc, front>>
      /\ \/ /\ pc[Poll(n)] = "start" /\ pc' = [pc EXCEPT ![Poll(n)] = "setup"] /\ m_recvPollThreadid' = n
            /\ m_transportState' = m_transportState /\ m_inprocAddress' = m_inprocAddress
         \/ /\ pc[Poll(n)] = "setup" /\ pc' = [pc EXCEPT ![Poll(n)] = "run"]
            /\ UNCHANGED <<m_recvPollThreadid, m_transportState>> /\ m_inprocAddress' = n
         \/ /\ pc[Poll(n)] = "run" /\ pc' = [pc EXCEPT ![Poll(n)] = "state"]
            /\ UNCHANGED <<m_recvPollThreadid, m_transportState, m_inprocAddress>>
         \/ /\ UNCHANGED <<m_recvPollThreadid, m_inprocAddress>>
            /\ pc[Poll(n)] \in {"state", "loop", "body", "drain"}
            /\ \/ pc' = [pc EXCEPT ![Poll(n)] = "loop"]
               \/ pc' = [pc EXCEPT ![Poll(n)] = "body"]
               \/ pc' = [pc EXCEPT ![Poll(n)] = "drain"]
               \/ pc' = [pc EXCEPT ![Poll(n)] = "finish"]
            /\ m_transportState' \in {m_transportState, TRANSPORTING}
         \/ /\ UNCHANGED <<m_recvPollThreadid, m_inprocAddress>>
            /\ pc[Poll(n)] \in {"setup", "finish"} /\ pc' = [pc EXCEPT ![Poll(n)] = "ended"]
            /\ m_transportState' \in {TRANSPORT_FAILED, TRANSPORTED_POLL_FINISH}
  <2>1. CASE poll_start(n) \/ poll_setup(n) \/ poll_setup_failed(n)
    BY <2>1 DEF poll_start, poll_setup, poll_setup_failed, Go, client, send
  <2>2. CASE poll_run(n) \/ poll_turn(n)
    BY <2>2 DEF poll_run, poll_turn, Go, client, send
  <2>3. CASE poll_leave(n) \/ poll_drained(n) \/ poll_finish(n)
    BY <2>3 DEF poll_leave, poll_drained, poll_finish, Go, client, send
  <2> QED
    BY <2>1, <2>2, <2>3 DEF RecvPoll
<1>3. pc[Poll(n)] \notin {"unborn", "ended"} /\ m_recvPollThreadid' = n
  <2>1. CASE pc[Poll(n)] = "start"
    BY <1>2, <2>1
  <2>2. CASE pc[Poll(n)] # "start"
    <3>1. pc[Poll(n)] \notin {"unborn", "start", "ended"}
      BY <1>2, <2>2
    <3>2. m_recvPollThreadid = n
      BY <3>1, PollAlone
    <3> QED
      BY <1>2, <2>2, <3>1, <3>2
  <2> QED
    BY <2>1, <2>2
<1>4. /\ (m_transportState' \in -1 .. 3) /\ (m_inprocAddress' \in 0 .. MaxPolls)
      /\ (m_inprocAddress' = m_inprocAddress \/ pc[Poll(n)] = "setup")
  <2>1. TRANSPORTING \in -1 .. 3 /\ TRANSPORT_FAILED \in -1 .. 3 /\ TRANSPORTED_POLL_FINISH \in -1 .. 3
    BY DEF TRANSPORTING, TRANSPORT_FAILED, TRANSPORTED_POLL_FINISH
  <2> QED
    BY <1>0, <1>1, <1>2, <2>1
<1>5. PICK l \in PollPc \ {"unborn", "start"} :
        /\ pc' = [pc EXCEPT ![Poll(n)] = l] /\ l \notin Resets
        /\ l \in SetupPc => pc[Poll(n)] \in SetupPc /\ m_transportState' = m_transportState
        /\ l = "ended" => m_transportState' \in {TRANSPORT_FAILED, TRANSPORTED_POLL_FINISH}
  BY <1>2 DEF PollPc, InPoll, SetupPc, Resets, InStop, InInit
<1>6. l = "ended" => m_transportState' < TRANSPORTING
  BY <1>5 DEF TRANSPORTING, TRANSPORT_FAILED, TRANSPORTED_POLL_FINISH
<1> QED
  BY <1>1, <1>2, <1>3, <1>4, <1>5, <1>6, PollStep

\* A monitor event or a message, and the callback, which may call Reset.
LEMMA PollCallsBack ==
  ASSUME ClientInv, ~ SendOverlap, NEW n \in Polls, Events(n)
  PROVE  ClientInv'
<1>1. pc[Poll(n)] \in {"body", "drain"}
  BY DEF Events, OnEvent, ClientSocketRecv
<1>2. /\ m_recvPollThreadid = n /\ Poll(n) \in Threads /\ (\A t \in Callers : t # Poll(n))
      /\ m_transportState \in -1 .. 3 /\ m_inprocAddress \in 0 .. MaxPolls /\ pc[Poll(n)] \in PollPc
      /\ home \in [Threads -> {"idle", "body", "drain"}] /\ reset \in [Threads -> {"none", "restart", "stop"}]
  BY <1>1, PollAlone
<1>3. /\ UNCHANGED <<m_recvPollThreadid, m_recvthread, m_inprocAddress, m_autoConnectTimer, joined, joining, spc, front>>
      /\ m_transportState' \in {m_transportState, TRANSPORTED, TRANSPORT_FAILED}
      /\ UNCHANGED <<pc, reset, home>> \/ callbackReset(n)
  <2>1. CASE \E up \in BOOLEAN : OnEvent(n, up)
    BY <2>1 DEF OnEvent, send
  <2>2. CASE ClientSocketRecv(n)
    BY <2>2 DEF ClientSocketRecv, client, send
  <2> QED
    BY <2>1, <2>2 DEF Events
<1>4. m_transportState' \in -1 .. 3
  <2>1. TRANSPORTED \in -1 .. 3 /\ TRANSPORT_FAILED \in -1 .. 3
    BY DEF TRANSPORTED, TRANSPORT_FAILED
  <2> QED
    BY <1>2, <1>3, <2>1
<1>5. CASE UNCHANGED <<pc, reset, home>>
  <2>1. PICK l \in PollPc \ {"unborn", "start"} : l = pc[Poll(n)] /\ l \notin SetupPc \cup Resets /\ l # "ended"
    BY <1>1, <1>2 DEF SetupPc, Resets, InStop, InInit
  <2>2. pc' = [pc EXCEPT ![Poll(n)] = l]
    BY <1>2, <1>5, <2>1 DEF ClientInv, ClientTypeOK
  <2> QED
    BY <1>1, <1>2, <1>3, <1>4, <1>5, <2>1, <2>2, PollStep
<1>6. CASE callbackReset(n)
  <2>1. /\ pc' = [pc EXCEPT ![Poll(n)] = "stop_run"] /\ reset' = [reset EXCEPT ![Poll(n)] = "restart"]
        /\ home' = [home EXCEPT ![Poll(n)] = pc[Poll(n)]] /\ \A s \in Senders : spc[s] = "idle"
    BY <1>6 DEF callbackReset, Go, MayReset
  <2>2. /\ reset' \in [Threads -> {"none", "restart", "stop"}] /\ home' \in [Threads -> {"idle", "body", "drain"}]
        /\ home'[Poll(n)] \in {"body", "drain"} /\ \A t \in Callers : home'[t] = home[t] /\ reset'[t] = reset[t]
    BY <1>1, <1>2, <2>1, ThreadFacts DEF Callers
  <2>3. "stop_run" \in PollPc \ {"unborn", "start"} /\ "stop_run" \in Resets /\ "stop_run" \notin SetupPc
    BY DEF PollPc, Resets, InStop, SetupPc
  <2>4. PICK l \in PollPc \ {"unborn", "start"} : l = "stop_run"
    BY <2>3
  <2> QED
    BY <1>1, <1>2, <1>3, <1>4, <2>1, <2>2, <2>3, <2>4, PollStep
<1> QED
  BY <1>3, <1>5, <1>6

\* Every step of the client preserves the invariant.
LEMMA NextClient ==
  ASSUME ~ Overlap, ~ SendOverlap, ClientInv, [Next]_vars
  PROVE  ClientInv'
<1>1. ASSUME NEW t \in Threads, Stop(t) \/ InitCall(t) PROVE ClientInv'
  <2>1. CASE t \in Callers
    BY <1>1, <2>1, CallerResets, Starts DEF InitCall
  <2>2. ASSUME NEW n \in Polls, t = Poll(n) PROVE ClientInv'
    BY <1>1, <2>2, PollResets
  <2> QED
    BY <2>1, <2>2, ThreadFacts DEF Callers
<1>2. CASE UNCHANGED vars
  <2>0. ClientTypeOK /\ OneByOne /\ PollPlaces /\ CallerPlaces /\ Stopped /\ Fronts
    BY DEF ClientInv
  <2>1. UNCHANGED <<m_transportState, m_recvPollThreadid, m_recvthread, m_inprocAddress, m_autoConnectTimer,
                    joined, pc, reset, joining, home, spc, front>>
    BY <1>2 DEF vars, client, ctl, send
  <2>2. ClientTypeOK' /\ OneByOne'
    BY <2>0, <2>1 DEF ClientTypeOK, OneByOne
  <2>3. PollPlaces' /\ Fronts'
    BY <2>0, <2>1 DEF PollPlaces, Fronts
  <2>4. CallerPlaces' /\ Stopped'
    BY <2>0, <2>1 DEF CallerPlaces, Stopped, Ended
  <2> QED
    BY <2>2, <2>3, <2>4 DEF ClientInv
<1> QED
  BY <1>1, <1>2, ResetBegins, TimerSet, PollRuns, PollCallsBack, Sends DEF Next

\* A client of any number of poll threads, senders, calls and callbacks: there is
\* never a second poll thread, after Reset () nothing runs, and what is sent goes
\* to the back socket of the thread that runs.  Without the hypotheses the first
\* of the three is false (OnePollThread).
THEOREM ClientAlwaysSafe == ~ Overlap /\ ~ SendOverlap => (Spec => []ClientSafe)
<1> SUFFICES ASSUME ~ Overlap, ~ SendOverlap PROVE Spec => []ClientSafe
  OBVIOUS
<1>1. ClientInv /\ [Next]_vars => ClientInv'
  BY NextClient
<1> QED
  BY <1>1, InitClient, ClientInvSafe, PTL DEF Spec
=============================================================================
