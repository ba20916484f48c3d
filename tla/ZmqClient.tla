------------------------------ MODULE ZmqClient -----------------------------
(***************************************************************************)
(* ZmqClientBase (ZmqClientBase.h): the life of the client object.  Four   *)
(* kinds of thread work on the same fields: the application calls Reset,   *)
(* the timer thread calls AutoConnect, the poll thread that Init starts    *)
(* runs RecvPoll and the callbacks (which may call Reset again), and       *)
(* application threads call SendData.  Only m_bRun and m_transportState    *)
(* are atomic and only the front sockets have a mutex, so every access to  *)
(* a shared field is a step of its own.                                    *)
(*                                                                         *)
(* Poll threads are numbered; the identity a poll thread generates, and    *)
(* with it the inproc address of its back socket, is that number.  The     *)
(* timer is modelled by its contract (see TimerWorker): while it runs it   *)
(* calls AutoConnect again and again.                                      *)
(***************************************************************************)
EXTENDS Integers, FiniteSets

CONSTANTS
  MaxPolls,      \* bound: poll threads ever started
  MaxCalls,      \* bound: Reset calls of the application
  MaxCallbacks,  \* bound: Reset calls from callbacks
  Senders,       \* the application threads that call SendData
  Overlap,       \* may Reset and AutoConnect overlap?
  SendOverlap,   \* may SendData and a Reset overlap?
  SetupFails,    \* may the setup of the sockets fail?
  FrontFails     \* may a thread give up when it gets no front socket?

ASSUME ZmqClientAssumption ==
  /\ MaxPolls \in Nat /\ MaxCalls \in Nat /\ MaxCallbacks \in Nat
  /\ Overlap \in BOOLEAN /\ SendOverlap \in BOOLEAN /\ SetupFails \in BOOLEAN
  /\ FrontFails \in BOOLEAN

\* enum EnumTransportState
TRANSPORT_FAILED == -1
UNDEFINE == 0
TRANSPORTED_POLL_FINISH == 1
TRANSPORTING == 2
TRANSPORTED == 3

Null == -1

Polls   == 1 .. MaxPolls
Poll(n) == <<"poll", n>>
User    == <<"user", 0>>
Timer   == <<"timer", 0>>
Threads == {User, Timer} \cup {Poll(n) : n \in Polls}

VARIABLES
  m_bRun, m_transportState, m_bStopMonitor,
  m_recvPollThreadid,   \* number of the poll thread that wrote it, 0 before
  m_recvthread,         \* number of the thread object's thread, 0 for none
  m_inprocAddress,      \* number of the poll thread that bound it, 0 before
  m_bAutoConnect,
  m_autoConnectTimer,   \* is the timer running?
  joined,               \* poll threads that are not joinable any more
  pc,                   \* by thread: its place in RecvPoll, Stop or Init
  reset,                \* by thread: its last call, "restart", "stop" or another
  joining,              \* by thread: the poll thread it joins
  home,                 \* by thread: where it goes on when its Reset returns
  spc,                  \* by sender: its place in SendData
  front,                \* by sender: address of its front socket in m_frontsockets,
                        \* 0 for no entry, Null for an entry without a socket
  calls, callbacks      \* calls so far

client == <<m_bRun, m_transportState, m_bStopMonitor, m_recvPollThreadid, m_recvthread,
            m_inprocAddress, m_bAutoConnect, m_autoConnectTimer, joined>>
ctl    == <<pc, reset, joining, home, calls, callbacks>>
send   == <<spc, front>>
vars   == <<client, ctl, send>>

Init ==
  /\ m_bRun = FALSE /\ m_transportState = UNDEFINE /\ m_bStopMonitor = FALSE
  /\ m_recvPollThreadid = 0 /\ m_recvthread = 0 /\ m_inprocAddress = 0
  /\ m_bAutoConnect = TRUE /\ m_autoConnectTimer = FALSE /\ joined = {}
  /\ pc = [t \in Threads |-> IF t \in {User, Timer} THEN "idle" ELSE "unborn"]
  /\ reset = [t \in Threads |-> "none"] /\ joining = [t \in Threads |-> 0]
  /\ home = [t \in Threads |-> "idle"]
  /\ spc = [s \in Senders |-> "idle"] /\ front = [s \in Senders |-> 0]
  /\ calls = 0 /\ callbacks = 0

Started == {n \in Polls : pc[Poll(n)] # "unborn"}

InReset(t) == pc[t] \in {"stop_run", "stop_state", "stop_front", "stop_check", "stop_join",
                         "stop_identity", "init_check", "init_timer", "init_thread",
                         "init_wait"}

Go(t, label) == pc' = [pc EXCEPT ![t] = label]

-----------------------------------------------------------------------------
(* Who calls Reset.                                                        *)

\* With Overlap = FALSE the application and the timer thread take turns, and with
\* SendOverlap = FALSE a Reset and the calls of SendData do.
MayReset == SendOverlap \/ \A s \in Senders : spc[s] = "idle"
MayStart(t) == MayReset /\ (Overlap \/ ~ \E x \in {User, Timer} \ {t} : InReset(x))

\* Reset (addr, ...) restarts, Reset () first stops the timer.
userReset(kind) ==
  /\ pc[User] = "idle" /\ calls < MaxCalls /\ MayStart(User)
  /\ calls' = calls + 1
  /\ reset' = [reset EXCEPT ![User] = kind]
  /\ Go(User, "stop_run")
  /\ m_autoConnectTimer' = IF kind = "stop" THEN FALSE ELSE m_autoConnectTimer
  /\ UNCHANGED <<m_bRun, m_transportState, m_bStopMonitor, m_recvPollThreadid, m_recvthread,
                 m_inprocAddress, m_bAutoConnect, joined, joining, home, callbacks, send>>

\* The timer is started whatever the new value; AutoConnect stops it again.
SetAutoConnect(b) ==
  /\ pc[User] = "idle" /\ calls < MaxCalls
  /\ calls' = calls + 1
  /\ m_bAutoConnect' = b
  /\ m_autoConnectTimer' = TRUE
  /\ reset' = [reset EXCEPT ![User] = "none"]
  /\ UNCHANGED <<m_bRun, m_transportState, m_bStopMonitor, m_recvPollThreadid, m_recvthread,
                 m_inprocAddress, joined, pc, joining, home, callbacks, send>>

\* AutoConnect on the timer thread: restart when the last pong is too old or
\* the connection is not up.
AutoConnect(expired) ==
  /\ pc[Timer] = "idle" /\ m_autoConnectTimer /\ m_bAutoConnect /\ MayStart(Timer)
  /\ expired \/ m_transportState < TRANSPORTING
  /\ Cardinality(Started) < MaxPolls
  /\ reset' = [reset EXCEPT ![Timer] = "restart"]
  /\ Go(Timer, "stop_run")
  /\ UNCHANGED <<client, joining, home, calls, callbacks, send>>

\* The other branch of AutoConnect.
AutoConnectOff ==
  /\ pc[Timer] = "idle" /\ m_autoConnectTimer /\ ~ m_bAutoConnect
  /\ m_autoConnectTimer' = FALSE
  /\ UNCHANGED <<m_bRun, m_transportState, m_bStopMonitor, m_recvPollThreadid, m_recvthread,
                 m_inprocAddress, m_bAutoConnect, joined, ctl, send>>

\* A callback on poll thread n calls Reset; it returns to RecvPoll afterwards.
callbackReset(n) ==
  /\ callbacks < MaxCallbacks /\ MayReset
  /\ callbacks' = callbacks + 1
  /\ reset' = [reset EXCEPT ![Poll(n)] = "restart"]
  /\ home' = [home EXCEPT ![Poll(n)] = pc[Poll(n)]]
  /\ Go(Poll(n), "stop_run")

-----------------------------------------------------------------------------
(* Stop (), on any of these threads.                                       *)

stop_run(t) ==
  /\ pc[t] = "stop_run"
  /\ m_bRun' = FALSE
  /\ Go(t, "stop_state")
  /\ UNCHANGED <<m_transportState, m_bStopMonitor, m_recvPollThreadid, m_recvthread,
                 m_inprocAddress, m_bAutoConnect,
                 m_autoConnectTimer, joined, reset, joining, home, calls,
                 callbacks, send>>

stop_state(t) ==
  /\ pc[t] = "stop_state"
  /\ m_transportState' = UNDEFINE
  /\ Go(t, "stop_front")
  /\ UNCHANGED <<m_bRun, m_bStopMonitor, m_recvPollThreadid, m_recvthread,
                 m_inprocAddress, m_bAutoConnect,
                 m_autoConnectTimer, joined, reset, joining, home, calls,
                 callbacks, send>>

\* Plausible bug: the front sockets of other threads are left alone.
DeleteFrontSockets_kept(t) ==
  /\ pc[t] = "stop_front"
  /\ Go(t, "stop_check")
  /\ UNCHANGED <<client, reset, joining, home, calls, callbacks, send>>

\* DeleteFrontSockets, under m_frontMutex.  At an entry without a socket it goes
\* no further: it calls Disconnect of NULL.
DeleteFrontSockets(t) ==
  /\ pc[t] = "stop_front" /\ \A s \in Senders : front[s] # Null
  /\ front' = [s \in Senders |-> 0]
  /\ Go(t, "stop_check")
  /\ UNCHANGED <<client, reset, joining, home, calls, callbacks, spc>>

\* Is there a poll thread to join, and is it another thread?
stop_check(t) ==
  /\ pc[t] = "stop_check"
  /\ IF m_recvthread # 0 /\ m_recvthread \notin joined /\ t # Poll(m_recvPollThreadid)
     THEN joining' = [joining EXCEPT ![t] = m_recvthread] /\ Go(t, "stop_join")
     ELSE UNCHANGED joining /\ Go(t, "stop_identity")
  /\ UNCHANGED <<client, reset, home, calls, callbacks, send>>

stop_join(t) ==
  /\ pc[t] = "stop_join" /\ pc[Poll(joining[t])] = "ended"
  /\ joined' = joined \cup {joining[t]}
  /\ joining' = [joining EXCEPT ![t] = 0]
  /\ Go(t, "stop_identity")
  /\ UNCHANGED <<m_bRun, m_transportState, m_bStopMonitor, m_recvPollThreadid, m_recvthread,
                 m_inprocAddress, m_bAutoConnect, m_autoConnectTimer, reset, home, calls,
                 callbacks, send>>

\* The identity is cleared; Reset () is over, Reset (addr, ...) goes on.
stop_identity(t) ==
  /\ pc[t] = "stop_identity"
  /\ Go(t, IF reset[t] = "restart" THEN "init_check" ELSE home[t])
  /\ UNCHANGED <<client, reset, joining, home, calls, callbacks, send>>

-----------------------------------------------------------------------------
(* Init (): start a poll thread and wait for it to report.                 *)

init_check(t) ==
  /\ pc[t] = "init_check"
  /\ Go(t, IF m_recvthread # 0 /\ m_recvthread \notin joined THEN home[t] ELSE "init_timer")
  /\ UNCHANGED <<client, reset, joining, home, calls, callbacks, send>>

\* m_autoConnectTimer.Start () if wanted, and m_transportState = UNDEFINE.
init_timer(t) ==
  /\ pc[t] = "init_timer"
  /\ m_autoConnectTimer' = (m_autoConnectTimer \/ m_bAutoConnect)
  /\ m_transportState' = UNDEFINE
  /\ Go(t, "init_thread")
  /\ UNCHANGED <<m_bRun, m_bStopMonitor, m_recvPollThreadid, m_recvthread, m_inprocAddress,
                 m_bAutoConnect, joined, reset, joining, home, calls, callbacks, send>>

init_thread(t) ==
  /\ pc[t] = "init_thread" /\ Cardinality(Started) < MaxPolls
  /\ LET n == Cardinality(Started) + 1
     IN /\ m_recvthread' = n
        /\ pc' = [pc EXCEPT ![Poll(n)] = "start", ![t] = "init_wait"]
  /\ UNCHANGED <<m_bRun, m_transportState, m_bStopMonitor, m_recvPollThreadid,
                 m_inprocAddress, m_bAutoConnect,
                 m_autoConnectTimer, joined, reset, joining, home, calls,
                 callbacks, send>>

init_wait(t) ==
  /\ pc[t] = "init_wait" /\ m_transportState # UNDEFINE
  /\ Go(t, home[t])
  /\ UNCHANGED <<client, reset, joining, home, calls, callbacks, send>>

-----------------------------------------------------------------------------
(* RecvPoll, on poll thread n.                                             *)

poll_start(n) ==
  /\ pc[Poll(n)] = "start"
  /\ m_bStopMonitor' = FALSE
  /\ m_recvPollThreadid' = n
  /\ Go(Poll(n), "setup")
  /\ UNCHANGED <<m_bRun, m_transportState, m_recvthread, m_inprocAddress,
                 m_bAutoConnect, m_autoConnectTimer, joined, reset, joining, home, calls,
                 callbacks, send>>

\* Sockets, monitor, identity, client socket and back socket are set up.
poll_setup(n) ==
  /\ pc[Poll(n)] = "setup"
  /\ m_inprocAddress' = n
  /\ Go(Poll(n), "run")
  /\ UNCHANGED <<m_bRun, m_transportState, m_bStopMonitor, m_recvPollThreadid, m_recvthread,
                 m_bAutoConnect, m_autoConnectTimer, joined, reset, joining, home, calls,
                 callbacks, send>>

\* One of them fails: the thread reports it and ends.
poll_setup_failed(n) ==
  /\ SetupFails /\ pc[Poll(n)] = "setup"
  /\ m_transportState' = TRANSPORT_FAILED
  /\ Go(Poll(n), "ended")
  /\ UNCHANGED <<m_bRun, m_bStopMonitor, m_recvPollThreadid, m_recvthread, m_inprocAddress,
                 m_bAutoConnect, m_autoConnectTimer, joined, reset, joining, home, calls,
                 callbacks, send>>

\* Plausible bug: the state is published first, and m_bRun is set after it.
poll_run_late(n) ==
  /\ \/ /\ pc[Poll(n)] = "run"
        /\ m_transportState' = TRANSPORTING
        /\ Go(Poll(n), "state") /\ UNCHANGED m_bRun
     \/ /\ pc[Poll(n)] = "state"
        /\ m_bRun' = TRUE
        /\ Go(Poll(n), "loop") /\ UNCHANGED m_transportState
  /\ UNCHANGED <<m_bStopMonitor, m_recvPollThreadid, m_recvthread, m_inprocAddress,
                 m_bAutoConnect, m_autoConnectTimer, joined, reset, joining, home, calls,
                 callbacks, send>>

\* m_bRun = true, then m_transportState = TRANSPORTING.
poll_run(n) ==
  /\ \/ /\ pc[Poll(n)] = "run"
        /\ m_bRun' = TRUE
        /\ Go(Poll(n), "state") /\ UNCHANGED m_transportState
     \/ /\ pc[Poll(n)] = "state"
        /\ m_transportState' = TRANSPORTING
        /\ Go(Poll(n), "loop") /\ UNCHANGED m_bRun
  /\ UNCHANGED <<m_bStopMonitor, m_recvPollThreadid, m_recvthread, m_inprocAddress,
                 m_bAutoConnect, m_autoConnectTimer, joined, reset, joining, home, calls,
                 callbacks, send>>

\* while (m_bRun), and the end of a turn; m_bRun may change in between.
poll_turn(n) ==
  /\ \/ pc[Poll(n)] = "loop" /\ m_bRun /\ Go(Poll(n), "body")
     \/ pc[Poll(n)] = "body" /\ Go(Poll(n), "loop")
  /\ UNCHANGED <<client, reset, joining, home, calls, callbacks, send>>

\* MonitorRecv dispatches an event, in the loop or while draining: CONNECTED,
\* CLOSED or DISCONNECTED change the state (others do not), then the callback
\* runs.  An event read after a timed-out recv is arbitrary.
OnEvent(n, up) ==
  /\ \/ pc[Poll(n)] = "body"
     \/ pc[Poll(n)] = "drain" /\ ~ m_bStopMonitor
  /\ m_transportState' = IF up THEN TRANSPORTED ELSE TRANSPORT_FAILED
  /\ m_bRun' = (m_bRun /\ up)
  /\ \/ UNCHANGED <<pc, reset, home, callbacks>>
     \/ callbackReset(n)
  /\ UNCHANGED <<m_bStopMonitor, m_recvPollThreadid, m_recvthread, m_inprocAddress,
                 m_bAutoConnect, m_autoConnectTimer, joined, joining, calls, send>>

\* ClientSocketRecv: a message for the receive callback.
ClientSocketRecv(n) ==
  /\ pc[Poll(n)] = "body"
  /\ callbackReset(n)
  /\ UNCHANGED <<client, joining, calls, send>>

\* The loop is left; the sockets are unbound, disconnected and closed.
poll_leave(n) ==
  /\ pc[Poll(n)] = "loop" /\ ~ m_bRun
  /\ Go(Poll(n), "drain")
  /\ UNCHANGED <<client, reset, joining, home, calls, callbacks, send>>

\* OnEventStop, or the 1000th turn of the loop.
poll_drained(n) ==
  /\ pc[Poll(n)] = "drain"
  /\ m_bStopMonitor' \in {m_bStopMonitor, TRUE}
  /\ Go(Poll(n), "finish")
  /\ UNCHANGED <<m_bRun, m_transportState, m_recvPollThreadid, m_recvthread, m_inprocAddress,
                 m_bAutoConnect, m_autoConnectTimer, joined, reset, joining, home, calls,
                 callbacks, send>>

poll_finish(n) ==
  /\ pc[Poll(n)] = "finish"
  /\ m_transportState' = TRANSPORTED_POLL_FINISH
  /\ Go(Poll(n), "ended")
  /\ UNCHANGED <<m_bRun, m_bStopMonitor, m_recvPollThreadid, m_recvthread, m_inprocAddress,
                 m_bAutoConnect, m_autoConnectTimer, joined, reset, joining, home, calls,
                 callbacks, send>>

-----------------------------------------------------------------------------
(* SendData, on an application thread.                                     *)

send_check(s) ==
  /\ spc[s] = "idle" /\ m_transportState >= TRANSPORTING
  /\ SendOverlap \/ ~ \E t \in Threads : InReset(t)
  /\ spc' = [spc EXCEPT ![s] = "front"]
  /\ UNCHANGED <<client, ctl, front>>

\* NewFrontSockets, under m_frontMutex.  The lookup leaves an entry in
\* m_frontsockets, and when the new socket cannot be made, set up or connected
\* the entry stays without a socket and SendData returns false.  With FrontFails =
\* FALSE the thread calls SendData again until it gets one.
NewFrontSockets(s) ==
  /\ spc[s] = "front"
  /\ \/ /\ front' = [front EXCEPT ![s] = IF @ \in {0, Null} THEN m_inprocAddress ELSE @]
        /\ spc' = [spc EXCEPT ![s] = "send"]
     \/ /\ SetupFails /\ front[s] \in {0, Null}
        /\ front' = [front EXCEPT ![s] = Null]
        /\ spc' = [spc EXCEPT ![s] = IF FrontFails THEN "idle" ELSE @]
  /\ UNCHANGED <<client, ctl>>

\* sock->Send, without the mutex.
Send(s) ==
  /\ spc[s] = "send"
  /\ spc' = [spc EXCEPT ![s] = "idle"]
  /\ UNCHANGED <<client, ctl, front>>

-----------------------------------------------------------------------------
Stop(t) == \/ stop_run(t) \/ stop_state(t) \/ DeleteFrontSockets(t) \/ stop_check(t)
           \/ stop_join(t) \/ stop_identity(t)

InitCall(t) == init_check(t) \/ init_timer(t) \/ init_thread(t) \/ init_wait(t)

RecvPoll(n) == \/ poll_start(n) \/ poll_setup(n) \/ poll_setup_failed(n) \/ poll_run(n)
               \/ poll_turn(n) \/ poll_leave(n) \/ poll_drained(n) \/ poll_finish(n)

Events(n) == (\E up \in BOOLEAN : OnEvent(n, up)) \/ ClientSocketRecv(n)

SendData(s) == send_check(s) \/ NewFrontSockets(s) \/ Send(s)

Next == \/ \E kind \in {"restart", "stop"} : userReset(kind)
        \/ \E b \in BOOLEAN : SetAutoConnect(b)
        \/ \E expired \in BOOLEAN : AutoConnect(expired)
        \/ AutoConnectOff
        \/ \E t \in Threads : Stop(t) \/ InitCall(t)
        \/ \E n \in Polls : RecvPoll(n) \/ Events(n)
        \/ \E s \in Senders : SendData(s)

Spec == Init /\ [][Next]_vars

\* All that a poll thread does by itself.
PollThread(n) == Stop(Poll(n)) \/ InitCall(Poll(n)) \/ RecvPoll(n)

\* A thread inside Stop, Init, RecvPoll or SendData goes on, and a running timer
\* calls AutoConnect; strongly, for a thread that sends again and again does not
\* keep it from its turn.  No heartbeat has to expire, nothing has to happen on
\* the network and the application has to call nothing.
Fairness ==
  /\ \A t \in {User, Timer} : WF_vars(Stop(t) \/ InitCall(t))
  /\ \A n \in Polls : WF_vars(PollThread(n))
  /\ \A s \in Senders : WF_vars(NewFrontSockets(s) \/ Send(s))
  /\ SF_vars(AutoConnectOff \/ AutoConnect(FALSE))

FairSpec == Spec /\ Fairness

-----------------------------------------------------------------------------
(* Properties.                                                             *)

Running == {n \in Polls : pc[Poll(n)] \notin {"unborn", "ended"}}

\* One client, one poll thread: two would share m_bRun, the monitor flag and
\* the context, and a Stop would only join one of them.
OnePollThread == Cardinality(Running) <= 1

\* When Reset () has returned on the application thread, until its next call
\* and while no restart is under way, nothing of the client runs on and
\* SendData refuses.
StoppedMeansStopped ==
  pc[User] = "idle" /\ reset[User] = "stop" /\ ~ InReset(Timer) =>
    Running = {} /\ m_transportState < TRANSPORTING

\* Neither Stop's join nor Init's wait hangs: a Reset that was called returns,
\* unless the bound on poll threads keeps it from starting one.
ResetReturns ==
  \A t \in Threads :
    []<>(InReset(t) => pc[t] = "init_thread" /\ Cardinality(Started) = MaxPolls)

\* While the timer runs, a poll thread that ended, or whose connection failed,
\* is followed by a new one, or the application turns reconnection off.
Reconnects ==
  \A k \in 1 .. MaxPolls - 1 :
    (/\ Cardinality(Started) = k /\ m_autoConnectTimer
     /\ m_transportState = TRANSPORT_FAILED \/ Running = {})
    ~> (Cardinality(Started) > k \/ ~ m_autoConnectTimer)

\* What a thread sends goes to the back socket of the poll thread that runs, and
\* not to the address of an earlier one.
FrontsCurrent == \A s \in Senders : spc[s] = "send" => front[s] = m_inprocAddress

\* A client keeps to one poll thread, stops it, and sends through the new one.
ClientSafe == OnePollThread /\ StoppedMeansStopped /\ FrontsCurrent

\* A client does not hang, and comes back after a failure.
ClientLives == ResetReturns /\ Reconnects
=============================================================================
