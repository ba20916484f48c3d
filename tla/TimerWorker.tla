----------------------------- MODULE TimerWorker ----------------------------
(***************************************************************************)
(* TimerWorker (TimerWorker.cpp) on its one-thread ThreadGroupImpl         *)
(* (ThreadGroupImpl.cpp): the timer that drives automatic reconnection.    *)
(* OnTimeout waits, runs the work routine and posts itself again; Start    *)
(* posts a first OnTimeout and Stop interrupts the wait.  Neither takes a  *)
(* lock, and the work routine itself calls them (AutoConnect restarts the  *)
(* client, which starts the timer), so every shared access is a step.      *)
(*                                                                         *)
(* The io_service and the select interrupter belong to boost: a queue      *)
(* length, a stopped flag and a flag that makes the wait return.           *)
(***************************************************************************)
EXTENDS Integers

CONSTANTS
  Apps,      \* the application threads that call Start and Stop
  Owner,     \* the one of them that destroys the timer
  MaxTimerCalls,  \* bound: calls of Start and Stop
  RestartInDestroy   \* may the work routine call Start while the timer is
                     \* destroyed (AutoConnect racing with ~ZmqClientBase)?

ASSUME TimerWorkerAssumption ==
  /\ Owner \in Apps /\ MaxTimerCalls \in Nat /\ RestartInDestroy \in BOOLEAN
  /\ Apps \cap {"worker", "second"} = {}

Worker  == "worker"            \* the group's thread
Second  == "second"            \* the thread that a restart of the group adds
TimerThreads == {Worker, Second}
Callers == Apps \cup TimerThreads

VARIABLES
  m_bRunning, interrupted,
  groupRunning,   \* ThreadGroupImpl::m_bRunning
  ioStopped,      \* io_service::stop () was called
  queue,          \* OnTimeout handlers posted and not taken
  m_initNumbers,
  at,             \* by thread: its place in ThreadsRun and OnTimeout
  call,           \* by caller: its place in Start, Stop or the destructor
  timerCalls

group     == <<groupRunning, ioStopped, m_initNumbers>>
timerVars == <<m_bRunning, interrupted, group, queue, at, call, timerCalls>>

Starting == {"start_reset", "start_group", "start_wait", "start_post"}
Dying    == {"destroy_interrupt", "group_stop", "io_stop", "join", "destroyed"}
Places   == {"none", "start_set", "stop_interrupt"} \cup Starting \cup Dying
Busy     == {"check", "wait", "recheck", "work", "repost"}

TypeOK ==
  /\ m_bRunning \in BOOLEAN /\ interrupted \in BOOLEAN
  /\ groupRunning \in BOOLEAN /\ ioStopped \in BOOLEAN
  /\ queue \in Nat /\ m_initNumbers \in Int /\ timerCalls \in Nat
  /\ at \in [TimerThreads -> {"none", "new", "idle", "ended"} \cup Busy]
  /\ call \in [Callers -> Places]

\* The constructors, with the group's thread already in run ().
TimerInit ==
  /\ m_bRunning = FALSE /\ interrupted = FALSE
  /\ groupRunning = TRUE /\ ioStopped = FALSE /\ m_initNumbers = 1
  /\ queue = 0 /\ timerCalls = 0
  /\ at = [th \in TimerThreads |-> IF th = Worker THEN "idle" ELSE "none"]
  /\ call = [t \in Callers |-> "none"]

Goes(t, place) == call' = [call EXCEPT ![t] = place]
Run(th, place) == at' = [at EXCEPT ![th] = place]

Destroying == call[Owner] \in Dying

\* A group thread calls from its work routine, the application at any time
\* until the owner destroys the timer.
MayCall(t) ==
  /\ call[t] = "none" /\ timerCalls < MaxTimerCalls
  /\ t \in TimerThreads => at[t] = "work"
  /\ Destroying => t \in TimerThreads /\ RestartInDestroy

-----------------------------------------------------------------------------
(* Start.                                                                  *)

start_check(t) ==
  /\ MayCall(t)
  /\ timerCalls' = timerCalls + 1
  /\ Goes(t, IF m_bRunning THEN "none" ELSE "start_set")
  /\ UNCHANGED <<m_bRunning, interrupted, group, queue, at>>

start_set(t) ==
  /\ call[t] = "start_set"
  /\ m_bRunning' = TRUE
  /\ Goes(t, "start_reset")
  /\ UNCHANGED <<interrupted, group, queue, at, timerCalls>>

start_reset(t) ==
  /\ call[t] = "start_reset"
  /\ interrupted' = FALSE
  /\ Goes(t, "start_group")
  /\ UNCHANGED <<m_bRunning, group, queue, at, timerCalls>>

\* ThreadGroupImpl::Start returns when the group runs.
start_group(t) ==
  /\ call[t] = "start_group" /\ groupRunning
  /\ Goes(t, "start_post")
  /\ UNCHANGED <<m_bRunning, interrupted, group, queue, at, timerCalls>>

\* It creates a thread when the group was stopped ...
start_threads(t) ==
  /\ call[t] = "start_group" /\ ~ groupRunning
  /\ groupRunning' = TRUE
  /\ Run(Second, "new")
  /\ Goes(t, "start_wait")
  /\ UNCHANGED <<m_bRunning, interrupted, ioStopped, m_initNumbers, queue, timerCalls>>

\* ... and spins until m_initNumbers is the number of threads of the group.
start_wait(t) ==
  /\ call[t] = "start_wait" /\ m_initNumbers = 1
  /\ Goes(t, "start_post")
  /\ UNCHANGED <<m_bRunning, interrupted, group, queue, at, timerCalls>>

start_post(t) ==
  /\ call[t] = "start_post"
  /\ queue' = queue + 1
  /\ Goes(t, "none")
  /\ UNCHANGED <<m_bRunning, interrupted, group, at, timerCalls>>

-----------------------------------------------------------------------------
(* Stop, and the destructors of TimerWorker and ThreadGroupImpl.           *)

stop_set(t) ==
  /\ MayCall(t)
  /\ timerCalls' = timerCalls + 1
  /\ m_bRunning' = FALSE
  /\ Goes(t, "stop_interrupt")
  /\ UNCHANGED <<interrupted, group, queue, at>>

stop_interrupt(t) ==
  /\ call[t] \in {"stop_interrupt", "destroy_interrupt"}
  /\ interrupted' = TRUE
  /\ Goes(t, IF call[t] = "stop_interrupt" THEN "none" ELSE "group_stop")
  /\ UNCHANGED <<m_bRunning, group, queue, at, timerCalls>>

\* ~TimerWorker: Stop (), then m_threadGroup->Stop ().
destroy ==
  /\ \A t \in Apps : call[t] = "none"
  /\ RestartInDestroy \/ \A t \in TimerThreads : call[t] = "none"
  /\ m_bRunning' = FALSE
  /\ Goes(Owner, "destroy_interrupt")
  /\ UNCHANGED <<interrupted, group, queue, at, timerCalls>>

group_stop ==
  /\ call[Owner] = "group_stop"
  /\ groupRunning' = FALSE
  /\ Goes(Owner, "io_stop")
  /\ UNCHANGED <<m_bRunning, interrupted, ioStopped, m_initNumbers, queue, at, timerCalls>>

io_stop ==
  /\ call[Owner] = "io_stop"
  /\ ioStopped' = TRUE
  /\ Goes(Owner, "join")
  /\ UNCHANGED <<m_bRunning, interrupted, groupRunning, m_initNumbers, queue, at, timerCalls>>

\* Plausible bug: the group does not join its thread.
join_not ==
  /\ call[Owner] = "join"
  /\ m_initNumbers' = m_initNumbers - 1
  /\ Goes(Owner, "destroyed")
  /\ UNCHANGED <<m_bRunning, interrupted, groupRunning, ioStopped, queue, at, timerCalls>>

\* m_threads [0] is joined and taken off the count; the others are let go.
join ==
  /\ call[Owner] = "join" /\ at[Worker] = "ended"
  /\ m_initNumbers' = m_initNumbers - 1
  /\ Goes(Owner, "destroyed")
  /\ UNCHANGED <<m_bRunning, interrupted, groupRunning, ioStopped, queue, at, timerCalls>>

-----------------------------------------------------------------------------
(* The group's threads: ThreadsRun and OnTimeout.                          *)

\* A new thread counts itself.
ThreadsRun_init(th) ==
  /\ at[th] = "new"
  /\ m_initNumbers' = m_initNumbers + 1
  /\ Run(th, "idle")
  /\ UNCHANGED <<m_bRunning, interrupted, groupRunning, ioStopped, queue, call, timerCalls>>

\* run () takes a handler, or returns once the io_service is stopped.
ThreadsRun(th) ==
  /\ at[th] = "idle"
  /\ \/ ioStopped /\ Run(th, "ended") /\ UNCHANGED queue
     \/ ~ ioStopped /\ queue > 0 /\ Run(th, "check") /\ queue' = queue - 1
  /\ UNCHANGED <<m_bRunning, interrupted, group, call, timerCalls>>

\* Plausible bug: an interrupted wait counts as a Stop.
OnTimeoutGivesUp(th) ==
  /\ \/ at[th] = "check" /\ Run(th, IF m_bRunning THEN "wait" ELSE "idle")
     \/ at[th] = "recheck" /\ Run(th, IF m_bRunning /\ ~ interrupted THEN "work" ELSE "idle")
  /\ UNCHANGED <<m_bRunning, interrupted, group, queue, call, timerCalls>>

\* Plausible bug: a stopped handler skips its work but stays in the queue.
OnTimeoutKeeps(th) ==
  /\ \/ at[th] = "check" /\ Run(th, IF m_bRunning THEN "wait" ELSE "repost")
     \/ at[th] = "recheck" /\ Run(th, IF m_bRunning THEN "work" ELSE "repost")
  /\ UNCHANGED <<m_bRunning, interrupted, group, queue, call, timerCalls>>

\* The first and the second look at m_bRunning.
OnTimeout(th) ==
  /\ \/ at[th] = "check" /\ Run(th, IF m_bRunning THEN "wait" ELSE "idle")
     \/ at[th] = "recheck" /\ Run(th, IF m_bRunning THEN "work" ELSE "idle")
  /\ UNCHANGED <<m_bRunning, interrupted, group, queue, call, timerCalls>>

\* select returns early, or after m_milliSeconds.
Wait(th, early) ==
  /\ at[th] = "wait" /\ (early => interrupted)
  /\ Run(th, "recheck")
  /\ UNCHANGED <<m_bRunning, interrupted, group, queue, call, timerCalls>>

\* The work routine returns.
workRoutine(th) ==
  /\ at[th] = "work" /\ call[th] = "none"
  /\ Run(th, "repost")
  /\ UNCHANGED <<m_bRunning, interrupted, group, queue, call, timerCalls>>

\* The handler posts itself again, whatever m_bRunning is by now.
Post(th) ==
  /\ at[th] = "repost"
  /\ queue' = queue + 1
  /\ Run(th, "idle")
  /\ UNCHANGED <<m_bRunning, interrupted, group, call, timerCalls>>

-----------------------------------------------------------------------------
StartSteps(t) == start_set(t) \/ start_reset(t) \/ start_group(t) \/ start_threads(t)
                 \/ start_wait(t) \/ start_post(t)

Start(t) == start_check(t) \/ StartSteps(t)
TimerStop(t)  == stop_set(t) \/ stop_interrupt(t)

Inside(t) == StartSteps(t) \/ stop_interrupt(t)

Destructor == group_stop \/ io_stop \/ join

Handler(th) == \/ ThreadsRun_init(th) \/ ThreadsRun(th) \/ OnTimeout(th)
               \/ (\E early \in BOOLEAN : Wait(th, early))
               \/ workRoutine(th) \/ Post(th)

TimerNext == \/ \E t \in Callers : Start(t) \/ TimerStop(t)
        \/ destroy \/ Destructor
        \/ \E th \in TimerThreads : Handler(th)

TimerSpec == TimerInit /\ [][TimerNext]_timerVars

\* Threads that are inside a call or a handler go on, the wait returns when it
\* is interrupted and after m_milliSeconds, and the work routine returns.
TimerFairness ==
  /\ \A t \in Callers : WF_timerVars(Inside(t))
  /\ WF_timerVars(Destructor) /\ \A th \in TimerThreads : WF_timerVars(Handler(th))

TimerFairSpec == TimerSpec /\ TimerFairness

-----------------------------------------------------------------------------
(* Properties.                                                             *)

\* A timer that says it runs is alive: an OnTimeout is posted, under way, or
\* about to be posted by a Start.  Otherwise no Start would ever revive it,
\* because Start returns at once.
TimerAlive ==
  m_bRunning => \/ queue > 0
                \/ \E th \in TimerThreads : at[th] \in Busy
                \/ \E t \in Callers : call[t] \in Starting

\* A timer that stays stopped takes no more CPU: all handlers that several
\* Start and Stop calls have left behind give up.
StopQuiesces == <>[](~ m_bRunning /\ ~ ioStopped) => <>[](queue = 0 /\ at[Worker] = "idle")

\* The destructor returns although the worker may be waiting, at work or about
\* to post itself again.
DestroyReturns == (call[Owner] = "destroy_interrupt") ~> (call[Owner] = "destroyed")

\* A stop and a destruction both come to an end.
TimerEnds == StopQuiesces /\ DestroyReturns

\* No handler runs on a destroyed timer.
NoHandlerAfterDestroy ==
  call[Owner] = "destroyed" => \A th \in TimerThreads : at[th] \in {"none", "ended"}
=============================================================================
