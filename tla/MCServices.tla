----------------------------- MODULE MCServices ------------------------------
(***************************************************************************)
(* TLC model of the client object, ZmqClient, or of what it lives on:      *)
(* TimerWorker, the Heartbeat that the timer looks after, or ClientSend.   *)
(* Which one is chosen in the initial state, and the other three then stay *)
(* as they are, so the four are checked side by side and not multiplied.   *)
(***************************************************************************)
EXTENDS ZmqClient, TimerWorker, Heartbeat, Sequences

CONSTANTS Models, Clients, SendThreads, Overloads, CommandSizes, Hwm, IovSize, MaxSends, ConnectedFirst

VARIABLES
  place, current, partial, frontQueue, result, sends, connection, vec, midMessage,
  cliPartial, dropping, kind, more_out, current_out, server, lost,
  model

S == INSTANCE ClientSend WITH Threads <- SendThreads, MaxCalls <- MaxSends,
                              queue <- frontQueue, calls <- sends, client <- kind

sendVars == <<place, current, partial, frontQueue, result, sends, connection, vec,
              midMessage, cliPartial, dropping, kind, more_out, current_out, server, lost>>

MCSettings == {<<0, 1>>, <<1, 0>>, <<2, 1>>}

\* A component that is not looked at needs one initial state only.
MCInit ==
  /\ model \in Models
  /\ Init /\ TimerInit /\ HeartbeatInit /\ S!Init
  /\ model # "heartbeat" => now = 0 /\ m_heartbeatInterval = 0
  /\ model # "send" => kind = CHOOSE c \in Clients : TRUE

MCNext ==
  \/ model = "client"    /\ Next          /\ UNCHANGED <<model, timerVars, heartbeatVars, sendVars>>
  \/ model = "timer"     /\ TimerNext     /\ UNCHANGED <<model, vars, heartbeatVars, sendVars>>
  \/ model = "heartbeat" /\ HeartbeatNext /\ UNCHANGED <<model, vars, timerVars, sendVars>>
  \/ model = "send"      /\ S!Next        /\ UNCHANGED <<model, vars, timerVars, heartbeatVars>>

\* The fairness of the model chosen, action by action.
MCFairness ==
  /\ \A t \in {User, Timer} : WF_vars(model = "client" /\ (Stop(t) \/ InitCall(t)))
  /\ \A n \in Polls : WF_vars(model = "client" /\ PollThread(n))
  /\ \A s \in Senders : WF_vars(model = "client" /\ (NewFrontSockets(s) \/ Send(s)))
  /\ SF_vars(model = "client" /\ (AutoConnectOff \/ AutoConnect(FALSE)))
  /\ \A t \in Callers : WF_timerVars(model = "timer" /\ Inside(t))
  /\ WF_timerVars(model = "timer" /\ Destructor)
  /\ \A th \in TimerThreads : WF_timerVars(model = "timer" /\ Handler(th))
  /\ \A t \in SendThreads : /\ WF_sendVars(model = "send" /\ S!sendCommand(t))
                            /\ WF_sendVars(model = "send" /\ S!sendData(t))
                            /\ SF_sendVars(model = "send" /\ S!Recviov(t))
  /\ WF_sendVars(model = "send" /\ S!connected)
  /\ WF_sendVars(model = "send" /\ S!forwardPart)
  /\ WF_sendVars(model = "send" /\ S!forwardStream)

MCSpec ==
  MCInit /\ [][MCNext]_<<model, vars, timerVars, heartbeatVars, sendVars>> /\ MCFairness

\* The server receives the messages of the calls (ClientSend).
ServerGetsCalls == S!ServerGetsCalls

\* The server receives the messages of the calls that returned true, whole and
\* once (ClientSend).
CallsArrive == model = "send" => S!CallsArrive
=============================================================================
