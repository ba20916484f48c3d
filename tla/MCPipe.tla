------------------------------- MODULE MCPipe -------------------------------
(* TLC models of Pipe: the socket writes past its watermark of three (the   *)
(* low one is two), the session's direction has no watermark.               *)
EXTENDS Pipe

SocketHwm   == [e \in Ends |-> IF e = "socket" THEN 3 ELSE 0]
SocketMsgs  == [e \in Ends |-> IF e = "socket" THEN 4 ELSE 0]
TwoWayMsgs  == [e \in Ends |-> IF e = "socket" THEN 2 ELSE 1]
OnceEach    == [e \in Ends |-> 1]
SocketOnly  == [e \in Ends |-> IF e = "socket" THEN 1 ELSE 0]
=============================================================================
