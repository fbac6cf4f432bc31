----------------------------- MODULE ClientCalls -----------------------------
(***************************************************************************)
(* What start, stop and destroy of a websocket client promise the          *)
(* application that calls them: what each call returns, and when there may *)
(* be a connection.  There is no event bit, flag or state variable of the  *)
(* client here, and no task.  WsLifecycle implements it.                   *)
(*                                                                         *)
(* The promise has a condition.  A client is not to be called while its    *)
(* task is starting, nor while the task retires, after stop has returned;  *)
(* an application that does so may meet anything (chaos).                  *)
(***************************************************************************)

VARIABLES
  lasting,     \* the client ends only when it is stopped
  phase,       \* of the client
  connected,   \* there is a connection to the server
  doing,       \* the call the application is in, and how far
  answer       \* the last call that returned, and its result

calls == <<lasting, phase, connected, doing, answer>>

NoAnswer == <<"none", "none">>

Init ==
  /\ lasting \in BOOLEAN
  /\ phase = "stopped" /\ connected = FALSE
  /\ doing = "nothing" /\ answer = <<"init", "OK">>

Move(from, to) == phase = from /\ phase' = to
Continue(d, e) == doing = d /\ doing' = e /\ answer' = NoAnswer
Return(c, r)   == doing' = "nothing" /\ answer' = <<c, r>>

-----------------------------------------------------------------------------
(* The application.                                                        *)

\* A client that has not ended cannot be started again.
StartRefused ==
  /\ doing = "nothing" /\ phase \in {"running", "ending"}
  /\ Return("start", "FAIL")
  /\ UNCHANGED <<lasting, phase, connected>>

\* One that is stopped starts, unless memory runs out.
StartAccepted ==
  /\ phase = "stopped"
  /\ Continue("nothing", "start")
  /\ UNCHANGED <<lasting, phase, connected>>

StartFails ==
  /\ doing = "start"
  /\ Return("start", "FAIL")
  /\ UNCHANGED <<lasting, phase, connected>>

StartSucceeds ==
  /\ Move("stopped", "starting")
  /\ Continue("start", "started")
  /\ UNCHANGED <<lasting, connected>>

StartReturns ==
  /\ doing = "started"
  /\ Return("start", "OK")
  /\ UNCHANGED <<lasting, phase, connected>>

StopCalled ==
  /\ phase # "freed"
  /\ Continue("nothing", "stop")
  /\ UNCHANGED <<lasting, phase, connected>>

\* A client that has ended, or is about to, is not stopped ...
StopRefused ==
  /\ doing = "stop" /\ phase \in {"stopped", "ending"}
  /\ Return("stop", "FAIL")
  /\ UNCHANGED <<lasting, phase, connected>>

\* ... and one that runs is, before stop returns.
StopAccepted ==
  /\ Move("running", "stopping")
  /\ Continue("stop", "stopping") \/ Continue("destroy", "destroying")
  /\ UNCHANGED <<lasting, connected>>

StopReturns ==
  /\ doing = "stopping" /\ phase \in {"retiring", "stopped"}
  /\ Return("stop", "OK")
  /\ UNCHANGED <<lasting, phase, connected>>

\* destroy stops a client that runs ...
DestroyCalled ==
  /\ \/ phase = "running" /\ Continue("nothing", "destroy")
     \/ phase \in {"stopped", "ending"} /\ Continue("nothing", "freeing")
  /\ UNCHANGED <<lasting, phase, connected>>

DestroyGoesOn ==
  /\ \/ phase \in {"stopped", "ending"} /\ Continue("destroy", "freeing")
     \/ phase \in {"retiring", "stopped"} /\ Continue("destroying", "freeing")
  /\ UNCHANGED <<lasting, phase, connected>>

\* ... and frees it when it does not run any more: it may still be about to end.
DestroyReturns ==
  /\ doing = "freeing" /\ phase \in {"stopped", "ending", "retiring"}
  /\ phase' = "freed" /\ connected' = FALSE
  /\ Return("destroy", "OK")
  /\ UNCHANGED lasting

\* A call that looks at the client at the wrong time.
Misuse ==
  /\ doing \in {"nothing", "stop", "destroy"} /\ phase \in {"starting", "retiring"}
  /\ phase' = "chaos" /\ connected' = FALSE
  /\ doing' = "nothing" /\ answer' = NoAnswer
  /\ UNCHANGED lasting

Application ==
  \/ StartRefused \/ StartAccepted \/ StartFails \/ StartSucceeds \/ StartReturns
  \/ StopCalled \/ StopRefused \/ StopAccepted \/ StopReturns
  \/ DestroyCalled \/ DestroyGoesOn \/ DestroyReturns
  \/ Misuse

-----------------------------------------------------------------------------
(* The client.                                                             *)

\* A client that runs or is being stopped opens and closes connections ...
Connection ==
  /\ phase \in {"running", "stopping"}
  /\ connected' = ~connected
  /\ UNCHANGED <<lasting, phase, doing, answer>>

\* ... and ends without one; on its own accord only if it is not a lasting one.
Life ==
  /\ \/ Move("starting", "running")
     \/ ~lasting /\ (Move("starting", "ending") \/ Move("running", "ending"))
     \/ Move("stopping", "retiring") \/ Move("ending", "retiring")
     \/ Move("retiring", "stopped")
  /\ phase' # "running" => ~connected
  /\ UNCHANGED <<lasting, connected, doing, answer>>

Next == Application \/ Connection \/ Life

Spec == Init /\ [][Next]_calls
=============================================================================
