----------------------------- MODULE WsLifecycle -----------------------------
(***************************************************************************)
(* The life of a websocket client: esp_websocket_client_start, _stop and   *)
(* _destroy, called by one application task as websocket_client.h asks     *)
(* (after _init, with _destroy last), against the websocket task they      *)
(* create and end.  They meet in client->state, client->run, STOPPED_BIT   *)
(* and the client object itself, none of which a lock protects: every      *)
(* access that matters is an action of its own.                            *)
(*                                                                         *)
(* A pass of the task's loop is one action here (WsClient has its detail). *)
(* Its calls of the transport all have timeouts, so it ends.               *)
(***************************************************************************)
EXTENDS Naturals, FiniteSets

CONSTANT TaskIds   \* bound: the websocket tasks xTaskCreate may create

VARIABLES
  config,   \* client->config: is auto_reconnect set, is there a transport for scheme
  live,     \* the client object is allocated
  state,    \* client->state
  run,      \* client->run
  stopped,  \* STOPPED_BIT of client->status_bits
  open,     \* the transport has an open connection
  taskPc,   \* websocket task -> where it is
  appPc,    \* where the application task is
  call,     \* the call it is in, or was in last
  result,   \* what that call returned
  early,    \* history: a call looked at the client while a task that start had
            \* created was still to write INIT
  late      \* history: ... while a task that had set STOPPED_BIT was still to write UNKNOW

clientVars == <<config, live, state, run, stopped, open>>
appVars    == <<appPc, call, result>>
lookVars   == <<early, late>>
vars       == <<clientVars, taskPc, appVars, lookVars>>

TypeOK ==
  /\ config \in [autoReconnect : BOOLEAN, schemeKnown : BOOLEAN]
  /\ live \in BOOLEAN
  /\ state \in {"UNKNOW", "INIT", "CONNECTED", "WAIT_TIMEOUT"}
  /\ run \in BOOLEAN /\ stopped \in BOOLEAN /\ open \in BOOLEAN
  /\ taskPc \in [TaskIds -> {"none", "born", "scheme", "state", "clear", "test", "body",
                             "close", "stopped", "last", "gone"}]
  /\ appPc \in {"idle", "create", "clear", "check", "wait", "waited", "free", "done"}
  /\ call \in {"init", "start", "stop", "destroy"}
  /\ result \in {"OK", "FAIL"}
  /\ early \in BOOLEAN /\ late \in BOOLEAN

\* esp_websocket_client_init has returned a client.
Init ==
  /\ config \in [autoReconnect : BOOLEAN, schemeKnown : BOOLEAN]
  /\ live = TRUE /\ state = "UNKNOW" /\ run = FALSE /\ stopped = FALSE /\ open = FALSE
  /\ taskPc = [t \in TaskIds |-> "none"]
  /\ appPc = "idle" /\ call = "init" /\ result = "OK"
  /\ early = FALSE /\ late = FALSE

At(labels) == {t \in TaskIds : taskPc[t] \in labels}

\* The application looks at the client to decide what a call does.
Look ==
  /\ early' = (early \/ At({"born", "scheme", "state"}) # {})
  /\ late' = (late \/ At({"last"}) # {})

Return(r) == appPc' = "idle" /\ result' = r

-----------------------------------------------------------------------------
(* The calls of the application task.                                      *)

\* esp_websocket_client_start: the client has started if its state says so.
Start ==
  /\ appPc = "idle"
  /\ call' = "start"
  /\ Look
  /\ IF state = "UNKNOW" THEN appPc' = "create" /\ UNCHANGED result ELSE Return("FAIL")
  /\ UNCHANGED <<clientVars, taskPc>>

\* xTaskCreate
CreateTask(t) ==
  /\ appPc = "create" /\ taskPc[t] = "none"
  /\ taskPc' = [taskPc EXCEPT ![t] = "born"]
  /\ appPc' = "clear"
  /\ UNCHANGED <<clientVars, call, result, lookVars>>

CreateFails ==
  /\ appPc = "create"
  /\ Return("FAIL")
  /\ UNCHANGED <<clientVars, taskPc, call, lookVars>>

\* STOPPED_BIT is cleared when the task may already be running.
ClearStopped ==
  /\ appPc = "clear"
  /\ stopped' = FALSE
  /\ Return("OK")
  /\ UNCHANGED <<config, live, state, run, open, taskPc, call, lookVars>>

\* esp_websocket_client_stop
Stop ==
  /\ appPc = "idle"
  /\ call' = "stop"
  /\ appPc' = "check"
  /\ UNCHANGED <<clientVars, taskPc, result, lookVars>>

\* A call of stop by the application returns; one by destroy goes on to free the client.
StopReturns(r) == IF call = "destroy" THEN appPc' = "free" /\ UNCHANGED result ELSE Return(r)

\* if (!client->run), "Client was not started"
StopRefused ==
  /\ appPc = "check" /\ ~run
  /\ Look
  /\ StopReturns("FAIL")
  /\ UNCHANGED <<clientVars, taskPc, call>>

\* mutant: run is left alone, so that the loop goes on
RequestStopForgotten ==
  /\ appPc = "check" /\ run
  /\ Look
  /\ appPc' = "wait"
  /\ UNCHANGED <<clientVars, taskPc, call, result>>

RequestStop ==
  /\ appPc = "check" /\ run
  /\ Look
  /\ run' = FALSE
  /\ appPc' = "wait"
  /\ UNCHANGED <<config, live, state, stopped, open, taskPc, call, result>>

\* mutant: the wait for the task is left out
WaitSkipped ==
  /\ appPc = "wait"
  /\ appPc' = "waited"
  /\ UNCHANGED <<clientVars, taskPc, call, result, lookVars>>

\* xEventGroupWaitBits, with no timeout; the bit stays set.
WaitStopped ==
  /\ appPc = "wait" /\ stopped
  /\ appPc' = "waited"
  /\ UNCHANGED <<clientVars, taskPc, call, result, lookVars>>

FinishStop ==
  /\ appPc = "waited"
  /\ state' = "UNKNOW"
  /\ StopReturns("OK")
  /\ UNCHANGED <<config, live, run, stopped, open, taskPc, call, lookVars>>

\* esp_websocket_client_destroy, which stops a client that runs
Destroy ==
  /\ appPc = "idle"
  /\ call' = "destroy"
  /\ Look
  /\ appPc' = IF run THEN "check" ELSE "free"
  /\ UNCHANGED <<clientVars, taskPc, result>>

\* The event loop, the configuration, the transports, the mutex, the buffers, the
\* event group and the client are freed.
FreeClient ==
  /\ appPc = "free"
  /\ live' = FALSE
  /\ open' = FALSE
  /\ appPc' = "done" /\ result' = "OK"
  /\ UNCHANGED <<config, state, run, stopped, taskPc, call, lookVars>>

AppStep ==
  \/ CreateFails
  \/ ClearStopped
  \/ StopRefused
  \/ RequestStop
  \/ WaitStopped
  \/ FinishStop
  \/ FreeClient
  \/ \E t \in TaskIds : CreateTask(t)

-----------------------------------------------------------------------------
(* esp_websocket_client_task.  A task whose client has been freed may do   *)
(* anything; the model ends there.                                         *)

Goto(t, from, to) ==
  /\ live /\ taskPc[t] = from
  /\ taskPc' = [taskPc EXCEPT ![t] = to]

TaskRuns(t) ==
  /\ Goto(t, "born", "scheme")
  /\ run' = TRUE
  /\ UNCHANGED <<config, live, state, stopped, open, appVars, lookVars>>

\* The transport of the scheme is looked up; without one the client ends at once.
GetTransport(t) ==
  /\ Goto(t, "scheme", "state")
  /\ run' = (run /\ config.schemeKnown)
  /\ UNCHANGED <<config, live, state, stopped, open, appVars, lookVars>>

\* mutant: the first state is written after the loop has been entered
SetInitLate(t) ==
  /\ Goto(t, "state", "clear")
  /\ UNCHANGED <<config, live, state, run, stopped, open, appVars, lookVars>>

SetInit(t) ==
  /\ Goto(t, "state", "clear")
  /\ state' = "INIT"
  /\ UNCHANGED <<config, live, run, stopped, open, appVars, lookVars>>

TaskClearsStopped(t) ==
  /\ Goto(t, "clear", "test")
  /\ stopped' = FALSE
  /\ UNCHANGED <<config, live, state, run, open, appVars, lookVars>>

\* while (client->run)
Enter(t) ==
  /\ run
  /\ Goto(t, "test", "body")
  /\ UNCHANGED <<clientVars, appVars, lookVars>>

Leave(t) ==
  /\ ~run
  /\ Goto(t, "test", "close")
  /\ UNCHANGED <<clientVars, appVars, lookVars>>

\* switch ((int)client->state): each case for INIT, CONNECTED and WAIT_TIMEOUT
Pass(t) ==
  /\ Goto(t, "body", "test")
  /\ \/ /\ state = "INIT" /\ config.schemeKnown
        /\ \/ state' = "CONNECTED" /\ open' = TRUE
           \/ state' = "WAIT_TIMEOUT" /\ open' = FALSE
        /\ UNCHANGED run
     \/ /\ state = "INIT" /\ ~config.schemeKnown
        /\ run' = FALSE
        /\ UNCHANGED <<state, open>>
     \/ /\ state = "CONNECTED"
        /\ \/ state' = "WAIT_TIMEOUT" /\ open' = FALSE
           \/ UNCHANGED <<state, open>>
        /\ UNCHANGED run
     \/ /\ state = "WAIT_TIMEOUT"
        /\ state' \in IF config.autoReconnect THEN {"WAIT_TIMEOUT", "INIT"} ELSE {"WAIT_TIMEOUT"}
        /\ run' = (run /\ config.autoReconnect)
        /\ UNCHANGED open
     \/ /\ state = "UNKNOW"
        /\ UNCHANGED <<state, run, open>>
  /\ UNCHANGED <<config, live, stopped, appVars, lookVars>>

\* mutant: the bit is set before the connection is closed
CloseAfterBit(t) ==
  /\ Goto(t, "close", "stopped")
  /\ stopped' = TRUE
  /\ UNCHANGED <<config, live, state, run, open, appVars, lookVars>>

CloseTransport(t) ==
  /\ Goto(t, "close", "stopped")
  /\ open' = FALSE
  /\ UNCHANGED <<config, live, state, run, stopped, appVars, lookVars>>

SetStopped(t) ==
  /\ Goto(t, "stopped", "last")
  /\ stopped' = TRUE
  /\ UNCHANGED <<config, live, state, run, open, appVars, lookVars>>

\* mutant: the task leaves the client in WEBSOCKET_STATE_ERROR
SetError(t) ==
  /\ Goto(t, "last", "gone")
  /\ state' = "ERROR"
  /\ UNCHANGED <<config, live, run, stopped, open, appVars, lookVars>>

\* The last access to the client, then vTaskDelete.
SetUnknow(t) ==
  /\ Goto(t, "last", "gone")
  /\ state' = "UNKNOW"
  /\ UNCHANGED <<config, live, run, stopped, open, appVars, lookVars>>

TaskStep(t) ==
  \/ TaskRuns(t)
  \/ GetTransport(t)
  \/ SetInit(t)
  \/ TaskClearsStopped(t)
  \/ Enter(t)
  \/ Leave(t)
  \/ Pass(t)
  \/ CloseTransport(t)
  \/ SetStopped(t)
  \/ SetUnknow(t)

Next ==
  \/ Start
  \/ Stop
  \/ Destroy
  \/ AppStep
  \/ \E t \in TaskIds : TaskStep(t)

Spec == Init /\ [][Next]_vars

\* Both tasks are scheduled again and again; nobody has to make a call.
FairSpec == Spec /\ WF_vars(AppStep) /\ \A t \in TaskIds : WF_vars(TaskStep(t))

-----------------------------------------------------------------------------
(* Properties.                                                             *)

\* The tasks that will still touch the client.
Active == {t \in TaskIds : taskPc[t] \notin {"none", "gone"}}

\* The application never called while a task was in its first or last steps.
Patient == ~early /\ ~late

\* A client whose loop ends only when it is told to.
Lasting == config.autoReconnect /\ config.schemeKnown

\* A patient application has one websocket task at most: start (:505) finds every
\* other one in client->state.
OneTask == Patient => \A t, u \in Active : t = u

\* ... none of its tasks goes round the loop without a state to act on (:428).
LoopHasState == Patient => \A t \in At({"test", "body"}) : state # "UNKNOW"

\* ... and once stop has returned, with either result, the connection is closed and
\* stays closed until the next start (:517-530).
StopMeansClosed == Patient /\ appPc = "idle" /\ call = "stop" => ~open

\* ... and destroy frees nothing under a task that is still in its loop, of a client
\* whose loop does not end on its own account (websocket_client.c:316-339).
DestroyWaitsForLoop == Patient /\ Lasting => (~live => Active \subseteq At({"last"}))

\* stop returns: the task sees run and sets the bit that stop waits for (:527).
StopIsAnswered == appPc = "wait" ~> (appPc = "waited" \/ ~Patient)

\* websocket_client.h:123 says start opens the connection; so the task of a client
\* that was stopped and started again should have a state to act on.
RestartedTaskHasState == ~early => \A t \in At({"body"}) : state # "UNKNOW"

\* websocket_client.h:141 says destroy frees all resources; so the task, one of them,
\* should be gone when the client is.
DestroyEndsTask == Patient => (~live => Active = {})

-----------------------------------------------------------------------------
(* ClientCalls, as this client implements it.                              *)

Phase ==
  IF ~Patient THEN "chaos"
  ELSE IF ~live THEN "freed"
  ELSE IF At({"born", "scheme", "state"}) # {} THEN "starting"
  ELSE IF At({"last"}) # {} THEN "retiring"
  ELSE IF Active = {} THEN "stopped"
  ELSE IF appPc = "wait" THEN "stopping"
  ELSE IF run THEN "running" ELSE "ending"

Connected == Patient /\ open

Doing ==
  IF ~Patient \/ appPc \in {"idle", "done"} THEN "nothing"
  ELSE IF appPc = "create" THEN "start"
  ELSE IF appPc = "clear" THEN "started"
  ELSE IF appPc = "free" THEN "freeing"
  ELSE IF appPc = "check" THEN call
  ELSE IF call = "stop" THEN "stopping" ELSE "destroying"

Answer == IF Patient /\ Doing = "nothing" THEN <<call, result>> ELSE <<"none", "none">>

Calls == INSTANCE ClientCalls WITH
  lasting <- Lasting, phase <- Phase, connected <- Connected, doing <- Doing, answer <- Answer

\* Whatever the steps of the two tasks between its calls and theirs, the client is
\* started, stopped and destroyed as ClientCalls says (websocket_client.c:316-339,
\* 406-532).
ImplementsCalls == Calls!Spec
=============================================================================
