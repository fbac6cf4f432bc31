-------------------------- MODULE WsLifecycleProofs --------------------------
(***************************************************************************)
(* Proofs about start, stop and destroy for any number of restarts: what   *)
(* an application can rely on that never calls while a websocket task is   *)
(* in its first or last steps (Patient).                                   *)
(***************************************************************************)
EXTENDS WsLifecycle, TLAPS

\* The labels of a task up to its write of STOPPED_BIT, and those of its loop.
Starting == {"born", "scheme", "state"}
Looping  == {"test", "body", "close"}
Running  == Starting \cup {"clear", "stopped"} \cup Looping

\* A task past its first steps shows in client->state, and only one is active.
TaskInv ==
  /\ \A t, u \in Active : t = u
  /\ \A t \in TaskIds : taskPc[t] \in (Running \ Starting) => state # "UNKNOW"

\* STOPPED_BIT is not set before the task of the last start has reached its end.
BitInv ==
  stopped => \A t \in TaskIds :
    taskPc[t] \in Running => appPc = "clear" /\ taskPc[t] \in Starting \cup {"clear"}

\* A connection has a task, and run says so.
OpenInv ==
  open => /\ state = "CONNECTED"
          /\ \E t \in TaskIds : taskPc[t] \in Looping
          /\ run \/ appPc = "wait"

\* What the application has found out in the call it is in.
AppInv ==
  /\ appPc = "create" => Active = {}
  /\ appPc \in {"create", "clear"} => call = "start"
  /\ appPc = "wait" => ~run /\ \A t \in TaskIds : taskPc[t] \notin Starting
  /\ appPc = "waited" => ~run /\ \A t \in TaskIds : taskPc[t] \notin Running
  /\ ~run /\ appPc # "wait" => \A t \in TaskIds : taskPc[t] # "body"
  /\ appPc = "idle" /\ call = "stop" =>
       ~run /\ ~open /\ \A t \in TaskIds : taskPc[t] \notin Starting \cup {"body"}

PatientInv == TaskInv /\ BitInv /\ OpenInv /\ AppInv

IInv == TypeOK /\ (Patient => PatientInv)

\* The values of a label, of client->state and of the two BOOLEAN parts of config.
Labels == {"none", "born", "scheme", "state", "clear", "test", "body", "close", "stopped",
           "last", "gone"}
States == {"UNKNOW", "INIT", "CONNECTED", "WAIT_TIMEOUT"}
Flags  == run \in BOOLEAN /\ stopped \in BOOLEAN /\ open \in BOOLEAN

LEMMA TaskKeepsType ==
  ASSUME TypeOK, NEW t \in TaskIds, TaskStep(t)
  PROVE  TypeOK'
<1> USE DEF TaskStep, TaskRuns, GetTransport, SetInit, TaskClearsStopped, Enter, Leave, Pass,
            CloseTransport, SetStopped, SetUnknow
<1>1. taskPc \in [TaskIds -> Labels] /\ state \in States /\ Flags
      /\ config.schemeKnown \in BOOLEAN /\ config.autoReconnect \in BOOLEAN
  BY DEF TypeOK, Labels, States, Flags
<1>2. \E from, to \in Labels : Goto(t, from, to)
  BY DEF Labels
<1>3. taskPc' \in [TaskIds -> Labels]
  BY <1>1, <1>2 DEF Goto
<1>4. state' \in States
  BY <1>1 DEF States, clientVars
<1>5. run' \in BOOLEAN /\ stopped' \in BOOLEAN /\ open' \in BOOLEAN
  BY <1>1, Zenon DEF Flags, clientVars
<1>6. UNCHANGED <<config, live, appVars, lookVars>>
  BY DEF clientVars
<1> QED
  BY <1>3, <1>4, <1>5, <1>6 DEF TypeOK, Labels, States, appVars, lookVars

LEMMA LookIsTyped ==
  ASSUME early \in BOOLEAN, late \in BOOLEAN, Look \/ UNCHANGED lookVars
  PROVE  early' \in BOOLEAN /\ late' \in BOOLEAN
<1>1. CASE Look
  <2>1. (early \/ At({"born", "scheme", "state"}) # {}) \in BOOLEAN
    BY Zenon
  <2>2. (late \/ At({"last"}) # {}) \in BOOLEAN
    BY Zenon
  <2> QED
    BY <1>1, <2>1, <2>2, Zenon DEF Look
<1>2. CASE UNCHANGED lookVars
  BY <1>2, Zenon DEF lookVars
<1> QED
  BY <1>1, <1>2

LEMMA AppKeepsType ==
  ASSUME TypeOK, Start \/ Stop \/ Destroy \/ AppStep
  PROVE  TypeOK'
<1> USE DEF Start, Stop, Destroy, AppStep, CreateFails, ClearStopped, StopRefused, RequestStop,
            WaitStopped, FinishStop, FreeClient, CreateTask, StopReturns, Return
<1>1. config' = config
  BY DEF clientVars
<1>2. taskPc' \in [TaskIds -> Labels]
  <2>1. taskPc \in [TaskIds -> Labels]
    BY DEF TypeOK, Labels
  <2>2. taskPc' = taskPc \/ \E t \in TaskIds : taskPc' = [taskPc EXCEPT ![t] = "born"]
    OBVIOUS
  <2> HIDE DEF Start, Stop, Destroy, AppStep
  <2> QED
    BY <2>1, <2>2 DEF Labels
<1>3. Look \/ UNCHANGED lookVars
  OBVIOUS
<1>4. /\ live' = live \/ live' = FALSE
      /\ run' = run \/ run' = FALSE
      /\ stopped' = stopped \/ stopped' = FALSE
      /\ open' = open \/ open' = FALSE
  BY DEF clientVars
<1>5. state' = state \/ state' = "UNKNOW"
  BY DEF clientVars
<1>6. /\ appPc' \in {"idle", "create", "clear", "check", "wait", "waited", "free", "done"}
      /\ call' = call \/ call' \in {"start", "stop", "destroy"}
      /\ result' = result \/ result' \in {"OK", "FAIL"}
  OBVIOUS
<1> HIDE DEF Start, Stop, Destroy, AppStep
<1>7. early' \in BOOLEAN /\ late' \in BOOLEAN
  BY <1>3, LookIsTyped DEF TypeOK
<1>8. live' \in BOOLEAN /\ run' \in BOOLEAN /\ stopped' \in BOOLEAN /\ open' \in BOOLEAN
  BY <1>4, Zenon DEF TypeOK
<1>9. config' \in [autoReconnect : BOOLEAN, schemeKnown : BOOLEAN]
  BY <1>1, Zenon DEF TypeOK
<1>10. /\ state' \in States
       /\ call' \in {"init", "start", "stop", "destroy"} /\ result' \in {"OK", "FAIL"}
  BY <1>5, <1>6 DEF TypeOK, States
<1> QED
  BY <1>2, <1>6, <1>7, <1>8, <1>9, <1>10, Zenon DEF TypeOK, Labels, States

LEMMA NextKeepsType == TypeOK /\ [Next]_vars => TypeOK'
<1>1. TypeOK /\ UNCHANGED vars => TypeOK'
  BY DEF TypeOK, vars, clientVars, appVars, lookVars
<1> QED
  BY <1>1, TaskKeepsType, AppKeepsType DEF Next

\* Every variable of the client and of its two sides keeps its type.
THEOREM TypeCorrect == Spec => []TypeOK
<1>1. Init => TypeOK
  BY DEF Init, TypeOK
<1> QED
  BY <1>1, NextKeepsType, PTL DEF Spec
-----------------------------------------------------------------------------
(* The inductive invariant.                                                *)

\* A step of a websocket task: no other task is active, so that only its own label counts.
LEMMA TaskKeepsInv ==
  ASSUME TypeOK, PatientInv, NEW t \in TaskIds, TaskStep(t)
  PROVE  PatientInv'
<1>type. taskPc \in [TaskIds -> Labels]
  BY DEF TypeOK, Labels
<1>step. \E from, to \in Labels \ {"none"} :
           taskPc[t] = from /\ from # "gone" /\ taskPc' = [taskPc EXCEPT ![t] = to]
  BY DEF TaskStep, TaskRuns, GetTransport, SetInit, TaskClearsStopped, Enter, Leave, Pass,
         CloseTransport, SetStopped, SetUnknow, Goto, Labels
<1>others. \A u \in TaskIds : u # t => taskPc[u] \in {"none", "gone"} /\ taskPc'[u] = taskPc[u]
  BY <1>type, <1>step DEF PatientInv, TaskInv, Active
<1>app. UNCHANGED <<appPc, call>>
  BY DEF TaskStep, TaskRuns, GetTransport, SetInit, TaskClearsStopped, Enter, Leave, Pass,
         CloseTransport, SetStopped, SetUnknow, clientVars, appVars
<1>one. \A u, v \in Active' : u = v
  BY <1>others DEF Active
<1>own. ASSUME NEW to \in Labels, taskPc' = [taskPc EXCEPT ![t] = to] PROVE taskPc'[t] = to
  BY <1>type, <1>own
<1> USE <1>others, <1>app, <1>one, <1>own
    DEF PatientInv, TaskInv, BitInv, OpenInv, AppInv, Starting, Looping, Running, Active
<1>1. CASE TaskRuns(t)
  <2>1. taskPc[t] = "born" /\ taskPc'[t] = "scheme" /\ run' /\ UNCHANGED <<state, stopped, open>>
    BY <1>1 DEF TaskRuns, Goto, Labels
  <2> QED
    BY <2>1
<1>2. CASE GetTransport(t)
  <2>1. /\ taskPc[t] = "scheme" /\ taskPc'[t] = "state" /\ (run' => run)
        /\ UNCHANGED <<state, stopped, open>>
    BY <1>2 DEF GetTransport, Goto, Labels
  <2> QED
    BY <2>1
<1>3. CASE SetInit(t)
  <2>1. /\ taskPc[t] = "state" /\ taskPc'[t] = "clear" /\ state' = "INIT"
        /\ UNCHANGED <<run, stopped, open>>
    BY <1>3 DEF SetInit, Goto, Labels
  <2> QED
    BY <2>1
<1>4. CASE TaskClearsStopped(t)
  <2>1. /\ taskPc[t] = "clear" /\ taskPc'[t] = "test" /\ stopped' = FALSE
        /\ UNCHANGED <<state, run, open>>
    BY <1>4 DEF TaskClearsStopped, Goto, Labels
  <2> QED
    BY <2>1
<1>5. CASE Enter(t)
  <2>1. /\ taskPc[t] = "test" /\ taskPc'[t] = "body" /\ run
        /\ UNCHANGED <<state, run, stopped, open>>
    BY <1>5 DEF Enter, Goto, Labels, clientVars
  <2> QED
    BY <2>1
<1>6. CASE Leave(t)
  <2>1. /\ taskPc[t] = "test" /\ taskPc'[t] = "close"
        /\ UNCHANGED <<state, run, stopped, open>>
    BY <1>6 DEF Leave, Goto, Labels, clientVars
  <2> QED
    BY <2>1
<1>7. CASE Pass(t)
  <2>1. taskPc[t] = "body" /\ taskPc'[t] = "test" /\ UNCHANGED stopped
    BY <1>7 DEF Pass, Goto, Labels
  <2>2. state # "UNKNOW"
    BY <2>1
  <2>3. open => state = "CONNECTED"
    OBVIOUS
  <2>4. /\ state' # "UNKNOW" /\ (run' => run)
        /\ open' => state' = "CONNECTED" /\ run' = run
    <3>1. CASE state = "INIT"
      BY <1>7, <2>3, <3>1 DEF Pass
    <3>2. CASE state = "CONNECTED"
      BY <1>7, <2>3, <3>2 DEF Pass
    <3>3. CASE state = "WAIT_TIMEOUT"
      <4>1. /\ state' \in IF config.autoReconnect THEN {"WAIT_TIMEOUT", "INIT"} ELSE {"WAIT_TIMEOUT"}
            /\ run' = (run /\ config.autoReconnect) /\ open' = open
        BY <1>7, <3>3 DEF Pass
      <4>2. state' # "UNKNOW"
        BY <4>1
      <4>3. run' => run
        BY <4>1, Zenon
      <4> QED
        BY <2>3, <3>3, <4>1, <4>2, <4>3
    <3> QED
      BY <1>7, <2>2, <3>1, <3>2, <3>3 DEF Pass
  <2> QED
    BY <2>1, <2>4
<1>8. CASE CloseTransport(t)
  <2>1. /\ taskPc[t] = "close" /\ taskPc'[t] = "stopped" /\ open' = FALSE
        /\ UNCHANGED <<state, run, stopped>>
    BY <1>8 DEF CloseTransport, Goto, Labels
  <2> QED
    BY <2>1
<1>9. CASE SetStopped(t)
  <2>1. /\ taskPc[t] = "stopped" /\ taskPc'[t] = "last"
        /\ UNCHANGED <<state, run, open>>
    BY <1>9 DEF SetStopped, Goto, Labels
  <2> QED
    BY <2>1
<1>10. CASE SetUnknow(t)
  <2>1. /\ taskPc[t] = "last" /\ taskPc'[t] = "gone"
        /\ UNCHANGED <<run, stopped, open>>
    BY <1>10 DEF SetUnknow, Goto, Labels
  <2> QED
    BY <2>1
<1> QED
  BY <1>1, <1>2, <1>3, <1>4, <1>5, <1>6, <1>7, <1>8, <1>9, <1>10 DEF TaskStep

\* A step of the application: what it finds out is what it wrote down in AppInv.
LEMMA AppKeepsInv ==
  ASSUME TypeOK, PatientInv, Patient', Start \/ Stop \/ Destroy \/ AppStep
  PROVE  PatientInv'
<1>type. taskPc \in [TaskIds -> Labels] /\ run \in BOOLEAN
  BY DEF TypeOK, Labels
<1>look. ASSUME Look PROVE \A t \in TaskIds : taskPc[t] \notin Starting \cup {"last"}
  BY <1>look DEF Look, Patient, At, Starting
<1> USE DEF PatientInv, TaskInv, BitInv, OpenInv, AppInv, Starting, Looping, Running, Active,
            clientVars
<1>1. CASE Start
  <2>1. UNCHANGED <<state, run, stopped, open, taskPc>> /\ call' = "start" /\ Look
    BY <1>1 DEF Start
  <2>2. appPc = "idle" /\ (appPc' = "idle" \/ (state = "UNKNOW" /\ appPc' = "create"))
    BY <1>1 DEF Start, Return
  <2>3. state = "UNKNOW" => Active = {}
    BY <1>type, <1>look, <2>1 DEF Labels
  <2> QED
    BY <2>1, <2>2, <2>3
<1>2. CASE Stop
  BY <1>2 DEF Stop
<1>3. CASE Destroy
  BY <1>3 DEF Destroy
<1>4. CASE CreateFails
  BY <1>4 DEF CreateFails, Return
<1>5. ASSUME NEW t \in TaskIds, CreateTask(t) PROVE PatientInv'
  <2>1. /\ Active = {} /\ call = "start" /\ appPc' = "clear" /\ taskPc'[t] = "born"
        /\ \A u \in TaskIds : u # t => taskPc'[u] = taskPc[u]
        /\ UNCHANGED <<state, run, stopped, open, call>>
    BY <1>5, <1>type DEF CreateTask
  <2>2. \A u \in TaskIds : u # t => taskPc'[u] \in {"none", "gone"}
    BY <2>1
  <2>3. ~open
    BY <2>1
  <2> QED
    BY <2>1, <2>2, <2>3
<1>6. CASE ClearStopped
  BY <1>6 DEF ClearStopped, Return
<1>7. CASE StopRefused
  <2>1. /\ appPc = "check" /\ ~run /\ Look /\ UNCHANGED <<state, run, stopped, open, taskPc, call>>
        /\ appPc' = (IF call = "destroy" THEN "free" ELSE "idle")
    BY <1>7 DEF StopRefused, StopReturns, Return
  <2> QED
    BY <1>look, <2>1
<1>8. CASE RequestStop
  <2>1. /\ appPc = "check" /\ run' = FALSE /\ appPc' = "wait" /\ Look
        /\ UNCHANGED <<state, stopped, open, taskPc, call>>
    BY <1>8 DEF RequestStop
  <2> QED
    BY <1>look, <2>1
<1>9. CASE WaitStopped
  <2>1. /\ appPc = "wait" /\ stopped /\ appPc' = "waited"
        /\ UNCHANGED <<state, run, stopped, open, taskPc, call>>
    BY <1>9 DEF WaitStopped
  <2>2. \A t \in TaskIds : taskPc[t] \notin Running
    BY <2>1
  <2> QED
    BY <2>1, <2>2
<1>10. CASE FinishStop
  <2>1. /\ appPc = "waited" /\ appPc' \in {"free", "idle"}
        /\ UNCHANGED <<run, stopped, open, taskPc, call>>
    BY <1>10 DEF FinishStop, StopReturns, Return
  <2>2. ~open /\ ~run /\ \A t \in TaskIds : taskPc[t] \notin Running
    BY <2>1
  <2> QED
    BY <2>1, <2>2
<1>11. CASE FreeClient
  BY <1>11 DEF FreeClient
<1> QED
  BY <1>1, <1>2, <1>3, <1>4, <1>5, <1>6, <1>7, <1>8, <1>9, <1>10, <1>11 DEF AppStep

\* An application that was not patient never is again.
LEMMA PatienceEnds == ASSUME [Next]_vars PROVE Patient' => Patient
<1>1. Look \/ UNCHANGED lookVars
  BY DEF Next, Start, Stop, Destroy, AppStep, CreateTask, CreateFails, ClearStopped, StopRefused,
     RequestStop, WaitStopped, FinishStop, FreeClient, TaskStep, TaskRuns, GetTransport, SetInit,
     TaskClearsStopped, Enter, Leave, Pass, CloseTransport, SetStopped, SetUnknow, vars
<1>2. CASE Look
  BY <1>2, Zenon DEF Look, Patient
<1>3. CASE UNCHANGED lookVars
  BY <1>3 DEF lookVars, Patient
<1> QED
  BY <1>1, <1>2, <1>3

LEMMA NextKeepsIInv == IInv /\ [Next]_vars => IInv'
<1> SUFFICES ASSUME IInv, [Next]_vars PROVE IInv'
  OBVIOUS
<1>1. TypeOK'
  BY NextKeepsType DEF IInv
<1>2. Patient' => Patient
  BY PatienceEnds
<1>3. CASE UNCHANGED vars
  BY <1>1, <1>3 DEF IInv, vars, clientVars, appVars, lookVars, Patient, PatientInv, TaskInv, BitInv,
     OpenInv, AppInv, Active
<1>4. CASE Next
  <2>1. ASSUME Patient' PROVE PatientInv'
    <3>1. TypeOK /\ PatientInv
      BY <1>2, <2>1 DEF IInv
    <3>2. ASSUME NEW t \in TaskIds, TaskStep(t) PROVE PatientInv'
      BY <3>1, <3>2, TaskKeepsInv
    <3>3. CASE Start \/ Stop \/ Destroy \/ AppStep
      BY <2>1, <3>1, <3>3, AppKeepsInv
    <3> QED
      BY <1>4, <3>2, <3>3 DEF Next
  <2> QED
    BY <1>1, <2>1 DEF IInv
<1> QED
  BY <1>3, <1>4

\* What a patient application has found out stays true until its next call.
THEOREM Invariance == Spec => []IInv
<1>1. Init => IInv
  <2> SUFFICES ASSUME Init PROVE IInv
    OBVIOUS
  <2>1. TypeOK
    BY DEF Init, TypeOK
  <2>2. PatientInv
    BY DEF Init, PatientInv, TaskInv, BitInv, OpenInv, AppInv, Active, Starting, Looping, Running
  <2> QED
    BY <2>1, <2>2 DEF IInv
<1> QED
  BY <1>1, NextKeepsIInv, PTL DEF Spec

-----------------------------------------------------------------------------
(* The properties.                                                         *)

\* websocket_client.c:505: start finds the task of an earlier start in client->state.
THEOREM AtMostOneTask == Spec => []OneTask
<1>1. IInv => OneTask
  BY DEF IInv, PatientInv, TaskInv, OneTask
<1> QED
  BY <1>1, Invariance, PTL

\* websocket_client.c:428: the loop always has a case for the state it finds.
THEOREM LoopIsNotIdle == Spec => []LoopHasState
<1>1. IInv => LoopHasState
  BY DEF IInv, PatientInv, TaskInv, LoopHasState, At, Running, Starting, Looping
<1> QED
  BY <1>1, Invariance, PTL

\* websocket_client.c:517-530: after stop there is no connection.
THEOREM StopIsTrue == Spec => []StopMeansClosed
<1>1. IInv => StopMeansClosed
  BY DEF IInv, PatientInv, AppInv, StopMeansClosed
<1> QED
  BY <1>1, Invariance, PTL

-----------------------------------------------------------------------------
(* What ClientCalls needs to know besides.                                 *)

\* A client that runs has a task, and one without a task is in its first state.
RunInv ==
  /\ run => \E t \in TaskIds : taskPc[t] \in {"scheme", "state", "clear", "test", "body"}
  /\ Active = {} => state = "UNKNOW"
  /\ \A t \in TaskIds : taskPc[t] = "scheme" => run

\* A lasting client has run until it was asked to stop.
EndInv ==
  Lasting => \A t \in TaskIds : taskPc[t] \in Running \ {"born"} => run \/ appPc = "wait"

\* The calls by where the application is.
CallInv ==
  /\ appPc \in {"check", "wait", "waited"} => call \in {"stop", "destroy"}
  /\ appPc \in {"free", "done"} =>
       call = "destroy" /\ ~run /\ \A t \in TaskIds : taskPc[t] \notin Starting
  /\ live <=> appPc # "done"

LifeInv == RunInv /\ EndInv /\ CallInv

\* The steps of the one active task, as far as the mapping can tell them apart.
Moves(t, from, to) == taskPc[t] = from /\ taskPc'[t] = to

LEMMA TaskMoves ==
  ASSUME TypeOK, PatientInv, NEW t \in TaskIds, TaskStep(t)
  PROVE  /\ live /\ UNCHANGED <<config, live, appVars, lookVars>>
         /\ \A u \in TaskIds : u # t => taskPc[u] \in {"none", "gone"} /\ taskPc'[u] = taskPc[u]
         /\ \/ Moves(t, "born", "scheme") /\ run' /\ UNCHANGED <<state, open>>
            \/ /\ Moves(t, "scheme", "state") /\ (run' <=> run /\ config.schemeKnown)
               /\ UNCHANGED <<state, open>>
            \/ Moves(t, "state", "clear") /\ state' # "UNKNOW" /\ UNCHANGED <<run, open>>
            \/ Moves(t, "clear", "test") /\ UNCHANGED <<state, run, open>>
            \/ Moves(t, "test", "body") /\ run /\ UNCHANGED <<state, run, open>>
            \/ Moves(t, "test", "close") /\ ~run /\ UNCHANGED <<state, run, open>>
            \/ /\ Moves(t, "body", "test") /\ state' # "UNKNOW"
               /\ run' => run
               /\ run /\ ~run' => ~Lasting /\ ~open /\ ~open'
            \/ Moves(t, "close", "stopped") /\ ~open' /\ UNCHANGED <<state, run>>
            \/ Moves(t, "stopped", "last") /\ UNCHANGED <<state, run, open>>
            \/ Moves(t, "last", "gone") /\ state' = "UNKNOW" /\ UNCHANGED <<run, open>>
<1>type. taskPc \in [TaskIds -> Labels]
  BY DEF TypeOK, Labels
<1>1. live /\ UNCHANGED <<config, live, appVars, lookVars>>
  BY DEF TaskStep, TaskRuns, GetTransport, SetInit, TaskClearsStopped, Enter, Leave, Pass,
         CloseTransport, SetStopped, SetUnknow, Goto, clientVars
<1>goto. \A from, to \in Labels : Goto(t, from, to) => Moves(t, from, to)
  BY <1>type DEF Goto, Moves
<1>2. \E from, to \in Labels \ {"none"} : Goto(t, from, to) /\ from # "gone"
  BY DEF TaskStep, TaskRuns, GetTransport, SetInit, TaskClearsStopped, Enter, Leave, Pass,
         CloseTransport, SetStopped, SetUnknow, Labels
<1>3. \A u \in TaskIds : u # t => taskPc[u] \in {"none", "gone"} /\ taskPc'[u] = taskPc[u]
  BY <1>type, <1>2 DEF PatientInv, TaskInv, Active, Goto
<1>4. CASE Pass(t)
  <2>1. Moves(t, "body", "test")
    BY <1>4, <1>goto DEF Pass, Labels
  <2>2. state # "UNKNOW" /\ (open => state = "CONNECTED")
    BY <2>1 DEF Moves, PatientInv, TaskInv, OpenInv, Running, Starting, Looping
  <2>3. CASE state = "INIT"
    <3>1. state' # "UNKNOW" /\ (run' = run \/ (~run' /\ ~config.schemeKnown /\ open' = open))
      BY <1>4, <2>3 DEF Pass
    <3>2. run' = run \/ (~run' /\ ~Lasting /\ ~open /\ ~open')
      BY <2>2, <2>3, <3>1 DEF Lasting
    <3>3. (run' => run) /\ (run /\ ~run' => ~Lasting /\ ~open /\ ~open')
      BY <3>2
    <3> QED
      BY <1>1, <1>3, <2>1, <3>1, <3>3
  <2>4. CASE state = "CONNECTED"
    BY <1>1, <1>3, <1>4, <2>1, <2>4 DEF Pass
  <2>5. CASE state = "WAIT_TIMEOUT"
    <3>1. state' \in {"WAIT_TIMEOUT", "INIT"} /\ open' = open
      BY <1>4, <2>5 DEF Pass
    <3>2. run' <=> run /\ config.autoReconnect
      BY <1>4, <2>5, Zenon DEF Pass
    <3>3. ~open
      BY <2>2, <2>5
    <3>4. (run' => run) /\ (run /\ ~run' => ~Lasting /\ ~open /\ ~open')
      BY <3>1, <3>2, <3>3 DEF Lasting
    <3> QED
      BY <1>1, <1>3, <2>1, <3>1, <3>4
  <2>6. state \in States
    BY DEF TypeOK, States
  <2> QED
    BY <1>1, <1>3, <2>2, <2>3, <2>4, <2>5, <2>6 DEF States
<1>5. CASE ~Pass(t)
  BY <1>1, <1>3, <1>5, <1>goto DEF TaskStep, TaskRuns, GetTransport, SetInit, TaskClearsStopped, Enter,
     Leave, CloseTransport, SetStopped, SetUnknow, clientVars, Labels
<1> QED
  BY <1>4, <1>5

LEMMA TaskKeepsLife ==
  ASSUME TypeOK, PatientInv, LifeInv, NEW t \in TaskIds, TaskStep(t)
  PROVE  LifeInv'
<1>1. /\ live /\ UNCHANGED <<config, live, appPc, call>>
      /\ \A u \in TaskIds : u # t => taskPc[u] \in {"none", "gone"} /\ taskPc'[u] = taskPc[u]
  BY TaskMoves DEF appVars
<1>2. RunInv'
  BY <1>1, TaskMoves DEF Moves, LifeInv, RunInv, Active
<1>3. EndInv'
  BY <1>1, TaskMoves DEF Moves, LifeInv, RunInv, EndInv, Lasting, Running, Starting, Looping
<1>4. CallInv'
  <2>1. appPc # "done"
    BY <1>1 DEF LifeInv, CallInv
  <2>2. ASSUME appPc = "free" PROVE ~run' /\ taskPc'[t] \notin Starting
    BY <1>1, <2>2, TaskMoves DEF Moves, LifeInv, CallInv, Starting
  <2> QED
    BY <1>1, <2>1, <2>2 DEF LifeInv, CallInv, Starting
<1> QED
  BY <1>2, <1>3, <1>4 DEF LifeInv

LEMMA AppKeepsLife ==
  ASSUME TypeOK, PatientInv, LifeInv, Patient', Start \/ Stop \/ Destroy \/ AppStep
  PROVE  LifeInv'
<1>type. taskPc \in [TaskIds -> Labels]
  BY DEF TypeOK, Labels
<1>look. ASSUME Look PROVE \A t \in TaskIds : taskPc[t] \notin Starting \cup {"last"}
  BY <1>look DEF Look, Patient, At, Starting
<1> USE DEF LifeInv, RunInv, EndInv, CallInv, Active, Lasting, Starting, Running, Looping, Return,
            StopReturns
<1>1. CASE Start \/ Stop
  <2>1. /\ UNCHANGED <<config, live, state, run, taskPc>> /\ appPc = "idle"
        /\ appPc' \in {"idle", "create", "check"}
        /\ appPc' = "check" => call' = "stop"
    BY <1>1 DEF Start, Stop, clientVars
  <2> QED
    BY <2>1
<1>2. CASE Destroy
  <2>1. UNCHANGED <<config, live, state, run, taskPc>> /\ appPc = "idle" /\ call' = "destroy"
        /\ appPc' = (IF run THEN "check" ELSE "free")
    BY <1>2 DEF Destroy, clientVars
  <2> QED
    BY <1>look, <1>2, <2>1 DEF Destroy
<1>3. CASE CreateFails \/ ClearStopped
  <2>1. UNCHANGED <<config, live, state, run, taskPc>> /\ appPc \in {"create", "clear"}
        /\ appPc' = "idle"
    BY <1>3 DEF CreateFails, ClearStopped, clientVars
  <2> QED
    BY <2>1
<1>4. ASSUME NEW t \in TaskIds, CreateTask(t) PROVE LifeInv'
  <2>1. UNCHANGED <<config, live, state, run>> /\ appPc = "create" /\ appPc' = "clear"
        /\ taskPc' = [taskPc EXCEPT ![t] = "born"] /\ Active = {}
    BY <1>4 DEF CreateTask, clientVars, PatientInv, AppInv
  <2>2. taskPc'[t] = "born" /\ \A u \in TaskIds : taskPc'[u] \in {"born", "none", "gone"}
    BY <1>type, <2>1
  <2>3. ~run
    BY <2>1
  <2>4. t \in Active'
    BY <2>2
  <2>5. EndInv' /\ CallInv'
    BY <2>1, <2>2
  <2>6. RunInv'
    BY <2>1, <2>2, <2>3, <2>4
  <2> QED
    BY <2>5, <2>6
<1>5. CASE StopRefused
  <2>1. UNCHANGED <<config, live, state, run, taskPc, call>> /\ appPc = "check" /\ ~run
        /\ appPc' = (IF call = "destroy" THEN "free" ELSE "idle")
    BY <1>5 DEF StopRefused, clientVars
  <2> QED
    BY <1>look, <1>5, <2>1 DEF StopRefused
<1>6. CASE RequestStop
  <2>1. UNCHANGED <<config, live, state, taskPc, call>> /\ appPc = "check" /\ ~run'
        /\ appPc' = "wait" /\ \A t \in TaskIds : taskPc[t] \notin Starting
    BY <1>6, <1>look DEF RequestStop
  <2> QED
    BY <2>1
<1>7. CASE WaitStopped
  <2>1. UNCHANGED <<config, live, state, run, taskPc, call>> /\ appPc = "wait" /\ appPc' = "waited"
        /\ \A t \in TaskIds : taskPc[t] \notin Running
    BY <1>7 DEF WaitStopped, clientVars, PatientInv, BitInv
  <2> QED
    BY <2>1
<1>8. CASE FinishStop
  <2>1. UNCHANGED <<config, live, run, taskPc, call>> /\ appPc = "waited" /\ state' = "UNKNOW"
        /\ appPc' = (IF call = "destroy" THEN "free" ELSE "idle")
        /\ ~run /\ \A t \in TaskIds : taskPc[t] \notin Running
    BY <1>8 DEF FinishStop, PatientInv, AppInv
  <2> QED
    BY <2>1
<1>9. CASE FreeClient
  <2>1. UNCHANGED <<config, state, run, taskPc, call>> /\ appPc = "free" /\ appPc' = "done" /\ ~live'
    BY <1>9 DEF FreeClient
  <2> QED
    BY <2>1
<1> QED
  BY <1>1, <1>2, <1>3, <1>4, <1>5, <1>6, <1>7, <1>8, <1>9 DEF AppStep

\* What is known of a patient application's client, in one formula.
LivesInv == Patient => LifeInv

LEMMA NextKeepsLife == IInv /\ LivesInv /\ [Next]_vars => LivesInv'
<1> SUFFICES ASSUME IInv, LivesInv, [Next]_vars, Patient' PROVE LifeInv'
  BY DEF LivesInv
<1>1. TypeOK /\ PatientInv /\ LifeInv
  BY PatienceEnds DEF IInv, LivesInv
<1>2. CASE UNCHANGED vars
  BY <1>1, <1>2 DEF vars, clientVars, appVars, LifeInv, RunInv, EndInv, CallInv, Active, Lasting
<1> QED
  BY <1>1, <1>2, TaskKeepsLife, AppKeepsLife DEF Next

LEMMA LifeInvariance == Spec => []LivesInv
<1>1. Init => LivesInv
  BY DEF Init, LivesInv, LifeInv, RunInv, EndInv, CallInv, Active, Starting, Running, Looping
<1> QED
  BY <1>1, NextKeepsLife, Invariance, PTL DEF Spec

\* websocket_client.c:316-339: destroy frees the client of a lasting loop only when the loop
\* has ended.
THEOREM LoopEndsBeforeFree == Spec => []DestroyWaitsForLoop
<1>1. IInv /\ LivesInv => DestroyWaitsForLoop
  <2> SUFFICES ASSUME IInv, LifeInv, Lasting, ~live, NEW t \in Active PROVE taskPc[t] = "last"
    BY DEF LivesInv, DestroyWaitsForLoop, At, Active
  <2>1. appPc = "done" /\ ~run /\ taskPc[t] \notin Starting
    BY DEF LifeInv, CallInv, Active
  <2>2. taskPc[t] \notin Running
    BY <2>1 DEF LifeInv, EndInv, Active, Starting
  <2>3. taskPc[t] \in Labels
    BY DEF IInv, TypeOK, Active, Labels
  <2> QED
    BY <2>2, <2>3 DEF Active, Labels, Running, Starting, Looping
<1> QED
  BY <1>1, Invariance, LifeInvariance, PTL

-----------------------------------------------------------------------------
(* The client implements ClientCalls.                                      *)

\* The phase of a live client whose one task, if it has one, is at a label.
PhaseAt(label) ==
  IF label \in Starting THEN "starting"
  ELSE IF label = "last" THEN "retiring"
  ELSE IF label \in {"none", "gone"} THEN "stopped"
  ELSE IF appPc = "wait" THEN "stopping"
  ELSE IF run THEN "running" ELSE "ending"

LEMMA TaskImplements ==
  ASSUME TypeOK, PatientInv, LifeInv, Patient, NEW t \in TaskIds, TaskStep(t)
  PROVE  [Calls!Next]_Calls!calls
<1>1. /\ live /\ live' /\ Patient'
      /\ \A u \in TaskIds : u # t => taskPc[u] \in {"none", "gone"} /\ taskPc'[u] \in {"none", "gone"}
      /\ UNCHANGED <<config, appPc>>
  BY TaskMoves DEF appVars, lookVars, Patient
<1>2. UNCHANGED <<Doing, Answer>>
  BY <1>1, TaskMoves DEF Doing, Answer, appVars
<1>3. Lasting' = Lasting
  BY <1>1 DEF Lasting
<1>4. open' = open => Connected' = Connected
  BY <1>1 DEF Connected
<1>5. open \in BOOLEAN /\ open' \in BOOLEAN /\ Connected = open /\ Connected' = open'
  BY <1>1, TaskKeepsType, Zenon DEF TypeOK, Connected
<1>6. Phase = PhaseAt(taskPc[t])
  BY <1>1 DEF Phase, PhaseAt, At, Active, Starting
<1>7. Phase' = PhaseAt(taskPc[t])'
  BY <1>1 DEF Phase, PhaseAt, At, Active, Starting
<1> DEFINE Alive(from, to) ==
      Phase = from /\ Phase' = to /\ (to # "running" => ~Connected) /\ Connected' = Connected
<1>8. Alive("starting", "running") \/ Alive("stopping", "retiring") \/ Alive("ending", "retiring")
        \/ Alive("retiring", "stopped") => Calls!Next
  BY <1>2, <1>3 DEF Calls!Next, Calls!Life, Calls!Move
<1>9. ~Lasting /\ (Alive("starting", "ending") \/ Alive("running", "ending")) => Calls!Next
  BY <1>2, <1>3 DEF Calls!Next, Calls!Life, Calls!Move
<1>10. Phase' = Phase /\ Connected' = Connected => UNCHANGED Calls!calls
  BY <1>2, <1>3 DEF Calls!calls
<1>11. Phase \in {"running", "stopping"} /\ Phase' = Phase => [Calls!Next]_Calls!calls
  <2>1. Connected' = Connected \/ Connected' = ~Connected
    BY <1>5, Zenon
  <2> QED
    BY <1>2, <1>3, <1>10, <2>1 DEF Calls!Next, Calls!Connection
<1> HIDE DEF Alive
<1>open. open => taskPc[t] \in Looping /\ (run \/ appPc = "wait")
  BY <1>1 DEF PatientInv, OpenInv, Looping
<1>run. run => taskPc[t] \in {"scheme", "state", "clear", "test", "body"}
  BY <1>1 DEF LifeInv, RunInv
<1>12. CASE Moves(t, "state", "clear") /\ UNCHANGED <<run, open>>
  <2>1. Phase = "starting" /\ appPc # "wait" /\ ~open
    BY <1>6, <1>12, <1>open DEF Moves, PhaseAt, Starting, Looping, PatientInv, AppInv
  <2>2. Phase' = IF run THEN "running" ELSE "ending"
    BY <1>1, <1>7, <1>12, <2>1 DEF Moves, PhaseAt, Starting
  <2>3. run \/ ~Lasting
    BY <1>12, <2>1 DEF Moves, LifeInv, EndInv, Running, Starting
  <2> QED
    BY <1>4, <1>5, <1>8, <1>9, <1>12, <2>1, <2>2, <2>3 DEF Alive
<1>13. CASE Moves(t, "body", "test") /\ (run' => run)
              /\ (run /\ ~run' => ~Lasting /\ ~open /\ ~open')
  <2>1. Phase = PhaseAt("test")
    BY <1>6, <1>13 DEF Moves, PhaseAt, Starting
  <2>2. Phase' = PhaseAt("test")'
    BY <1>7, <1>13 DEF Moves, PhaseAt, Starting
  <2>3. appPc = "wait" \/ run
    BY <1>13 DEF Moves, PatientInv, AppInv
  <2>4. CASE appPc = "wait"
    BY <1>1, <1>11, <2>1, <2>2, <2>4 DEF PhaseAt, Starting
  <2>5. CASE appPc # "wait" /\ run'
    BY <1>1, <1>11, <2>1, <2>2, <2>3, <2>5 DEF PhaseAt, Starting
  <2>6. CASE appPc # "wait" /\ ~run'
    <3>1. Phase = "running" /\ Phase' = "ending" /\ ~Lasting /\ ~open /\ ~open'
      BY <1>1, <1>13, <2>1, <2>2, <2>3, <2>6 DEF PhaseAt, Starting
    <3> QED
      BY <1>5, <1>9, <3>1 DEF Alive
  <2> QED
    BY <2>4, <2>5, <2>6
<1>14. CASE Moves(t, "close", "stopped") /\ ~open' /\ UNCHANGED <<state, run>>
  <2>1. ~run /\ Phase' = Phase /\ (appPc = "wait" => Phase = "stopping")
    BY <1>1, <1>6, <1>7, <1>14, <1>run DEF Moves, PhaseAt, Starting
  <2>2. CASE appPc = "wait"
    BY <1>11, <2>1, <2>2
  <2>3. CASE appPc # "wait"
    BY <1>5, <1>10, <1>14, <1>open, <2>1, <2>3
  <2> QED
    BY <2>2, <2>3
<1>15. CASE Moves(t, "stopped", "last") /\ UNCHANGED <<state, run, open>>
  <2>1. ~run /\ ~open
    BY <1>15, <1>open, <1>run DEF Moves, Looping
  <2>2. Phase \in {"stopping", "ending"} /\ Phase' = "retiring"
    BY <1>6, <1>7, <1>15, <2>1 DEF Moves, PhaseAt, Starting
  <2> QED
    BY <1>4, <1>5, <1>8, <1>15, <2>1, <2>2 DEF Alive
<1>16. CASE Moves(t, "last", "gone") /\ UNCHANGED <<run, open>>
  <2>1. Phase = "retiring" /\ Phase' = "stopped" /\ ~open
    BY <1>6, <1>7, <1>16, <1>open DEF Moves, PhaseAt, Starting, Looping
  <2> QED
    BY <1>4, <1>5, <1>8, <1>16, <2>1 DEF Alive
<1>17. CASE (Moves(t, "born", "scheme") \/ Moves(t, "scheme", "state")) /\ open' = open
  BY <1>4, <1>6, <1>7, <1>10, <1>17 DEF Moves, PhaseAt, Starting
<1>18. CASE (Moves(t, "clear", "test") \/ Moves(t, "test", "body") \/ Moves(t, "test", "close"))
              /\ UNCHANGED <<run, open>>
  BY <1>1, <1>4, <1>6, <1>7, <1>10, <1>18 DEF Moves, PhaseAt, Starting
<1> QED
  BY <1>12, <1>13, <1>14, <1>15, <1>16, <1>17, <1>18, TaskMoves

\* What a call sees that looks at the client at a time when it may.
LEMMA SeenPhase ==
  ASSUME TypeOK, PatientInv, LifeInv, Patient, Look, Patient', live, appPc # "wait"
  PROVE  /\ run => Phase = "running"
         /\ ~run => Phase \in {"stopped", "ending"}
         /\ state = "UNKNOW" => Phase = "stopped"
         /\ state # "UNKNOW" => Phase \in {"running", "ending"}
<1>1. At({"born", "scheme", "state"}) = {} /\ At({"last"}) = {}
  BY DEF Look, Patient
<1>2. Phase = IF Active = {} THEN "stopped" ELSE IF run THEN "running" ELSE "ending"
  BY <1>1 DEF Phase
<1>3. run => Active # {}
  BY DEF LifeInv, RunInv, Active
<1>4. Active = {} => state = "UNKNOW"
  BY DEF LifeInv, RunInv
<1>5. Active # {} => state # "UNKNOW"
  <2> SUFFICES ASSUME NEW t \in Active PROVE state # "UNKNOW"
    OBVIOUS
  <2>1. taskPc[t] \in Labels \ {"none", "gone", "born", "scheme", "state", "last"}
    BY <1>1 DEF TypeOK, Labels, Active, At
  <2> QED
    BY <2>1 DEF PatientInv, TaskInv, Active, Labels, Running, Starting, Looping
<1> QED
  BY <1>2, <1>3, <1>4, <1>5

\* A call that looks at another time.
LEMMA MisuseIsSeen ==
  ASSUME TypeOK, PatientInv, LifeInv, Patient, Look, ~Patient',
         appPc = "idle" \/ appPc = "check", config' = config
  PROVE  Calls!Next
<1>1. At({"born", "scheme", "state"}) # {} \/ At({"last"}) # {}
  BY DEF Look, Patient
<1>2. live
  BY DEF LifeInv, CallInv
<1>3. Phase \in {"starting", "retiring"}
  BY <1>1, <1>2 DEF Phase
<1>4. Doing \in {"nothing", "stop", "destroy"}
  BY DEF Doing, LifeInv, CallInv
<1>5. Phase' = "chaos" /\ ~Connected' /\ Doing' = "nothing" /\ Answer' = <<"none", "none">>
  BY DEF Phase, Connected, Doing, Answer
<1>6. Connected' = FALSE
  BY <1>5
<1>7. Lasting' = Lasting
  BY DEF Lasting
<1> QED
  BY <1>3, <1>4, <1>5, <1>6, <1>7
  DEF Calls!Next, Calls!Application, Calls!Misuse, Calls!NoAnswer

\* A step of the application that leaves the tasks and their flags alone.
LEMMA PhaseKept ==
  ASSUME Patient, Patient', UNCHANGED <<live, run, taskPc>>, appPc = "wait" <=> appPc' = "wait"
  PROVE  Phase' = Phase
<1>1. Active' = Active /\ \A labels : At(labels)' = At(labels)
  BY DEF Active, At
<1> QED
  BY <1>1 DEF Phase

LEMMA AppImplements ==
  ASSUME TypeOK, PatientInv, LifeInv, Patient, Patient', Start \/ Stop \/ Destroy \/ AppStep
  PROVE  [Calls!Next]_Calls!calls
<1> USE DEF Doing, Answer, Return, StopReturns, Calls!Next, Calls!Application, Calls!Continue,
            Calls!Return, Calls!NoAnswer, Calls!Move
<1>1. Lasting' = Lasting
  <2>1. config' = config
    BY DEF Start, Stop, Destroy, AppStep, CreateFails, ClearStopped, StopRefused, RequestStop,
           WaitStopped, FinishStop, FreeClient, CreateTask, clientVars
  <2> QED
    BY <2>1 DEF Lasting
<1>2. open' = open => Connected' = Connected
  BY DEF Connected
<1>live. appPc # "done" => live
  BY DEF LifeInv, CallInv
<1>3. CASE Start
  <2>1. /\ appPc = "idle" /\ call' = "start" /\ UNCHANGED <<live, state, run, open, taskPc>>
        /\ IF state = "UNKNOW" THEN appPc' = "create" ELSE appPc' = "idle" /\ result' = "FAIL"
    BY <1>3 DEF Start, clientVars
  <2>2. Phase' = Phase
    BY <2>1, PhaseKept
  <2>3. IF state = "UNKNOW" THEN Phase = "stopped" ELSE Phase \in {"running", "ending"}
    BY <1>3, <1>live, <2>1, SeenPhase DEF Start
  <2> QED
    BY <1>1, <1>2, <2>1, <2>2, <2>3 DEF Calls!StartAccepted, Calls!StartRefused
<1>4. CASE CreateFails
  <2>1. /\ appPc = "create" /\ appPc' = "idle" /\ result' = "FAIL" /\ call' = "start"
        /\ UNCHANGED <<live, run, open, taskPc>>
    BY <1>4 DEF CreateFails, clientVars, PatientInv, AppInv
  <2>2. Phase' = Phase
    BY <2>1, PhaseKept
  <2> QED
    BY <1>1, <1>2, <2>1, <2>2 DEF Calls!StartFails
<1>5. ASSUME NEW t \in TaskIds, CreateTask(t) PROVE [Calls!Next]_Calls!calls
  <2>1. /\ appPc = "create" /\ appPc' = "clear" /\ Active = {}
        /\ UNCHANGED <<live, open>>
    BY <1>5 DEF CreateTask, clientVars, PatientInv, AppInv
  <2>2. taskPc'[t] = "born"
    BY <1>5 DEF CreateTask, TypeOK
  <2>3. At({"born", "scheme", "state"}) = {} /\ At({"last"}) = {}
    BY <2>1 DEF At, Active
  <2>4. Phase = "stopped"
    BY <1>live, <2>1, <2>3 DEF Phase
  <2>5. At({"born", "scheme", "state"})' # {}
    BY <2>2 DEF At
  <2>6. Phase' = "starting"
    BY <1>live, <2>1, <2>5 DEF Phase
  <2> QED
    BY <1>1, <1>2, <2>1, <2>4, <2>6 DEF Calls!StartSucceeds
<1>6. CASE ClearStopped
  <2>1. /\ appPc = "clear" /\ appPc' = "idle" /\ result' = "OK" /\ call' = "start"
        /\ UNCHANGED <<live, run, open, taskPc>>
    BY <1>6 DEF ClearStopped, PatientInv, AppInv
  <2>2. Phase' = Phase
    BY <2>1, PhaseKept
  <2> QED
    BY <1>1, <1>2, <2>1, <2>2 DEF Calls!StartReturns
<1>7. CASE Stop
  <2>1. /\ appPc = "idle" /\ appPc' = "check" /\ call' = "stop"
        /\ UNCHANGED <<live, run, open, taskPc>>
    BY <1>7 DEF Stop, clientVars
  <2>2. Phase' = Phase
    BY <2>1, PhaseKept
  <2>3. Phase # "freed"
    BY <1>live, <2>1 DEF Phase
  <2> QED
    BY <1>1, <1>2, <2>1, <2>2, <2>3 DEF Calls!StopCalled
<1>8. CASE StopRefused
  <2>1. /\ appPc = "check" /\ ~run /\ call \in {"stop", "destroy"}
        /\ UNCHANGED <<live, run, open, taskPc, call>>
        /\ IF call = "destroy" THEN appPc' = "free" ELSE appPc' = "idle" /\ result' = "FAIL"
    BY <1>8 DEF StopRefused, clientVars, LifeInv, CallInv
  <2>2. Phase' = Phase
    BY <2>1, PhaseKept
  <2>3. Phase \in {"stopped", "ending"}
    BY <1>8, <1>live, <2>1, SeenPhase DEF StopRefused
  <2> QED
    BY <1>1, <1>2, <2>1, <2>2, <2>3 DEF Calls!StopRefused, Calls!DestroyGoesOn
<1>9. CASE RequestStop
  <2>1. /\ appPc = "check" /\ run /\ appPc' = "wait" /\ call \in {"stop", "destroy"}
        /\ UNCHANGED <<live, open, taskPc, call>>
    BY <1>9 DEF RequestStop, LifeInv, CallInv
  <2>2. Phase = "running"
    BY <1>9, <1>live, <2>1, SeenPhase DEF RequestStop
  <2>3. At({"born", "scheme", "state"}) = {} /\ At({"last"}) = {} /\ Active # {}
    BY <2>2 DEF Phase
  <2>4. Active' = Active /\ \A labels : At(labels)' = At(labels)
    BY <2>1 DEF Active, At
  <2>5. Phase' = "stopping"
    BY <1>live, <2>1, <2>3, <2>4 DEF Phase
  <2> QED
    BY <1>1, <1>2, <2>1, <2>2, <2>5 DEF Calls!StopAccepted
<1>resting. ASSUME live, run \in BOOLEAN, ~run, \A t \in TaskIds : taskPc[t] \notin Running
            PROVE  Phase \in {"retiring", "stopped"}
  <2>1. At({"born", "scheme", "state"}) = {}
    BY <1>resting DEF At, Running, Starting
  <2>2. Active # {} => At({"last"}) # {}
    <3> SUFFICES ASSUME NEW t \in Active PROVE t \in At({"last"})
      OBVIOUS
    <3> QED
      BY <1>resting DEF At, Active, TypeOK, Running, Starting, Looping
  <2> QED
    BY <1>resting, <2>1, <2>2 DEF Phase
<1>10. CASE WaitStopped
  <2>1. /\ appPc = "wait" /\ appPc' = "waited" /\ stopped
        /\ UNCHANGED <<live, run, open, taskPc, call>>
    BY <1>10 DEF WaitStopped, clientVars
  <2>2. ~run /\ run \in BOOLEAN /\ \A t \in TaskIds : taskPc[t] \notin Running
    BY <2>1 DEF PatientInv, BitInv, AppInv, TypeOK
  <2>3. At({"born", "scheme", "state"}) = {} /\ (Active = {} \/ At({"last"}) # {})
    BY <1>live, <1>resting, <2>1, <2>2 DEF Phase
  <2>4. Active' = Active /\ \A labels : At(labels)' = At(labels)
    BY <2>1 DEF Active, At
  <2>5. Phase' = Phase
    BY <2>1, <2>3, <2>4 DEF Phase
  <2> QED
    BY <1>1, <1>2, <2>1, <2>5 DEF Calls!calls
<1>11. CASE FinishStop
  <2>1. /\ appPc = "waited" /\ call \in {"stop", "destroy"}
        /\ UNCHANGED <<live, run, open, taskPc, call>>
        /\ IF call = "destroy" THEN appPc' = "free" ELSE appPc' = "idle" /\ result' = "OK"
    BY <1>11 DEF FinishStop, LifeInv, CallInv
  <2>2. Phase' = Phase
    BY <2>1, PhaseKept
  <2>3. Phase \in {"retiring", "stopped"}
    BY <1>live, <1>resting, <2>1 DEF PatientInv, AppInv, TypeOK
  <2> QED
    BY <1>1, <1>2, <2>1, <2>2, <2>3 DEF Calls!StopReturns, Calls!DestroyGoesOn
<1>12. CASE Destroy
  <2>1. /\ appPc = "idle" /\ appPc' = (IF run THEN "check" ELSE "free") /\ call' = "destroy"
        /\ UNCHANGED <<live, run, open, taskPc>>
    BY <1>12 DEF Destroy, clientVars
  <2>2. Phase' = Phase
    BY <2>1, PhaseKept
  <2>3. IF run THEN Phase = "running" ELSE Phase \in {"stopped", "ending"}
    BY <1>12, <1>live, <2>1, SeenPhase DEF Destroy
  <2> QED
    BY <1>1, <1>2, <2>1, <2>2, <2>3 DEF Calls!DestroyCalled
<1>13. CASE FreeClient
  <2>1. /\ appPc = "free" /\ appPc' = "done" /\ ~live' /\ open' = FALSE /\ result' = "OK"
        /\ call' = "destroy"
    BY <1>13 DEF FreeClient, LifeInv, CallInv
  <2>2. Phase' = "freed"
    BY <2>1 DEF Phase
  <2>3. At({"born", "scheme", "state"}) = {} /\ ~run
    BY <2>1 DEF LifeInv, CallInv, At, Starting
  <2>4. Phase \in {"stopped", "ending", "retiring"}
    BY <1>live, <2>1, <2>3 DEF Phase
  <2>5. Connected' = FALSE
    BY <2>1 DEF Connected
  <2> QED
    BY <1>1, <2>1, <2>2, <2>4, <2>5 DEF Calls!DestroyReturns
<1> QED
  BY <1>3, <1>4, <1>5, <1>6, <1>7, <1>8, <1>9, <1>10, <1>11, <1>12, <1>13 DEF AppStep

\* An impatient application: nothing is promised any more.
LEMMA ChaosStays == ASSUME ~Patient, ~Patient', config' = config PROVE UNCHANGED Calls!calls
<1>1. Lasting' = Lasting
  BY DEF Lasting
<1>2. Connected' = Connected
  BY DEF Connected
<1> QED
  BY <1>1, <1>2 DEF Calls!calls, Phase, Doing, Answer

LEMMA StepImplements ==
  ASSUME IInv, LivesInv, [Next]_vars
  PROVE  [Calls!Next]_Calls!calls
<1>1. config' = config
  BY DEF Next, Start, Stop, Destroy, AppStep, CreateTask, CreateFails, ClearStopped, StopRefused,
     RequestStop, WaitStopped, FinishStop, FreeClient, TaskStep, TaskRuns, GetTransport, SetInit,
     TaskClearsStopped, Enter, Leave, Pass, CloseTransport, SetStopped, SetUnknow, vars, clientVars
<1>2. CASE ~Patient
  BY <1>1, <1>2, PatienceEnds, ChaosStays
<1>3. CASE Patient /\ ~Patient'
  <2>1. TypeOK /\ PatientInv /\ LifeInv
    BY <1>3 DEF IInv, LivesInv
  <2>2. Look /\ (appPc = "idle" \/ appPc = "check")
    BY <1>3 DEF Next, Start, Stop, Destroy, AppStep, CreateTask, CreateFails, ClearStopped,
       StopRefused, RequestStop, WaitStopped, FinishStop, FreeClient, TaskStep, TaskRuns,
       GetTransport, SetInit, TaskClearsStopped, Enter, Leave, Pass, CloseTransport, SetStopped,
       SetUnknow, vars, lookVars, Patient
  <2> QED
    BY <1>1, <1>3, <2>1, <2>2, MisuseIsSeen
<1>4. CASE Patient /\ Patient' /\ Next
  <2>1. TypeOK /\ PatientInv /\ LifeInv
    BY <1>4 DEF IInv, LivesInv
  <2> QED
    BY <1>4, <2>1, TaskImplements, AppImplements DEF Next
<1>5. CASE UNCHANGED vars
  BY <1>5 DEF vars, clientVars, appVars, lookVars, Calls!calls, Lasting, Phase, Connected, Doing,
     Answer, Patient, At, Active
<1> QED
  BY <1>2, <1>3, <1>4, <1>5

LEMMA InitImplements == Init => Calls!Init
<1> SUFFICES ASSUME Init PROVE Calls!Init
  OBVIOUS
<1>1. Patient /\ live /\ Active = {} /\ appPc = "idle" /\ call = "init" /\ result = "OK" /\ ~open
  BY DEF Init, Patient, Active
<1>2. At({"born", "scheme", "state"}) = {} /\ At({"last"}) = {}
  BY DEF Init, At
<1>3. Connected = FALSE
  BY <1>1 DEF Connected
<1>4. Lasting \in BOOLEAN
  BY Zenon DEF Lasting
<1> QED
  BY <1>1, <1>2, <1>3, <1>4 DEF Calls!Init, Phase, Doing, Answer

\* websocket_client.c:316-339, 406-532: started, stopped and destroyed by a patient
\* application, the client does what ClientCalls promises.
THEOREM ClientImplementsCalls == Spec => ImplementsCalls
<1>1. IInv /\ LivesInv /\ [Next]_vars => [Calls!Next]_Calls!calls
  BY StepImplements
<1> QED
  BY <1>1, InitImplements, Invariance, LifeInvariance, PTL DEF Spec, ImplementsCalls, Calls!Spec
=============================================================================
