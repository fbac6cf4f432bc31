------------------------------ MODULE WsClient ------------------------------
(***************************************************************************)
(* The websocket client while it runs: the loop of the websocket task      *)
(* (esp_websocket_client_task) and the tasks that call                     *)
(* esp_websocket_client_send, the websocket task among them from inside    *)
(* its DATA event.  They share client->state, the transport, the mutex     *)
(* client->lock and client->tx_buffer.                                     *)
(*                                                                         *)
(* The transport (esp_transport) is external: connect, poll_read, read     *)
(* and write return any of the results the code tests for; a write on a    *)
(* closed transport fails.  A write lasts from Copy to WriteSome or        *)
(* WriteFails, so anything may happen around it.  Time is abstract: a      *)
(* timeout may or may not have run out.  start, stop and destroy are not   *)
(* called while the client runs.                                           *)
(***************************************************************************)
EXTENDS Integers, Sequences

CONSTANTS
  Senders,        \* the tasks that call esp_websocket_client_send from outside
  WsTask,         \* the websocket task
  NoTask,         \* the holder of a free mutex
  Lens,           \* the lengths a caller may ask to send
  BufferSize,     \* client->buffer_size
  MaxSends        \* bound: task -> how often it may call send

Tasks == Senders \cup {WsTask}

ASSUME TasksAssumption   == NoTask \notin Tasks /\ WsTask \notin Senders
ASSUME LengthsAssumption == Lens \subseteq Int /\ BufferSize \in Nat \ {0}

ESP_FAIL == -1

VARIABLES
  autoReconnect,  \* client->config->auto_reconnect
  state,       \* client->state
  run,         \* client->run
  open,        \* the transport has an open connection
  bit,         \* statusCONNECTED_TO_SERVER of xAppStateEventGroup
  lost,        \* history: the last event of the connection could not be posted
  wsPc,        \* where the websocket task is
  readSelect,  \* read_select: the poll found data to read
  lock,        \* the task that holds client->lock, or NoTask
  txBuffer,    \* what client->tx_buffer holds: the bytes [from, upto) of a send
  sendPc,      \* task -> where it is inside esp_websocket_client_send
  len,         \* task -> its argument len
  widx,        \* task -> its widx
  needWrite,   \* task -> its need_write
  result,      \* task -> what its last send returned (or is about to)
  sends,       \* history: task -> how often it has called send
  wire         \* history: the data the transport has taken, portion by portion

taskVars == <<autoReconnect, state, run, open, bit, lost, wsPc, readSelect>>
sendVars == <<lock, txBuffer, sendPc, len, widx, needWrite, result, sends, wire>>
vars     == <<taskVars, sendVars>>

\* The bytes from .. upto - 1 of the serial-th send of a task.
Portion == [task : Tasks, serial : Nat, from : Int, upto : Int]

TypeOK ==
  /\ autoReconnect \in BOOLEAN
  /\ state \in {"UNKNOW", "INIT", "CONNECTED", "WAIT_TIMEOUT"}
  /\ run \in BOOLEAN /\ open \in BOOLEAN /\ bit \in BOOLEAN /\ lost \in BOOLEAN
  /\ wsPc \in {"start", "loop", "connected", "disconnected", "ping", "select", "data", "gone"}
  /\ readSelect \in BOOLEAN
  /\ lock \in Tasks \cup {NoTask}
  /\ txBuffer \in Portion
  /\ sendPc \in [Tasks -> {"idle", "lock", "copy", "write", "give"}]
  /\ len \in [Tasks -> Int] /\ widx \in [Tasks -> Int] /\ needWrite \in [Tasks -> Int]
  /\ result \in [Tasks -> Int]
  /\ sends \in [Tasks -> Nat]
  /\ wire \in Seq(Portion)

Init ==
  /\ autoReconnect \in BOOLEAN
  /\ state = "UNKNOW" /\ run = FALSE /\ open = FALSE
  /\ bit = FALSE /\ lost = FALSE
  /\ wsPc = "start" /\ readSelect = FALSE
  /\ lock = NoTask
  /\ txBuffer = [task |-> WsTask, serial |-> 0, from |-> 0, upto |-> 0]
  /\ sendPc = [t \in Tasks |-> "idle"]
  /\ len = [t \in Tasks |-> 0] /\ widx = [t \in Tasks |-> 0]
  /\ needWrite = [t \in Tasks |-> 0] /\ result = [t \in Tasks |-> 0]
  /\ sends = [t \in Tasks |-> 0]
  /\ wire = <<>>

-----------------------------------------------------------------------------
(* esp_websocket_client_send                                               *)

Goto(t, label) == sendPc' = [sendPc EXCEPT ![t] = label]
Return(t, r)   == Goto(t, "idle") /\ result' = [result EXCEPT ![t] = r]

\* esp_websocket_client_is_connected
IsConnected == state = "CONNECTED"

\* The websocket task calls send from its DATA event only (sendStatus).
MayCall(t) == t = WsTask => wsPc = "data"

\* The call, its argument check and its look at client->state, which holds no lock.
Send(t, l) ==
  /\ sendPc[t] = "idle" /\ MayCall(t)
  /\ sends[t] < MaxSends[t]
  /\ sends' = [sends EXCEPT ![t] = @ + 1]
  /\ len' = [len EXCEPT ![t] = l]
  /\ widx' = [widx EXCEPT ![t] = 0]
  /\ needWrite' = [needWrite EXCEPT ![t] = l]
  /\ IF l > 0 /\ IsConnected
     THEN Goto(t, "lock") /\ UNCHANGED result
     ELSE Return(t, ESP_FAIL)
  /\ UNCHANGED <<taskVars, lock, txBuffer, wire>>

\* mutant: the result of xSemaphoreTake is not tested
TakeLockUntested(t) ==
  /\ sendPc[t] = "lock"
  /\ lock' = IF lock = NoTask THEN t ELSE lock
  /\ Goto(t, "copy")
  /\ UNCHANGED <<taskVars, txBuffer, len, widx, needWrite, result, sends, wire>>

\* xSemaphoreTake(client->lock, timeout) = pdPASS
TakeLock(t) ==
  /\ sendPc[t] = "lock" /\ lock = NoTask
  /\ lock' = t
  /\ Goto(t, "copy")
  /\ UNCHANGED <<taskVars, txBuffer, len, widx, needWrite, result, sends, wire>>

LockTimesOut(t) ==
  /\ sendPc[t] = "lock" /\ lock # NoTask
  /\ Return(t, ESP_FAIL)
  /\ UNCHANGED <<taskVars, lock, txBuffer, len, widx, needWrite, sends, wire>>

\* mutant: need_write is not cut to the buffer
CopyUncut(t) ==
  /\ sendPc[t] = "copy"
  /\ txBuffer' = [task |-> t, serial |-> sends[t],
                  from |-> widx[t], upto |-> widx[t] + needWrite[t]]
  /\ Goto(t, "write")
  /\ UNCHANGED <<taskVars, lock, len, widx, needWrite, result, sends, wire>>

\* need_write is cut to the buffer and memcpy fills that much of tx_buffer.
Copy(t) ==
  /\ sendPc[t] = "copy"
  /\ LET n == IF needWrite[t] > BufferSize THEN BufferSize ELSE needWrite[t] IN
       /\ needWrite' = [needWrite EXCEPT ![t] = n]
       /\ txBuffer' = [task |-> t, serial |-> sends[t], from |-> widx[t], upto |-> widx[t] + n]
  /\ Goto(t, "write")
  /\ UNCHANGED <<taskVars, lock, len, widx, result, sends, wire>>

\* The first n bytes of a portion.
FirstBytes(b, n) == [b EXCEPT !.upto = b.from + n]

\* esp_transport_write takes the first n bytes of tx_buffer.
WriteSome(t) ==
  /\ sendPc[t] = "write" /\ open
  /\ \E n \in 1..needWrite[t] :
       /\ wire' = Append(wire, FirstBytes(txBuffer, n))
       /\ widx' = [widx EXCEPT ![t] = @ + n]
       /\ needWrite' = [needWrite EXCEPT ![t] = len[t] - (widx[t] + n)]
       /\ Goto(t, IF widx[t] + n < len[t] THEN "copy" ELSE "give")
       /\ result' = [result EXCEPT ![t] = widx[t] + n]
  /\ UNCHANGED <<taskVars, lock, txBuffer, len, sends>>

\* mutant: only a negative wlen ends the loop
WriteFailsNegative(t) ==
  /\ sendPc[t] = "write"
  /\ \/ Goto(t, "give") /\ result' = [result EXCEPT ![t] = -1]
     \/ Goto(t, "copy") /\ UNCHANGED result
  /\ UNCHANGED <<taskVars, lock, txBuffer, len, widx, needWrite, sends, wire>>

\* mutant: an error returns widx, the number of bytes asked for so far
WriteFailsAsSuccess(t) ==
  /\ sendPc[t] = "write"
  /\ Goto(t, "give")
  /\ result' = [result EXCEPT ![t] = len[t]]
  /\ UNCHANGED <<taskVars, lock, txBuffer, len, widx, needWrite, sends, wire>>

\* esp_transport_write fails (-1) or its timeout runs out (0).
WriteFails(t) ==
  /\ sendPc[t] = "write"
  /\ Goto(t, "give")
  /\ \E wlen \in {-1, 0} : result' = [result EXCEPT ![t] = wlen]
  /\ UNCHANGED <<taskVars, lock, txBuffer, len, widx, needWrite, sends, wire>>

\* mutant: an error path returns without xSemaphoreGive
GiveOnSuccess(t) ==
  /\ sendPc[t] = "give"
  /\ lock' = IF result[t] > 0 THEN NoTask ELSE lock
  /\ Goto(t, "idle")
  /\ UNCHANGED <<taskVars, txBuffer, len, widx, needWrite, result, sends, wire>>

\* xSemaphoreGive(client->lock) and the return after it
Give(t) ==
  /\ sendPc[t] = "give"
  /\ lock' = NoTask
  /\ Goto(t, "idle")
  /\ UNCHANGED <<taskVars, txBuffer, len, widx, needWrite, result, sends, wire>>

SendStep(t) ==
  \/ TakeLock(t)
  \/ LockTimesOut(t)
  \/ Copy(t)
  \/ WriteSome(t)
  \/ WriteFails(t)
  \/ Give(t)

-----------------------------------------------------------------------------
(* esp_websocket_client_task                                               *)

\* The task starts, with a transport for the scheme of its configuration.
Start ==
  /\ wsPc = "start"
  /\ run' = TRUE
  /\ state' = "INIT"
  /\ wsPc' = "loop"
  /\ UNCHANGED <<autoReconnect, open, bit, lost, readSelect, sendVars>>

AtState(s) == wsPc = "loop" /\ run /\ state = s

Connect ==
  /\ AtState("INIT")
  /\ open' = TRUE
  /\ state' = "CONNECTED"
  /\ wsPc' = "connected"
  /\ UNCHANGED <<autoReconnect, run, bit, lost, readSelect, sendVars>>

\* mutant: the connection is given up without an event
AbortConnectionQuietly ==
  /\ open' = FALSE
  /\ state' = "WAIT_TIMEOUT"
  /\ wsPc' = "loop"
  /\ UNCHANGED <<autoReconnect, run, bit, lost, readSelect, sendVars>>

\* mutant: the connection is left in WEBSOCKET_STATE_ERROR, for which the loop has no case
AbortConnectionToError ==
  /\ open' = FALSE
  /\ state' = "ERROR"
  /\ wsPc' = "disconnected"
  /\ UNCHANGED <<autoReconnect, run, bit, lost, readSelect, sendVars>>

\* esp_websocket_client_abort_connection, up to its event
AbortConnection ==
  /\ open' = FALSE
  /\ state' = "WAIT_TIMEOUT"
  /\ wsPc' = "disconnected"
  /\ UNCHANGED <<autoReconnect, run, bit, lost, readSelect, sendVars>>

ConnectFails == AtState("INIT") /\ AbortConnection
PollFails    == AtState("CONNECTED") /\ AbortConnection
ReadFails    == wsPc = "select" /\ readSelect /\ AbortConnection

\* esp_websocket_client_dispatch_event.  The loop runs in this task and its queue
\* of one is empty, so the post can only fail for lack of memory; nobody looks.
Dispatch(connected) ==
  /\ \/ bit' = connected /\ lost' = FALSE
     \/ lost' = TRUE /\ UNCHANGED bit
  /\ wsPc' = "loop"
  /\ UNCHANGED <<autoReconnect, state, run, open, readSelect, sendVars>>

DispatchConnected    == wsPc = "connected" /\ Dispatch(TRUE)
DispatchDisconnected == wsPc = "disconnected" /\ Dispatch(FALSE)

\* esp_transport_poll_read does not fail; a PING is due or not.
Poll ==
  /\ AtState("CONNECTED")
  /\ readSelect' \in BOOLEAN
  /\ wsPc' \in {"ping", "select"}
  /\ UNCHANGED <<autoReconnect, state, run, open, bit, lost, sendVars>>

\* The PING: a write without data that neither takes the lock nor looks at its result.
Ping ==
  /\ wsPc = "ping"
  /\ wsPc' = "select"
  /\ UNCHANGED <<autoReconnect, state, run, open, bit, lost, readSelect, sendVars>>

\* Nothing to read, a read of no bytes, or bytes whose DATA event cannot be posted.
NoData ==
  /\ wsPc = "select"
  /\ wsPc' = "loop"
  /\ UNCHANGED <<autoReconnect, state, run, open, bit, lost, readSelect, sendVars>>

\* Bytes were read: the handler of the DATA event runs.
Read ==
  /\ wsPc = "select" /\ readSelect
  /\ wsPc' = "data"
  /\ UNCHANGED <<autoReconnect, state, run, open, bit, lost, readSelect, sendVars>>

\* The handler of the DATA event returns.
DataHandled ==
  /\ wsPc = "data" /\ sendPc[WsTask] = "idle"
  /\ wsPc' = "loop"
  /\ UNCHANGED <<autoReconnect, state, run, open, bit, lost, readSelect, sendVars>>

\* The wait is over or not (:484); without auto_reconnect the loop ends.
WaitTimeout ==
  /\ AtState("WAIT_TIMEOUT")
  /\ IF autoReconnect
     THEN state' \in {"WAIT_TIMEOUT", "INIT"} /\ UNCHANGED run
     ELSE run' = FALSE /\ UNCHANGED state
  /\ UNCHANGED <<autoReconnect, open, bit, lost, wsPc, readSelect, sendVars>>

\* After the loop: the transport is closed and the task deletes itself.
Exit ==
  /\ wsPc = "loop" /\ ~run
  /\ open' = FALSE
  /\ state' = "UNKNOW"
  /\ wsPc' = "gone"
  /\ UNCHANGED <<autoReconnect, run, bit, lost, readSelect, sendVars>>

LoopStep ==
  \/ Start
  \/ Connect
  \/ ConnectFails
  \/ DispatchConnected
  \/ DispatchDisconnected
  \/ PollFails
  \/ Poll
  \/ Ping
  \/ NoData
  \/ Read
  \/ ReadFails
  \/ DataHandled
  \/ WaitTimeout
  \/ Exit

Next ==
  \/ LoopStep
  \/ \E t \in Tasks : SendStep(t)
  \/ \E t \in Tasks, l \in Lens : Send(t, l)

Spec == Init /\ [][Next]_vars

\* A task inside send goes on: the mutex and the transport are given timeouts.
FairSpec == Spec /\ \A t \in Tasks : WF_vars(SendStep(t))

-----------------------------------------------------------------------------
(* Properties.                                                             *)

\* The tasks between xSemaphoreTake and xSemaphoreGive.
Sending == {t \in Tasks : sendPc[t] \in {"copy", "write", "give"}}

\* Every path through send gives the lock it has taken, and no task passes without it.
LockIsHeldBySender ==
  /\ \A t \in Sending : lock = t
  /\ lock # NoTask => lock \in Sending

\* esp_transport_write reads from tx_buffer the bytes its caller has copied there.
BufferIsMine ==
  \A t \in Tasks : sendPc[t] = "write" =>
    txBuffer = [task |-> t, serial |-> sends[t], from |-> widx[t], upto |-> widx[t] + needWrite[t]]

\* memcpy stays inside tx_buffer and inside the caller's data.
CopyInBounds ==
  \A t \in Tasks : sendPc[t] = "write" =>
    needWrite[t] \in 1..BufferSize /\ widx[t] + needWrite[t] <= len[t]

\* q is what may follow p on the wire: the next bytes of p's message, or the start of another.
MayFollow(p, q) ==
  q.from = 0 \/ (q.task = p.task /\ q.serial = p.serial /\ q.from = p.upto)

\* The portions of a long message are not mixed with those of another (:556-571).
MessagesNotInterleaved ==
  /\ \A i \in 1..Len(wire) - 1 : MayFollow(wire[i], wire[i + 1])
  /\ wire # <<>> => wire[1].from = 0

\* The last byte of the current message of t is on the wire.
LastByteSent(t) ==
  \E i \in 1..Len(wire) : wire[i].task = t /\ wire[i].serial = sends[t] /\ wire[i].upto = len[t]

\* A caller may trust the result: it is len exactly when the whole message was taken
\* by the transport; anything else is 0 or -1 (:565-573).
ResultIsTrue ==
  \A t \in Tasks : sends[t] > 0 /\ sendPc[t] = "idle" =>
    IF LastByteSent(t) THEN result[t] = len[t] ELSE result[t] \in {-1, 0}

\* Outside the two events that report a change, statusCONNECTED_TO_SERVER is set
\* exactly while the client is connected, unless the last event was lost.
BitFollowsState ==
  wsPc \notin {"connected", "disconnected"} /\ ~lost => (bit <=> state = "CONNECTED")

\* websocket_client.h:160-162 promises "Number of data was sent" or "(-1) if any errors";
\* the transport has taken widx bytes.
ResultCountsTheData ==
  \A t \in Tasks : sends[t] > 0 /\ sendPc[t] = "idle" => result[t] \in {widx[t], -1}

\* Every call of send returns.
SendsReturn == \A t \in Tasks : sendPc[t] # "idle" ~> sendPc[t] = "idle"
=============================================================================
