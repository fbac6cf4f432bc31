------------------------------ MODULE WsTimers ------------------------------
(***************************************************************************)
(* The clocks of the websocket client: WsClient's loop with the time its   *)
(* steps take, for the PING of a quiet connection and the wait before a    *)
(* new one.  Each step of the loop here is a step of WsClient that leaves  *)
(* to the clocks what WsClient leaves open.                                *)
(*                                                                         *)
(* Time passes while the task is blocked.  A call of the transport returns *)
(* within its timeout, a dispatch within DispatchTime, handlers included;  *)
(* vTaskDelay takes as long as it says and the rest takes no time.         *)
(***************************************************************************)
EXTENDS WsClient

CONSTANTS
  PollTimeout,       \* esp_transport_poll_read(client->transport, 1000)
  PingTimeout,       \* WEBSOCKET_PING_TIMEOUT_MS
  ReconnectTimeout,  \* WEBSOCKET_RECONNECT_TIMEOUT_MS, client->wait_timeout_ms
  NetworkTimeout,    \* WEBSOCKET_NETWORK_TIMEOUT_MS
  DispatchTime,      \* how long esp_websocket_client_dispatch_event takes at most
  MaxTime            \* bound: the time the model runs for

ASSUME TimesAssumption ==
  {PollTimeout, PingTimeout, ReconnectTimeout, NetworkTimeout, DispatchTime, MaxTime} \subseteq Nat

VARIABLES
  now,            \* _tick_get_ms()
  pingTick,       \* client->ping_tick_ms
  reconnectTick,  \* client->reconnect_tick_ms
  abortedAt,      \* history: when the connection was last given up; MaxTime + 1 before that
  heard           \* history: when the connection was made, or last had data or a PING

clockVars == <<now, pingTick, reconnectTick, abortedAt, heard>>
timedVars == <<vars, clockVars>>

ClocksTypeOK ==
  /\ now \in Nat /\ pingTick \in 0..now /\ reconnectTick \in 0..now /\ heard \in 0..now
  /\ abortedAt \in 0..now \cup {MaxTime + 1}

\* esp_websocket_client_init sets the clocks; the task starts some time later.
TimedInit ==
  /\ Init /\ autoReconnect
  /\ now \in 0..PingTimeout + 1
  /\ pingTick = 0 /\ reconnectTick = 0 /\ abortedAt = MaxTime + 1 /\ heard = 0

Elapse(times) == \E d \in times : now + d <= MaxTime /\ now' = now + d

-----------------------------------------------------------------------------
\* The steps that block the task for at most a time, and look at no clock.
Blocking(step, most) ==
  /\ step /\ Elapse(0..most)
  /\ UNCHANGED <<pingTick, reconnectTick, abortedAt, heard>>

Dispatched ==
  \/ Blocking(DispatchConnected, DispatchTime)
  \/ Blocking(DispatchDisconnected, DispatchTime)
  \/ Blocking(DataHandled, DispatchTime)

TimedStart == Blocking(Start, 0)

TimedConnect ==
  /\ Connect /\ Elapse(0..NetworkTimeout)
  /\ heard' = now'
  /\ UNCHANGED <<pingTick, reconnectTick, abortedAt>>

\* esp_websocket_client_abort_connection, after a call that took its time; a read has set
\* ping_tick_ms before (:466).
Aborting(step, most) ==
  /\ step /\ Elapse(0..most)
  /\ reconnectTick' = now' /\ abortedAt' = now'
  /\ pingTick' = IF wsPc = "select" THEN now ELSE pingTick
  /\ UNCHANGED heard

Aborted ==
  \/ Aborting(ConnectFails, NetworkTimeout)
  \/ Aborting(PollFails, PollTimeout)
  \/ Aborting(ReadFails, NetworkTimeout)

\* The poll finds data, or its time runs out; then a PING is due or not (:451-457).
TimedPoll ==
  /\ Poll /\ Elapse(0..PollTimeout)
  /\ ~readSelect' => now' = now + PollTimeout
  /\ wsPc' = IF now' - pingTick > PingTimeout THEN "ping" ELSE "select"
  /\ UNCHANGED <<pingTick, reconnectTick, abortedAt, heard>>

\* ping_tick_ms is set before the PING is written.
TimedPing ==
  /\ Ping /\ Elapse(0..NetworkTimeout)
  /\ pingTick' = now /\ heard' = now
  /\ UNCHANGED <<reconnectTick, abortedAt>>

\* mutant: ping_tick_ms is set before the test of read_select
QuietTicked ==
  /\ ~readSelect /\ NoData
  /\ pingTick' = now
  /\ UNCHANGED <<now, reconnectTick, abortedAt, heard>>

\* read_select == 0
Quiet == ~readSelect /\ Blocking(NoData, 0)

\* ping_tick_ms is set before the data are read; there may be none after all.
TimedRead ==
  /\ readSelect /\ (Read \/ NoData) /\ Elapse(0..NetworkTimeout)
  /\ pingTick' = now /\ heard' = now
  /\ UNCHANGED <<reconnectTick, abortedAt>>

\* mutant: the delay is only made when the wait is not over
TimedWaitDelayed ==
  /\ WaitTimeout
  /\ state' = IF now - reconnectTick > ReconnectTimeout THEN "INIT" ELSE "WAIT_TIMEOUT"
  /\ reconnectTick' = IF state' = "INIT" THEN now ELSE reconnectTick
  /\ Elapse({IF state' = "INIT" THEN 0 ELSE ReconnectTimeout \div 2})
  /\ UNCHANGED <<pingTick, abortedAt, heard>>

\* The wait is over when more than wait_timeout_ms have passed; the delay comes after the
\* test, whatever its outcome (:484-489).
TimedWait ==
  /\ WaitTimeout
  /\ state' = IF now - reconnectTick > ReconnectTimeout THEN "INIT" ELSE "WAIT_TIMEOUT"
  /\ reconnectTick' = IF state' = "INIT" THEN now ELSE reconnectTick
  /\ Elapse({ReconnectTimeout \div 2})
  /\ UNCHANGED <<pingTick, abortedAt, heard>>

TimedNext ==
  \/ TimedStart \/ TimedConnect \/ Dispatched \/ Aborted
  \/ TimedPoll \/ TimedPing \/ Quiet \/ TimedRead
  \/ TimedWait

TimedSpec == TimedInit /\ [][TimedNext]_timedVars

-----------------------------------------------------------------------------
(* Properties.                                                             *)

Larger(a, b) == IF a > b THEN a ELSE b

Half == ReconnectTimeout \div 2

\* A new connection is tried no sooner than the timeout and half of it after the old one
\* was given up, since the delay follows the test, and no later than the handlers of
\* DISCONNECTED, or a test just missed, can make it.
ReconnectsInTime ==
  wsPc = "loop" /\ state = "INIT" /\ abortedAt <= MaxTime =>
    /\ now - abortedAt > ReconnectTimeout + Half
    /\ now - abortedAt <= Larger(DispatchTime, ReconnectTimeout + Half) + Half

\* However long reads, handlers and PINGs take, a connection is never without data and
\* without a PING for longer than this: the clock is only read after a poll (:457), and is
\* as old as the last connection when a new one is made.
QuietIsBounded ==
  state = "CONNECTED" =>
    now - heard <= Larger(PingTimeout, NetworkTimeout + DispatchTime) + PollTimeout
=============================================================================
