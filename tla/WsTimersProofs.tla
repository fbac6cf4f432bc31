---------------------------- MODULE WsTimersProofs ----------------------------
(***************************************************************************)
(* Proofs about the clocks of the websocket client for every timeout.  The *)
(* inductive invariant bounds, at each place of the loop, the time since   *)
(* the connection was given up (WaitInv) and since it was last heard of    *)
(* (QuietInv).                                                             *)
(***************************************************************************)
EXTENDS WsTimers, WsClientProofs

\* Where the loop is in each of its states.
PlaceInv ==
  /\ autoReconnect = TRUE
  /\ state = "UNKNOW" => wsPc = "start"
  /\ state = "INIT" => wsPc = "loop"
  /\ state = "CONNECTED" => wsPc \in {"connected", "loop", "ping", "select", "data"}
  /\ state = "WAIT_TIMEOUT" => wsPc \in {"disconnected", "loop"}
  /\ state \in {"UNKNOW", "INIT", "CONNECTED", "WAIT_TIMEOUT"}

WaitInv ==
  /\ state = "UNKNOW" => abortedAt = MaxTime + 1
  /\ state = "WAIT_TIMEOUT" => reconnectTick = abortedAt
  /\ wsPc = "disconnected" => now = abortedAt
  /\ state = "WAIT_TIMEOUT" /\ wsPc = "loop" =>
       now - abortedAt <= Larger(DispatchTime, ReconnectTimeout + Half)
  /\ ReconnectsInTime

\* What a connection may add to its silence before the next poll.
Busy == Larger(PingTimeout, NetworkTimeout + DispatchTime)

QuietInv ==
  state = "CONNECTED" =>
    /\ pingTick <= heard
    /\ wsPc = "connected" => now = heard
    /\ wsPc = "data" => now - heard <= NetworkTimeout
    /\ wsPc \in {"loop", "select"} => now - heard <= Busy
    /\ wsPc = "ping" => now - heard <= Busy + PollTimeout

TimedInv == ClocksTypeOK /\ PlaceInv /\ WaitInv /\ QuietInv

-----------------------------------------------------------------------------
\* Half of the timeout, and what Larger makes of two times.
LEMMA Times ==
  /\ PollTimeout \in Nat /\ PingTimeout \in Nat /\ ReconnectTimeout \in Nat
  /\ NetworkTimeout \in Nat /\ DispatchTime \in Nat /\ MaxTime \in Nat
  /\ Half \in Nat
  /\ Busy \in Nat /\ PingTimeout <= Busy /\ NetworkTimeout + DispatchTime <= Busy
  /\ Larger(DispatchTime, ReconnectTimeout + Half) \in Nat
  /\ DispatchTime <= Larger(DispatchTime, ReconnectTimeout + Half)
  /\ ReconnectTimeout + Half <= Larger(DispatchTime, ReconnectTimeout + Half)
<1>1. /\ PollTimeout \in Nat /\ PingTimeout \in Nat /\ ReconnectTimeout \in Nat
      /\ NetworkTimeout \in Nat /\ DispatchTime \in Nat /\ MaxTime \in Nat
  BY TimesAssumption
<1>2. Half \in Nat
  BY <1>1 DEF Half
<1> QED
  BY <1>1, <1>2 DEF Larger, Busy

LEMMA ClockValues ==
  ASSUME ClocksTypeOK
  PROVE  /\ now \in Int /\ pingTick \in Int /\ reconnectTick \in Int /\ abortedAt \in Int /\ heard \in Int
         /\ pingTick <= now /\ heard <= now /\ (abortedAt <= now \/ abortedAt = MaxTime + 1)
  BY Times DEF ClocksTypeOK

LEMMA InitTimed == TimedInit => TimedInv
<1>1. SUFFICES ASSUME TimedInit PROVE TimedInv
  OBVIOUS
<1>2. autoReconnect = TRUE
  BY <1>1, Zenon DEF TimedInit, Init
<1> QED
  BY <1>1, <1>2, Times DEF TimedInit, Init, TimedInv, ClocksTypeOK, PlaceInv, WaitInv,
     ReconnectsInTime, QuietInv

\* What all steps do to now.
LEMMA Elapsed ==
  ASSUME now \in Nat, NEW most \in Nat, Elapse(0..most)
  PROVE  now' \in Nat /\ now <= now' /\ now' <= now + most /\ now' <= MaxTime
  BY Times DEF Elapse

LEMMA ConnectKeepsInv == ASSUME TimedInv, TimedStart \/ TimedConnect PROVE TimedInv'
<1> USE Times DEF TimedInv, ClocksTypeOK, PlaceInv, WaitInv, ReconnectsInTime, QuietInv
<1>1. CASE TimedStart
  <2>1. now' = now
    BY <1>1 DEF TimedStart, Blocking, Elapse
  <2> QED
    BY <1>1, <2>1 DEF TimedStart, Blocking, Start
<1>2. CASE TimedConnect
  <2>1. now' \in Nat /\ now <= now'
    BY <1>2, Elapsed DEF TimedConnect
  <2>2. wsPc' = "connected" /\ state' = "CONNECTED" /\ heard' = now'
        /\ UNCHANGED <<autoReconnect, pingTick, reconnectTick, abortedAt>>
    BY <1>2 DEF TimedConnect, Connect
  <2> QED
    BY <2>1, <2>2
<1> QED
  BY <1>1, <1>2

LEMMA DispatchKeepsInv == ASSUME TimedInv, Dispatched PROVE TimedInv'
<1> USE Times DEF TimedInv, ClocksTypeOK, PlaceInv, WaitInv, ReconnectsInTime, QuietInv
<1>1. /\ now' \in Nat /\ now <= now' /\ now' <= now + DispatchTime
      /\ UNCHANGED <<pingTick, reconnectTick, abortedAt, heard>>
  BY Elapsed DEF Dispatched, Blocking
<1>2. /\ wsPc \in {"connected", "disconnected", "data"} /\ wsPc' = "loop"
      /\ UNCHANGED <<autoReconnect, state>>
  BY DEF Dispatched, Blocking, DispatchConnected, DispatchDisconnected, Dispatch, DataHandled
<1>3. ClocksTypeOK' /\ PlaceInv'
  BY <1>1, <1>2
<1> HIDE DEF ClocksTypeOK
<1>4. WaitInv'
  BY <1>1, <1>2, ClockValues
<1>5. QuietInv'
  BY <1>1, <1>2, ClockValues
<1> QED
  BY <1>3, <1>4, <1>5

LEMMA AbortKeepsInv == ASSUME TimedInv, Aborted PROVE TimedInv'
<1> USE Times DEF TimedInv, ClocksTypeOK, PlaceInv, WaitInv, ReconnectsInTime, QuietInv
<1>1. now' \in Nat /\ now <= now'
  BY Elapsed DEF Aborted, Aborting
<1>2. /\ reconnectTick' = now' /\ abortedAt' = now' /\ heard' = heard
      /\ pingTick' \in {pingTick, now}
      /\ wsPc' = "disconnected" /\ state' = "WAIT_TIMEOUT"
      /\ UNCHANGED <<autoReconnect>>
  BY DEF Aborted, Aborting, ConnectFails, PollFails, ReadFails, AbortConnection
<1> QED
  BY <1>1, <1>2

LEMMA PollKeepsInv == ASSUME TimedInv, TimedPoll PROVE TimedInv'
<1> USE Times DEF TimedInv, ClocksTypeOK, PlaceInv, WaitInv, ReconnectsInTime, QuietInv
<1>1. now' \in Nat /\ now <= now' /\ now' <= now + PollTimeout
  BY Elapsed DEF TimedPoll
<1>2. /\ wsPc = "loop" /\ state = "CONNECTED"
      /\ wsPc' = IF now' - pingTick > PingTimeout THEN "ping" ELSE "select"
      /\ UNCHANGED <<autoReconnect, state, pingTick, reconnectTick, abortedAt, heard>>
  BY DEF TimedPoll, Poll, AtState
<1>3. ClocksTypeOK' /\ PlaceInv' /\ WaitInv'
  BY <1>1, <1>2
<1> HIDE DEF ClocksTypeOK
<1>4. QuietInv'
  BY <1>1, <1>2, ClockValues
<1> QED
  BY <1>3, <1>4

LEMMA ReadKeepsInv == ASSUME TimedInv, TimedPing \/ Quiet \/ TimedRead PROVE TimedInv'
<1> USE Times DEF TimedInv, ClocksTypeOK, PlaceInv, WaitInv, ReconnectsInTime, QuietInv
<1>1. CASE TimedPing
  <2>1. now' \in Nat /\ now <= now' /\ now' <= now + NetworkTimeout
    BY <1>1, Elapsed DEF TimedPing
  <2>2. /\ wsPc = "ping" /\ wsPc' = "select" /\ pingTick' = now /\ heard' = now
        /\ UNCHANGED <<autoReconnect, state, reconnectTick, abortedAt>>
    BY <1>1 DEF TimedPing, Ping
  <2>3. ClocksTypeOK' /\ PlaceInv' /\ WaitInv'
    BY <2>1, <2>2
  <2> HIDE DEF ClocksTypeOK
  <2>4. QuietInv'
    BY <2>1, <2>2, ClockValues
  <2> QED
    BY <2>3, <2>4
<1>2. CASE Quiet
  <2>1. now' = now
    BY <1>2 DEF Quiet, Blocking, Elapse
  <2>2. /\ wsPc = "select" /\ wsPc' = "loop"
        /\ UNCHANGED <<autoReconnect, state, pingTick, reconnectTick, abortedAt, heard>>
    BY <1>2 DEF Quiet, Blocking, NoData
  <2>3. ClocksTypeOK' /\ PlaceInv' /\ WaitInv'
    BY <2>1, <2>2
  <2> HIDE DEF ClocksTypeOK
  <2>4. QuietInv'
    BY <2>1, <2>2, ClockValues
  <2> QED
    BY <2>3, <2>4
<1>3. CASE TimedRead
  <2>1. now' \in Nat /\ now <= now' /\ now' <= now + NetworkTimeout
    BY <1>3, Elapsed DEF TimedRead
  <2>2. /\ wsPc = "select" /\ wsPc' \in {"loop", "data"} /\ pingTick' = now /\ heard' = now
        /\ UNCHANGED <<autoReconnect, state, reconnectTick, abortedAt>>
    BY <1>3 DEF TimedRead, Read, NoData
  <2>3. state = "CONNECTED" /\ wsPc' # "disconnected"
    BY <2>2
  <2>4. ClocksTypeOK' /\ PlaceInv'
    BY <2>1, <2>2, <2>3
  <2>5. WaitInv'
    BY <2>2, <2>3
  <2> HIDE DEF ClocksTypeOK
  <2>6. QuietInv'
    BY <2>1, <2>2, ClockValues
  <2> QED
    BY <2>4, <2>5, <2>6
<1> QED
  BY <1>1, <1>2, <1>3

\* The test of the clock, and the delay after it.
LEMMA WaitKeepsInv == ASSUME TimedInv, TimedWait PROVE TimedInv'
<1> USE Times DEF TimedInv, ClocksTypeOK, PlaceInv, WaitInv, ReconnectsInTime, QuietInv
<1>1. now' = now + Half
  BY DEF TimedWait, Elapse, Half
<1>2. /\ wsPc = "loop" /\ wsPc' = "loop" /\ state = "WAIT_TIMEOUT"
      /\ state' = IF now - reconnectTick > ReconnectTimeout THEN "INIT" ELSE "WAIT_TIMEOUT"
      /\ reconnectTick' = IF state' = "INIT" THEN now ELSE reconnectTick
      /\ UNCHANGED <<autoReconnect, pingTick, abortedAt, heard>>
  BY DEF TimedWait, WaitTimeout, AtState
<1> QED
  BY <1>1, <1>2

LEMMA TimedNextKeepsInv == TimedInv /\ [TimedNext]_timedVars => TimedInv'
<1>1. ASSUME TimedInv, UNCHANGED timedVars PROVE TimedInv'
  BY <1>1 DEF TimedInv, ClocksTypeOK, PlaceInv, WaitInv, ReconnectsInTime, QuietInv,
     timedVars, vars, taskVars, clockVars
<1> QED
  BY <1>1, ConnectKeepsInv, DispatchKeepsInv, AbortKeepsInv, PollKeepsInv, ReadKeepsInv,
     WaitKeepsInv DEF TimedNext

\* The invariant of the clocks holds in every behaviour.
THEOREM TimedInvariance == TimedSpec => []TimedInv
  BY InitTimed, TimedNextKeepsInv, PTL DEF TimedSpec

\* esp_websocket_client_task's clocks are times of the past.
THEOREM ClocksTyped == TimedSpec => []ClocksTypeOK
<1>1. TimedInv => ClocksTypeOK
  BY DEF TimedInv
<1> QED
  BY <1>1, TimedInvariance, PTL

\* websocket_client.c:484-489: when a new connection is tried.
THEOREM ReconnectIsTimely == TimedSpec => []ReconnectsInTime
<1>1. TimedInv => ReconnectsInTime
  BY DEF TimedInv, WaitInv
<1> QED
  BY <1>1, TimedInvariance, PTL

\* websocket_client.c:451-466: how long a connection may be silent.
THEOREM QuietIsShort == TimedSpec => []QuietIsBounded
<1>1. ASSUME TimedInv PROVE QuietIsBounded
  BY <1>1, Times DEF TimedInv, ClocksTypeOK, PlaceInv, QuietInv, QuietIsBounded, Busy
<1> QED
  BY <1>1, TimedInvariance, PTL

-----------------------------------------------------------------------------
\* The clocks only choose among the steps WsClient leaves open: what is proved of WsClient
\* holds of the client with its clocks.
THEOREM TimedImplementsUntimed == TimedSpec => Spec
<1>1. TimedInit => Init
  BY DEF TimedInit
<1>2. TimedNext => LoopStep
  BY DEF TimedNext, TimedStart, TimedConnect, Dispatched, Aborted, Blocking, Aborting, TimedPoll,
     TimedPing, Quiet, TimedRead, TimedWait, LoopStep
<1>3. [TimedNext]_timedVars => [Next]_vars
  BY <1>2 DEF timedVars, Next
<1> QED
  BY <1>1, <1>3, PTL DEF TimedSpec, Spec
=============================================================================
