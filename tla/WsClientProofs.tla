--------------------------- MODULE WsClientProofs ---------------------------
(***************************************************************************)
(* Proofs about esp_websocket_client_send for any number of senders, any   *)
(* lengths and any buffer size.  The inductive invariant says, for a task  *)
(* inside send, how far it has come (Progress), and for each portion on    *)
(* the wire whose it is (WireInv).                                         *)
(***************************************************************************)
EXTENDS WsClient, TLAPS

\* What a task inside send has done so far.
Progress(t) ==
  /\ sendPc[t] = "lock" => widx[t] = 0 /\ needWrite[t] = len[t] /\ len[t] > 0
  /\ sendPc[t] = "copy" => widx[t] < len[t] /\ needWrite[t] = len[t] - widx[t]
  /\ sendPc[t] = "write" =>
       /\ needWrite[t] \in 1..BufferSize /\ widx[t] + needWrite[t] <= len[t]
       /\ txBuffer = [task |-> t, serial |-> sends[t],
                      from |-> widx[t], upto |-> widx[t] + needWrite[t]]
  /\ sendPc[t] = "give" => \/ result[t] = len[t] /\ widx[t] = len[t] /\ len[t] > 0
                           \/ result[t] \in {-1, 0} /\ widx[t] < len[t]
  /\ sendPc[t] # "idle" => sends[t] > 0 /\ widx[t] >= 0

\* What a send that is over has returned.
Returned(t) ==
  sends[t] > 0 /\ sendPc[t] = "idle" =>
    \/ result[t] = len[t] /\ len[t] > 0 /\ LastByteSent(t)
    \/ result[t] \in {-1, 0} /\ (widx[t] < len[t] \/ len[t] <= 0)

SendInv == \A t \in Tasks : Progress(t) /\ Returned(t)

\* A portion is not empty, and none of the current message goes beyond widx.
PortionInv ==
  \A i \in 1..Len(wire) : LET p == wire[i] IN
    /\ 0 <= p.from /\ p.from < p.upto
    /\ p.serial <= sends[p.task]
    /\ p.serial = sends[p.task] => p.upto <= widx[p.task]

\* The message that is being sent ends the wire.
LastInv ==
  \A t \in Sending : widx[t] > 0 =>
    LET p == wire[Len(wire)] IN
      Len(wire) > 0 /\ p.task = t /\ p.serial = sends[t] /\ p.upto = widx[t]

IInv ==
  /\ TypeOK
  /\ LockIsHeldBySender
  /\ SendInv
  /\ PortionInv
  /\ LastInv
  /\ MessagesNotInterleaved

-----------------------------------------------------------------------------
(* Type correctness.                                                       *)

LEMMA InitTyped == Init => TypeOK
<1> SUFFICES ASSUME Init PROVE TypeOK
  OBVIOUS
<1>1. <<>> \in Seq(Portion)
  OBVIOUS
<1>2. wire \in Seq(Portion)
  BY <1>1, Zenon DEF Init
<1>3. txBuffer \in Portion
  BY DEF Init, Portion, Tasks
<1>4. /\ sendPc \in [Tasks -> {"idle", "lock", "copy", "write", "give"}]
      /\ len \in [Tasks -> Int] /\ widx \in [Tasks -> Int] /\ needWrite \in [Tasks -> Int]
      /\ result \in [Tasks -> Int] /\ sends \in [Tasks -> Nat]
  BY DEF Init
<1> QED
  BY <1>2, <1>3, <1>4 DEF Init, TypeOK

\* What esp_websocket_client_send hands on is a portion, and so is any prefix of it.
LEMMA PrefixIsPortion ==
  ASSUME NEW b \in Portion, NEW n \in Int
  PROVE  /\ FirstBytes(b, n) \in Portion
         /\ FirstBytes(b, n).task = b.task /\ FirstBytes(b, n).serial = b.serial
         /\ FirstBytes(b, n).from = b.from /\ FirstBytes(b, n).upto = b.from + n
  BY DEF Portion, FirstBytes

\* A step that changes what WriteSome changes, within its types.
LEMMA WriteIsTyped ==
  ASSUME TypeOK, UNCHANGED <<taskVars, lock, txBuffer, len, sends>>,
         wire' \in Seq(Portion),
         sendPc' \in [Tasks -> {"idle", "lock", "copy", "write", "give"}],
         widx' \in [Tasks -> Int], needWrite' \in [Tasks -> Int], result' \in [Tasks -> Int]
  PROVE  TypeOK'
<1>1. /\ autoReconnect' = autoReconnect /\ state' = state /\ run' = run /\ open' = open
      /\ bit' = bit /\ lost' = lost /\ wsPc' = wsPc /\ readSelect' = readSelect
      /\ lock' = lock /\ txBuffer' = txBuffer /\ len' = len /\ sends' = sends
  BY DEF taskVars
<1> QED
  BY <1>1, SMTT(30) DEF TypeOK

LEMMA SendKeepsType ==
  ASSUME TypeOK, NEW t \in Tasks, (\E l \in Lens : Send(t, l)) \/ SendStep(t)
  PROVE  TypeOK'
<1> USE LengthsAssumption DEF TypeOK, Goto, Return, ESP_FAIL, taskVars
<1>1. ASSUME NEW l \in Lens, Send(t, l) PROVE TypeOK'
  <2>1. sendPc' \in [Tasks -> {"idle", "lock", "copy", "write", "give"}]
    BY <1>1 DEF Send
  <2>2. result' \in [Tasks -> Int]
    BY <1>1 DEF Send
  <2>3. /\ sends' \in [Tasks -> Nat] /\ len' \in [Tasks -> Int]
        /\ widx' \in [Tasks -> Int] /\ needWrite' \in [Tasks -> Int]
    BY <1>1 DEF Send
  <2> QED
    BY <1>1, <2>1, <2>2, <2>3, SMTT(30) DEF Send
<1>2. CASE TakeLock(t)
  BY <1>2 DEF TakeLock
<1>3. CASE LockTimesOut(t)
  BY <1>3 DEF LockTimesOut
<1>4. CASE Copy(t)
  <2>1. txBuffer' \in Portion
    BY <1>4 DEF Copy, Portion
  <2> QED
    BY <1>4, <2>1 DEF Copy
<1>5. CASE WriteSome(t)
  <2>1. PICK n \in 1..needWrite[t] :
          /\ wire' = Append(wire, FirstBytes(txBuffer, n))
          /\ widx' = [widx EXCEPT ![t] = @ + n]
          /\ needWrite' = [needWrite EXCEPT ![t] = len[t] - (widx[t] + n)]
          /\ Goto(t, IF widx[t] + n < len[t] THEN "copy" ELSE "give")
          /\ result' = [result EXCEPT ![t] = widx[t] + n]
    BY <1>5 DEF WriteSome
  <2>2. FirstBytes(txBuffer, n) \in Portion
    BY <2>1, PrefixIsPortion
  <2>3. wire' \in Seq(Portion)
    BY <2>1, <2>2
  <2>4. sendPc' \in [Tasks -> {"idle", "lock", "copy", "write", "give"}]
    BY <2>1, SMTT(30)
  <2>5. widx' \in [Tasks -> Int] /\ result' \in [Tasks -> Int]
    BY <2>1, SMTT(30)
  <2>6. needWrite' \in [Tasks -> Int]
    BY <2>1, SMTT(30)
  <2>7. UNCHANGED <<taskVars, lock, txBuffer, len, sends>>
    BY <1>5 DEF WriteSome
  <2> QED
    BY <2>3, <2>4, <2>5, <2>6, <2>7, WriteIsTyped
<1>6. CASE WriteFails(t)
  BY <1>6 DEF WriteFails
<1>7. CASE Give(t)
  BY <1>7 DEF Give
<1> QED
  BY <1>1, <1>2, <1>3, <1>4, <1>5, <1>6, <1>7 DEF SendStep

LEMMA LoopKeepsType == ASSUME TypeOK, LoopStep PROVE TypeOK' /\ UNCHANGED sendVars
<1>1. UNCHANGED sendVars
  BY DEF LoopStep, Start, Connect, ConnectFails, DispatchConnected, DispatchDisconnected, Dispatch,
     PollFails, Poll, Ping, NoData, Read, ReadFails, AbortConnection, DataHandled, WaitTimeout, Exit
<1>2. TypeOK'
  <2> USE DEF TypeOK, sendVars
  <2>1. CASE Start \/ Connect \/ ConnectFails \/ PollFails \/ ReadFails \/ Exit
    BY <1>1, <2>1 DEF Start, Connect, ConnectFails, PollFails, ReadFails, AbortConnection, Exit, AtState
  <2>2. CASE DispatchConnected \/ DispatchDisconnected
    BY <1>1, <2>2 DEF DispatchConnected, DispatchDisconnected, Dispatch
  <2>3. CASE Poll \/ Ping \/ NoData \/ Read \/ DataHandled
    BY <1>1, <2>3 DEF Poll, Ping, NoData, Read, DataHandled
  <2>4. CASE WaitTimeout
    BY <1>1, <2>4 DEF WaitTimeout, AtState
  <2> QED
    BY <2>1, <2>2, <2>3, <2>4 DEF LoopStep
<1> QED
  BY <1>1, <1>2

LEMMA NextKeepsType == ASSUME TypeOK, [Next]_vars PROVE TypeOK'
<1>1. CASE UNCHANGED vars
  BY <1>1 DEF TypeOK, vars, taskVars, sendVars
<1>2. ASSUME NEW t \in Tasks, SendStep(t) \/ \E l \in Lens : Send(t, l) PROVE TypeOK'
  BY <1>2, SendKeepsType
<1>3. CASE LoopStep
  BY <1>3, LoopKeepsType
<1> QED
  BY <1>1, <1>2, <1>3 DEF Next

\* Every variable of the client keeps its type.
THEOREM TypeCorrect == Spec => []TypeOK
  BY InitTyped, NextKeepsType, PTL DEF Spec

-----------------------------------------------------------------------------
(* The inductive invariant.                                                *)

LEMMA WireIsTyped ==
  ASSUME wire \in Seq(Portion), NEW i \in 1..Len(wire)
  PROVE  /\ wire[i].task \in Tasks /\ wire[i].serial \in Nat
         /\ wire[i].from \in Int /\ wire[i].upto \in Int
<1>1. wire[i] \in Portion
  OBVIOUS
<1> QED
  BY <1>1 DEF Portion

\* A serial given out is smaller than the next one.
LEMMA LaterSerial ==
  ASSUME NEW s \in Nat, NEW n \in Nat, s <= n
  PROVE  s <= n + 1 /\ s # n + 1
OBVIOUS

\* The local variables of task u are left alone.
Same(u) ==
  /\ sendPc'[u] = sendPc[u] /\ len'[u] = len[u] /\ widx'[u] = widx[u]
  /\ needWrite'[u] = needWrite[u] /\ result'[u] = result[u] /\ sends'[u] = sends[u]

\* A task that takes no part in a step keeps its progress, unless tx_buffer is
\* overwritten while it writes.
LEMMA OthersKeepProgress ==
  ASSUME NEW u \in Tasks, Progress(u), Returned(u), Same(u), wire' = wire,
         txBuffer' = txBuffer \/ sendPc[u] # "write"
  PROVE  Progress(u)' /\ Returned(u)'
<1>1. Progress(u)'
  BY DEF Same, Progress
<1>2. Returned(u)'
  BY DEF Same, Returned, LastByteSent
<1> QED
  BY <1>1, <1>2

\* The portions on the wire stay where they are when a new message starts.
LEMMA PortionsKept ==
  ASSUME wire \in Seq(Portion), PortionInv, wire' = wire,
         \A u \in Tasks : \/ sends'[u] = sends[u] /\ widx'[u] = widx[u]
                          \/ sends[u] \in Nat /\ sends'[u] = sends[u] + 1
  PROVE  PortionInv'
<1> SUFFICES ASSUME NEW i \in 1..Len(wire) PROVE
      LET p == wire[i] IN /\ 0 <= p.from /\ p.from < p.upto
                          /\ p.serial <= sends'[p.task]
                          /\ p.serial = sends'[p.task] => p.upto <= widx'[p.task]
  BY DEF PortionInv
<1> DEFINE u == wire[i].task
<1>1. u \in Tasks /\ wire[i].serial \in Nat
  BY WireIsTyped
<1>2. /\ 0 <= wire[i].from /\ wire[i].from < wire[i].upto
      /\ wire[i].serial <= sends[u]
      /\ wire[i].serial = sends[u] => wire[i].upto <= widx[u]
  BY DEF PortionInv
<1>3. CASE sends'[u] = sends[u] /\ widx'[u] = widx[u]
  BY <1>2, <1>3
<1>4. CASE sends[u] \in Nat /\ sends'[u] = sends[u] + 1
  <2>1. wire[i].serial <= sends'[u] /\ wire[i].serial # sends'[u]
    BY <1>1, <1>2, <1>4, LaterSerial
  <2> QED
    BY <1>2, <2>1
<1> QED
  BY <1>1, <1>3, <1>4

\* The steps of send that leave the wire alone.
LEMMA QuietStepKeepsIInv ==
  ASSUME IInv, TypeOK', NEW t \in Tasks,
         \/ \E l \in Lens : Send(t, l)
         \/ TakeLock(t) \/ LockTimesOut(t) \/ Copy(t) \/ WriteFails(t) \/ Give(t)
  PROVE  IInv'
<1>type. /\ sendPc \in [Tasks -> {"idle", "lock", "copy", "write", "give"}]
         /\ len \in [Tasks -> Int] /\ widx \in [Tasks -> Int] /\ needWrite \in [Tasks -> Int]
         /\ result \in [Tasks -> Int] /\ sends \in [Tasks -> Nat] /\ wire \in Seq(Portion)
         /\ NoTask \notin Tasks
  BY TasksAssumption DEF IInv, TypeOK, Tasks
<1>inv. /\ LockIsHeldBySender /\ PortionInv /\ LastInv
        /\ \A u \in Tasks : Progress(u) /\ Returned(u)
  BY DEF IInv, SendInv
<1>wire. wire' = wire
  BY DEF Send, TakeLock, LockTimesOut, Copy, WriteFails, Give
<1>order. MessagesNotInterleaved'
  BY <1>wire DEF IInv, MessagesNotInterleaved, MayFollow
<1>others. ASSUME NEW u \in Tasks, u # t PROVE Same(u)
  <2> USE <1>others, <1>type DEF Same, Goto, Return
  <2>1. CASE \E l \in Lens : Send(t, l)
    BY <2>1 DEF Send
  <2>2. CASE TakeLock(t) \/ Give(t)
    BY <2>2 DEF TakeLock, Give
  <2>3. CASE LockTimesOut(t) \/ WriteFails(t)
    BY <2>3 DEF LockTimesOut, WriteFails
  <2>4. CASE Copy(t)
    BY <2>4 DEF Copy
  <2> QED
    BY <2>1, <2>2, <2>3, <2>4
<1>sending. ASSUME NEW u \in Sending PROVE u \in Tasks /\ lock = u
  BY <1>inv DEF Sending, LockIsHeldBySender
\* What is left to show of a step that writes tx_buffer only under the lock.
<1>quiet. ASSUME Progress(t)', Returned(t)', LockIsHeldBySender', LastInv', PortionInv',
                 txBuffer' = txBuffer \/ t \in Sending
          PROVE  IInv'
  <2>1. ASSUME NEW u \in Tasks, u # t PROVE Progress(u)' /\ Returned(u)'
    <3>1. txBuffer' = txBuffer \/ sendPc[u] # "write"
      BY <1>quiet, <1>sending, <2>1 DEF Sending
    <3> QED
      BY <1>inv, <1>wire, <1>others, <2>1, <3>1, OthersKeepProgress
  <2>2. SendInv'
    BY <1>quiet, <2>1 DEF SendInv
  <2> QED
    BY <1>quiet, <1>order, <2>2 DEF IInv
<1>1. CASE \E l \in Lens : Send(t, l)
  <2> PICK l \in Lens : Send(t, l)
    BY <1>1
  <2>0. l \in Int
    BY LengthsAssumption
  <2>1. /\ sendPc[t] = "idle" /\ sends'[t] = sends[t] + 1 /\ len'[t] = l
        /\ widx'[t] = 0 /\ needWrite'[t] = l
        /\ UNCHANGED <<lock, txBuffer, wire>>
        /\ \/ l > 0 /\ sendPc'[t] = "lock"
           \/ sendPc'[t] = "idle" /\ result'[t] = -1
    BY <1>type DEF Send, Goto, Return, ESP_FAIL
  <2>2. Progress(t)' /\ Returned(t)'
    BY <1>type, <2>0, <2>1 DEF Progress, Returned
  <2>3. Sending' = Sending /\ t \notin Sending
    BY <1>others, <2>1 DEF Sending, Same
  <2>4. LockIsHeldBySender'
    BY <1>inv, <2>1, <2>3 DEF LockIsHeldBySender
  <2>5. LastInv'
    BY <1>inv, <1>others, <1>sending, <2>1, <2>3 DEF LastInv, Same
  <2>6. PortionInv'
    BY <1>type, <1>inv, <1>wire, <1>others, <2>1, PortionsKept DEF Same
  <2> QED
    BY <1>quiet, <2>1, <2>2, <2>4, <2>5, <2>6
\* In the other steps nobody's widx or number of sends changes.
<1>same. ASSUME UNCHANGED <<widx, sends>> PROVE PortionInv'
  BY <1>type, <1>inv, <1>wire, <1>same, PortionsKept
<1>last. ASSUME UNCHANGED <<widx, sends>>, \A u \in Sending' : u \in Sending \/ widx[u] = 0
         PROVE  LastInv'
  BY <1>inv, <1>wire, <1>last DEF LastInv
<1>2. CASE TakeLock(t)
  <2>1. /\ sendPc[t] = "lock" /\ lock = NoTask /\ lock' = t /\ sendPc'[t] = "copy"
        /\ UNCHANGED <<txBuffer, len, widx, needWrite, result, sends>>
    BY <1>2, <1>type DEF TakeLock, Goto
  <2>2. widx[t] = 0 /\ needWrite[t] = len[t] /\ len[t] > 0 /\ sends[t] > 0
    BY <1>inv, <2>1 DEF Progress
  <2>3. Progress(t)' /\ Returned(t)'
    BY <1>type, <2>1, <2>2 DEF Progress, Returned
  <2>4. Sending = {}
    BY <1>type, <1>sending, <2>1
  <2>5. Sending' = {t}
    BY <1>others, <2>1, <2>4 DEF Sending, Same
  <2>6. LockIsHeldBySender'
    BY <2>1, <2>5 DEF LockIsHeldBySender
  <2> QED
    BY <1>quiet, <1>same, <1>last, <2>1, <2>2, <2>3, <2>5, <2>6
<1>3. CASE LockTimesOut(t)
  <2>1. /\ sendPc[t] = "lock" /\ sendPc'[t] = "idle" /\ result'[t] = -1
        /\ UNCHANGED <<lock, txBuffer, len, widx, needWrite, sends>>
    BY <1>3, <1>type DEF LockTimesOut, Return, Goto, ESP_FAIL
  <2>2. widx[t] < len[t]
    BY <1>inv, <2>1 DEF Progress
  <2>3. Progress(t)' /\ Returned(t)'
    BY <2>1, <2>2 DEF Progress, Returned
  <2>4. Sending' = Sending
    BY <1>others, <2>1 DEF Sending, Same
  <2>5. LockIsHeldBySender'
    BY <1>inv, <2>1, <2>4 DEF LockIsHeldBySender
  <2> QED
    BY <1>quiet, <1>same, <1>last, <2>1, <2>3, <2>4, <2>5
<1>4. CASE Copy(t)
  <2> DEFINE n == IF needWrite[t] > BufferSize THEN BufferSize ELSE needWrite[t]
  <2>1. /\ sendPc[t] = "copy" /\ sendPc'[t] = "write" /\ needWrite'[t] = n
        /\ txBuffer' = [task |-> t, serial |-> sends[t], from |-> widx[t], upto |-> widx[t] + n]
        /\ UNCHANGED <<lock, len, widx, result, sends>>
    BY <1>4, <1>type DEF Copy, Goto
  <2>2. /\ widx[t] < len[t] /\ needWrite[t] = len[t] - widx[t]
        /\ sends[t] > 0 /\ widx[t] >= 0
    BY <1>inv, <2>1 DEF Progress
  <2>3. n \in 1..BufferSize /\ widx[t] + n <= len[t]
    BY <1>type, <2>2, LengthsAssumption
  <2>4. Progress(t)' /\ Returned(t)'
    <3> HIDE DEF n
    <3> QED
      BY <2>1, <2>2, <2>3 DEF Progress, Returned
  <2>5. Sending' = Sending /\ t \in Sending
    BY <1>others, <2>1 DEF Sending, Same
  <2>6. LockIsHeldBySender'
    BY <1>inv, <2>1, <2>5 DEF LockIsHeldBySender
  <2> QED
    BY <1>quiet, <1>same, <1>last, <2>1, <2>4, <2>5, <2>6
<1>5. CASE WriteFails(t)
  <2>1. /\ sendPc[t] = "write" /\ sendPc'[t] = "give" /\ result'[t] \in {-1, 0}
        /\ UNCHANGED <<lock, txBuffer, len, widx, needWrite, sends>>
    BY <1>5, <1>type DEF WriteFails, Goto
  <2>2. widx[t] < len[t] /\ sends[t] > 0 /\ widx[t] >= 0
    BY <1>inv, <1>type, <2>1 DEF Progress
  <2>3. Progress(t)' /\ Returned(t)'
    BY <2>1, <2>2 DEF Progress, Returned
  <2>4. Sending' = Sending /\ t \in Sending
    BY <1>others, <2>1 DEF Sending, Same
  <2>5. LockIsHeldBySender'
    BY <1>inv, <2>1, <2>4 DEF LockIsHeldBySender
  <2> QED
    BY <1>quiet, <1>same, <1>last, <2>1, <2>3, <2>4, <2>5
<1>6. CASE Give(t)
  <2>1. /\ sendPc[t] = "give" /\ sendPc'[t] = "idle" /\ lock' = NoTask
        /\ UNCHANGED <<txBuffer, len, widx, needWrite, result, sends>>
    BY <1>6, <1>type DEF Give, Goto
  <2>2. t \in Sending
    BY <2>1 DEF Sending
  <2>3. \/ result[t] = len[t] /\ widx[t] = len[t] /\ len[t] > 0
        \/ result[t] \in {-1, 0} /\ widx[t] < len[t]
    BY <1>inv, <2>1 DEF Progress
  <2>4. widx[t] = len[t] /\ len[t] > 0 => LastByteSent(t)'
    <3> SUFFICES ASSUME widx[t] = len[t], len[t] > 0 PROVE LastByteSent(t)'
      OBVIOUS
    <3>1. /\ wire[Len(wire)].task = t /\ wire[Len(wire)].serial = sends[t]
          /\ wire[Len(wire)].upto = len[t] /\ Len(wire) > 0
      BY <1>inv, <2>2 DEF LastInv
    <3>2. Len(wire) \in 1..Len(wire)
      BY <1>type, <3>1
    <3> QED
      BY <1>wire, <2>1, <3>1, <3>2 DEF LastByteSent
  <2>5. Progress(t)' /\ Returned(t)'
    BY <2>1, <2>3, <2>4 DEF Progress, Returned
  <2>6. Sending' = {}
    BY <1>others, <1>sending, <2>1, <2>2 DEF Sending, Same
  <2>7. LockIsHeldBySender'
    BY <2>1, <2>6 DEF LockIsHeldBySender
  <2> QED
    BY <1>quiet, <1>same, <1>last, <2>1, <2>5, <2>6, <2>7
<1> QED
  BY <1>1, <1>2, <1>3, <1>4, <1>5, <1>6

\* A portion that may follow the last one, or starts at 0, keeps the wire in order.
LEMMA AppendKeepsOrder ==
  ASSUME NEW w \in Seq(Portion), NEW q \in Portion,
         \A i \in 1..Len(w) - 1 : MayFollow(w[i], w[i + 1]),
         w # <<>> => w[1].from = 0,
         Len(w) = 0 => q.from = 0,
         Len(w) > 0 => MayFollow(w[Len(w)], q)
  PROVE  LET v == Append(w, q) IN
           /\ \A i \in 1..Len(v) - 1 : MayFollow(v[i], v[i + 1])
           /\ v # <<>> => v[1].from = 0
<1> DEFINE v == Append(w, q)
<1>1. /\ Len(w) \in Nat /\ Len(v) = Len(w) + 1 /\ v[Len(w) + 1] = q
      /\ \A i \in 1..Len(w) : v[i] = w[i]
  OBVIOUS
<1> HIDE DEF v
<1>2. ASSUME NEW i \in 1..Len(v) - 1 PROVE MayFollow(v[i], v[i + 1])
  <2>1. CASE i = Len(w)
    <3>1. v[i] = w[Len(w)] /\ v[i + 1] = q /\ Len(w) > 0
      BY <1>1, <2>1
    <3> QED
      BY <3>1
  <2>2. CASE i # Len(w)
    <3>1. i \in 1..Len(w) - 1 /\ v[i] = w[i] /\ v[i + 1] = w[i + 1]
      BY <1>1, <2>2
    <3> QED
      BY <3>1
  <2> QED
    BY <2>1, <2>2
<1>3. v[1].from = 0
  <2>1. CASE Len(w) = 0
    <3>1. v[1] = q
      BY <1>1, <2>1
    <3> QED
      BY <2>1, <3>1
  <2>2. CASE Len(w) # 0
    <3>1. v[1] = w[1] /\ w # <<>>
      BY <1>1, <2>2
    <3> QED
      BY <3>1
  <2> QED
    BY <2>1, <2>2
<1> QED
  BY <1>2, <1>3 DEF v

\* The step of send that adds a portion to the wire.
LEMMA WriteKeepsIInv ==
  ASSUME IInv, TypeOK', NEW t \in Tasks, WriteSome(t)
  PROVE  IInv'
<1> DEFINE label(n) == IF widx[t] + n < len[t] THEN "copy" ELSE "give"
<1>1. PICK n \in 1..needWrite[t] :
        /\ wire' = Append(wire, FirstBytes(txBuffer, n))
        /\ widx' = [widx EXCEPT ![t] = @ + n]
        /\ needWrite' = [needWrite EXCEPT ![t] = len[t] - (widx[t] + n)]
        /\ sendPc' = [sendPc EXCEPT ![t] = label(n)]
        /\ result' = [result EXCEPT ![t] = widx[t] + n]
  BY DEF WriteSome, Goto
<1>2. sendPc[t] = "write" /\ UNCHANGED <<lock, txBuffer, len, sends>>
  BY DEF WriteSome
<1>3. Progress(t)
  BY DEF IInv, SendInv
<1>type. /\ wire \in Seq(Portion) /\ txBuffer \in Portion
         /\ sendPc \in [Tasks -> {"idle", "lock", "copy", "write", "give"}]
         /\ len \in [Tasks -> Int] /\ widx \in [Tasks -> Int] /\ needWrite \in [Tasks -> Int]
         /\ result \in [Tasks -> Int] /\ sends \in [Tasks -> Nat]
         /\ n \in Int /\ 1 <= n
  BY <1>1 DEF IInv, TypeOK
<1>4. /\ txBuffer.task = t /\ txBuffer.serial = sends[t] /\ txBuffer.from = widx[t]
      /\ widx[t] >= 0 /\ widx[t] + n <= len[t] /\ sends[t] > 0
  BY <1>1, <1>2, <1>3, <1>type DEF Progress
<1> DEFINE q == FirstBytes(txBuffer, n)
<1>5. /\ q \in Portion /\ q.task = t /\ q.serial = sends[t]
      /\ q.from = widx[t] /\ q.upto = widx[t] + n
  <2>1. txBuffer \in Portion /\ n \in Int
    BY <1>type
  <2>2. /\ q \in Portion /\ q.task = txBuffer.task /\ q.serial = txBuffer.serial
        /\ q.from = txBuffer.from /\ q.upto = txBuffer.from + n
    BY <2>1, PrefixIsPortion, Zenon
  <2> QED
    BY <1>4, <2>2
<1>6. wire' = Append(wire, q)
  BY <1>1
<1> HIDE DEF q
<1>7. /\ Len(wire) \in Nat /\ Len(wire') = Len(wire) + 1
      /\ \A i \in 1..Len(wire) : wire'[i] = wire[i]
      /\ wire'[Len(wire) + 1] = q
  BY <1>5, <1>6, <1>type
<1>8. t \in Sending /\ Sending' = Sending /\ \A u \in Sending : u = t
  BY <1>1, <1>2, <1>type DEF Sending, IInv, LockIsHeldBySender
<1>9. /\ widx'[t] = widx[t] + n
      /\ \A u \in Tasks : u # t => widx'[u] = widx[u] /\ needWrite'[u] = needWrite[u]
                                    /\ sendPc'[u] = sendPc[u] /\ result'[u] = result[u]
      /\ sendPc'[t] \in {"copy", "give"}
  BY <1>1, <1>type
<1>10. LockIsHeldBySender'
  BY <1>2, <1>8 DEF IInv, LockIsHeldBySender
<1>11. SendInv'
  <2>1. Progress(t)'
    <3>1. /\ needWrite'[t] = len[t] - widx'[t] /\ result'[t] = widx'[t]
          /\ widx'[t] \in Int /\ len[t] \in Int /\ 0 < widx'[t] /\ widx'[t] <= len[t]
      BY <1>1, <1>4, <1>9, <1>type
    <3>2. sendPc'[t] = IF widx'[t] < len[t] THEN "copy" ELSE "give"
      BY <1>1, <1>9, <1>type
    <3> QED
      BY <1>2, <1>4, <3>1, <3>2 DEF Progress
  <2>2. Returned(t)'
    BY <1>9 DEF Returned
  <2>3. ASSUME NEW u \in Tasks, u # t PROVE Progress(u)' /\ Returned(u)'
    <3>1. Progress(u) /\ Returned(u)
      BY DEF IInv, SendInv
    <3>2. Progress(u)'
      BY <1>2, <1>9, <2>3, <3>1 DEF Progress
    <3>3. ASSUME LastByteSent(u) PROVE LastByteSent(u)'
      <4>1. PICK i \in 1..Len(wire) :
              wire[i].task = u /\ wire[i].serial = sends[u] /\ wire[i].upto = len[u]
        BY <3>3 DEF LastByteSent
      <4>2. i \in 1..Len(wire') /\ wire'[i] = wire[i]
        BY <1>7
      <4> QED
        BY <1>2, <4>1, <4>2 DEF LastByteSent
    <3>4. Returned(u)'
      BY <1>2, <1>9, <2>3, <3>1, <3>3 DEF Returned
    <3> QED
      BY <3>2, <3>4
  <2> QED
    BY <2>1, <2>2, <2>3 DEF SendInv
<1>12. PortionInv'
  <2> SUFFICES ASSUME NEW i \in 1..Len(wire') PROVE
        LET p == wire'[i] IN /\ 0 <= p.from /\ p.from < p.upto
                             /\ p.serial <= sends[p.task]
                             /\ p.serial = sends[p.task] => p.upto <= widx'[p.task]
    BY <1>2 DEF PortionInv
  <2>1. CASE i = Len(wire) + 1
    <3>1. wire'[i] = q
      BY <1>7, <2>1
    <3> QED
      BY <1>4, <1>5, <1>9, <1>type, <3>1
  <2>2. CASE i # Len(wire) + 1
    <3> DEFINE p == wire[i]
    <3>1. i \in 1..Len(wire) /\ wire'[i] = p
      BY <1>7, <2>2
    <3>2. p.task \in Tasks /\ p.upto \in Int
      BY <1>type, <3>1, WireIsTyped
    <3>3. /\ 0 <= p.from /\ p.from < p.upto
          /\ p.serial <= sends[p.task]
          /\ p.serial = sends[p.task] => p.upto <= widx[p.task]
      BY <3>1 DEF IInv, PortionInv
    <3>4. \A u \in Tasks : widx[u] <= widx'[u] /\ widx[u] \in Int /\ widx'[u] \in Int
      BY <1>9, <1>type
    <3> QED
      BY <3>1, <3>2, <3>3, <3>4
  <2> QED
    BY <2>1, <2>2
<1>13. LastInv'
  <2>1. wire'[Len(wire')] = q /\ Len(wire') > 0
    BY <1>7
  <2> QED
    BY <1>2, <1>5, <1>8, <1>9, <2>1 DEF LastInv
<1>14. MessagesNotInterleaved'
  <2>1. widx[t] > 0 =>
          /\ Len(wire) > 0 /\ wire[Len(wire)].task = t
          /\ wire[Len(wire)].serial = sends[t] /\ wire[Len(wire)].upto = widx[t]
    BY <1>8 DEF IInv, LastInv
  <2>2. Len(wire) = 0 => q.from = 0
    BY <1>4, <1>5, <1>type, <2>1
  <2>3. MayFollow(wire[Len(wire)], q)
    BY <1>4, <1>5, <1>type, <2>1 DEF MayFollow
  <2> QED
    BY <1>5, <1>6, <1>type, <2>2, <2>3, AppendKeepsOrder DEF IInv, MessagesNotInterleaved
<1> QED
  BY <1>10, <1>11, <1>12, <1>13, <1>14 DEF IInv

LEMMA NextKeepsIInv == IInv /\ [Next]_vars => IInv'
<1> SUFFICES ASSUME IInv, [Next]_vars PROVE IInv'
  OBVIOUS
<1>1. TypeOK'
  BY NextKeepsType DEF IInv
<1>2. CASE UNCHANGED sendVars
  BY <1>1, <1>2 DEF IInv, sendVars, LockIsHeldBySender, Sending, SendInv, Progress, Returned,
     LastByteSent, PortionInv, LastInv, MessagesNotInterleaved, MayFollow
<1>3. LoopStep \/ UNCHANGED vars => UNCHANGED sendVars
  BY LoopKeepsType DEF IInv, vars
<1>4. ASSUME NEW t \in Tasks, SendStep(t) \/ \E l \in Lens : Send(t, l) PROVE IInv'
  BY <1>1, <1>4, QuietStepKeepsIInv, WriteKeepsIInv DEF SendStep
<1> QED
  BY <1>2, <1>3, <1>4 DEF Next

LEMMA InitIInv == Init => IInv
<1> SUFFICES ASSUME Init PROVE IInv
  OBVIOUS
<1>1. TypeOK
  BY InitTyped
<1>2. Len(wire) = 0 /\ Sending = {}
  BY DEF Init, Sending
<1>3. LockIsHeldBySender /\ SendInv
  BY <1>2 DEF Init, LockIsHeldBySender, SendInv, Progress, Returned
<1>4. PortionInv /\ LastInv /\ MessagesNotInterleaved
  BY <1>2 DEF Init, PortionInv, LastInv, MessagesNotInterleaved
<1> QED
  BY <1>1, <1>3, <1>4 DEF IInv

\* The lock, the progress of each send and the wire fit together in every state.
THEOREM Invariance == Spec => []IInv
  BY InitIInv, NextKeepsIInv, PTL DEF Spec

-----------------------------------------------------------------------------
(* The properties.                                                         *)

\* websocket_client.c:552-573: every path through send gives the lock it has taken.
THEOREM LockIsSafe == Spec => []LockIsHeldBySender
<1>1. IInv => LockIsHeldBySender
  BY DEF IInv
<1> QED
  BY <1>1, Invariance, PTL

\* websocket_client.c:560-564: no other task writes to tx_buffer before the transport has read it.
THEOREM BufferIsSafe == Spec => []BufferIsMine
<1>1. IInv => BufferIsMine
  BY DEF IInv, SendInv, Progress, BufferIsMine
<1> QED
  BY <1>1, Invariance, PTL

\* websocket_client.c:557-560: memcpy stays inside both buffers, for every length.
THEOREM CopyIsSafe == Spec => []CopyInBounds
<1>1. IInv => CopyInBounds
  BY DEF IInv, SendInv, Progress, CopyInBounds
<1> QED
  BY <1>1, Invariance, PTL

\* websocket_client.c:556-571: the portions of a message are not mixed with another's.
THEOREM MessagesAreWhole == Spec => []MessagesNotInterleaved
<1>1. IInv => MessagesNotInterleaved
  BY DEF IInv
<1> QED
  BY <1>1, Invariance, PTL

\* websocket_client.c:565-573: a result of len means the whole message, and only that does.
THEOREM TrueResult == Spec => []ResultIsTrue
<1>1. IInv => ResultIsTrue
  <2> SUFFICES ASSUME IInv, NEW t \in Tasks, sends[t] > 0, sendPc[t] = "idle"
               PROVE  IF LastByteSent(t) THEN result[t] = len[t] ELSE result[t] \in {-1, 0}
    BY DEF ResultIsTrue
  <2>1. Returned(t)
    BY DEF IInv, SendInv
  <2>2. ASSUME LastByteSent(t) PROVE widx[t] >= len[t] /\ len[t] > 0
    <3>1. PICK i \in 1..Len(wire) :
            wire[i].task = t /\ wire[i].serial = sends[t] /\ wire[i].upto = len[t]
      BY <2>2 DEF LastByteSent
    <3>2. 0 <= wire[i].from /\ wire[i].from < len[t] /\ len[t] <= widx[t]
      BY <3>1 DEF IInv, PortionInv
    <3>3. wire[i].from \in Int /\ len[t] \in Int /\ widx[t] \in Int
      BY WireIsTyped DEF IInv, TypeOK
    <3> QED
      BY <3>2, <3>3
  <2>3. len[t] \in Int /\ widx[t] \in Int
    BY DEF IInv, TypeOK
  <2> QED
    BY <2>1, <2>2, <2>3 DEF Returned
<1> QED
  BY <1>1, Invariance, PTL

-----------------------------------------------------------------------------
(* The connection bit.                                                     *)

\* Where the websocket task is, its state is known.
LoopInv ==
  /\ wsPc = "start" => state = "UNKNOW"
  /\ wsPc = "connected" => state = "CONNECTED"
  /\ wsPc = "disconnected" => state = "WAIT_TIMEOUT"
  /\ wsPc \in {"ping", "select", "data"} => state = "CONNECTED"
  /\ wsPc \in {"connected", "disconnected", "ping", "select", "data"} => run
  /\ wsPc \in {"loop", "gone"} /\ ~run => state # "CONNECTED"
  /\ wsPc = "gone" => ~run

BitInv == TypeOK /\ LoopInv /\ BitFollowsState

\* communication.task.c:109-115: the bit follows the events, and the events the state.
THEOREM BitIsTrue == Spec => []BitFollowsState
<1>1. Init => BitInv
  BY InitTyped DEF Init, BitInv, LoopInv, BitFollowsState
<1>2. BitInv /\ [Next]_vars => BitInv'
  <2> SUFFICES ASSUME BitInv, [Next]_vars PROVE BitInv'
    OBVIOUS
  <2>1. TypeOK'
    BY NextKeepsType DEF BitInv
  <2> USE DEF BitInv, LoopInv, BitFollowsState, TypeOK, AtState
  <2>2. CASE UNCHANGED taskVars
    BY <2>1, <2>2 DEF taskVars
  <2>3. ASSUME NEW t \in Tasks, SendStep(t) \/ \E l \in Lens : Send(t, l) PROVE UNCHANGED taskVars
    BY <2>3 DEF SendStep, Send, TakeLock, LockTimesOut, Copy, WriteSome, WriteFails, Give
  <2>4. CASE Start \/ Connect \/ ConnectFails \/ PollFails \/ ReadFails \/ Exit
    BY <2>1, <2>4 DEF Start, Connect, ConnectFails, PollFails, ReadFails, AbortConnection, Exit
  <2>5. CASE DispatchConnected \/ DispatchDisconnected
    <3>1. LoopInv'
      BY <2>5 DEF DispatchConnected, DispatchDisconnected, Dispatch
    <3>2. BitFollowsState'
      BY <2>5 DEF DispatchConnected, DispatchDisconnected, Dispatch
    <3> QED
      BY <2>1, <3>1, <3>2
  <2>6. CASE Poll \/ Ping \/ NoData \/ Read \/ DataHandled
    <3>1. LoopInv'
      BY <2>6 DEF Poll, Ping, NoData, Read, DataHandled
    <3>2. BitFollowsState'
      BY <2>6 DEF Poll, Ping, NoData, Read, DataHandled
    <3> QED
      BY <2>1, <3>1, <3>2
  <2>7. CASE WaitTimeout
    BY <2>1, <2>7 DEF WaitTimeout
  <2>8. CASE UNCHANGED vars
    BY <2>2, <2>8 DEF vars
  <2> QED
    BY <2>2, <2>3, <2>4, <2>5, <2>6, <2>7, <2>8 DEF Next, LoopStep
<1>3. BitInv => BitFollowsState
  BY DEF BitInv
<1> QED
  BY <1>1, <1>2, <1>3, PTL DEF Spec
=============================================================================
