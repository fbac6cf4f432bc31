----------------------------- MODULE DeviceProofs -----------------------------
(***************************************************************************)
(* The device implements Commands, for a server that waits for each answer *)
(* and one endpoint task, whatever the frames, pins, heap and failures.    *)
(*                                                                         *)
(* The device's steps are steps of Mailbox, so the invariants proved of it *)
(* hold here.  DeviceInv adds what the mapping needs: where writeLevel is, *)
(* that a held message is for the GPIO endpoint, and that at most one      *)
(* command is waited for.  Then each step of the device is a step of       *)
(* Commands or leaves its variables alone.                                 *)
(***************************************************************************)
EXTENDS Device, MailboxProofs

CallInv ==
  /\ epPc[GPIO] # "handle" => call = "reset"
  /\ call \in {"direction", "level"} => Current \in Writes
  /\ call = "return" => Current \in Writes \/ Current = Junk
  /\ call = "level" /\ GpioNumber[Current] \in OutputPins => GpioNumber[Current] \in enabled

\* A message that passed the test of its id is for the GPIO endpoint.
AddresseeInv ==
  epPc[GPIO] \in {"reset", "handle", "answer", "free"} /\ Current # Junk =>
    Current.endpointId = GPIO

\* The frames on the device are those of this boot; a message nobody wrote stands for
\* a starved one that is never answered.
BrokenInv == \E f \in Outstanding : f \in starved
WaitingInv ==
  /\ \A b \in live : contents[b] # Junk => contents[b] \in inflight \ starved
  /\ \A b \in live : contents[b] = Junk => BrokenInv
  /\ \A f, g \in Outstanding : f = g
  /\ ~up => BrokenInv

PinsTypeOK ==
  /\ call \in {"reset", "direction", "level", "return"}
  /\ latch \in [Pins -> {"low", "high"}]
  /\ enabled \subseteq OutputPins
  /\ beat \in {"direction", "look", "blink"}

DeviceInv == PinsTypeOK /\ CallInv /\ AddresseeInv /\ WaitingInv

\* All that is known of a state.
AllInv == IInv /\ PacedInv(GPIO) /\ DeviceInv

-----------------------------------------------------------------------------
(* The device and Mailbox.                                                 *)

LEMMA DeviceStep == DeviceNext => Next \/ UNCHANGED vars
<1>1. WebsocketSide \/ RebootDevice => Next
  BY DEF WebsocketSide, RebootDevice, Next
<1>2. ASSUME NEW e \in Endpoints, Endpoint(e) PROVE Next
  BY <1>2 DEF Endpoint, Next
<1>3. Heartbeat \/ ResetPin \/ SetDirection \/ SetLevel \/ WriteWild => UNCHANGED vars
  BY DEF Heartbeat, DriveLed, Light, BlinkOff, ResetPin, SetDirection, SetLevel, WriteWild
<1>4. GpioTask => Next \/ UNCHANGED vars
  BY <1>2, <1>3, PinAssumption DEF GpioTask
<1> QED
  BY <1>1, <1>2, <1>3, <1>4 DEF DeviceNext

\* What is proved of Mailbox holds of the device.
THEOREM DeviceIsMailbox == DeviceSpec => Spec
<1>1. DeviceInit => Init
  BY DEF DeviceInit
<1>2. [DeviceNext]_allVars => [Next]_vars
  BY DeviceStep DEF allVars
<1> QED
  BY <1>1, <1>2, PTL DEF DeviceSpec, Spec

\* A held or peeked message is not Junk, or is in a live block; it does not change.
LEMMA HeldIsLive ==
  ASSUME AllInv, Endpoints = {GPIO}, epPc[GPIO] \notin {"poll", "peek"}
  PROVE  epMessage[GPIO] \in live
<1>1. epPc[GPIO] \in {"match", "reset", "handle", "answer", "free"}
  BY DEF AllInv, IInv, TypeOK
<1>2. Custody
  BY DEF AllInv, IInv, PacedInv
<1> QED
  BY <1>1, <1>2 DEF Custody, QueueCustody, EpCustody, PeekCustody, EpPeeks, EpBusy

-----------------------------------------------------------------------------
(* The invariant of the device.                                            *)

LEMMA InitDevice == ASSUME DeviceInit PROVE DeviceInv
<1>1. epPc[GPIO] = "poll" /\ live = {} /\ Outstanding = {} /\ up
  BY PinAssumption DEF DeviceInit, Init, Outstanding
<1>2. PinsTypeOK
  BY DEF DeviceInit, PinsTypeOK
<1>3. CallInv /\ AddresseeInv /\ WaitingInv
  BY <1>1 DEF DeviceInit, CallInv, AddresseeInv, WaitingInv
<1> QED
  BY <1>2, <1>3 DEF DeviceInv

LEMMA ReceiveKeepsDevice ==
  ASSUME Window = 1, Endpoints = {GPIO}, AllInv, NEW f \in Frames, Receive(f), UNCHANGED devVars
  PROVE  DeviceInv'
<1>1. Outstanding = {} /\ f \notin arrived /\ wsPc = "idle"
  BY NothingOutstanding DEF Receive, Parse, ParseCloneFails, ParseMallocFails, Arrive, AllInv, PacedInv
<1>2. epPc[GPIO] \in {"poll", "peek", "free"}
  <2>1. epPc[GPIO] \notin {"handle", "answer"} /\ slot = NoBlock /\ epPc[GPIO] \notin {"match", "reset"}
    BY <1>1 DEF AllInv, PacedInv
  <2> QED
    BY <2>1 DEF AllInv, IInv, TypeOK
<1>3. /\ UNCHANGED <<epPc, epMessage, up, call, latch, enabled, beat>>
      /\ inflight' = inflight \cup {f}
  BY DEF Receive, Parse, ParseCloneFails, ParseMallocFails, Arrive, epVars, devVars
<1>4. PinsTypeOK' /\ CallInv'
  BY <1>2, <1>3 DEF AllInv, DeviceInv, PinsTypeOK, CallInv
<1>5. \A c \in live : contents[c] # Junk /\ contents[c] \in inflight \ starved /\ contents[c] # f
  <2>1. \A c \in live : contents[c] # Junk
    BY <1>1 DEF AllInv, DeviceInv, WaitingInv, BrokenInv
  <2>2. \A c \in live : contents[c] \in inflight \ starved
    BY <2>1 DEF AllInv, DeviceInv, WaitingInv
  <2>3. inflight \subseteq arrived
    BY DEF AllInv, IInv, TypeOK
  <2> QED
    BY <1>1, <2>1, <2>2, <2>3
<1>6. replies[f] = <<>> /\ f \notin starved /\ up'
  BY <1>1 DEF AllInv, IInv, PacedInv, Ledger, FrameLog, TypeOK, Receive, Parse, ParseCloneFails,
     ParseMallocFails, Arrive
<1>7. epPc[GPIO] = "free" => epMessage[GPIO] \in live
  BY HeldIsLive
<1>8. AddresseeInv
  BY DEF AllInv, DeviceInv
<1>9. CASE Parse(f) \/ ParseCloneFails(f)
  <2>1. PICK b \in Blocks \ live :
          /\ live' = live \cup {b} /\ contents' = [contents EXCEPT ![b] = IF Parse(f) THEN f ELSE Junk]
          /\ Parse(f) => starved' = starved
          /\ ~Parse(f) => starved' = starved \cup {f}
    BY <1>9, SMTT(30) DEF Parse, ParseCloneFails
  <2>2. Outstanding' = {f}
    <3>1. replies' = replies
      BY <1>9 DEF Parse, ParseCloneFails, logVars
    <3> QED
      BY <1>1, <1>3, <1>6, <3>1 DEF Outstanding
  <2>3. \A c \in live : contents'[c] = contents[c]
    BY <2>1 DEF AllInv, IInv, TypeOK
  <2>4. contents'[b] = IF Parse(f) THEN f ELSE Junk
    BY <2>1 DEF AllInv, IInv, TypeOK
  <2>5. AddresseeInv'
    BY <1>2, <1>3, <1>7, <1>8, <2>3 DEF AddresseeInv, Current
  <2>6. BrokenInv' \/ Parse(f)
    BY <2>1, <2>2 DEF BrokenInv
  <2>7. WaitingInv'
    BY <1>3, <1>5, <1>6, <2>1, <2>2, <2>3, <2>4, <2>6, SentinelAssumption DEF WaitingInv
  <2> QED
    BY <1>4, <2>5, <2>7 DEF DeviceInv
<1>10. CASE ParseMallocFails(f)
  <2>1. UNCHANGED <<live, contents>> /\ starved' = starved \cup {f}
    BY <1>10 DEF ParseMallocFails, heapVars
  <2>2. replies' = [replies EXCEPT ![f] = Append(@, ERR_NOT_ENOUGH_MEMORY)]
    BY <1>10 DEF ParseMallocFails, SendStatus
  <2>3. replies'[f] # <<>> /\ \A g \in Frames \ {f} : replies'[g] = replies[g]
    BY <1>6, <2>2, FirstReply, ReplyNotEmpty DEF AllInv, IInv, TypeOK
  <2>4. Outstanding' = {}
    <3>1. inflight \subseteq Frames
      BY DEF AllInv, IInv, TypeOK
    <3> QED
      BY <1>1, <1>3, <2>3, <3>1 DEF Outstanding
  <2>5. WaitingInv'
    BY <1>3, <1>5, <1>6, <2>1, <2>4 DEF WaitingInv
  <2>6. AddresseeInv'
    BY <1>2, <1>3, <1>8, <2>1 DEF AddresseeInv, Current
  <2> QED
    BY <1>4, <2>5, <2>6 DEF DeviceInv
<1> QED
  BY <1>9, <1>10 DEF Receive

\* The websocket task finds nothing to replace, and the heartbeat only drives its pin.
LEMMA OthersKeepDevice ==
  ASSUME AllInv, (WebsocketTask /\ UNCHANGED devVars) \/ Heartbeat \/ UNCHANGED allVars
  PROVE  DeviceInv'
<1>1. UNCHANGED <<epPc, epMessage, up, live, contents, inflight, starved, replies, call>>
  <2>1. CASE WebsocketTask /\ UNCHANGED devVars
    BY <2>1 DEF AllInv, PacedInv, WebsocketTask, CheckWaiting, TakePrevious, TakeNothing, AnswerPrevious,
       FreePrevious, QueueSend, epVars, heapVars, srvVars, logVars, devVars
  <2>2. CASE Heartbeat \/ UNCHANGED allVars
    BY <2>2 DEF Heartbeat, DriveLed, Light, BlinkOff, allVars, vars, epVars, heapVars, srvVars, logVars,
       devVars
  <2> QED
    BY <2>1, <2>2
<1>2. PinsTypeOK' /\ enabled \subseteq enabled'
  <2>1. CASE Heartbeat
    BY <2>1, PinAssumption DEF AllInv, DeviceInv, PinsTypeOK, Heartbeat, DriveLed, Light, BlinkOff
  <2>2. CASE UNCHANGED devVars
    BY <2>2 DEF AllInv, DeviceInv, PinsTypeOK, devVars
  <2> QED
    BY <2>1, <2>2 DEF allVars, devVars
<1>3. CallInv' /\ AddresseeInv'
  BY <1>1, <1>2 DEF AllInv, DeviceInv, CallInv, AddresseeInv, Current
<1>4. Outstanding' = Outstanding
  BY <1>1 DEF Outstanding
<1>5. WaitingInv'
  BY <1>1, <1>4 DEF AllInv, DeviceInv, WaitingInv, BrokenInv
<1> QED
  BY <1>2, <1>3, <1>5 DEF DeviceInv

LEMMA FaultKeepsDevice ==
  ASSUME Endpoints = {GPIO}, AllInv, Fault, UNCHANGED devVars
  PROVE  DeviceInv'
<1>1. /\ UNCHANGED <<epPc, epMessage, live, contents, inflight, starved, replies, call, enabled>>
      /\ UNCHANGED <<latch, beat>>
  BY DEF Fault, heapVars, epVars, srvVars, logVars, devVars
<1>2. \E b \in live : contents[b] = Junk
  <2>1. CASE epPc[GPIO] \in {"handle", "answer", "free"}
    <3>1. epMessage[GPIO] \in live
      BY <2>1, HeldIsLive
    <3>2. Called \subseteq {epMessage[GPIO]} /\ Freed \subseteq {epMessage[GPIO]}
      BY DEF Called, Freed, AllInv, PacedInv
    <3> QED
      BY <3>1, <3>2 DEF Fault
  <2>2. CASE epPc[GPIO] \notin {"handle", "answer", "free"}
    <3>1. Called = {} /\ Freed = {}
      BY <2>2 DEF Called, Freed, AllInv, PacedInv
    <3> QED
      BY <2>2, <3>1 DEF Fault
  <2> QED
    BY <2>1, <2>2
<1>3. BrokenInv
  BY <1>2 DEF AllInv, DeviceInv, WaitingInv
<1>4. Outstanding' = Outstanding
  BY <1>1 DEF Outstanding
<1>5. PinsTypeOK' /\ CallInv' /\ AddresseeInv'
  BY <1>1 DEF AllInv, DeviceInv, PinsTypeOK, CallInv, AddresseeInv, Current
<1>6. WaitingInv'
  BY <1>1, <1>3, <1>4 DEF AllInv, DeviceInv, WaitingInv, BrokenInv
<1> QED
  BY <1>5, <1>6 DEF DeviceInv

LEMMA RebootKeepsDevice == ASSUME AllInv, RebootDevice PROVE DeviceInv'
<1>1. /\ epPc' = [e \in Endpoints |-> "poll"] /\ live' = {} /\ inflight' = {} /\ up'
      /\ call' = "reset" /\ latch' = [p \in Pins |-> "low"] /\ enabled' = {} /\ beat' = "direction"
  BY DEF RebootDevice, Reboot
<1>2. epPc'[GPIO] = "poll" /\ Outstanding' = {}
  BY <1>1, PinAssumption DEF Outstanding
<1>3. PinsTypeOK' /\ CallInv' /\ AddresseeInv' /\ WaitingInv'
  BY <1>1, <1>2 DEF PinsTypeOK, CallInv, AddresseeInv, WaitingInv
<1> QED
  BY <1>3 DEF DeviceInv

LEMMA WriteKeepsDevice ==
  ASSUME AllInv, ResetPin \/ SetDirection \/ SetLevel \/ WriteWild
  PROVE  DeviceInv'
<1>1. UNCHANGED <<epPc, epMessage, up, live, contents, inflight, starved, replies, beat>>
  BY DEF ResetPin, SetDirection, SetLevel, WriteWild, vars, heapVars, epVars, srvVars, logVars
<1>2. epPc[GPIO] = "handle" /\ AddresseeInv /\ PinsTypeOK /\ CallInv
  BY DEF ResetPin, SetDirection, SetLevel, WriteWild, InHandler, AllInv, DeviceInv
<1>3. AddresseeInv'
  BY <1>1, <1>2 DEF AddresseeInv, Current
<1>4. Outstanding' = Outstanding
  BY <1>1 DEF Outstanding
<1>5. WaitingInv'
  BY <1>1, <1>4 DEF AllInv, DeviceInv, WaitingInv, BrokenInv
<1>6. Current' = Current
  BY <1>1 DEF Current
<1>7. CASE ResetPin
  BY <1>1, <1>2, <1>3, <1>5, <1>6, <1>7 DEF ResetPin, DeviceInv, PinsTypeOK, CallInv
<1>8. CASE SetDirection
  BY <1>1, <1>2, <1>3, <1>5, <1>6, <1>8 DEF SetDirection, DeviceInv, PinsTypeOK, CallInv
<1>9. CASE SetLevel
  <2>1. latch' \in [Pins -> {"low", "high"}]
    BY <1>2, <1>9 DEF SetLevel, Level, PinsTypeOK
  <2> QED
    BY <1>1, <1>2, <1>3, <1>5, <1>6, <1>9, <2>1 DEF SetLevel, DeviceInv, PinsTypeOK, CallInv
<1>10. CASE WriteWild
  <2>1. latch' \in [Pins -> {"low", "high"}] /\ enabled' \subseteq OutputPins
    BY <1>2, <1>10 DEF WriteWild, PinsTypeOK
  <2> QED
    BY <1>1, <1>2, <1>3, <1>5, <1>6, <1>10, <2>1 DEF WriteWild, DeviceInv, PinsTypeOK, CallInv
<1> QED
  BY <1>7, <1>8, <1>9, <1>10

LEMMA EndpointKeepsDevice ==
  ASSUME Endpoints = {GPIO}, AllInv, Endpoint(GPIO)
  PROVE  DeviceInv'
<1>1. /\ EndpointTask(GPIO) /\ call' = "reset" /\ UNCHANGED <<latch, enabled, beat>>
      /\ UNCHANGED <<contents, inflight, starved, up>> /\ up
  BY DEF Endpoint, EndpointTask, Poll, Peek, Match, QueueReset, Handle, Answer, FreeHandled,
     heapVars, srvVars
<1>2. live' \subseteq live
  BY <1>1 DEF EndpointTask, Poll, Peek, Match, QueueReset, Handle, Answer, FreeHandled, Free, heapVars
<1>3. PinsTypeOK' /\ CallInv'
  BY <1>1 DEF AllInv, DeviceInv, PinsTypeOK, CallInv
<1>4. /\ \A label : [epPc EXCEPT ![GPIO] = label][GPIO] = label
      /\ AddresseeInv
  BY DEF AllInv, DeviceInv, IInv, TypeOK
<1>5. AddresseeInv'
  <2>1. CASE Poll(GPIO) \/ Peek(GPIO) \/ FreeHandled(GPIO)
    BY <1>4, <2>1 DEF Poll, Peek, FreeHandled, EpGoto, AddresseeInv
  <2>2. CASE Match(GPIO)
    <3>1. /\ UNCHANGED <<epMessage, contents>>
          /\ Current # Junk /\ epPc'[GPIO] = "reset" => Current.endpointId = GPIO
          /\ epPc'[GPIO] \in {"reset", "poll"}
      BY <1>4, <2>2 DEF Match, EpGoto, Current, heapVars
    <3> QED
      BY <3>1 DEF AddresseeInv, Current
  <2>3. CASE QueueReset(GPIO) \/ Handle(GPIO) \/ Answer(GPIO)
    <3>1. epPc[GPIO] \in {"reset", "handle", "answer"} /\ UNCHANGED <<epMessage, contents>>
      BY <2>3 DEF QueueReset, Handle, Answer, heapVars
    <3> QED
      BY <1>4, <3>1 DEF AddresseeInv, Current
  <2> QED
    BY <1>1, <2>1, <2>2, <2>3 DEF EndpointTask
<1>6. Outstanding' \subseteq Outstanding /\ (BrokenInv => BrokenInv')
  <2>1. CASE Answer(GPIO)
    <3>1. /\ epPc[GPIO] = "answer" /\ Current # Junk
          /\ replies' = [replies EXCEPT ![Current] = Append(@, HandlerStatus(Current))]
      BY <2>1 DEF Answer, OnRecieve, SendStatus, Current
    <3>2. Current \in inflight \ starved
      BY <3>1, HeldIsLive DEF AllInv, DeviceInv, WaitingInv, Current
    <3>3. \A g \in Outstanding' : g # Current => g \in Outstanding
      BY <1>1, <3>1 DEF Outstanding, AllInv, IInv, TypeOK
    <3>4. Current \notin Outstanding'
      <4>1. replies[Current] = <<>>
        BY <3>1 DEF AllInv, IInv, PacedInv, Ledger, EpLedger, HandledOnly, Current
      <4>2. replies'[Current] = <<HandlerStatus(Current)>>
        BY <3>1, <3>2, <4>1, FirstReply DEF AllInv, IInv, TypeOK
      <4> QED
        BY <4>2, ReplyNotEmpty DEF Outstanding
    <3>5. \A g \in Outstanding : g \in starved => g \in Outstanding'
      BY <1>1, <3>1, <3>2 DEF Outstanding, AllInv, IInv, TypeOK
    <3> QED
      BY <1>1, <3>3, <3>4, <3>5 DEF BrokenInv
  <2>2. CASE ~Answer(GPIO)
    <3>1. replies' = replies
      BY <1>1, <2>2 DEF EndpointTask, Poll, Peek, Match, QueueReset, Handle, FreeHandled, logVars
    <3>2. Outstanding' = Outstanding
      BY <1>1, <3>1 DEF Outstanding
    <3> QED
      BY <1>1, <3>2 DEF BrokenInv
  <2> QED
    BY <2>1, <2>2
<1>7. WaitingInv'
  BY <1>1, <1>2, <1>6 DEF AllInv, DeviceInv, WaitingInv
<1> QED
  BY <1>3, <1>5, <1>7 DEF DeviceInv

LEMMA DeviceKeepsInv ==
  ASSUME Window = 1, Endpoints = {GPIO}, AllInv, [DeviceNext]_allVars
  PROVE  AllInv'
<1>1. [Next]_vars
  BY DeviceStep DEF allVars
<1>2. IInv' /\ PacedInv(GPIO)'
  BY <1>1, NextKeepsIInv, NextPaced DEF AllInv
<1>3. DeviceInv'
  <2>1. CASE WebsocketSide
    BY <2>1, ReceiveKeepsDevice, OthersKeepDevice, FaultKeepsDevice DEF WebsocketSide
  <2>2. CASE GpioTask
    BY <2>2, WriteKeepsDevice, EndpointKeepsDevice DEF GpioTask
  <2>3. CASE RebootDevice
    BY <2>3, RebootKeepsDevice
  <2> QED
    BY <2>1, <2>2, <2>3, OthersKeepDevice DEF DeviceNext
<1> QED
  BY <1>2, <1>3 DEF AllInv

\* The LED's output is disabled and enabled again by the same writeLevel.
LEMMA LedDarkKept ==
  ASSUME Window = 1, Endpoints = {GPIO}, AllInv, LedDarkOnlyInWrite, [DeviceNext]_allVars
  PROVE  LedDarkOnlyInWrite'
<1> USE DEF LedDarkOnlyInWrite
<1>1. CallInv
  BY DEF AllInv, DeviceInv
<1>2. CASE WebsocketSide
  <2>1. UNCHANGED <<epPc, epMessage>> /\ UNCHANGED devVars
    BY <1>2 DEF WebsocketSide, WebsocketTask, CheckWaiting, TakePrevious, TakeNothing, AnswerPrevious,
       FreePrevious, QueueSend, Receive, Parse, ParseCloneFails, ParseMallocFails, Arrive, Fault, epVars
  <2>2. CASE WebsocketTask \/ Fault
    <3>1. contents' = contents
      BY <2>2 DEF WebsocketTask, CheckWaiting, TakePrevious, TakeNothing, AnswerPrevious, FreePrevious,
         QueueSend, Fault, heapVars
    <3> QED
      BY <2>1, <3>1 DEF Current, devVars
  <2>3. CASE \E f \in Frames : Receive(f)
    <3>1. Outstanding = {}
      BY <2>3, NothingOutstanding DEF Receive, Parse, ParseCloneFails, ParseMallocFails, Arrive, AllInv,
         PacedInv
    <3>2. epPc[GPIO] # "handle"
      BY <3>1 DEF AllInv, PacedInv
    <3> QED
      BY <2>1, <3>2 DEF devVars
  <2> QED
    BY <1>2, <2>2, <2>3 DEF WebsocketSide
<1>3. CASE ResetPin \/ SetDirection \/ SetLevel \/ WriteWild
  <2>1. UNCHANGED <<epPc, epMessage, contents, beat>> /\ epPc[GPIO] = "handle"
    BY <1>3 DEF ResetPin, SetDirection, SetLevel, WriteWild, InHandler, vars, heapVars, epVars
  <2>2. Current' = Current
    BY <2>1 DEF Current
  <2> QED
    BY <1>3, <2>1, <2>2, PinAssumption DEF ResetPin, SetDirection, SetLevel, WriteWild
<1>4. CASE Endpoint(GPIO)
  <2>1. UNCHANGED <<enabled, beat>> /\ EndpointTask(GPIO)
        /\ (epPc[GPIO] = "handle" /\ Current \in Writes => call = "return")
    BY <1>4 DEF Endpoint
  <2>2. call # "direction"
    BY <1>1, <2>1 DEF CallInv
  <2> QED
    BY <2>1, <2>2
<1>5. CASE Heartbeat \/ UNCHANGED allVars
  <2>1. UNCHANGED <<epPc, epMessage, contents, call>> /\ Current' = Current
    BY <1>5 DEF Heartbeat, DriveLed, Light, BlinkOff, allVars, vars, heapVars, epVars, devVars, Current
  <2> QED
    BY <1>5, <2>1 DEF Heartbeat, DriveLed, Light, BlinkOff, allVars, devVars
<1>6. CASE RebootDevice
  BY <1>6 DEF RebootDevice
<1> QED
  BY <1>2, <1>3, <1>4, <1>5, <1>6 DEF DeviceNext, GpioTask

-----------------------------------------------------------------------------
(* The steps of the device are steps of Commands.                          *)

\* The command the endpoint task holds is waited for, and handled when it is answered.
LEMMA CurrentWaits ==
  ASSUME Endpoints = {GPIO}, AllInv, epPc[GPIO] \in {"handle", "answer"}, Current # Junk
  PROVE  /\ Current \in Frames /\ Current \in arrived /\ Current \in inflight /\ Current \notin starved
         /\ replies[Current] = <<>> /\ Current.endpointId = GPIO
         /\ handled[Current] = IF epPc[GPIO] = "handle" THEN 0 ELSE 1
<1>1. epMessage[GPIO] \in live /\ epMessage[GPIO] \in Blocks
  BY HeldIsLive DEF AllInv, IInv, TypeOK
<1>2. Current \in inflight \ starved /\ Current.endpointId = GPIO
  BY <1>1 DEF AllInv, DeviceInv, WaitingInv, AddresseeInv, Current
<1>3. inflight \subseteq arrived /\ arrived \subseteq Frames
  BY DEF AllInv, IInv, TypeOK
<1>4. /\ epPc[GPIO] = "handle" => Untouched(epMessage[GPIO])
      /\ epPc[GPIO] = "answer" => HandledOnly(epMessage[GPIO])
  BY DEF AllInv, IInv, PacedInv, Ledger, EpLedger
<1> QED
  BY <1>2, <1>3, <1>4 DEF Untouched, HandledOnly, Current

LEMMA StatusKept ==
  ASSUME NEW g \in Frames, UNCHANGED <<arrived, inflight, starved>>, replies'[g] = replies[g],
         Carried(g)' <=> Carried(g), Begun(g)' <=> Begun(g)
  PROVE  StatusOf(g)' = StatusOf(g)
  BY DEF StatusOf

LEMMA Becomes ==
  ASSUME NEW f \in Frames, NEW s, StatusOf(f)' = s,
         \A g \in Frames \ {f} : StatusOf(g)' = StatusOf(g)
  PROVE  Abstract!Become(f, s)
  BY DEF Abstract!Become, StatusNow

LEMMA PinsSame ==
  ASSUME \A p \in Pins \ {LED} : PinLevel(p)' = PinLevel(p)
  PROVE  PinNow' = PinNow
  BY DEF PinNow

\* A step that begins and carries out nothing and leaves the pins alone is not seen.
LEMMA NotSeen ==
  ASSUME UNCHANGED <<arrived, inflight, starved, replies, handled, epPc, call>>,
         epPc[GPIO] = "handle" => UNCHANGED Current,
         \A p \in Pins \ {LED} : latch'[p] = latch[p] /\ (p \in enabled' <=> p \in enabled)
  PROVE  UNCHANGED <<StatusNow, PinNow>>
<1>1. ASSUME NEW g \in Frames PROVE StatusOf(g)' = StatusOf(g)
  BY StatusKept DEF Carried, Begun
<1>2. ASSUME NEW p \in Pins \ {LED} PROVE PinLevel(p)' = PinLevel(p)
  BY DEF PinLevel, Moving
<1> QED
  BY <1>1, <1>2, PinsSame DEF StatusNow

LEMMA QuietStep ==
  ASSUME AllInv, ((WebsocketTask \/ Fault) /\ UNCHANGED devVars) \/ Heartbeat \/ UNCHANGED allVars
  PROVE  UNCHANGED <<StatusNow, PinNow>>
<1>1. UNCHANGED <<arrived, inflight, starved, replies, handled, epPc, epMessage, contents, call>>
  <2>1. CASE WebsocketTask /\ UNCHANGED devVars
    BY <2>1 DEF AllInv, PacedInv, WebsocketTask, CheckWaiting, TakePrevious, TakeNothing, AnswerPrevious,
       FreePrevious, QueueSend, epVars, heapVars, srvVars, logVars, devVars
  <2>2. CASE (Fault /\ UNCHANGED devVars) \/ Heartbeat \/ UNCHANGED allVars
    BY <2>2 DEF Fault, Heartbeat, DriveLed, Light, BlinkOff, allVars, vars, epVars, heapVars, srvVars,
       logVars, devVars
  <2> QED
    BY <2>1, <2>2
<1>2. \A p \in Pins \ {LED} : latch'[p] = latch[p] /\ (p \in enabled' <=> p \in enabled)
  <2>1. CASE Heartbeat
    BY <2>1 DEF Heartbeat, DriveLed, Light, BlinkOff, AllInv, DeviceInv, PinsTypeOK
  <2>2. CASE UNCHANGED devVars
    BY <2>2 DEF devVars
  <2> QED
    BY <2>1, <2>2 DEF allVars
<1>3. Current' = Current
  BY <1>1 DEF Current
<1> QED
  BY <1>1, <1>2, <1>3, NotSeen

LEMMA ReceiveIsSend ==
  ASSUME Window = 1, Endpoints = {GPIO}, AllInv, NEW f \in Frames, Receive(f), UNCHANGED devVars
  PROVE  Abstract!Send(f)
<1>1. Outstanding = {} /\ f \notin arrived /\ wsPc = "idle"
  BY NothingOutstanding DEF Receive, Parse, ParseCloneFails, ParseMallocFails, Arrive, AllInv, PacedInv
<1>2. epPc[GPIO] # "handle" /\ epPc' = epPc /\ handled' = handled /\ UNCHANGED <<call, latch, enabled>>
  BY <1>1 DEF AllInv, PacedInv, Receive, Parse, ParseCloneFails, ParseMallocFails, epVars, logVars, devVars
<1>3. arrived' = arrived \cup {f} /\ inflight' = inflight \cup {f}
  BY DEF Receive, Parse, ParseCloneFails, ParseMallocFails, Arrive
<1>4. /\ starved' \in {starved, starved \cup {f}}
      /\ \/ replies' = replies
         \/ replies' = [replies EXCEPT ![f] = Append(@, ERR_NOT_ENOUGH_MEMORY)]
  BY DEF Receive, Parse, ParseCloneFails, ParseMallocFails, SendStatus, logVars
<1>5. /\ replies[f] = <<>> /\ handled[f] = 0
      /\ replies \in [Frames -> Seq(Status)]
  BY <1>1 DEF AllInv, IInv, PacedInv, Ledger, FrameLog, TypeOK
<1>6. \A g \in Frames : (Begun(g)' <=> Begun(g)) /\ (Carried(g)' <=> Carried(g)) /\ ~Begun(g)
  BY <1>2 DEF Begun, Carried
<1>7. ASSUME NEW g \in Frames \ {f} PROVE StatusOf(g)' = StatusOf(g)
  BY <1>3, <1>4, <1>5, <1>6 DEF StatusOf
<1>8. StatusOf(f)' \in {"sent", "refused", "broken"} /\ StatusOf(f) = "new"
  <2>1. replies'[f] \in {<<>>, <<ERR_NOT_ENOUGH_MEMORY>>}
    BY <1>4, <1>5, FirstReply
  <2>2. ~Carried(f)' /\ ~Begun(f)'
    BY <1>2, <1>5, <1>6 DEF Carried
  <2>3. f \in arrived' /\ f \in inflight'
    BY <1>3
  <2>4. CASE replies'[f] = <<>>
    BY <1>1, <2>2, <2>3, <2>4 DEF StatusOf
  <2>5. CASE replies'[f] = <<ERR_NOT_ENOUGH_MEMORY>>
    <3>1. replies'[f] # <<>> /\ replies'[f][1] = ERR_NOT_ENOUGH_MEMORY
      BY <2>5, ReplyNotEmpty
    <3> QED
      BY <1>1, <2>3, <3>1 DEF StatusOf
  <2> QED
    BY <2>1, <2>4, <2>5
<1>9. \A g \in Frames : StatusOf(g) \notin Abstract!Waiting
  <2>1. ASSUME NEW g \in Frames PROVE g \notin inflight \/ replies[g] # <<>>
    BY <1>1 DEF Outstanding
  <2> QED
    BY <2>1 DEF StatusOf, Abstract!Waiting
<1>10. \A p \in Pins \ {LED} : PinLevel(p)' = PinLevel(p)
  BY <1>2 DEF PinLevel, Moving
<1>11. \E s \in {"sent", "refused", "broken"} : Abstract!Become(f, s)
  BY <1>7, <1>8, Becomes
<1> QED
  BY <1>8, <1>9, <1>10, <1>11, PinsSame DEF Abstract!Send, StatusNow

LEMMA WriteIsCommand ==
  ASSUME Endpoints = {GPIO}, AllInv, ResetPin \/ SetDirection \/ SetLevel \/ WriteWild
  PROVE  \/ \E f \in Frames : Abstract!Begin(f) \/ Abstract!Finish(f) \/ Abstract!Broken(f)
         \/ UNCHANGED <<StatusNow, PinNow>>
<1>1. /\ UNCHANGED <<arrived, inflight, starved, replies, handled, epPc>> /\ Current' = Current
      /\ epPc[GPIO] = "handle"
  BY DEF ResetPin, SetDirection, SetLevel, WriteWild, InHandler, vars, heapVars, epVars, srvVars, logVars,
     Current
<1>2. CallInv /\ PinsTypeOK
  BY DEF AllInv, DeviceInv
<1>3. Junk \notin Frames
  BY SentinelAssumption
<1>4. ASSUME NEW g \in Frames, g # Current PROVE StatusOf(g)' = StatusOf(g)
  BY <1>1, <1>4, StatusKept DEF Begun, Carried
<1>5. CASE WriteWild
  <2>1. Current = Junk /\ call = "reset" /\ call' = "return"
    BY <1>5 DEF WriteWild
  <2>2. StatusNow' = StatusNow
    BY <1>3, <1>4, <2>1 DEF StatusNow
  <2>3. PICK f \in Outstanding : f \in starved
    BY <1>1, <2>1, HeldIsLive DEF AllInv, DeviceInv, WaitingInv, BrokenInv, Current
  <2>4. f \in Frames /\ StatusNow[f] = "broken"
    BY <2>3 DEF Outstanding, StatusNow, StatusOf, AllInv, IInv, TypeOK
  <2>5. \A p \in Pins : latch'[p] \in {"low", "high"}
    BY <1>2, <1>5 DEF WriteWild, PinsTypeOK
  <2>6. PinNow' \in [Pins \ {LED} -> Abstract!Levels]
    BY <2>1, <2>5 DEF PinNow, PinLevel, Moving, Abstract!Levels
  <2> QED
    BY <2>2, <2>4, <2>6 DEF Abstract!Broken
<1>6. CASE ~WriteWild
  <2>1. Current \in Writes /\ Current \in Frames /\ Current # Junk
    BY <1>2, <1>3, <1>6 DEF ResetPin, SetDirection, SetLevel, CallInv, Writes
  <2>2. /\ Current \in arrived /\ Current \in inflight /\ Current \notin starved
        /\ replies[Current] = <<>> /\ handled[Current] = 0
    BY <1>1, <2>1, CurrentWaits
  <2>3. GpioNumber[Current] \in Pins /\ Current.messageType \in {2, 3}
    BY <2>1, PinAssumption DEF Writes
  <2>4. PICK f \in Frames : f = Current
    BY <2>1
  <2>5. \A g \in Frames \ {f} : StatusOf(g)' = StatusOf(g)
    BY <1>4, <2>4
  <2>6. CASE ResetPin
    <3>1. /\ call = "reset" /\ call' = "direction" /\ enabled' = enabled \ {GpioNumber[Current]}
          /\ latch' = latch
      BY <2>6 DEF ResetPin
    <3>2. StatusOf(f) = "sent" /\ StatusOf(f)' = "moving"
      BY <1>1, <2>2, <2>4, <3>1 DEF StatusOf, Carried, Begun
    <3>3. \A p \in Pins \ {LED} : PinLevel(p)' = IF p = GpioNumber[Current] THEN "moving" ELSE PinLevel(p)
      BY <1>1, <3>1 DEF PinLevel, Moving
    <3>4. Abstract!Set(f, "moving")
      BY <2>3, <2>4, <3>3 DEF Abstract!Set, PinNow
    <3>5. Abstract!Become(f, "moving")
      BY <2>5, <3>2, Becomes
    <3> QED
      BY <2>1, <2>4, <3>2, <3>4, <3>5 DEF Abstract!Begin, StatusNow
  <2>7. CASE SetDirection
    <3>1. /\ call = "direction" /\ call' = "level" /\ latch' = latch
          /\ enabled' = enabled \cup ({GpioNumber[Current]} \cap OutputPins)
      BY <2>7 DEF SetDirection
    <3>2. StatusOf(f)' = StatusOf(f)
      BY <1>1, <2>2, <2>4, <3>1 DEF StatusOf, Carried, Begun
    <3>3. \A p \in Pins \ {LED} : PinLevel(p)' = PinLevel(p)
      BY <1>1, <3>1 DEF PinLevel, Moving
    <3> QED
      BY <2>5, <3>2, <3>3, PinsSame DEF StatusNow
  <2>8. CASE SetLevel
    <3>1. /\ call = "level" /\ call' = "return" /\ enabled' = enabled
          /\ latch' = [latch EXCEPT ![GpioNumber[Current]] =
                         IF GpioNumber[Current] \in OutputPins THEN Level(Current) ELSE @]
      BY <2>8 DEF SetLevel
    <3>2. StatusOf(f) = "moving" /\ StatusOf(f)' = "done"
      BY <1>1, <2>2, <2>4, <3>1 DEF StatusOf, Carried, Begun
    <3>3. GpioNumber[Current] \in enabled <=> GpioNumber[Current] \in OutputPins
      BY <1>2, <3>1 DEF CallInv, PinsTypeOK
    <3>4. LevelShown[Current] = IF GpioNumber[Current] \in OutputPins THEN Level(Current) ELSE "off"
      BY <2>1 DEF LevelShown
    <3>5. \A p \in Pins \ {LED} :
            PinLevel(p)' = IF p = GpioNumber[Current] THEN LevelShown[Current] ELSE PinLevel(p)
      BY <1>1, <1>2, <2>3, <3>1, <3>3, <3>4 DEF PinLevel, Moving, PinsTypeOK
    <3>6. Abstract!Set(f, LevelShown[f])
      BY <2>3, <2>4, <3>5 DEF Abstract!Set, PinNow
    <3>7. Abstract!Become(f, "done")
      BY <2>5, <3>2, Becomes
    <3> QED
      BY <2>1, <2>4, <3>2, <3>6, <3>7 DEF Abstract!Finish, StatusNow
  <2> QED
    BY <1>6, <2>6, <2>7, <2>8
<1> QED
  BY <1>5, <1>6

LEMMA EndpointIsCommand ==
  ASSUME Endpoints = {GPIO}, AllInv, Endpoint(GPIO)
  PROVE  \/ \E f \in Frames : Abstract!Handle(f) \/ Abstract!Answer(f)
         \/ UNCHANGED <<StatusNow, PinNow>>
<1>1. /\ EndpointTask(GPIO) /\ call' = "reset" /\ UNCHANGED <<latch, enabled>>
      /\ UNCHANGED <<contents, arrived, inflight, starved>>
      /\ epPc[GPIO] = "handle" /\ Current \in Writes => call = "return"
  BY DEF Endpoint, EndpointTask, Poll, Peek, Match, QueueReset, Handle, Answer, FreeHandled,
     heapVars, srvVars
<1>2. CallInv
  BY DEF AllInv, DeviceInv
<1>3. \A p \in Pins \ {LED} : PinLevel(p)' = PinLevel(p)
  <2>1. \A p \in Pins \ {LED} : ~Moving(p) /\ ~Moving(p)'
    BY <1>1, <1>2 DEF Moving, CallInv
  <2> QED
    BY <1>1, <2>1 DEF PinLevel
<1>4. PinNow' = PinNow
  BY <1>3, PinsSame
<1>5. \A g \in Frames : ~Begun(g)'
  BY <1>1 DEF Begun
<1>6. \A label : [epPc EXCEPT ![GPIO] = label][GPIO] = label
  BY DEF AllInv, IInv, TypeOK
<1>7. CASE Poll(GPIO) \/ Peek(GPIO) \/ Match(GPIO) \/ QueueReset(GPIO) \/ FreeHandled(GPIO)
  <2>1. epPc[GPIO] # "handle" /\ UNCHANGED <<replies, handled>>
    BY <1>7 DEF Poll, Peek, Match, QueueReset, FreeHandled, logVars
  <2>2. \A g \in Frames : StatusOf(g)' = StatusOf(g)
    BY <1>1, <1>5, <2>1, StatusKept DEF Begun, Carried
  <2> QED
    BY <1>4, <2>2 DEF StatusNow
<1>8. CASE Handle(GPIO)
  <2>1. /\ epPc[GPIO] = "handle" /\ epPc'[GPIO] = "answer" /\ UNCHANGED <<epMessage, replies>>
        /\ handled' = IF Current = Junk THEN handled ELSE [handled EXCEPT ![Current] = @ + 1]
    BY <1>6, <1>8 DEF Handle, EpGoto, Current
  <2>2. handled \in [Frames -> Nat]
    BY DEF AllInv, IInv, TypeOK
  <2>3. ASSUME NEW g \in Frames, g # Current PROVE StatusOf(g)' = StatusOf(g)
    <3>1. handled'[g] = handled[g] /\ ~Begun(g)
      BY <2>1, <2>2, <2>3 DEF Begun
    <3> QED
      BY <1>1, <1>5, <2>1, <3>1, StatusKept DEF Carried
  <2>4. CASE Current = Junk
    BY <1>4, <2>3, <2>4, SentinelAssumption DEF StatusNow
  <2>5. CASE Current # Junk
    <3>1. /\ Current \in Frames /\ Current \in arrived /\ Current \in inflight /\ Current \notin starved
          /\ replies[Current] = <<>> /\ Current.endpointId = GPIO /\ handled[Current] = 0
      BY <2>1, <2>5, CurrentWaits
    <3>2. handled'[Current] = 1
      BY <2>1, <2>2, <2>5, <3>1
    <3>3. Current' = Current
      BY <1>1, <2>1 DEF Current
    <3>4. PICK f \in Frames : f = Current
      BY <3>1
    <3>5. \A g \in Frames \ {f} : StatusOf(g)' = StatusOf(g)
      BY <2>3, <3>4
    <3>6. StatusOf(f)' = "done"
      BY <1>1, <2>1, <3>1, <3>2, <3>3, <3>4 DEF StatusOf, Carried
    <3>7. CASE Current \in Writes
      <4>1. StatusOf(f) = "done"
        BY <1>1, <2>1, <3>1, <3>7, <3>4 DEF StatusOf, Carried, Begun
      <4> QED
        BY <1>4, <3>5, <3>6, <4>1 DEF StatusNow
    <3>8. CASE Current \notin Writes
      <4>1. call = "reset"
        BY <1>2, <2>5, <3>8 DEF CallInv, AllInv, DeviceInv, PinsTypeOK
      <4>2. StatusOf(f) = "sent"
        BY <3>1, <3>4, <4>1 DEF StatusOf, Carried, Begun
      <4>3. Abstract!Become(f, "done")
        BY <3>5, <3>6, Becomes
      <4> QED
        BY <1>4, <3>1, <3>8, <3>4, <4>2, <4>3 DEF Abstract!Handle, StatusNow
    <3> QED
      BY <3>7, <3>8
  <2> QED
    BY <2>4, <2>5
<1>9. CASE Answer(GPIO)
  <2>1. /\ epPc[GPIO] = "answer" /\ Current # Junk /\ UNCHANGED <<epMessage, handled>>
        /\ replies' = [replies EXCEPT ![Current] = Append(@, HandlerStatus(Current))]
    BY <1>9 DEF Answer, OnRecieve, SendStatus, Current
  <2>2. replies \in [Frames -> Seq(Status)]
    BY DEF AllInv, IInv, TypeOK
  <2>3. /\ Current \in Frames /\ Current \in arrived /\ Current \in inflight /\ Current \notin starved
        /\ replies[Current] = <<>> /\ handled[Current] = 1
    BY <2>1, CurrentWaits
  <2>4. ASSUME NEW g \in Frames, g # Current PROVE StatusOf(g)' = StatusOf(g)
    <3>1. replies'[g] = replies[g] /\ ~Begun(g)
      BY <2>1, <2>2, <2>4 DEF Begun
    <3> QED
      BY <1>1, <1>5, <2>1, <3>1, StatusKept DEF Carried
  <2>5. PICK f \in Frames : f = Current
    BY <2>3
  <2>6. \A g \in Frames \ {f} : StatusOf(g)' = StatusOf(g)
    BY <2>4, <2>5
  <2>7. StatusOf(f) = "done"
    BY <2>3, <2>5 DEF StatusOf, Carried
  <2>8. replies'[Current] = <<HandlerStatus(Current)>>
    BY <2>1, <2>2, <2>3, FirstReply
  <2>9. HandlerStatus(Current) # ERR_NOT_ENOUGH_MEMORY
    BY DEF HandlerStatus, MSG_OK, ERR_UNSUPORTED_MESSAGE_TYPE, ERR_NOT_ENOUGH_MEMORY
  <2>10. StatusOf(f)' = "answered"
    <3>1. replies'[f] # <<>> /\ replies'[f][1] # ERR_NOT_ENOUGH_MEMORY
      BY <2>8, <2>9, <2>5, ReplyNotEmpty
    <3>2. f \in arrived'
      BY <1>1, <2>3, <2>5
    <3> QED
      BY <3>1, <3>2 DEF StatusOf
  <2>11. Abstract!Become(f, "answered")
    BY <2>10, <2>6, Becomes
  <2> QED
    BY <1>4, <2>3, <2>7, <2>11 DEF Abstract!Answer, StatusNow
<1> QED
  BY <1>1, <1>7, <1>8, <1>9 DEF EndpointTask

LEMMA RebootIsLoss ==
  ASSUME Endpoints = {GPIO}, AllInv, RebootDevice
  PROVE  \E f \in Frames : Abstract!Broken(f)
<1>1. /\ ~up /\ epPc' = [e \in Endpoints |-> "poll"] /\ inflight' = {} /\ enabled' = {}
      /\ UNCHANGED <<arrived, starved, replies, handled>>
  BY DEF RebootDevice, Reboot, logVars
<1>2. PICK f \in Outstanding : f \in starved
  BY <1>1 DEF AllInv, DeviceInv, WaitingInv, BrokenInv
<1>3. f \in Frames /\ f \in arrived /\ f \in inflight /\ replies[f] = <<>>
  BY <1>2 DEF Outstanding, AllInv, IInv, TypeOK
<1>4. StatusOf(f) = "broken" /\ StatusOf(f)' = "lost"
  BY <1>1, <1>2, <1>3 DEF StatusOf
<1>5. ASSUME NEW g \in Frames \ {f} PROVE StatusOf(g)' = StatusOf(g)
  <2>1. g \notin Outstanding
    BY <1>2 DEF AllInv, DeviceInv, WaitingInv
  <2>2. g \notin inflight \/ replies[g] # <<>>
    BY <2>1 DEF Outstanding
  <2> QED
    BY <1>1, <2>2 DEF StatusOf
<1>6. Abstract!Become(f, "lost")
  BY <1>3, <1>4, <1>5, Becomes
<1>7. epPc'[GPIO] = "poll"
  BY <1>1, PinAssumption
<1>8. PinNow' \in [Pins \ {LED} -> Abstract!Levels]
  BY <1>1, <1>7 DEF PinNow, PinLevel, Moving, Abstract!Levels
<1> QED
  BY <1>3, <1>4, <1>6, <1>8 DEF Abstract!Broken, StatusNow

\* Every step of the device is a step of Commands, or one the server does not see.
LEMMA StepIsCommand ==
  ASSUME Window = 1, Endpoints = {GPIO}, AllInv, [DeviceNext]_allVars
  PROVE  Abstract!Next \/ UNCHANGED <<StatusNow, PinNow>>
<1>1. CASE WebsocketSide
  BY <1>1, ReceiveIsSend, QuietStep DEF WebsocketSide, Abstract!Next
<1>2. CASE GpioTask
  BY <1>2, WriteIsCommand, EndpointIsCommand DEF GpioTask, Abstract!Next
<1>3. CASE RebootDevice
  BY <1>3, RebootIsLoss DEF Abstract!Next
<1> QED
  BY <1>1, <1>2, <1>3, QuietStep DEF DeviceNext

LEMMA InitIsCommands == ASSUME DeviceInit PROVE Abstract!Init
<1>1. \A f \in Frames : StatusOf(f) = "new"
  BY DEF DeviceInit, Init, StatusOf
<1>2. \A p \in Pins : PinLevel(p) = "off"
  BY DEF DeviceInit, PinLevel, Moving
<1> QED
  BY <1>1, <1>2 DEF Abstract!Init, StatusNow, PinNow

\* All of the device's invariants, for one command at a time.
THEOREM DeviceInvariance ==
  ASSUME Window = 1, Endpoints = {GPIO}
  PROVE  DeviceSpec => []AllInv
<1>1. DeviceInit => AllInv
  BY InitIInv, InitPaced, InitDevice DEF AllInv, DeviceInit
<1>2. AllInv /\ [DeviceNext]_allVars => AllInv'
  BY DeviceKeepsInv
<1> QED
  BY <1>1, <1>2, PTL DEF DeviceSpec

\* gpio.c:29-73, heartbeat.task.c:22-35: the pins, the handler and the LED keep their types.
THEOREM DeviceTypeCorrect ==
  ASSUME Window = 1, Endpoints = {GPIO}
  PROVE  DeviceSpec => []DeviceTypeOK
<1>1. AllInv => DeviceTypeOK
  BY DEF AllInv, IInv, DeviceInv, PinsTypeOK, DeviceTypeOK
<1> QED
  BY <1>1, DeviceInvariance, PTL

\* heartbeat.task.c:24-25, gpio.c:31-33: the LED is dark only inside a command for its pin.
THEOREM LedIsDarkOnlyInWrite ==
  ASSUME Window = 1, Endpoints = {GPIO}
  PROVE  DeviceSpec => []LedDarkOnlyInWrite
<1>1. DeviceInit => LedDarkOnlyInWrite
  BY DEF DeviceInit, LedDarkOnlyInWrite
<1>2. AllInv /\ LedDarkOnlyInWrite /\ [DeviceNext]_allVars => LedDarkOnlyInWrite'
  BY LedDarkKept
<1> QED
  BY <1>1, <1>2, DeviceInvariance, PTL DEF DeviceSpec

\* communication.task.c:77-100, mailbox.c:9-19, gpio.c:29-73: for a server that waits for
\* each answer the device implements Commands, whatever fails.
THEOREM DeviceImplementsCommands ==
  ASSUME Window = 1, Endpoints = {GPIO}
  PROVE  DeviceSpec => ImplementsCommands
<1>1. DeviceInit => Abstract!Init
  BY InitIsCommands
<1>2. AllInv /\ [DeviceNext]_allVars => [Abstract!Next]_<<StatusNow, PinNow>>
  BY StepIsCommand
<1> QED
  BY <1>1, <1>2, DeviceInvariance, PTL DEF DeviceSpec, ImplementsCommands, Abstract!Spec
=============================================================================
