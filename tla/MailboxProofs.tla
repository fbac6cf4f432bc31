---------------------------- MODULE MailboxProofs ----------------------------
(***************************************************************************)
(* Proofs about Mailbox for every set of endpoints, frames and heap        *)
(* blocks, every window and every number of failed allocations.            *)
(*                                                                         *)
(* The inductive invariant has two parts.  Custody says who holds which    *)
(* block; Ledger says what has been done and answered for the frame each   *)
(* held block carries.  Both hold until a message leaves the queue under a *)
(* task that has peeked it (raced).                                        *)
(***************************************************************************)
EXTENDS Mailbox, TLAPS, FiniteSetTheorems

\* The websocket task and the endpoint tasks at work on a message.
WsBusy     == wsPc # "idle"
WsReplaces == wsPc \in {"answer", "free"}
EpPeeks(e) == epPc[e] \in {"match", "reset"}
EpBusy(e)  == epPc[e] \in {"handle", "answer", "free"}

QueueCustody == slot # NoBlock => slot \in live

WsCustody ==
  /\ WsBusy => pMessage \in live /\ pMessage # slot
  /\ WsReplaces => prevMessage \in live /\ prevMessage # slot /\ prevMessage # pMessage

EpCustody ==
  \A e \in Endpoints : EpBusy(e) =>
    /\ epMessage[e] \in live
    /\ epMessage[e] # slot
    /\ WsBusy => epMessage[e] # pMessage
    /\ WsReplaces => epMessage[e] # prevMessage
    /\ \A d \in Endpoints : EpBusy(d) /\ d # e => epMessage[d] # epMessage[e]

\* A peeked message is still the one in the queue.
PeekCustody == \A e \in Endpoints : EpPeeks(e) => slot # NoBlock /\ epMessage[e] = slot

NoOrphan ==
  \A b \in live :
    \/ b = slot
    \/ WsBusy /\ b = pMessage
    \/ WsReplaces /\ b = prevMessage
    \/ \E e \in Endpoints : EpBusy(e) /\ b = epMessage[e]

Custody == QueueCustody /\ WsCustody /\ EpCustody /\ PeekCustody /\ NoOrphan

\* Nothing, or the handler alone, has happened to the frame of block b.
Untouched(b) == contents[b] # Junk => replies[contents[b]] = <<>> /\ handled[contents[b]] = 0
HandledOnly(b) == contents[b] # Junk => replies[contents[b]] = <<>> /\ handled[contents[b]] = 1
AnsweredWith(b, status, n) ==
  contents[b] # Junk /\ replies[contents[b]] = <<status>> /\ handled[contents[b]] = n

WsLedger ==
  /\ slot # NoBlock => Untouched(slot)
  /\ WsBusy => Untouched(pMessage)
  /\ wsPc = "answer" => Untouched(prevMessage)
  /\ wsPc = "free" => AnsweredWith(prevMessage, ERR_NOT_RECIEVED, 0)

EpLedger ==
  \A e \in Endpoints :
    /\ epPc[e] = "handle" => Untouched(epMessage[e])
    /\ epPc[e] = "answer" => HandledOnly(epMessage[e])
    /\ epPc[e] = "free" =>
         AnsweredWith(epMessage[e], HandlerStatus(contents[epMessage[e]]), 1)

\* The frames of live blocks have arrived and no two blocks carry the same one.
LiveFrames ==
  /\ \A b \in live : contents[b] # Junk => contents[b] \in arrived
  /\ \A b \in live : contents[b] = Junk => starved # {}
  /\ \A b, c \in live : contents[b] = contents[c] /\ contents[b] # Junk => b = c

\* What the log says of each frame.
FrameLog ==
  /\ \A f \in Frames \ arrived : replies[f] = <<>> /\ handled[f] = 0
  /\ \A f \in Frames : \/ replies[f] = <<>>
                       \/ \E s \in {MSG_OK, ERR_UNSUPORTED_MESSAGE_TYPE} :
                            replies[f] = <<s>> /\ handled[f] = 1
                       \/ \E s \in {ERR_NOT_ENOUGH_MEMORY, ERR_NOT_RECIEVED} :
                            replies[f] = <<s>> /\ handled[f] = 0
  /\ \A f \in Outstanding \ starved : \E b \in live : contents[b] = f

Ledger == WsLedger /\ EpLedger /\ LiveFrames /\ FrameLog

\* From the moment it has emptied the queue, the websocket task finds it empty.
SendInv == wsPc \in {"answer", "free", "send"} => slot = NoBlock

FaultInv == ~raced /\ ~up => starved # {}

IInv ==
  /\ TypeOK
  /\ SendInv
  /\ FaultInv
  /\ ~raced => Custody /\ Ledger

-----------------------------------------------------------------------------
(* Type correctness.                                                       *)

LEMMA StatusIsTyped == ASSUME NEW f PROVE HandlerStatus(f) \in Status
  BY DEF HandlerStatus, Status, MSG_OK, ERR_UNSUPORTED_MESSAGE_TYPE

LEMMA SendStatusIsTyped ==
  ASSUME TypeOK, NEW f \in Frames, NEW s \in Status, SendStatus(f, s)
  PROVE  replies' \in [Frames -> Seq(Status)]
  BY DEF TypeOK, SendStatus

LEMMA WebsocketKeepsType ==
  ASSUME TypeOK, WebsocketTask \/ \E f \in Frames : Receive(f)
  PROVE  TypeOK'
<1> USE DEF TypeOK, Pointer
<1>1. ASSUME NEW f \in Frames, Parse(f) PROVE TypeOK'
  BY <1>1 DEF Parse, Arrive, epVars, logVars
<1>2. ASSUME NEW f \in Frames, ParseCloneFails(f) PROVE TypeOK'
  BY <1>2 DEF ParseCloneFails, Arrive, epVars, logVars
<1>3. ASSUME NEW f \in Frames, ParseMallocFails(f) PROVE TypeOK'
  <2>1. replies' \in [Frames -> Seq(Status)]
    BY <1>3, SendStatusIsTyped DEF ParseMallocFails, Status, ERR_NOT_ENOUGH_MEMORY
  <2> QED
    BY <1>3, <2>1 DEF ParseMallocFails, Arrive, epVars, wsVars, heapVars
<1>4. CASE CheckWaiting
  BY <1>4 DEF CheckWaiting, heapVars, epVars, srvVars, logVars
<1>5. CASE TakePrevious
  BY <1>5 DEF TakePrevious, heapVars, epVars, srvVars, logVars
<1>6. CASE TakeNothing
  BY <1>6 DEF TakeNothing, heapVars, epVars, srvVars, logVars
<1>7. CASE AnswerPrevious
  <2>1. replies' \in [Frames -> Seq(Status)]
    BY <1>7, SendStatusIsTyped DEF AnswerPrevious, OnRecieve, Status, ERR_NOT_RECIEVED
  <2> QED
    BY <1>7, <2>1 DEF AnswerPrevious, heapVars, epVars, srvVars
<1>8. CASE FreePrevious
  BY <1>8 DEF FreePrevious, Free, epVars, srvVars, logVars
<1>9. CASE QueueSend
  BY <1>9 DEF QueueSend, heapVars, epVars, srvVars, logVars
<1> QED
  BY <1>1, <1>2, <1>3, <1>4, <1>5, <1>6, <1>7, <1>8, <1>9 DEF WebsocketTask, Receive

LEMMA EndpointKeepsType ==
  ASSUME TypeOK, NEW e \in Endpoints, EndpointTask(e)
  PROVE  TypeOK'
<1> USE DEF TypeOK, Pointer, EpGoto
<1>1. CASE Poll(e)
  BY <1>1 DEF Poll, heapVars, wsVars, srvVars, logVars
<1>2. CASE Peek(e)
  BY <1>2 DEF Peek, heapVars, wsVars, srvVars, logVars
<1>3. CASE Match(e)
  BY <1>3 DEF Match, heapVars, wsVars, srvVars, logVars
<1>4. CASE QueueReset(e)
  BY <1>4 DEF QueueReset, heapVars, wsVars, srvVars, logVars
<1>5. CASE Handle(e)
  <2>1. handled' \in [Frames -> Nat]
    BY <1>5 DEF Handle
  <2> QED
    BY <1>5, <2>1 DEF Handle, heapVars, wsVars, srvVars
<1>6. CASE Answer(e)
  <2>1. replies' \in [Frames -> Seq(Status)]
    BY <1>6, SendStatusIsTyped, StatusIsTyped DEF Answer, OnRecieve
  <2> QED
    BY <1>6, <2>1 DEF Answer, heapVars, wsVars, srvVars
<1>7. CASE FreeHandled(e)
  BY <1>7 DEF FreeHandled, Free, wsVars, srvVars, logVars
<1> QED
  BY <1>1, <1>2, <1>3, <1>4, <1>5, <1>6, <1>7 DEF EndpointTask

LEMMA NextKeepsType == TypeOK /\ [Next]_vars => TypeOK'
<1> SUFFICES ASSUME TypeOK, [Next]_vars PROVE TypeOK'
  OBVIOUS
<1>1. CASE Fault
  BY <1>1 DEF Fault, TypeOK, Pointer, heapVars, wsVars, epVars, srvVars, logVars
<1>2. CASE Reboot
  BY <1>2 DEF Reboot, TypeOK, Pointer, srvVars, logVars
<1>3. CASE UNCHANGED vars
  BY <1>3 DEF TypeOK, Pointer, vars, heapVars, wsVars, epVars, srvVars, logVars
<1> QED
  BY <1>1, <1>2, <1>3, WebsocketKeepsType, EndpointKeepsType DEF Next

LEMMA InitTyped == Init => TypeOK
<1> SUFFICES ASSUME Init PROVE TypeOK
  OBVIOUS
<1>1. <<>> \in Seq(Status)
  OBVIOUS
<1>2. replies \in [Frames -> Seq(Status)]
  BY <1>1, Zenon DEF Init
<1>3. handled \in [Frames -> Nat]
  BY DEF Init
<1> QED
  BY <1>2, <1>3 DEF Init, TypeOK, Pointer

\* Every variable keeps its type and no task works on a pointer it has not set.
THEOREM TypeCorrect == Spec => []TypeOK
  BY InitTyped, NextKeepsType, PTL DEF Spec

-----------------------------------------------------------------------------
(* The queue when the websocket task sends.                                *)

LEMMA NextKeepsSendInv == ASSUME TypeOK, SendInv, [Next]_vars PROVE SendInv'
<1> USE DEF SendInv
<1>1. ASSUME NEW f \in Frames, Receive(f) PROVE SendInv'
  BY <1>1 DEF Receive, Parse, ParseCloneFails, ParseMallocFails, Arrive, wsVars
<1>2. CASE WebsocketTask
  BY <1>2 DEF WebsocketTask, CheckWaiting, TakePrevious, TakeNothing, AnswerPrevious,
              FreePrevious, QueueSend
<1>3. ASSUME NEW e \in Endpoints, EndpointTask(e) PROVE SendInv'
  BY <1>3 DEF EndpointTask, Poll, Peek, Match, QueueReset, Handle, Answer, FreeHandled, wsVars
<1>4. CASE Fault
  BY <1>4 DEF Fault, wsVars
<1>5. CASE Reboot
  BY <1>5 DEF Reboot
<1>6. CASE UNCHANGED vars
  BY <1>6 DEF vars, wsVars
<1> QED
  BY <1>1, <1>2, <1>3, <1>4, <1>5, <1>6 DEF Next

-----------------------------------------------------------------------------
(* Who holds which block.                                                  *)

LEMMA WebsocketKeepsCustody ==
  ASSUME TypeOK, SendInv, Custody, WebsocketTask \/ \E f \in Frames : Receive(f), ~raced'
  PROVE  Custody'
<1> USE SentinelAssumption DEF TypeOK, Pointer, SendInv, Custody, QueueCustody, WsCustody,
        EpCustody, PeekCustody, NoOrphan, WsBusy, WsReplaces, EpBusy, EpPeeks
<1>1. ASSUME NEW f \in Frames, Parse(f) PROVE Custody'
  <2>1. PICK b \in Blocks \ live :
          live' = live \cup {b} /\ pMessage' = b
    BY <1>1 DEF Parse
  <2>2. wsPc = "idle" /\ wsPc' = "check" /\ UNCHANGED <<slot, epPc, epMessage>>
    BY <1>1 DEF Parse, Arrive, epVars
  <2> QED
    BY <2>1, <2>2
<1>2. ASSUME NEW f \in Frames, ParseCloneFails(f) PROVE Custody'
  <2>1. PICK b \in Blocks \ live :
          live' = live \cup {b} /\ pMessage' = b
    BY <1>2 DEF ParseCloneFails
  <2>2. wsPc = "idle" /\ wsPc' = "check" /\ UNCHANGED <<slot, epPc, epMessage>>
    BY <1>2 DEF ParseCloneFails, Arrive, epVars
  <2> QED
    BY <2>1, <2>2
<1>3. ASSUME NEW f \in Frames, ParseMallocFails(f) PROVE Custody'
  BY <1>3 DEF ParseMallocFails, epVars, wsVars, heapVars
<1>4. CASE CheckWaiting
  BY <1>4 DEF CheckWaiting, epVars, heapVars
<1>5. CASE TakePrevious
  BY <1>5 DEF TakePrevious, epVars, heapVars, Peeking
<1>6. CASE TakeNothing
  BY <1>6 DEF TakeNothing, epVars, heapVars
<1>7. CASE AnswerPrevious
  BY <1>7 DEF AnswerPrevious, epVars, heapVars
<1>8. CASE FreePrevious
  BY <1>8 DEF FreePrevious, Free, epVars
<1>9. CASE QueueSend
  BY <1>9 DEF QueueSend, epVars, heapVars
<1> QED
  BY <1>1, <1>2, <1>3, <1>4, <1>5, <1>6, <1>7, <1>8, <1>9 DEF WebsocketTask, Receive

LEMMA EndpointKeepsCustody ==
  ASSUME TypeOK, Custody, NEW e \in Endpoints, EndpointTask(e), ~raced'
  PROVE  Custody'
<1> USE SentinelAssumption DEF TypeOK, Pointer, Custody, QueueCustody, WsCustody,
        EpCustody, PeekCustody, NoOrphan, WsBusy, WsReplaces, EpBusy, EpPeeks, EpGoto
<1>1. CASE Poll(e)
  BY <1>1 DEF Poll, heapVars, wsVars
<1>2. CASE Peek(e)
  BY <1>2 DEF Peek, heapVars, wsVars
<1>3. CASE Match(e)
  BY <1>3 DEF Match, heapVars, wsVars
<1>4. CASE QueueReset(e)
  <2>1. slot # NoBlock /\ epMessage[e] = slot /\ ~EpBusy(e)
    BY <1>4 DEF QueueReset
  <2>2. \A d \in Endpoints : EpPeeks(d) => d = e
    BY <1>4, <2>1 DEF QueueReset, Peeking
  <2>3. /\ slot' = NoBlock /\ epPc' = [epPc EXCEPT ![e] = "handle"]
        /\ UNCHANGED <<live, wsPc, pMessage, prevMessage, epMessage>>
    BY <1>4 DEF QueueReset, heapVars, wsVars
  <2>4. epPc'[e] = "handle" /\ \A d \in Endpoints : d # e => epPc'[d] = epPc[d]
    BY <2>3
  <2>5. \A d \in Endpoints : EpPeeks(d)' => FALSE
    BY <2>2, <2>4
  <2>6. \A d \in Endpoints : EpBusy(d)' <=> EpBusy(d) \/ d = e
    BY <2>4
  <2>7. EpCustody'
    BY <2>1, <2>3, <2>6
  <2>8. NoOrphan'
    BY <2>1, <2>3, <2>6
  <2> QED
    BY <2>1, <2>3, <2>5, <2>7, <2>8
<1>5. CASE Handle(e)
  BY <1>5 DEF Handle, heapVars, wsVars
<1>6. CASE Answer(e)
  BY <1>6 DEF Answer, heapVars, wsVars
<1>7. CASE FreeHandled(e)
  BY <1>7 DEF FreeHandled, Free, wsVars
<1> QED
  BY <1>1, <1>2, <1>3, <1>4, <1>5, <1>6, <1>7 DEF EndpointTask

-----------------------------------------------------------------------------
(* What has been done for the frame of each block.                         *)

\* The first status sendStatus is called with, and that it is one.
LEMMA FirstReply == \A s : Append(<<>>, s) = <<s>>
  OBVIOUS

LEMMA ReplyNotEmpty == \A s : <<s>> # <<>>
  OBVIOUS

LEMMA WebsocketKeepsLedger ==
  ASSUME TypeOK, SendInv, Custody, Ledger,
         WebsocketTask \/ \E f \in Frames : Receive(f), ~raced'
  PROVE  Ledger'
<1> USE SentinelAssumption DEF TypeOK, Pointer, Custody, QueueCustody, WsCustody,
        EpCustody, WsBusy, WsReplaces, EpBusy, 
        Ledger, WsLedger, EpLedger, LiveFrames, FrameLog,
        Untouched, HandledOnly, AnsweredWith
<1>1. ASSUME NEW f \in Frames, Parse(f) PROVE Ledger'
  BY <1>1 DEF Parse, Arrive, epVars, logVars, Outstanding
<1>2. ASSUME NEW f \in Frames, ParseCloneFails(f) PROVE Ledger'
  BY <1>2 DEF ParseCloneFails, Arrive, epVars, logVars, Outstanding
<1>3. ASSUME NEW f \in Frames, ParseMallocFails(f) PROVE Ledger'
  <2>0. f \notin arrived /\ replies[f] = <<>>
    BY <1>3 DEF ParseMallocFails, Arrive
  <2>1. /\ replies' = [replies EXCEPT ![f] = <<ERR_NOT_ENOUGH_MEMORY>>]
        /\ arrived' = arrived \cup {f} /\ inflight' = inflight \cup {f}
        /\ starved' = starved \cup {f} /\ f \notin arrived
        /\ UNCHANGED <<slot, live, contents, wsPc, pMessage, prevMessage, epPc, epMessage, handled>>
    BY <1>3, <2>0, FirstReply DEF ParseMallocFails, Arrive, SendStatus, epVars, wsVars, heapVars
  <2>2. \A b \in live : contents[b] # f
    BY <2>1
  <2>3. WsLedger' /\ EpLedger'
    BY <2>1, <2>2
  <2>4. LiveFrames'
    BY <2>1
  <2>5. \A g \in Outstanding' \ starved' : g \in Outstanding \ starved
    BY <2>1 DEF Outstanding
  <2>6. /\ replies'[f] = <<ERR_NOT_ENOUGH_MEMORY>> /\ handled'[f] = 0
        /\ \A g \in Frames : g # f => replies'[g] = replies[g] /\ handled'[g] = handled[g]
    BY <2>1
  <2>7. FrameLog'
    BY <2>1, <2>5, <2>6
  <2> QED
    BY <2>3, <2>4, <2>7
<1>4. CASE CheckWaiting
  BY <1>4 DEF CheckWaiting, epVars, heapVars, srvVars, logVars, Outstanding
<1>5. CASE TakePrevious
  BY <1>5 DEF TakePrevious, epVars, heapVars, srvVars, logVars, Outstanding
<1>6. CASE TakeNothing
  BY <1>6 DEF TakeNothing, epVars, heapVars, srvVars, logVars, Outstanding
<1>7. CASE AnswerPrevious
  <2> DEFINE f == contents[prevMessage]
  <2>1. /\ f \in Frames
        /\ replies[f] = <<>> /\ handled[f] = 0
        /\ wsPc = "answer" /\ wsPc' = "free"
        /\ replies' = [replies EXCEPT ![f] = <<ERR_NOT_RECIEVED>>]
        /\ UNCHANGED <<slot, live, contents, pMessage, prevMessage, epPc, epMessage, handled,
                       inflight, arrived, starved>>
    BY <1>7, FirstReply
    DEF AnswerPrevious, OnRecieve, SendStatus, epVars, heapVars, srvVars
  <2>2. \A b \in live : b # prevMessage => contents[b] # f
    BY <2>1, SMTT(30)
  <2>3. WsLedger'
    BY <2>1, <2>2
  <2>4. EpLedger'
    BY <2>1, <2>2
  <2>5. LiveFrames'
    BY <2>1
  <2>6. \A g \in Outstanding' : g \in Outstanding
    BY <2>1 DEF Outstanding
  <2>7. FrameLog'
    BY <2>1, <2>6
  <2> QED
    BY <2>3, <2>4, <2>5, <2>7
<1>8. CASE FreePrevious
  <2>1. /\ replies[contents[prevMessage]] # <<>>
        /\ wsPc = "free" /\ wsPc' = "send" /\ live' = live \ {prevMessage}
        /\ UNCHANGED <<slot, contents, pMessage, prevMessage, epPc, epMessage, replies, handled,
                       inflight, arrived, starved>>
    BY <1>8, ReplyNotEmpty DEF FreePrevious, Free, epVars, srvVars, logVars
  <2>2. WsLedger' /\ EpLedger' /\ LiveFrames'
    BY <2>1
  <2>3. FrameLog'
    BY <2>1 DEF Outstanding
  <2> QED
    BY <2>2, <2>3
<1>9. CASE QueueSend
  BY <1>9 DEF QueueSend, epVars, heapVars, srvVars, logVars, Outstanding
<1> QED
  BY <1>1, <1>2, <1>3, <1>4, <1>5, <1>6, <1>7, <1>8, <1>9 DEF WebsocketTask, Receive

LEMMA EndpointKeepsLedger ==
  ASSUME TypeOK, Custody, Ledger, NEW e \in Endpoints, EndpointTask(e), ~raced'
  PROVE  Ledger'
<1> USE SentinelAssumption DEF TypeOK, Pointer, Custody, QueueCustody, WsCustody,
        EpCustody, PeekCustody, WsBusy, WsReplaces, EpBusy, EpPeeks, EpGoto,
        Ledger, WsLedger, EpLedger, LiveFrames, FrameLog,
        Untouched, HandledOnly, AnsweredWith
<1>1. CASE Poll(e)
  BY <1>1 DEF Poll, heapVars, wsVars, srvVars, logVars, Outstanding
<1>2. CASE Peek(e)
  BY <1>2 DEF Peek, heapVars, wsVars, srvVars, logVars, Outstanding
<1>3. CASE Match(e)
  BY <1>3 DEF Match, heapVars, wsVars, srvVars, logVars, Outstanding
<1>4. CASE QueueReset(e)
  BY <1>4 DEF QueueReset, heapVars, wsVars, srvVars, logVars, Outstanding
<1>5. CASE Handle(e)
  BY <1>5 DEF Handle, heapVars, wsVars, srvVars, Outstanding
<1>6. CASE Answer(e)
  <2> DEFINE f == contents[epMessage[e]]
  <2>1. /\ f \in Frames
        /\ replies[f] = <<>> /\ handled[f] = 1
        /\ epPc[e] = "answer" /\ epPc' = [epPc EXCEPT ![e] = "free"]
        /\ replies' = [replies EXCEPT ![f] = <<HandlerStatus(f)>>]
        /\ UNCHANGED <<slot, live, contents, wsPc, pMessage, prevMessage, epMessage, handled,
                       inflight, arrived, starved>>
    BY <1>6, FirstReply DEF Answer, OnRecieve, SendStatus, heapVars, wsVars, srvVars
  <2>2. \A b \in live : b # epMessage[e] => contents[b] # f
    BY <2>1
  <2>3. WsLedger'
    BY <2>1, <2>2
  <2>4. EpLedger'
    BY <2>1, <2>2
  <2>5. LiveFrames'
    BY <2>1
  <2>6. \A g \in Outstanding' : g \in Outstanding
    BY <2>1 DEF Outstanding
  <2>7. FrameLog'
    BY <2>1, <2>6 DEF HandlerStatus
  <2> QED
    BY <2>3, <2>4, <2>5, <2>7
<1>7. CASE FreeHandled(e)
  <2> DEFINE f == contents[epMessage[e]]
  <2>0. replies[f] = <<HandlerStatus(f)>>
    BY <1>7 DEF FreeHandled
  <2>1. /\ replies[f] # <<>>
        /\ epPc[e] = "free" /\ epPc' = [epPc EXCEPT ![e] = "poll"]
        /\ live' = live \ {epMessage[e]}
        /\ UNCHANGED <<slot, contents, wsPc, pMessage, prevMessage, epMessage, replies, handled,
                       inflight, arrived, starved>>
    BY <1>7, <2>0, ReplyNotEmpty DEF FreeHandled, Free, wsVars, srvVars, logVars
  <2>2. WsLedger' /\ EpLedger' /\ LiveFrames'
    BY <2>1
  <2>3. FrameLog'
    BY <2>1 DEF Outstanding
  <2> QED
    BY <2>2, <2>3
<1> QED
  BY <1>1, <1>2, <1>3, <1>4, <1>5, <1>6, <1>7 DEF EndpointTask

-----------------------------------------------------------------------------
(* The inductive invariant.                                                *)

LEMMA FaultHasItsCause ==
  ASSUME TypeOK, Custody, LiveFrames, Fault
  PROVE  starved # {}
<1> USE DEF TypeOK, Pointer
<1>1. PICK b \in Blocks : b \in live /\ contents[b] = Junk
  BY DEF Fault, Called, Freed, Custody, WsCustody, EpCustody, WsReplaces, EpBusy
<1> QED
  BY <1>1 DEF LiveFrames

LEMMA NextKeepsIInv == IInv /\ [Next]_vars => IInv'
<1> SUFFICES ASSUME IInv, [Next]_vars PROVE IInv'
  OBVIOUS
<1>1. TypeOK'
  BY NextKeepsType DEF IInv
<1>2. SendInv'
  BY NextKeepsSendInv DEF IInv
<1>3. ASSUME NEW f \in Frames, Receive(f) PROVE IInv'
  <2>1. up' /\ (~raced' => ~raced)
    BY <1>3 DEF Receive, Parse, ParseCloneFails, ParseMallocFails, Arrive
  <2> QED
    BY <1>1, <1>2, <1>3, <2>1, WebsocketKeepsCustody, WebsocketKeepsLedger DEF IInv, FaultInv
<1>4. CASE WebsocketTask
  <2>0. up' = up /\ up
    BY <1>4 DEF WebsocketTask, CheckWaiting, TakePrevious, TakeNothing, AnswerPrevious,
                FreePrevious, QueueSend
  <2>1. up' /\ (~raced' => ~raced)
    BY <1>4, <2>0, <1>1 DEF IInv, TypeOK, WebsocketTask, CheckWaiting, TakePrevious, TakeNothing, AnswerPrevious,
                FreePrevious, QueueSend
  <2> QED
    BY <1>1, <1>2, <1>4, <2>1, WebsocketKeepsCustody, WebsocketKeepsLedger DEF IInv, FaultInv
<1>5. ASSUME NEW e \in Endpoints, EndpointTask(e) PROVE IInv'
  <2>0. up' = up /\ up
    BY <1>5 DEF EndpointTask, Poll, Peek, Match, QueueReset, Handle, Answer, FreeHandled
  <2>1. up' /\ (~raced' => ~raced)
    BY <1>5, <2>0, <1>1 DEF IInv, TypeOK, EndpointTask, Poll, Peek, Match, QueueReset, Handle, Answer, FreeHandled
  <2> QED
    BY <1>1, <1>2, <1>5, <2>1, EndpointKeepsCustody, EndpointKeepsLedger DEF IInv, FaultInv
<1>6. CASE Fault
  <2>1. UNCHANGED <<slot, heapVars, wsVars, epVars, srvVars, logVars, raced>>
    BY <1>6 DEF Fault
  <2>2. ~raced => (Custody /\ Ledger)'
    BY <2>1 DEF IInv, heapVars, wsVars, epVars, srvVars, logVars, Custody, QueueCustody,
       WsCustody, EpCustody, PeekCustody, NoOrphan, WsBusy, WsReplaces, EpBusy, EpPeeks,
       Ledger, WsLedger, EpLedger, LiveFrames, FrameLog, Untouched, HandledOnly,
       AnsweredWith, Outstanding
  <2>3. FaultInv'
    BY <1>6, <2>1, FaultHasItsCause DEF IInv, FaultInv, Ledger, srvVars
  <2> QED
    BY <1>1, <1>2, <2>1, <2>2, <2>3 DEF IInv
<1>7. CASE Reboot
  <2>1. Custody' /\ FaultInv'
    BY <1>7 DEF Reboot, Custody, QueueCustody, WsCustody, EpCustody, PeekCustody, NoOrphan,
       WsBusy, WsReplaces, EpBusy, EpPeeks, FaultInv
  <2>2. ~raced => Ledger'
    BY <1>7 DEF IInv, Reboot, logVars, Ledger, WsLedger, EpLedger, LiveFrames, FrameLog, WsBusy,
       Outstanding
  <2> QED
    BY <1>1, <1>2, <1>7, <2>1, <2>2 DEF IInv, Reboot
<1>8. CASE UNCHANGED vars
  BY <1>1, <1>2, <1>8, SMTT(30) DEF IInv, FaultInv, vars, heapVars, wsVars, epVars, srvVars, logVars,
     Custody, QueueCustody, WsCustody, EpCustody, PeekCustody, NoOrphan, WsBusy, WsReplaces,
     EpBusy, EpPeeks, Ledger, WsLedger, EpLedger, LiveFrames, FrameLog, Untouched, HandledOnly,
     AnsweredWith, Outstanding
<1> QED
  BY <1>3, <1>4, <1>5, <1>6, <1>7, <1>8 DEF Next

LEMMA InitIInv == Init => IInv
<1> SUFFICES ASSUME Init PROVE IInv
  OBVIOUS
<1>1. TypeOK
  BY InitTyped
<1>2. SendInv /\ FaultInv /\ Custody
  BY DEF Init, SendInv, FaultInv, Custody, QueueCustody, WsCustody, EpCustody, PeekCustody,
     NoOrphan, WsBusy, WsReplaces, EpBusy, EpPeeks
<1>3. Ledger
  BY DEF Init, Ledger, WsLedger, EpLedger, LiveFrames, FrameLog, WsBusy, Outstanding
<1> QED
  BY <1>1, <1>2, <1>3 DEF IInv

\* Custody and the ledger hold until a message leaves the queue under a peeking task.
THEOREM Invariance == Spec => []IInv
  BY InitIInv, NextKeepsIInv, PTL DEF Spec

-----------------------------------------------------------------------------
(* The properties.                                                         *)

\* communication.task.c:99 may ignore the result of xQueueSend.
THEOREM SendNeverDrops == Spec => []QueueSendNeverDrops
<1>1. IInv => QueueSendNeverDrops
  BY DEF IInv, SendInv, QueueSendNeverDrops
<1> QED
  BY <1>1, Invariance, PTL

\* mailbox.c and communication.task.c:52-57, 88-100: one owner for each message.
THEOREM Ownership == Spec => []OneOwner
<1>1. IInv => OneOwner
  <2> SUFFICES ASSUME IInv, ~raced PROVE OneOwner
    BY DEF OneOwner
  <2> USE DEF IInv, Custody, QueueCustody, WsCustody, EpCustody, WsBusy, WsReplaces, EpBusy,
              QueueHolds, WsHolds, EpHolds
  <2>1. QueueHolds \subseteq live /\ WsHolds \subseteq live
    OBVIOUS
  <2>2. \A e \in Endpoints : EpHolds(e) \subseteq live
    OBVIOUS
  <2>3. AllHeld \subseteq live
    BY <2>1, <2>2 DEF AllHeld
  <2>4. QueueHolds \cap WsHolds = {} /\ (wsPc \in {"answer", "free"} => pMessage # prevMessage)
    OBVIOUS
  <2>5. \A e \in Endpoints : EpHolds(e) \cap (QueueHolds \cup WsHolds) = {}
    OBVIOUS
  <2>6. \A e, d \in Endpoints : e # d => EpHolds(e) \cap EpHolds(d) = {}
    OBVIOUS
  <2> QED
    BY <2>3, <2>4, <2>5, <2>6 DEF OneOwner
<1> QED
  BY <1>1, Invariance, PTL

\* communication.task.c:55-56: every message is freed by the task that holds it.
THEOREM NothingLeaks == Spec => []NoLeak
<1>1. IInv => NoLeak
  <2> SUFFICES ASSUME IInv, ~raced, NEW b \in live PROVE b \in AllHeld
    BY DEF NoLeak
  <2> USE DEF QueueHolds, WsHolds, EpHolds, AllHeld, WsBusy, WsReplaces, EpBusy
  <2>1. b # NoBlock
    BY SentinelAssumption DEF IInv, TypeOK
  <2>2. CASE b = slot
    BY <2>1, <2>2
  <2>3. CASE (WsBusy /\ b = pMessage) \/ (WsReplaces /\ b = prevMessage)
    BY <2>3
  <2>4. CASE \E e \in Endpoints : EpBusy(e) /\ b = epMessage[e]
    BY <2>4
  <2> QED
    BY <2>2, <2>3, <2>4 DEF IInv, Custody, NoOrphan
<1> QED
  BY <1>1, Invariance, PTL

\* mailbox.c:13-15 and communication.task.c:67 are the only causes of a fault.
THEOREM FaultsHaveACause == Spec => []FaultHasACause
<1>1. IInv => FaultHasACause
  BY DEF IInv, FaultInv, FaultHasACause
<1> QED
  BY <1>1, Invariance, PTL

\* onMessageRecieved runs at most once for a command.
THEOREM OneAnswer == Spec => []AnsweredOnce
<1>1. \A s : Len(<<s>>) = 1
  OBVIOUS
<1>2. IInv => AnsweredOnce
  <2> SUFFICES ASSUME IInv, ~raced, NEW f \in Frames PROVE Len(replies[f]) <= 1
    BY DEF AnsweredOnce
  <2>1. replies[f] = <<>> \/ \E s \in Status : replies[f] = <<s>>
    BY DEF IInv, Ledger, FrameLog, Status
  <2>2. CASE replies[f] = <<>>
    BY <2>2
  <2>3. ASSUME NEW s \in Status, replies[f] = <<s>> PROVE Len(replies[f]) <= 1
    <3>1. Len(replies[f]) = 1
      BY <2>3, <1>1
    <3> QED
      BY <3>1
  <2> QED
    BY <2>1, <2>2, <2>3
<1> QED
  BY <1>2, Invariance, PTL

\* The status of a command says whether gpio.c's vMessageHandler ran on it.
THEOREM TrueAnswer == Spec => []AnswerIsTrue
<1>1. \A s : <<s>>[1] = s
  OBVIOUS
<1>2. IInv => AnswerIsTrue
  BY <1>1 DEF IInv, Ledger, FrameLog, AnswerIsTrue, MSG_OK, ERR_UNSUPORTED_MESSAGE_TYPE,
     ERR_NOT_ENOUGH_MEMORY, ERR_NOT_RECIEVED
<1> QED
  BY <1>2, Invariance, PTL

\* A command without an answer is still on the device.
THEOREM NothingForgotten == Spec => []NoFrameForgotten
<1>1. IInv /\ NoLeak => NoFrameForgotten
  BY DEF IInv, Ledger, FrameLog, NoLeak, NoFrameForgotten
<1> QED
  BY <1>1, Invariance, NothingLeaks, PTL

-----------------------------------------------------------------------------
(* A server that sends the next command only when the last one is answered *)
(* (Window = 1) cannot make the mailbox lose, free or answer a message     *)
(* under the one endpoint task that has peeked it: while that task is      *)
(* between xQueuePeek and its answer, a command is outstanding, and no     *)
(* frame arrives.                                                          *)

\* Where the one endpoint task g and the websocket task may be.
PacedInv(g) ==
  /\ IsFiniteSet(inflight)
  /\ wsPc \in {"idle", "check", "send"}
  /\ wsPc # "idle" => slot = NoBlock /\ epPc[g] \in {"poll", "peek", "free"} /\ Outstanding # {}
  /\ slot # NoBlock => epPc[g] \notin {"handle", "answer"} /\ Outstanding # {}
  /\ epPc[g] \in {"match", "reset"} => slot # NoBlock /\ epMessage[g] = slot
  /\ epPc[g] \in {"handle", "answer"} => Outstanding # {}
  /\ ~raced

LEMMA NothingOutstanding ==
  ASSUME Window = 1, IsFiniteSet(inflight), NEW f, Arrive(f)
  PROVE  Outstanding = {}
<1>1. Outstanding \in SUBSET inflight
  BY DEF Outstanding
<1>2. IsFiniteSet(Outstanding)
  BY <1>1, FS_Subset
<1>3. Cardinality(Outstanding) \in Nat /\ Cardinality(Outstanding) < 1
  BY <1>2, FS_CardinalityType DEF Arrive
<1> QED
  BY <1>2, <1>3, FS_EmptySet

LEMMA InitPaced == ASSUME NEW g, Endpoints = {g}, Init PROVE PacedInv(g)
<1>1. IsFiniteSet(inflight)
  BY FS_EmptySet DEF Init
<1> QED
  BY <1>1 DEF Init, PacedInv

LEMMA ReceivePaced ==
  ASSUME Window = 1, NEW g, Endpoints = {g}, IInv, PacedInv(g), NEW f \in Frames, Receive(f)
  PROVE  PacedInv(g)'
<1>1. Outstanding = {} /\ wsPc = "idle" /\ f \notin arrived
  BY NothingOutstanding DEF Receive, Parse, ParseCloneFails, ParseMallocFails, Arrive, PacedInv
<1>2. slot = NoBlock /\ epPc[g] \notin {"match", "reset", "handle", "answer"}
  BY <1>1 DEF PacedInv
<1>3. UNCHANGED <<slot, epPc, epMessage, raced>> /\ inflight' = inflight \cup {f}
  BY DEF Receive, Parse, ParseCloneFails, ParseMallocFails, Arrive, epVars
<1>4. IsFiniteSet(inflight')
  BY <1>3, FS_AddElement DEF PacedInv
<1>5. epPc[g] \in {"poll", "peek", "free"}
  BY <1>2 DEF IInv, TypeOK
<1>6. CASE Parse(f) \/ ParseCloneFails(f)
  <2>1. wsPc' = "check" /\ replies' = replies
    BY <1>6 DEF Parse, ParseCloneFails, logVars
  <2>2. replies[f] = <<>>
    BY <1>1 DEF PacedInv, IInv, Ledger, FrameLog
  <2>3. f \in Outstanding'
    BY <1>3, <2>1, <2>2 DEF Outstanding
  <2> QED
    BY <1>2, <1>3, <1>4, <1>5, <2>1, <2>3 DEF PacedInv
<1>7. CASE ParseMallocFails(f)
  <2>1. wsPc' = wsPc
    BY <1>7 DEF ParseMallocFails, wsVars
  <2> QED
    BY <1>1, <1>2, <1>3, <1>4, <2>1 DEF PacedInv
<1> QED
  BY <1>6, <1>7 DEF Receive

\* The websocket task never finds a message to replace.
LEMMA WebsocketPaced == ASSUME NEW g, PacedInv(g), WebsocketTask PROVE PacedInv(g)'
<1>1. CheckWaiting \/ QueueSend
  BY DEF WebsocketTask, TakePrevious, TakeNothing, AnswerPrevious, FreePrevious, PacedInv
<1>2. UNCHANGED <<epPc, epMessage, inflight, arrived, replies, raced>>
  BY <1>1 DEF CheckWaiting, QueueSend, epVars, srvVars, logVars
<1>3. Outstanding' = Outstanding
  BY <1>2 DEF Outstanding
<1>4. CASE CheckWaiting
  BY <1>2, <1>3, <1>4 DEF CheckWaiting, PacedInv
<1>5. CASE QueueSend
  BY <1>2, <1>3, <1>5 DEF QueueSend, PacedInv
<1> QED
  BY <1>1, <1>4, <1>5

\* Between Peek and QueueReset the queue holds what was peeked; until Answer the command
\* is outstanding.
LEMMA EndpointPaced ==
  ASSUME NEW g, Endpoints = {g}, IInv, PacedInv(g), EndpointTask(g)
  PROVE  PacedInv(g)'
<1>1. UNCHANGED <<wsPc, inflight, arrived>>
  BY DEF EndpointTask, Poll, Peek, Match, QueueReset, Handle, Answer, FreeHandled, wsVars, srvVars
<1>2. /\ \A label : [epPc EXCEPT ![g] = label][g] = label
      /\ \A b : [epMessage EXCEPT ![g] = b][g] = b
  BY DEF IInv, TypeOK
<1>3. CASE Answer(g)
  <2>1. epPc[g] = "answer" /\ epPc'[g] = "free" /\ UNCHANGED <<slot, raced>>
    BY <1>2, <1>3 DEF Answer, EpGoto
  <2>2. slot = NoBlock /\ wsPc = "idle"
    BY <2>1 DEF PacedInv
  <2> QED
    BY <1>1, <2>1, <2>2 DEF PacedInv
<1>4. CASE ~Answer(g)
  <2>1. replies' = replies
    BY <1>4 DEF EndpointTask, Poll, Peek, Match, QueueReset, Handle, FreeHandled, logVars
  <2>2. Outstanding' = Outstanding
    BY <1>1, <2>1 DEF Outstanding
  <2>3. CASE Poll(g) \/ FreeHandled(g)
    <3>1. epPc'[g] \in {"poll", "peek"} /\ epPc[g] \in {"poll", "free"}
          /\ UNCHANGED <<slot, epMessage, raced>>
      BY <1>2, <2>3 DEF Poll, FreeHandled, EpGoto
    <3> QED
      BY <1>1, <2>2, <3>1 DEF PacedInv
  <2>4. CASE Peek(g)
    <3>1. /\ epPc[g] = "peek" /\ UNCHANGED <<slot, raced>>
          /\ IF slot = NoBlock THEN epPc'[g] = "poll" /\ UNCHANGED epMessage
             ELSE epPc'[g] = "match" /\ epMessage'[g] = slot
      BY <1>2, <2>4 DEF Peek, EpGoto
    <3> QED
      BY <1>1, <2>2, <3>1 DEF PacedInv
  <2>5. CASE Match(g)
    <3>1. epPc[g] = "match" /\ epPc'[g] \in {"reset", "poll"} /\ UNCHANGED <<slot, epMessage, raced>>
      BY <1>2, <2>5 DEF Match, EpGoto
    <3> QED
      BY <1>1, <2>2, <3>1 DEF PacedInv
  <2>6. CASE QueueReset(g)
    <3>1. epPc[g] = "reset" /\ epPc'[g] = "handle" /\ slot' = NoBlock
          /\ raced' = (raced \/ Peeking(epMessage[g]) # {g})
      BY <1>2, <2>6 DEF QueueReset, EpGoto
    <3>2. Peeking(epMessage[g]) = {g}
      BY <3>1 DEF Peeking
    <3>3. ~raced'
      BY <3>1, <3>2, Zenon DEF PacedInv
    <3>4. wsPc = "idle" /\ Outstanding # {}
      BY <3>1 DEF PacedInv
    <3> QED
      BY <1>1, <2>2, <3>1, <3>3, <3>4 DEF PacedInv
  <2>7. CASE Handle(g)
    <3>1. epPc[g] = "handle" /\ epPc'[g] = "answer" /\ UNCHANGED <<slot, raced>>
      BY <1>2, <2>7 DEF Handle, EpGoto
    <3> QED
      BY <1>1, <2>2, <3>1 DEF PacedInv
  <2> QED
    BY <1>4, <2>3, <2>4, <2>5, <2>6, <2>7 DEF EndpointTask
<1> QED
  BY <1>3, <1>4

LEMMA NextPaced ==
  ASSUME Window = 1, NEW g, Endpoints = {g}, IInv, PacedInv(g), [Next]_vars
  PROVE  PacedInv(g)'
<1>1. CASE Fault \/ UNCHANGED vars
  <2>1. UNCHANGED <<slot, wsPc, epPc, epMessage, inflight, replies, raced>>
    BY <1>1 DEF Fault, vars, wsVars, epVars, srvVars, logVars
  <2>2. Outstanding' = Outstanding
    BY <2>1 DEF Outstanding
  <2> QED
    BY <2>1, <2>2 DEF PacedInv
<1>2. CASE Reboot
  <2>1. IsFiniteSet(inflight')
    BY <1>2, FS_EmptySet DEF Reboot
  <2> QED
    BY <1>2, <2>1 DEF Reboot, PacedInv
<1> QED
  BY <1>1, <1>2, ReceivePaced, WebsocketPaced, EndpointPaced DEF Next

\* mailbox.c:13-15 and communication.task.c:90-93: with one command at a time no message
\* is removed from the queue under the endpoint task that has peeked it.
THEOREM OneAtATime ==
  ASSUME Window = 1, NEW g, Endpoints = {g}
  PROVE  Spec => []NeverRaced
<1>1. Init => PacedInv(g)
  BY InitPaced
<1>2. IInv /\ PacedInv(g) /\ [Next]_vars => PacedInv(g)'
  BY NextPaced
<1>3. PacedInv(g) => NeverRaced
  BY DEF PacedInv, NeverRaced
<1> QED
  BY <1>1, <1>2, <1>3, Invariance, PTL DEF Spec
=============================================================================
